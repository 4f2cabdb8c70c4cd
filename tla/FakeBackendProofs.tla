-------------------------- MODULE FakeBackendProofs ---------------------------
(***************************************************************************)
(* The fake backend proved for every number of channels and submissions:   *)
(* a slot is held exactly while its lease lives, and every step is one     *)
(* that LedBackend allows.                                                 *)
(***************************************************************************)
EXTENDS FakeBackend, SequenceTheorems, TLAPS

\* A slot that was never configured was never written.
BlankUnlessConfigured == \A s \in Slots : slot[s].configured \/ slot[s] = Unconfigured

\* A live lease has published nothing: its slot was reset when it was granted,
\* and publishing ends it.
LeaseIsUnpublished == \A s \in lease : ~ slot[s].published

FInv ==
  /\ TypeOK
  /\ accepted \in Seq(SUBSET Slots)
  /\ FlagsFollowLease
  /\ BlankUnlessConfigured
  /\ LeaseIsUnpublished

ScriptType ==
  [init : Option({"Error"}), configure : Option({"Error"}),
   submit : Option(Refusals \cup {"Started"}),
   acquire : [Slots -> Behaviors], publish : [Slots -> Option({"Error"})]]

SlotType == [configured : BOOLEAN, acquired : BOOLEAN, published : BOOLEAN]

\* Nothing is held or published at the start.
LEMMA FInit == Init => FInv
<1> SUFFICES ASSUME Init PROVE FInv
  OBVIOUS
<1>1. Unconfigured \in SlotType
  BY DEF Unconfigured, SlotType
<1>2. slot \in [Slots -> SlotType]
  BY <1>1 DEF Init
<1>3. script \in ScriptType
  BY DEF Init, Option, Behaviors, ScriptType
<1>4. accepted = <<>> /\ Len(accepted) = 0 /\ accepted \in Seq(SUBSET Slots)
  BY DEF Init
<1>5. Len(accepted) <= MaxSubmits
  BY <1>4, FakeAssumption
<1>6. TypeOK
  BY <1>2, <1>3, <1>5 DEF Init, TypeOK, SlotType, ScriptType, Option
<1>7. FlagsFollowLease /\ BlankUnlessConfigured /\ LeaseIsUnpublished
  BY DEF Init, FlagsFollowLease, Held, BlankUnlessConfigured, LeaseIsUnpublished, Unconfigured
<1>8. QED BY <1>4, <1>6, <1>7 DEF FInv

\* A lease is at most one slot.
LEMMA LeaseCases == ASSUME TypeOK PROVE lease = {} \/ \E s \in Slots : lease = {s}
BY DEF TypeOK, Option

\* A script with one entry replaced.
LEMMA Rescripted ==
  ASSUME script \in ScriptType
  PROVE  /\ \A r \in Option({"Error"}) : /\ [script EXCEPT !.init = r] \in ScriptType
                                       /\ [script EXCEPT !.configure = r] \in ScriptType
         /\ \A r \in Option(Refusals \cup {"Started"}) : [script EXCEPT !.submit = r] \in ScriptType
         /\ \A s \in Slots, b \in Behaviors : [script EXCEPT !.acquire[s] = b] \in ScriptType
         /\ \A s \in Slots, r \in Option({"Error"}) : [script EXCEPT !.publish[s] = r] \in ScriptType
BY DEF ScriptType

\* Scripting a reply changes the script and nothing else.
LEMMA ScriptStep == FInv /\ Script => FInv'
<1> SUFFICES ASSUME FInv, Script PROVE FInv'
  OBVIOUS
<1>1. UNCHANGED <<slot, lease, reply, waiting, accepted>>
  BY DEF Script
<1>2. script' \in ScriptType
  <2>1. script \in ScriptType
    BY DEF FInv, TypeOK, ScriptType
  <2>2. {"Error"} \in Option({"Error"}) /\ \A r \in Refusals \cup {"Started"} : {r} \in Option(Refusals \cup {"Started"})
    BY DEF Option
  <2>3. QED BY <2>1, <2>2, Rescripted DEF Script
<1>3. QED
  BY <1>1, <1>2 DEF FInv, TypeOK, ScriptType, FlagsFollowLease, Held, BlankUnlessConfigured, LeaseIsUnpublished

LEMMA InitBackendStep == FInv /\ InitBackend => FInv'
<1> SUFFICES ASSUME FInv, InitBackend PROVE FInv'
  OBVIOUS
<1>1. UNCHANGED <<slot, lease, waiting, accepted>>
  BY DEF InitBackend
<1>2. script' \in ScriptType /\ reply' \in {"Ok", "Error"}
  <2>1. script \in ScriptType
    BY DEF FInv, TypeOK, ScriptType
  <2>2. {} \in Option({"Error"}) /\ script.init \subseteq {"Error"}
    BY <2>1 DEF Option, ScriptType
  <2>3. QED BY <2>1, <2>2, Rescripted DEF InitBackend
<1>3. TypeOK'
  BY <1>1, <1>2 DEF FInv, TypeOK, Behaviors, ScriptType
<1>4. QED
  BY <1>1, <1>3 DEF FInv, FlagsFollowLease, Held, BlankUnlessConfigured, LeaseIsUnpublished

\* Configuring happens before anything is held or published.
LEMMA ConfigureStep ==
  ASSUME FInv, NEW specs, ConfigureChannels(specs) PROVE FInv'
<1>1. lease = {} /\ UNCHANGED <<lease, waiting, accepted>>
  BY DEF ConfigureChannels
<1>2. \A s \in Slots : slot[s] = Unconfigured
  BY DEF ConfigureChannels, IsConfigured, FInv, BlankUnlessConfigured
<1>3. waiting = {}
  BY <1>2 DEF FInv, TypeOK, Unconfigured
<1>4. script' \in ScriptType /\ reply' \in {"Ok", "Error"}
  <2>1. script \in ScriptType
    BY DEF FInv, TypeOK, ScriptType
  <2>2. {} \in Option({"Error"}) /\ script.configure \subseteq {"Error"}
    BY <2>1 DEF Option, ScriptType
  <2>3. QED BY <2>1, <2>2, Rescripted DEF ConfigureChannels
<1>5. /\ slot' \in [Slots -> SlotType]
      /\ \A s \in Slots : slot'[s] \in {Configured, Unconfigured}
  <2>1. Configured \in SlotType /\ Unconfigured \in SlotType
    BY DEF Configured, Unconfigured, SlotType
  <2>2. CASE UNCHANGED slot
    BY <1>2, <2>1, <2>2 DEF FInv, TypeOK, SlotType
  <2>3. CASE slot' = [s \in Slots |-> IF \E i \in DOMAIN specs : specs[i] = s
                                      THEN Configured ELSE Unconfigured]
    BY <2>1, <2>3
  <2>4. QED BY <2>2, <2>3 DEF ConfigureChannels
<1>6. TypeOK'
  BY <1>1, <1>3, <1>4, <1>5 DEF FInv, TypeOK, Behaviors, ScriptType, SlotType
<1>7. FlagsFollowLease' /\ BlankUnlessConfigured' /\ LeaseIsUnpublished'
  BY <1>1, <1>5
     DEF FlagsFollowLease, Held, BlankUnlessConfigured, LeaseIsUnpublished, Configured, Unconfigured
<1>8. QED BY <1>1, <1>6, <1>7 DEF FInv

\* A grant resets the published flag; a refusal changes no slot.
LEMMA AcquireStep ==
  ASSUME FInv, NEW s \in Slots, AcquireWriteTarget(s) PROVE FInv'
<1>1. script' \in ScriptType /\ lease = {} /\ UNCHANGED accepted
  <2>1. script \in ScriptType /\ "Ready" \in Behaviors
    BY DEF FInv, TypeOK, ScriptType, Behaviors
  <2>2. QED BY <2>1, Rescripted DEF AcquireWriteTarget
<1>2. reply' \in Behaviors
  <2>1. script.acquire[s] \in Behaviors /\ "Busy" \in Behaviors
    BY DEF FInv, TypeOK, Behaviors
  <2>2. QED BY <2>1 DEF AcquireWriteTarget
<1>3. CASE UNCHANGED <<slot, lease, waiting>>
  BY <1>1, <1>2, <1>3
     DEF FInv, TypeOK, ScriptType, FlagsFollowLease, Held, BlankUnlessConfigured, LeaseIsUnpublished
<1>4. CASE /\ slot[s].configured /\ ~ slot[s].acquired
           /\ slot' = Granted(s) /\ lease' = {s} /\ waiting' = waiting \ {s}
  <2>1. slot \in [Slots -> SlotType]
    BY DEF FInv, TypeOK, SlotType
  <2>2. /\ slot' \in [Slots -> SlotType]
        /\ slot'[s].configured /\ slot'[s].acquired /\ ~ slot'[s].published
        /\ \A t \in Slots \ {s} : slot'[t] = slot[t]
    BY <1>4, <2>1 DEF Granted, SlotType
  <2>3. lease' \in Option(Slots)
    BY <1>4 DEF Option
  <2>4. waiting' \subseteq {t \in Slots : slot'[t].published}
    BY <1>4, <2>2 DEF FInv, TypeOK
  <2>5. TypeOK'
    BY <1>1, <1>2, <2>2, <2>3, <2>4 DEF FInv, TypeOK, ScriptType, SlotType
  <2>6. FlagsFollowLease' /\ BlankUnlessConfigured' /\ LeaseIsUnpublished'
    BY <1>1, <1>4, <2>2
       DEF FInv, FlagsFollowLease, Held, BlankUnlessConfigured, LeaseIsUnpublished
  <2>7. QED BY <1>1, <2>5, <2>6 DEF FInv
<1>5. QED BY <1>3, <1>4 DEF AcquireWriteTarget

\* The slot of the lease, and no other, is held.
LEMMA LeaseHolds ==
  ASSUME FInv, NEW s \in Slots, lease = {s}
  PROVE  /\ slot \in [Slots -> SlotType]
         /\ slot[s].acquired /\ ~ slot[s].published /\ slot[s].configured
         /\ \A t \in Slots \ {s} : ~ slot[t].acquired
BY DEF FInv, TypeOK, SlotType, FlagsFollowLease, Held, LeaseIsUnpublished, BlankUnlessConfigured,
       Unconfigured

\* Ending a lease releases its slot, whether it published or not.
LEMMA EndOfLease ==
  ASSUME FInv, NEW s \in Slots, lease = {s}, lease' = {}, UNCHANGED accepted,
         script' \in ScriptType, reply' \in Behaviors \cup {"none", "Ok", "Started"},
         slot' \in [Slots -> SlotType], slot'[s].configured, ~ slot'[s].acquired,
         \A t \in Slots \ {s} : slot'[t] = slot[t],
         waiting' \subseteq {t \in Slots : slot'[t].published}
  PROVE  FInv'
<1>1. lease' \in Option(Slots)
  BY DEF Option
<1>2. TypeOK'
  BY <1>1 DEF FInv, TypeOK, ScriptType, SlotType
<1>3. FlagsFollowLease' /\ BlankUnlessConfigured' /\ LeaseIsUnpublished'
  BY LeaseHolds DEF FInv, FlagsFollowLease, Held, BlankUnlessConfigured, LeaseIsUnpublished
<1>4. QED BY <1>2, <1>3 DEF FInv

LEMMA PublishStep ==
  ASSUME FInv, NEW s \in Slots, Publish(s) PROVE FInv'
<1>1. /\ lease = {s} /\ lease' = {} /\ UNCHANGED <<script, accepted>> /\ reply' = "Ok"
      /\ slot' = Released(s) /\ waiting' = waiting \cup {s}
  BY DEF Publish
<1>2. /\ slot' \in [Slots -> SlotType] /\ \A t \in Slots \ {s} : slot'[t] = slot[t]
      /\ slot'[s].configured /\ ~ slot'[s].acquired /\ slot'[s].published
  BY <1>1, LeaseHolds DEF Released, SlotType
<1>3. waiting' \subseteq {t \in Slots : slot'[t].published}
  BY <1>1, <1>2 DEF FInv, TypeOK
<1>4. script' \in ScriptType
  BY <1>1 DEF FInv, TypeOK, ScriptType
<1>5. QED BY <1>1, <1>2, <1>3, <1>4, EndOfLease

\* The Drop of an unpublished lease.
LEMMA DropReleases ==
  ASSUME FInv, NEW s \in Slots, lease = {s}, slot' = Dropped(s), UNCHANGED waiting
  PROVE  /\ slot' \in [Slots -> SlotType] /\ \A t \in Slots \ {s} : slot'[t] = slot[t]
         /\ slot'[s].configured /\ ~ slot'[s].acquired
         /\ waiting' \subseteq {t \in Slots : slot'[t].published}
<1>1. /\ slot' \in [Slots -> SlotType] /\ \A t \in Slots \ {s} : slot'[t] = slot[t]
      /\ slot'[s].configured /\ ~ slot'[s].acquired /\ slot'[s].published = slot[s].published
  BY LeaseHolds DEF Dropped, SlotType
<1>2. QED BY <1>1 DEF FInv, TypeOK

LEMMA PublishFailsStep ==
  ASSUME FInv, NEW s \in Slots, PublishFails(s) PROVE FInv'
<1>1. /\ lease = {s} /\ lease' = {} /\ UNCHANGED <<waiting, accepted>>
      /\ slot' = Dropped(s) /\ reply' \in script.publish[s]
      /\ script' = [script EXCEPT !.publish[s] = {}]
  BY DEF PublishFails
<1>2. script' \in ScriptType /\ reply' = "Error"
  <2>1. script \in ScriptType
    BY DEF FInv, TypeOK, ScriptType
  <2>2. {} \in Option({"Error"}) /\ script.publish[s] \in Option({"Error"})
    BY <2>1 DEF Option, ScriptType
  <2>3. script.publish[s] \subseteq {"Error"}
    BY <2>2 DEF Option
  <2>4. QED BY <1>1, <2>1, <2>2, <2>3, Rescripted
<1>3. QED BY <1>1, <1>2, DropReleases, EndOfLease DEF Behaviors

LEMMA DropStep ==
  ASSUME FInv, NEW s \in Slots, Drop(s) PROVE FInv'
<1>1. lease = {s} /\ lease' = {} /\ UNCHANGED <<script, reply, waiting, accepted>> /\ slot' = Dropped(s)
  BY DEF Drop
<1>2. script' \in ScriptType /\ reply' \in Behaviors \cup {"none", "Ok", "Started"}
  BY <1>1 DEF FInv, TypeOK, ScriptType
<1>3. QED BY <1>1, <1>2, DropReleases, EndOfLease

\* An accepted batch is recorded, a refused one leaves the frames waiting.
LEMMA SubmitStep ==
  ASSUME FInv, NEW batch \in SUBSET Slots, SubmitChannels(batch) PROVE FInv'
<1>1. UNCHANGED <<slot, lease>>
  BY DEF SubmitChannels
<1>2. script' \in ScriptType /\ reply' \in Refusals \cup {"Started"}
  <2>1. script \in ScriptType
    BY DEF FInv, TypeOK, ScriptType
  <2>2. /\ {} \in Option(Refusals \cup {"Started"})
        /\ script.submit \subseteq Refusals \cup {"Started"}
    BY <2>1 DEF Option, ScriptType
  <2>3. QED BY <2>1, <2>2, Rescripted DEF SubmitChannels
<1>3. accepted' \in Seq(SUBSET Slots) /\ Len(accepted') <= MaxSubmits
  <2>1. accepted \in Seq(SUBSET Slots) /\ Len(accepted) < MaxSubmits /\ Len(accepted) \in Nat
    BY LenProperties DEF FInv, SubmitChannels
  <2>2. CASE UNCHANGED accepted
    BY <2>2 DEF FInv, TypeOK
  <2>3. CASE accepted' = Append(accepted, batch)
    BY <2>1, <2>3, AppendProperties, FakeAssumption
  <2>4. QED BY <2>2, <2>3 DEF SubmitChannels
<1>4. waiting' \subseteq waiting
  BY DEF SubmitChannels
<1>5. TypeOK'
  BY <1>1, <1>2, <1>3, <1>4 DEF FInv, TypeOK, ScriptType, Refusals, Behaviors
<1>6. QED
  BY <1>1, <1>3, <1>5 DEF FInv, FlagsFollowLease, Held, BlankUnlessConfigured, LeaseIsUnpublished

\* Every step preserves the invariant.
LEMMA FNext == FInv /\ [Next]_vars => FInv'
<1> SUFFICES ASSUME FInv, [Next]_vars PROVE FInv'
  OBVIOUS
<1>1. CASE UNCHANGED vars
  BY <1>1 DEF vars, FInv, TypeOK, FlagsFollowLease, Held, BlankUnlessConfigured, LeaseIsUnpublished
<1>2. CASE Next
  BY <1>2, ScriptStep, InitBackendStep, ConfigureStep, AcquireStep, PublishStep, PublishFailsStep,
     DropStep, SubmitStep DEF Next
<1>3. QED BY <1>1, <1>2

LEMMA FakeInvariant == Spec => []FInv
BY FInit, FNext, PTL DEF Spec

\* The fake's state keeps its types: in particular a frame that waits was
\* published and not granted again.
THEOREM FakeTypes == Spec => []TypeOK
<1>1. FInv => TypeOK
  BY DEF FInv
<1>2. QED BY <1>1, FakeInvariant, PTL

\* A slot is held exactly while its lease lives: no sequence of publishes,
\* failed publishes and drops leaves it answering Busy for ever.
THEOREM SlotsFollowLeases == Spec => []FlagsFollowLease
<1>1. FInv => FlagsFollowLease
  BY DEF FInv
<1>2. QED BY <1>1, FakeInvariant, PTL

-----------------------------------------------------------------------------
(* The contract.                                                           *)

\* The waiting frames as the contract numbers them.
Frame == [s \in Slots |-> IF s \in waiting THEN 0 ELSE 1]

\* Steps that hold, release and publish nothing are no step of the contract.
LEMMA SameView ==
  ASSUME UNCHANGED <<slot, waiting, accepted>> PROVE UNCHANGED Contract!backendVars
BY DEF Contract!backendVars, Held

\* A slot that is granted was free, and its waiting frame is withdrawn.
LEMMA GrantKeepsContract ==
  ASSUME FInv, NEW s \in Slots, lease = {}, slot' \in [Slots -> SlotType], lease' = {s},
         FlagsFollowLease', waiting' = waiting \ {s}, UNCHANGED accepted
  PROVE  Contract!AcquireWriteTarget(s)
<1>1. Held = {} /\ Held' = {s}
  BY DEF FInv, FlagsFollowLease
<1>2. Frame' = [Frame EXCEPT ![s] = 1]
  BY DEF Frame
<1>3. QED
  BY <1>1, <1>2 DEF Contract!AcquireWriteTarget, Contract!Grant, Contract!NoFrame, Frame

\* A lease that ends without publishing is an abort.
LEMMA AbortKeepsContract ==
  ASSUME FInv, FInv', NEW s \in Slots, lease = {s}, lease' = {}, UNCHANGED <<waiting, accepted>>
  PROVE  Contract!DropLease({s})
<1>1. Held = {s} /\ Held' = {}
  BY DEF FInv, FlagsFollowLease
<1>2. QED BY <1>1 DEF Contract!DropLease

\* Publishing puts the frame of the lease's slot in wait.
LEMMA PublishKeepsContract ==
  ASSUME FInv, FInv', NEW s \in Slots, Publish(s)
  PROVE  reply' = "Ok" /\ Contract!PublishLease({s}, 0)
<1>1. /\ lease = {s} /\ lease' = {} /\ UNCHANGED accepted /\ reply' = "Ok"
      /\ waiting' = waiting \cup {s}
  BY DEF Publish
<1>2. Held = {s} /\ Held' = {}
  BY <1>1 DEF FInv, FlagsFollowLease
<1>3. QED BY <1>1, <1>2 DEF Contract!PublishLease, Contract!Channels, Slots

\* An accepted batch takes the frames that waited in it.
LEMMA SubmitKeepsContract ==
  ASSUME NEW batch \in SUBSET Slots, SubmitChannels(batch)
  PROVE  \/ UNCHANGED Contract!backendVars
         \/ reply' = "Started" /\ Contract!SubmitChannels(batch)
<1>1. UNCHANGED slot
  BY DEF SubmitChannels
<1>2. CASE reply' # "Started"
  <2>1. UNCHANGED <<waiting, accepted>>
    BY <1>2 DEF SubmitChannels
  <2>2. QED BY <1>1, <2>1, SameView
<1>3. CASE reply' = "Started"
  <2>1. waiting' = waiting \ batch /\ accepted' = Append(accepted, batch)
    BY <1>3 DEF SubmitChannels
  <2>2. QED BY <1>1, <1>3, <2>1
     DEF Contract!SubmitChannels, Contract!Channels, Contract!NoFrame, Slots, Held
<1>4. QED BY <1>2, <1>3

\* What one step does with the lease of slot s, as the contract sees it.
ContractStep(s) ==
  /\ lease = {} /\ lease' = {s} => Contract!AcquireWriteTarget(s)
  /\ lease = {s} /\ lease' = {} => \/ Contract!DropLease({s})
                                   \/ reply' = "Ok" /\ Contract!PublishLease({s}, 0)
  /\ lease' = lease => \/ UNCHANGED Contract!backendVars
                       \/ /\ reply' = "Started"
                          /\ \E batch \in SUBSET Slots : Contract!SubmitChannels(batch)

\* A step that leaves lease, slots and frames alone.
LEMMA QuietStep ==
  ASSUME UNCHANGED <<slot, lease, waiting, accepted>>, NEW s PROVE ContractStep(s)
BY SameView DEF ContractStep

LEMMA StepKeepsContract ==
  ASSUME FInv, FInv', Next, NEW s \in Slots PROVE ContractStep(s)
<1>1. CASE Script \/ InitBackend
  BY <1>1, QuietStep DEF Script, InitBackend
<1>2. ASSUME NEW specs, ConfigureChannels(specs) PROVE ContractStep(s)
  <2>1. lease = {} /\ lease' = {} /\ UNCHANGED <<waiting, accepted>>
    BY <1>2 DEF ConfigureChannels
  <2>2. Held = {} /\ Held' = {}
    BY <2>1 DEF FInv, FlagsFollowLease
  <2>3. UNCHANGED Contract!backendVars
    BY <2>1, <2>2 DEF Contract!backendVars
  <2>4. QED BY <2>1, <2>3 DEF ContractStep
<1>3. ASSUME NEW t \in Slots, AcquireWriteTarget(t) PROVE ContractStep(s)
  <2>1. CASE UNCHANGED <<slot, lease, waiting>>
    BY <1>3, <2>1, QuietStep DEF AcquireWriteTarget
  <2>2. CASE lease' = {t} /\ waiting' = waiting \ {t}
    <3>1. lease = {} /\ UNCHANGED accepted
      BY <1>3 DEF AcquireWriteTarget
    <3>2. slot' \in [Slots -> SlotType] /\ FlagsFollowLease'
      BY DEF FInv, TypeOK, SlotType
    <3>3. Contract!AcquireWriteTarget(t)
      BY <2>2, <3>1, <3>2, GrantKeepsContract
    <3>4. QED BY <2>2, <3>1, <3>3 DEF ContractStep
  <2>3. QED BY <1>3, <2>1, <2>2 DEF AcquireWriteTarget
<1>4. ASSUME NEW t \in Slots, Publish(t) PROVE ContractStep(s)
  <2>1. lease = {t} /\ lease' = {}
    BY <1>4 DEF Publish
  <2>2. reply' = "Ok" /\ Contract!PublishLease({t}, 0)
    BY <1>4, PublishKeepsContract
  <2>3. QED BY <2>1, <2>2 DEF ContractStep
<1>5. ASSUME NEW t \in Slots, PublishFails(t) \/ Drop(t) PROVE ContractStep(s)
  <2>1. lease = {t} /\ lease' = {} /\ UNCHANGED <<waiting, accepted>>
    BY <1>5 DEF PublishFails, Drop
  <2>2. Contract!DropLease({t})
    BY <2>1, AbortKeepsContract
  <2>3. QED BY <2>1, <2>2 DEF ContractStep
<1>6. ASSUME NEW batch \in SUBSET Slots, SubmitChannels(batch) PROVE ContractStep(s)
  <2>1. lease = {} /\ lease' = {}
    BY <1>6 DEF SubmitChannels
  <2>2. QED BY <1>6, <2>1, SubmitKeepsContract DEF ContractStep
<1>7. QED BY <1>1, <1>2, <1>3, <1>4, <1>5, <1>6 DEF Next

\* Nothing is held, waits or was accepted at the start.
LEMMA InitKeepsContract == Init => Contract!BackendInit
BY DEF Init, Contract!BackendInit, Contract!Channels, Contract!NoFrame, Held, Slots, Unconfigured

\* The fake backend implements the contract: it starts as LedBackend does, and
\* every step of it is a step that LedBackend allows, or none.
THEOREM FakeKeepsContract == Spec => Contract!BackendInit /\ KeepsContract
<1>1. FInv /\ FInv' /\ [Next]_vars => [\A s \in Slots : ContractStep(s)]_vars
  BY StepKeepsContract
<1>2. QED BY <1>1, FakeInvariant, InitKeepsContract, PTL DEF Spec, KeepsContract, ContractStep

===============================================================================
