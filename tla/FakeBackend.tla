------------------------------ MODULE FakeBackend -----------------------------
(***************************************************************************)
(* The scripted backend the crate's own tests run the engine over          *)
(* (test_support.rs).  It is the one backend in the repository, and an      *)
(* instance of LedBackend: every call it serves is one the contract        *)
(* allows, whatever was scripted.                                          *)
(*                                                                         *)
(* A test scripts a reply at any time, each for one call; the engine        *)
(* configures until that succeeds, then acquires, publishes, drops and     *)
(* submits.  The log, with which it records signals and events, and the    *)
(* bytes are left out.  A batch names slots: the tests bind every logical  *)
(* channel to the backend channel of the same number.                      *)
(***************************************************************************)
EXTENDS Naturals, Sequences

CONSTANTS
  MaxChannels,   \* capabilities.max_channels
  MaxSubmits     \* bound: submissions the fake accepts in one behaviour

ASSUME FakeAssumption ==
  /\ MaxChannels \in Nat
  /\ MaxSubmits \in Nat

Slots == 0 .. MaxChannels - 1

\* AcquireBehavior: "Wrong" is a wrong channel or length, "Error" any BackendError.
Behaviors == {"Ready", "Busy", "Error", "Wrong"}
Refusals  == {"Busy", "Error"}
Option(S) == {{}} \cup {{x} : x \in S}

VARIABLES
  script,     \* FakeBackendScript; an Option is a set of at most one element
  slot,       \* FakeChannelSlot of each slot
  lease,      \* Option: the live FakeWriteLease, which borrows the backend
  reply,      \* of the last call
  waiting,    \* history: slots published since they were last granted or submitted
  accepted    \* history: batches answered with Started

vars == <<script, slot, lease, reply, waiting, accepted>>

Unconfigured == [configured |-> FALSE, acquired |-> FALSE, published |-> FALSE]
Configured   == [Unconfigured EXCEPT !.configured = TRUE]

Init ==
  /\ script = [init |-> {}, configure |-> {}, submit |-> {},
               acquire |-> [s \in Slots |-> "Ready"], publish |-> [s \in Slots |-> {}]]
  /\ slot = [s \in Slots |-> Unconfigured]
  /\ lease = {}
  /\ reply = "none"
  /\ waiting = {}
  /\ accepted = <<>>

-----------------------------------------------------------------------------
(* FakeBackendHandle.                                                      *)

Script ==
  /\ \/ script' = [script EXCEPT !.init = {"Error"}]
     \/ script' = [script EXCEPT !.configure = {"Error"}]
     \/ \E r \in Refusals \cup {"Started"} : script' = [script EXCEPT !.submit = {r}]
     \/ \E s \in Slots, b \in Behaviors \ {"Ready"} : script' = [script EXCEPT !.acquire[s] = b]
     \/ \E s \in Slots : script' = [script EXCEPT !.publish[s] = {"Error"}]
  /\ UNCHANGED <<slot, lease, reply, waiting, accepted>>

-----------------------------------------------------------------------------
(* The LedBackend calls; none while a lease is live.                       *)

IsConfigured == \E s \in Slots : slot[s].configured

InitBackend ==
  /\ lease = {} /\ ~ IsConfigured
  /\ reply' \in IF script.init = {} THEN {"Ok"} ELSE script.init
  /\ script' = [script EXCEPT !.init = {}]
  /\ UNCHANGED <<slot, lease, waiting, accepted>>

\* validate_specs, without the byte limit: in range and each channel once.
SpecsValid(specs) ==
  /\ \A i \in DOMAIN specs : specs[i] \in Slots
  /\ \A i, j \in DOMAIN specs : i # j => specs[i] # specs[j]

ConfigureChannels(specs) ==
  /\ lease = {} /\ ~ IsConfigured
  /\ \/ /\ ~ SpecsValid(specs)
        /\ reply' = "Error"
        /\ UNCHANGED <<script, slot>>
     \/ /\ SpecsValid(specs) /\ script.configure # {}
        /\ reply' \in script.configure
        /\ script' = [script EXCEPT !.configure = {}]
        /\ UNCHANGED slot
     \/ /\ SpecsValid(specs) /\ script.configure = {}
        /\ slot' = [s \in Slots |-> IF \E i \in DOMAIN specs : specs[i] = s
                                    THEN Configured ELSE Unconfigured]
        /\ reply' = "Ok"
        /\ UNCHANGED script
  /\ UNCHANGED <<lease, waiting, accepted>>

\* Mutant: the slot still counts as published from its last write.
Granted_KeepsPublished(s) == [slot EXCEPT ![s].acquired = TRUE]

Granted(s) == [slot EXCEPT ![s].acquired = TRUE, ![s].published = FALSE]

\* A scripted behaviour is used up.  A wrong channel or length is only what the
\* lease says of itself: it holds slot s.
AcquireWriteTarget(s) ==
  /\ lease = {}
  /\ script' = [script EXCEPT !.acquire[s] = "Ready"]
  /\ \/ /\ script.acquire[s] \in Refusals
        /\ reply' = script.acquire[s]
        /\ UNCHANGED <<slot, lease, waiting>>
     \/ /\ script.acquire[s] \notin Refusals
        /\ ~ slot[s].configured \/ slot[s].acquired
        /\ reply' = "Busy"
        /\ UNCHANGED <<slot, lease, waiting>>
     \/ /\ script.acquire[s] \notin Refusals
        /\ slot[s].configured /\ ~ slot[s].acquired
        /\ slot' = Granted(s)
        /\ lease' = {s}
        /\ reply' = script.acquire[s]
        /\ waiting' = waiting \ {s}
  /\ UNCHANGED accepted

\* Mutant: publishing does not mark the slot.
Released_Unpublished(s) == [slot EXCEPT ![s].acquired = FALSE]

\* Mutant: publishing does not release the slot.
Released_KeepsAcquired(s) == [slot EXCEPT ![s].published = TRUE]

Released(s) == [slot EXCEPT ![s].published = TRUE, ![s].acquired = FALSE]

\* FakeWriteLease::publish, then the lease is dropped.
Publish(s) ==
  /\ lease = {s} /\ script.publish[s] = {}
  /\ slot' = Released(s)
  /\ lease' = {}
  /\ reply' = "Ok"
  /\ waiting' = waiting \cup {s}
  /\ UNCHANGED <<script, accepted>>

\* The slot after the Drop of its lease.
Dropped(s) == IF slot[s].published THEN slot ELSE [slot EXCEPT ![s].acquired = FALSE]

PublishFails(s) ==
  /\ lease = {s} /\ script.publish[s] # {}
  /\ reply' \in script.publish[s]
  /\ script' = [script EXCEPT !.publish[s] = {}]
  /\ slot' = Dropped(s)
  /\ lease' = {}
  /\ UNCHANGED <<waiting, accepted>>

\* The engine rejects the lease, or packing fails.
Drop(s) ==
  /\ lease = {s}
  /\ slot' = Dropped(s)
  /\ lease' = {}
  /\ UNCHANGED <<script, reply, waiting, accepted>>

SubmitChannels(batch) ==
  /\ lease = {} /\ IsConfigured
  /\ Len(accepted) < MaxSubmits
  /\ script' = [script EXCEPT !.submit = {}]
  /\ reply' \in IF script.submit = {} THEN {"Started"} ELSE script.submit
  /\ \/ /\ reply' = "Started"
        /\ waiting' = waiting \ batch
        /\ accepted' = Append(accepted, batch)
     \/ reply' # "Started" /\ UNCHANGED <<waiting, accepted>>
  /\ UNCHANGED <<slot, lease>>

Next ==
  \/ Script
  \/ InitBackend
  \/ \E n \in 1 .. MaxChannels : \E specs \in [1 .. n -> 0 .. MaxChannels] :
       ConfigureChannels(specs)
  \/ \E s \in Slots : AcquireWriteTarget(s) \/ Publish(s) \/ PublishFails(s) \/ Drop(s)
  \/ \E batch \in SUBSET {s \in Slots : slot[s].configured} \ {{}} : SubmitChannels(batch)

Spec == Init /\ [][Next]_vars

TypeOK ==
  /\ script \in [init : Option({"Error"}), configure : Option({"Error"}),
                 submit : Option(Refusals \cup {"Started"}),
                 acquire : [Slots -> Behaviors], publish : [Slots -> Option({"Error"})]]
  /\ slot \in [Slots -> [configured : BOOLEAN, acquired : BOOLEAN, published : BOOLEAN]]
  /\ lease \in Option(Slots)
  /\ reply \in Behaviors \cup {"none", "Ok", "Started"}
  /\ waiting \subseteq {s \in Slots : slot[s].published}
  /\ Len(accepted) <= MaxSubmits

-----------------------------------------------------------------------------

Held == {s \in Slots : slot[s].acquired}

\* A slot is marked acquired while its lease lives and no longer, over any
\* sequence of publishes, failed publishes and drops: the write_published flag
\* of an earlier write must not keep an aborted one from releasing its slot,
\* which would answer Busy for ever.
FlagsFollowLease == Held = lease

Contract == INSTANCE LedBackend
  WITH PhaseModulus <- 1, MaxSpurious <- 0, Lossy <- FALSE, Regrant <- {"withdrawn"},
       leased <- Held,
       frame  <- [s \in Slots |-> IF s \in waiting THEN 0 ELSE 1],
       wire   <- accepted,
       signals <- 0, events <- 0, spurious <- 0

\* What the engine sees of the fake is what LedBackend says of a backend that
\* withdraws a waiting frame when it grants the target again: a lease it gets is
\* a grant, the end of a lease a publish or an abort, and a frame is taken only
\* by a submission that is answered with Started.
KeepsContract ==
  [][\A s \in Slots :
       /\ lease = {} /\ lease' = {s} => Contract!AcquireWriteTarget(s)
       /\ lease = {s} /\ lease' = {} => \/ Contract!DropLease({s})
                                        \/ reply' = "Ok" /\ Contract!PublishLease({s}, 0)
       /\ lease' = lease => \/ UNCHANGED Contract!backendVars
                            \/ /\ reply' = "Started"
                               /\ \E batch \in SUBSET Slots : Contract!SubmitChannels(batch)]_vars

===============================================================================
