-------------------------- MODULE RegistrationProofs --------------------------
(***************************************************************************)
(* Validation and registration proved for every capacity, every id space   *)
(* and every list of bindings: the three loops by their loop invariants,   *)
(* the configuration as a whole from what one loop leaves to the next.     *)
(***************************************************************************)
EXTENDS RegistrationEngine, TLAPS

USE RegistrationAssumption

\* The first n bindings have passed the checks of from_bindings.
ValidPrefix(bindings, n) ==
  /\ \A i \in 1 .. n : bindings[i].logical \in Indices /\ bindings[i].pixels > 0
  /\ \A i, j \in 1 .. n : i # j =>
       /\ bindings[i].logical # bindings[j].logical
       /\ bindings[i].backend # bindings[j].backend

\* The plan stages exactly the first n bindings, in order.
PlanShape(n) ==
  /\ n \in 0 .. Len(setup)
  /\ Len(plan.specs) = n /\ Len(plan.order) = n
  /\ \A k \in 1 .. n :
       /\ plan.order[k] = setup[k].logical
       /\ plan.specs[k] = SpecOf(setup[k])
       /\ plan.records[setup[k].logical] = {RecordOf(setup[k])}
       /\ setup[k].logical < MaxChannels
       /\ \A max \in ByteLimit : WireBytes(setup[k].pixels) <= max
  /\ \A i \in Indices : plan.records[i] # {} => \E k \in 1 .. n : setup[k].logical = i
  /\ plan.handles = Populated(plan.records)

NoLocals == next = 1 /\ seenLogical = {} /\ seenBackend = {} /\ plan = EmptyPlan

\* What each loop knows when it is at binding number next.
LoopInvariant ==
  /\ stage = "idle" => NoLocals /\ buf = <<>>
  /\ stage = "collect" => NoLocals /\ setup = <<>>
  /\ stage = "validate" =>
       /\ setup = <<>> /\ plan = EmptyPlan
       /\ next <= Len(buf) + 1
       /\ seenLogical = {buf[i].logical : i \in 1 .. next - 1}
       /\ seenBackend = {buf[i].backend : i \in 1 .. next - 1}
       /\ ValidPrefix(buf, next - 1)
  /\ stage = "plan" =>
       /\ setup # <<>> /\ buf = setup /\ lifecycle # "Ready"
       /\ PlanShape(next - 1)
  /\ stage = "commit" =>
       /\ setup # <<>> /\ buf = setup /\ lifecycle # "Ready"
       /\ PlanShape(Len(setup))
       /\ next <= Len(setup) + 1
       /\ backendSpecs = PlanSpecs
       /\ \A i \in Indices :
            table[i] = IF \E k \in 1 .. next - 1 : setup[k].logical = i
                       THEN plan.records[i] ELSE {}

RInv ==
  /\ TypeOK
  /\ Len(buf) <= DriverMaxChannels
  /\ LoopInvariant
  /\ SetupWellFormed
  /\ OnlyGenuineRefusals
  /\ AtomicConfiguration
  /\ BackendAgrees
  /\ LimitsBeforeBackend

-----------------------------------------------------------------------------

\* No setup, an empty table: the invariant holds of the new driver.
LEMMA RInit == Init => RInv
<1> SUFFICES ASSUME Init PROVE RInv
  OBVIOUS
<1>1. EmptyTable \in [Indices -> SUBSET Records] /\ Populated(EmptyTable) = {}
  BY DEF EmptyTable, Populated
<1>2. TypeOK
  BY <1>1 DEF Init, TypeOK, EmptyPlan
<1>3. LoopInvariant
  BY DEF Init, LoopInvariant, NoLocals
<1>4. SetupWellFormed /\ OnlyGenuineRefusals /\ LimitsBeforeBackend /\ BackendAgrees
  BY DEF Init, SetupWellFormed, WellFormed, OnlyGenuineRefusals, LimitsBeforeBackend, BackendAgrees
<1>5. AtomicConfiguration
  BY <1>1 DEF Init, AtomicConfiguration
<1>6. QED BY <1>2, <1>3, <1>4, <1>5 DEF RInv, Init

\* A call that returns without touching setup, table, lifecycle, backend or
\* handles keeps the invariant if its outcome is justified.
LEMMA FailedCall ==
  ASSUME RInv, stage # "commit", NEW reply, Return(reply),
         UNCHANGED <<setup, table, lifecycle, backendSpecs, handles>>,
         reply \in {"CapacityExceeded", "InvalidLogicalChannel",
           "DuplicateLogicalChannel", "DuplicateBackendChannel", "InvalidPixelCount",
           "EmptyConfiguration", "AlreadyConfigured", "ChannelOutOfRange",
           "ConfigurationLimitExceeded"},
         reply = "ChannelOutOfRange" => OutOfRange(setup),
         reply = "ConfigurationLimitExceeded" => Oversized(setup)
  PROVE  RInv'
<1>1. EmptyPlan \in [handles : SUBSET Indices, records : [Indices -> SUBSET Records],
                     specs : Seq(Specs), order : Seq(Indices)]
  BY DEF EmptyPlan, EmptyTable
<1>2. TypeOK'
  BY <1>1 DEF RInv, TypeOK, Return
<1>3. LoopInvariant' /\ Len(buf') <= DriverMaxChannels
  BY DEF LoopInvariant, NoLocals, Return
<1>4. SetupWellFormed' /\ LimitsBeforeBackend' /\ BackendAgrees'
  BY DEF RInv, SetupWellFormed, LimitsBeforeBackend, BackendAgrees
<1>5. OnlyGenuineRefusals'
  BY DEF OnlyGenuineRefusals, OutOfRange, Oversized, Return
<1>6. AtomicConfiguration'
  BY DEF RInv, AtomicConfiguration, Return
<1>7. QED BY <1>2, <1>3, <1>4, <1>5, <1>6 DEF RInv

-----------------------------------------------------------------------------
(* Validation.                                                             *)

\* A step inside a loop leaves the facts between the calls alone.
LEMMA LoopStep ==
  ASSUME RInv, stage \in {"idle", "collect", "validate", "plan"},
         stage' \in {"idle", "collect", "validate", "plan"},
         UNCHANGED <<table, lifecycle, backendSpecs, handles>>,
         SetupWellFormed', outcome' \in {"none", "Ok"}
  PROVE  /\ OnlyGenuineRefusals' /\ AtomicConfiguration' /\ BackendAgrees'
         /\ LimitsBeforeBackend'
BY DEF RInv, OnlyGenuineRefusals, AtomicConfiguration, BackendAgrees, LimitsBeforeBackend

\* Starting a setup drops the old one and disturbs no record.
LEMMA FromBindingsStep == RInv /\ FromBindings => RInv'
<1> SUFFICES ASSUME RInv, FromBindings PROVE RInv'
  OBVIOUS
<1>1. TypeOK'
  BY DEF RInv, TypeOK, FromBindings, engineVars
<1>2. LoopInvariant' /\ Len(buf') <= DriverMaxChannels
  BY DEF RInv, LoopInvariant, NoLocals, FromBindings, engineVars
<1>3. SetupWellFormed'
  BY DEF SetupWellFormed, WellFormed, FromBindings
<1>4. QED BY <1>1, <1>2, <1>3, LoopStep DEF RInv, FromBindings, engineVars

\* Collecting keeps the list within capacity, or fails as full.
LEMMA CollectStep ==
  ASSUME RInv, NEW b \in Bindings, Collect(b) PROVE RInv'
<1>1. CASE Return("CapacityExceeded")
  BY <1>1, FailedCall DEF Collect
<1>2. CASE /\ Len(buf) < DriverMaxChannels
           /\ buf' = Append(buf, b)
           /\ UNCHANGED <<stage, next, seenLogical, seenBackend, plan, outcome>>
  <2>1. buf \in Seq(Bindings) /\ Len(buf') = Len(buf) + 1 /\ stage = "collect"
    BY <1>2 DEF RInv, TypeOK, Collect
  <2>2. TypeOK'
    BY <1>2 DEF RInv, TypeOK, Collect
  <2>3. LoopInvariant' /\ Len(buf') <= DriverMaxChannels
    BY <1>2, <2>1 DEF RInv, LoopInvariant, NoLocals, Collect
  <2>4. SetupWellFormed'
    BY DEF RInv, SetupWellFormed, Collect
  <2>5. OnlyGenuineRefusals' /\ AtomicConfiguration' /\ BackendAgrees' /\ LimitsBeforeBackend'
    BY <1>2, <2>1 DEF RInv, OnlyGenuineRefusals, OutOfRange, Oversized,
      AtomicConfiguration, BackendAgrees, LimitsBeforeBackend, Collect
  <2>6. QED BY <2>2, <2>3, <2>4, <2>5 DEF RInv
<1>3. QED BY <1>1, <1>2 DEF Collect

\* The validation loop starts with nothing seen.
LEMMA CollectedStep == RInv /\ Collected => RInv'
<1> SUFFICES ASSUME RInv, Collected PROVE RInv'
  OBVIOUS
<1>1. TypeOK'
  BY DEF RInv, TypeOK, Collected, setupVars, engineVars
<1>2. LoopInvariant' /\ Len(buf') <= DriverMaxChannels
  <2>1. stage' = "validate" /\ next' = 1 /\ seenLogical' = {} /\ seenBackend' = {}
        /\ plan' = EmptyPlan /\ setup' = <<>> /\ buf' = buf /\ buf \in Seq(Bindings)
    BY DEF RInv, TypeOK, LoopInvariant, NoLocals, Collected, setupVars, engineVars
  <2>2. 1 .. next' - 1 = {}
    BY <2>1
  <2>3. ValidPrefix(buf', next' - 1)
    BY <2>2 DEF ValidPrefix
  <2>4. QED BY <2>1, <2>2, <2>3 DEF LoopInvariant, RInv
<1>3. QED
  BY <1>1, <1>2 DEF RInv, SetupWellFormed, OnlyGenuineRefusals, OutOfRange, Oversized,
    AtomicConfiguration, BackendAgrees, LimitsBeforeBackend, Collected, setupVars, engineVars

\* One more binding that passes the checks extends the valid prefix.
LEMMA ValidateExtends ==
  ASSUME RInv, stage = "validate", next <= Len(buf), BindingError(buf[next]) = "Ok"
  PROVE  ValidPrefix(buf, next)
<1> DEFINE b == buf[next]
<1>1. /\ buf \in Seq(Bindings) /\ next \in 1 .. Len(buf) /\ b \in Bindings
      /\ \A i \in 1 .. Len(buf) : buf[i] \in Bindings
  BY DEF RInv, TypeOK
<1>2. b.logical \in Nat /\ b.pixels \in Nat
  BY <1>1 DEF Bindings
<1>3. /\ b.logical \in Indices /\ b.logical \notin seenLogical
      /\ b.backend \notin seenBackend /\ b.pixels > 0
  BY <1>2 DEF BindingError, Indices
<1>4. \A i \in 1 .. next - 1 : buf[i].logical # b.logical /\ buf[i].backend # b.backend
  BY <1>1, <1>3 DEF RInv, LoopInvariant
<1>5. ValidPrefix(buf, next - 1)
  BY DEF RInv, LoopInvariant
<1>6. \A i \in 1 .. next : i \in 1 .. next - 1 \/ i = next
  BY <1>1
<1> HIDE DEF b
<1>7. QED BY <1>1, <1>3, <1>4, <1>5, <1>6 DEF ValidPrefix, b

\* Validating one binding extends the valid prefix or ends the call.
LEMMA ValidateStep == RInv /\ Validate => RInv'
<1> SUFFICES ASSUME RInv, Validate PROVE RInv'
  OBVIOUS
<1>1. CASE BindingError(buf[next]) # "Ok"
  <2>1. Return(BindingError(buf[next])) /\ stage = "validate"
    BY <1>1 DEF Validate
  <2>2. BindingError(buf[next]) \in {"InvalidLogicalChannel", "DuplicateLogicalChannel",
          "DuplicateBackendChannel", "InvalidPixelCount"}
    BY <1>1 DEF BindingError
  <2>3. QED BY <2>1, <2>2, FailedCall DEF Validate
<1>2. CASE BindingError(buf[next]) = "Ok"
  <2>1. /\ stage = "validate" /\ next <= Len(buf) /\ next' = next + 1
        /\ seenLogical' = seenLogical \cup {buf[next].logical}
        /\ seenBackend' = seenBackend \cup {buf[next].backend}
        /\ UNCHANGED <<stage, buf, plan, outcome, setup, table, lifecycle, backendSpecs, handles>>
    BY <1>2 DEF Validate
  <2>2. /\ buf \in Seq(Bindings) /\ next \in 1 .. Len(buf)
        /\ buf[next].logical \in LogicalIds /\ buf[next].backend \in BackendIds
    <3>1. buf \in Seq(Bindings) /\ next \in 1 .. Len(buf)
      BY <2>1 DEF RInv, TypeOK
    <3>2. buf[next] \in Bindings
      BY <3>1
    <3>3. QED BY <3>1, <3>2 DEF Bindings
  <2>3. TypeOK'
    <3>1. seenLogical \subseteq LogicalIds /\ seenBackend \subseteq BackendIds
      BY DEF RInv, TypeOK
    <3>2. seenLogical' \subseteq LogicalIds /\ seenBackend' \subseteq BackendIds
      BY <2>1, <2>2, <3>1
    <3>3. next' \in Nat \ {0}
      BY <2>1, <2>2
    <3>4. QED BY <2>1, <3>2, <3>3 DEF RInv, TypeOK
  <2>4. ValidPrefix(buf, next)
    BY <1>2, <2>1, ValidateExtends
  <2>5. /\ {buf[i].logical : i \in 1 .. next} =
             {buf[i].logical : i \in 1 .. next - 1} \cup {buf[next].logical}
        /\ {buf[i].backend : i \in 1 .. next} =
             {buf[i].backend : i \in 1 .. next - 1} \cup {buf[next].backend}
    BY <2>2
  <2>6. next' - 1 = next /\ next' <= Len(buf') + 1
    BY <2>1, <2>2
  <2>7. LoopInvariant'
    <3>1. /\ seenLogical = {buf[i].logical : i \in 1 .. next - 1}
          /\ seenBackend = {buf[i].backend : i \in 1 .. next - 1}
          /\ setup = <<>> /\ plan = EmptyPlan
      BY <2>1 DEF RInv, LoopInvariant
    <3>2. /\ seenLogical' = {buf[i].logical : i \in 1 .. next}
          /\ seenBackend' = {buf[i].backend : i \in 1 .. next}
      BY <2>1, <2>5, <3>1
    <3>3. /\ seenLogical' = {buf'[i].logical : i \in 1 .. next' - 1}
          /\ seenBackend' = {buf'[i].backend : i \in 1 .. next' - 1}
      BY <2>1, <2>6, <3>2
    <3>4. ValidPrefix(buf', next' - 1)
      BY <2>1, <2>4, <2>6
    <3>5. stage' = "validate" /\ setup' = <<>> /\ plan' = EmptyPlan
      BY <2>1, <3>1
    <3>6. QED BY <2>6, <3>3, <3>4, <3>5 DEF LoopInvariant
  <2>8. QED
    BY <2>1, <2>3, <2>7 DEF RInv, SetupWellFormed, OnlyGenuineRefusals, OutOfRange, Oversized,
      AtomicConfiguration, BackendAgrees, LimitsBeforeBackend
<1>3. QED BY <1>1, <1>2

\* A valid prefix that is the whole list is a well-formed setup.
LEMMA ValidatedStep == RInv /\ Validated => RInv'
<1> SUFFICES ASSUME RInv, Validated PROVE RInv'
  OBVIOUS
<1>1. /\ buf \in Seq(Bindings) /\ Len(buf) \in Nat /\ next = Len(buf) + 1
      /\ setup' = buf /\ stage = "validate" /\ Return("Ok")
      /\ UNCHANGED <<table, lifecycle, backendSpecs, handles>>
  BY DEF RInv, TypeOK, LoopInvariant, Validated
<1>2. SetupWellFormed'
  <2>1. ValidPrefix(buf, Len(buf)) /\ Len(buf) <= DriverMaxChannels
    BY <1>1 DEF RInv, LoopInvariant
  <2>2. QED BY <1>1, <2>1 DEF SetupWellFormed, WellFormed, ValidPrefix
<1>3. EmptyPlan \in [handles : SUBSET Indices, records : [Indices -> SUBSET Records],
                     specs : Seq(Specs), order : Seq(Indices)]
  BY DEF EmptyPlan, EmptyTable
<1>4. TypeOK'
  BY <1>1, <1>3 DEF RInv, TypeOK, Return
<1>5. LoopInvariant' /\ Len(buf') <= DriverMaxChannels
  BY <1>1 DEF LoopInvariant, NoLocals, Return
<1>6. QED BY <1>1, <1>2, <1>4, <1>5, LoopStep DEF RInv, Return

-----------------------------------------------------------------------------
(* Planning.                                                               *)

\* configure_prepared refuses, or starts to plan with nothing staged.
LEMMA ConfigureStep == RInv /\ ConfigurePrepared => RInv'
<1> SUFFICES ASSUME RInv, ConfigurePrepared PROVE RInv'
  OBVIOUS
<1>1. CASE Return("EmptyConfiguration") \/ Return("AlreadyConfigured")
  BY <1>1, FailedCall DEF ConfigurePrepared
<1>2. CASE /\ setup # <<>> /\ lifecycle # "Ready"
           /\ stage' = "plan" /\ buf' = setup /\ outcome' = "none"
           /\ UNCHANGED <<next, seenLogical, seenBackend, plan>>
  <2>1. /\ NoLocals /\ setup \in Seq(Bindings) /\ Len(setup) \in Nat
        /\ UNCHANGED <<setup, table, lifecycle, backendSpecs, handles>>
    BY DEF RInv, TypeOK, LoopInvariant, ConfigurePrepared
  <2>2. TypeOK'
    BY <1>2, <2>1 DEF RInv, TypeOK
  <2>3. PlanShape(0)'
    <3>1. plan' = EmptyPlan /\ 1 .. 0 = {} /\ Len(setup') \in Nat
      BY <1>2, <2>1 DEF NoLocals
    <3>2. \A i \in Indices : EmptyTable[i] = {}
      BY DEF EmptyTable
    <3>3. QED BY <3>1, <3>2 DEF PlanShape, EmptyPlan, Populated
  <2>4. next' - 1 = 0
    BY <1>2, <2>1 DEF NoLocals
  <2>5. LoopInvariant'
    BY <1>2, <2>1, <2>3, <2>4 DEF LoopInvariant
  <2>6. SetupWellFormed' /\ Len(buf') <= DriverMaxChannels
    BY <1>2, <2>1 DEF RInv, SetupWellFormed, WellFormed
  <2>7. QED BY <1>2, <2>1, <2>2, <2>5, <2>6, LoopStep DEF RInv, ConfigurePrepared
<1>3. QED BY <1>1, <1>2 DEF ConfigurePrepared

\* What is known of the binding the plan is at: it is the first with its
\* logical channel, and the vectors have room.
LEMMA PlanPosition ==
  ASSUME RInv, stage = "plan", next <= Len(buf)
  PROVE  /\ buf = setup /\ setup \in Seq(Bindings) /\ next \in 1 .. Len(setup)
         /\ setup[next] \in Bindings /\ setup[next].logical \in Indices
         /\ plan.records[setup[next].logical] = {}
         /\ Len(plan.specs) < DriverMaxChannels
         /\ PlanShape(next - 1)
<1>1. /\ buf = setup /\ setup \in Seq(Bindings) /\ next \in 1 .. Len(setup)
      /\ PlanShape(next - 1)
  BY DEF RInv, TypeOK, LoopInvariant
<1>2. setup[next] \in Bindings
  BY <1>1
<1>3. setup[next].logical \in Indices
  BY <1>1 DEF RInv, SetupWellFormed, WellFormed
<1>4. \A k \in 1 .. next - 1 : setup[k].logical # setup[next].logical
  BY <1>1 DEF RInv, SetupWellFormed, WellFormed
<1>5. plan.records[setup[next].logical] = {}
  BY <1>1, <1>3, <1>4 DEF PlanShape
<1>6. Len(plan.specs) < DriverMaxChannels
  BY <1>1 DEF PlanShape, RInv, SetupWellFormed, WellFormed
<1>7. QED BY <1>1, <1>2, <1>3, <1>5, <1>6

\* Staging the binding extends what the plan covers by one.
LEMMA PlanExtends ==
  ASSUME RInv, stage = "plan", next <= Len(buf), PlanError(buf[next]) = "Ok",
         plan' = Staged(buf[next]), next' = next + 1, setup' = setup
  PROVE  PlanShape(next - 1)'
<1> DEFINE b == setup[next]
<1>1. /\ buf = setup /\ next \in 1 .. Len(setup) /\ b \in Bindings /\ b.logical \in Indices
      /\ PlanShape(next - 1)
  BY PlanPosition
<1>2. /\ plan.specs \in Seq(Specs) /\ plan.order \in Seq(Indices)
      /\ plan.records \in [Indices -> SUBSET Records]
  BY DEF RInv, TypeOK
<1>3. b.logical < MaxChannels /\ \A max \in ByteLimit : WireBytes(b.pixels) <= max
  <2>1. b.logical \in Nat /\ b.pixels \in Nat
    BY <1>1 DEF Bindings
  <2>2. WireBytes(b.pixels) \in Nat /\ MaxChannels \in Nat
    BY <2>1 DEF WireBytes
  <2>3. QED BY <1>1, <2>1, <2>2 DEF PlanError
<1>4. SpecOf(b) \in Specs
  BY <1>1 DEF SpecOf, Specs, Bindings
<1>5. /\ plan'.handles = plan.handles \cup {b.logical}
      /\ plan'.records = [plan.records EXCEPT ![b.logical] = {RecordOf(b)}]
      /\ plan'.specs = Append(plan.specs, SpecOf(b))
      /\ plan'.order = Append(plan.order, b.logical)
  BY <1>1 DEF Staged
<1>6. Len(plan.specs) = next - 1 /\ Len(plan.order) = next - 1
  BY <1>1 DEF PlanShape
<1>7. /\ Len(plan'.specs) = next /\ Len(plan'.order) = next
      /\ plan'.specs[next] = SpecOf(b) /\ plan'.order[next] = b.logical
      /\ \A k \in 1 .. next - 1 : plan'.specs[k] = plan.specs[k] /\ plan'.order[k] = plan.order[k]
  <2> HIDE DEF b
  <2>1. next \in Nat \ {0}
    BY <1>1
  <2>2. /\ Len(Append(plan.specs, SpecOf(b))) = next
        /\ Append(plan.specs, SpecOf(b))[next] = SpecOf(b)
        /\ \A k \in 1 .. next - 1 : Append(plan.specs, SpecOf(b))[k] = plan.specs[k]
    BY <1>2, <1>4, <1>6, <2>1
  <2>3. /\ Len(Append(plan.order, b.logical)) = next
        /\ Append(plan.order, b.logical)[next] = b.logical
        /\ \A k \in 1 .. next - 1 : Append(plan.order, b.logical)[k] = plan.order[k]
    BY <1>1, <1>2, <1>6, <2>1
  <2>4. QED BY <1>5, <2>2, <2>3
<1>8. \A k \in 1 .. next - 1 : setup[k].logical # b.logical /\ setup[k].logical \in Indices
  BY <1>1 DEF RInv, SetupWellFormed, WellFormed
<1>9. /\ plan'.records[b.logical] = {RecordOf(b)}
      /\ \A i \in Indices : i # b.logical => plan'.records[i] = plan.records[i]
  BY <1>1, <1>2, <1>5
<1>10. \A k \in 1 .. next : k \in 1 .. next - 1 \/ k = next
  BY <1>1
<1> HIDE DEF b
<1>11. \A k \in 1 .. next :
         /\ plan'.order[k] = setup[k].logical
         /\ plan'.specs[k] = SpecOf(setup[k])
         /\ plan'.records[setup[k].logical] = {RecordOf(setup[k])}
         /\ setup[k].logical < MaxChannels
         /\ \A max \in ByteLimit : WireBytes(setup[k].pixels) <= max
  <2> SUFFICES ASSUME NEW k \in 1 .. next
               PROVE  /\ plan'.order[k] = setup[k].logical
                      /\ plan'.specs[k] = SpecOf(setup[k])
                      /\ plan'.records[setup[k].logical] = {RecordOf(setup[k])}
                      /\ setup[k].logical < MaxChannels
                      /\ \A max \in ByteLimit : WireBytes(setup[k].pixels) <= max
    OBVIOUS
  <2>1. CASE k \in 1 .. next - 1
    BY <1>1, <1>7, <1>8, <1>9, <2>1 DEF PlanShape
  <2>2. CASE k = next
    BY <1>3, <1>7, <1>9, <2>2 DEF b
  <2>3. QED BY <1>10, <2>1, <2>2
<1>12. \A i \in Indices : plan'.records[i] # {} => \E k \in 1 .. next : setup[k].logical = i
  BY <1>1, <1>9 DEF PlanShape, b
<1>13. plan'.handles = Populated(plan'.records)
  <2>1. plan.handles = Populated(plan.records)
    BY <1>1 DEF PlanShape
  <2>2. Populated(plan'.records) = Populated(plan.records) \cup {b.logical}
    <3>1. b.logical \in Indices
      BY <1>1 DEF b
    <3>2. QED BY <1>9, <3>1 DEF Populated
  <2>3. QED BY <1>5, <2>1, <2>2
<1>14. next \in 0 .. Len(setup) /\ next' - 1 = next
  BY <1>1
<1>15. QED BY <1>7, <1>11, <1>12, <1>13, <1>14 DEF PlanShape

\* Planning one binding extends the plan, or refuses for a genuine reason.
LEMMA PlanStep == RInv /\ Plan => RInv'
<1> SUFFICES ASSUME RInv, Plan PROVE RInv'
  OBVIOUS
<1> DEFINE b == setup[next]
<1>1. /\ stage = "plan" /\ next <= Len(buf)
      /\ UNCHANGED <<setup, table, lifecycle, backendSpecs, handles>>
  BY DEF Plan
<1>2. /\ buf = setup /\ setup \in Seq(Bindings) /\ next \in 1 .. Len(setup)
      /\ b \in Bindings /\ b.logical \in Indices
      /\ plan.records[b.logical] = {} /\ Len(plan.specs) < DriverMaxChannels
  BY <1>1, PlanPosition
<1>3. CASE PlanError(b) # "Ok"
  <2>1. Return(PlanError(b))
    BY <1>2, <1>3 DEF Plan
  <2>2. \/ PlanError(b) = "ChannelOutOfRange" /\ OutOfRange(setup)
        \/ PlanError(b) = "ConfigurationLimitExceeded" /\ Oversized(setup)
    <3>1. Len(plan.specs) \in Nat /\ DriverMaxChannels \in Nat
      BY DEF RInv, TypeOK
    <3>2. QED BY <1>2, <1>3, <3>1 DEF PlanError, OutOfRange, Oversized
  <2>3. QED BY <1>1, <2>1, <2>2, FailedCall
<1>4. CASE PlanError(b) = "Ok"
  <2>1. /\ plan' = Staged(b) /\ next' = next + 1
        /\ UNCHANGED <<stage, buf, seenLogical, seenBackend, outcome>>
    BY <1>2, <1>4 DEF Plan
  <2>2. PlanShape(next - 1)'
    BY <1>1, <1>2, <1>4, <2>1, PlanExtends
  <2>3. TypeOK'
    <3>1. SpecOf(b) \in Specs /\ RecordOf(b) \in Records
      BY <1>2 DEF SpecOf, Specs, RecordOf, Records, Bindings
    <3>2. plan' \in [handles : SUBSET Indices, records : [Indices -> SUBSET Records],
                     specs : Seq(Specs), order : Seq(Indices)]
      <4> HIDE DEF b
      <4>1. /\ plan.handles \subseteq Indices /\ plan.records \in [Indices -> SUBSET Records]
            /\ plan.specs \in Seq(Specs) /\ plan.order \in Seq(Indices)
        BY DEF RInv, TypeOK
      <4>2. /\ plan.handles \cup {b.logical} \subseteq Indices
            /\ [plan.records EXCEPT ![b.logical] = {RecordOf(b)}] \in [Indices -> SUBSET Records]
        BY <1>2, <3>1, <4>1
      <4>3. Append(plan.specs, SpecOf(b)) \in Seq(Specs)
        BY <3>1, <4>1
      <4>4. Append(plan.order, b.logical) \in Seq(Indices)
        BY <1>2, <4>1
      <4>5. QED BY <2>1, <4>2, <4>3, <4>4 DEF Staged
    <3>3. next' \in Nat \ {0}
      BY <1>2, <2>1
    <3>4. QED BY <1>1, <2>1, <3>2, <3>3 DEF RInv, TypeOK
  <2>4. LoopInvariant'
    <3>1. setup # <<>> /\ lifecycle # "Ready"
      BY <1>1 DEF RInv, LoopInvariant
    <3>2. QED BY <1>1, <1>2, <2>1, <2>2, <3>1 DEF LoopInvariant
  <2>5. QED
    BY <1>1, <2>1, <2>3, <2>4 DEF RInv, SetupWellFormed, OnlyGenuineRefusals, OutOfRange,
      Oversized, AtomicConfiguration, BackendAgrees, LimitsBeforeBackend
<1>5. QED BY <1>3, <1>4

-----------------------------------------------------------------------------
(* The backend's answer and the commit.                                    *)

\* A complete plan holds a spec within the limits for every binding.
LEMMA PlanComplete ==
  ASSUME RInv, stage = "plan", next > Len(buf)
  PROVE  /\ PlanShape(Len(setup)) /\ setup # <<>> /\ buf = setup
         /\ lifecycle # "Ready" /\ table = EmptyTable /\ handles = {}
         /\ PlanSpecs \subseteq Specs
         /\ \A s \in PlanSpecs : \A max \in ByteLimit : WireBytes(s.pixels) <= max
<1>1. /\ PlanShape(next - 1) /\ buf = setup /\ setup # <<>> /\ lifecycle # "Ready"
      /\ setup \in Seq(Bindings) /\ next \in Nat /\ Len(setup) \in Nat
  BY DEF RInv, TypeOK, LoopInvariant
<1>2. next - 1 = Len(setup)
  BY <1>1 DEF PlanShape
<1>3. PlanShape(Len(setup))
  BY <1>1, <1>2
<1>4. table = EmptyTable /\ handles = {}
  BY <1>1 DEF RInv, AtomicConfiguration
<1>5. PlanSpecs \subseteq Specs
  BY DEF RInv, TypeOK, PlanSpecs
<1>6. \A s \in PlanSpecs : \A max \in ByteLimit : WireBytes(s.pixels) <= max
  <2> SUFFICES ASSUME NEW k \in 1 .. Len(plan.specs), NEW max \in ByteLimit
               PROVE  WireBytes(plan.specs[k].pixels) <= max
    BY DEF PlanSpecs
  <2>1. k \in 1 .. Len(setup)
    BY <1>3 DEF PlanShape
  <2>2. plan.specs[k] = SpecOf(setup[k]) /\ WireBytes(setup[k].pixels) <= max
    BY <1>3, <2>1 DEF PlanShape
  <2>3. QED BY <2>2 DEF SpecOf
<1>7. QED BY <1>1, <1>3, <1>4, <1>5, <1>6

\* A plan keeps its shape while neither it nor the setup changes.
LEMMA PlanStable ==
  ASSUME PlanShape(Len(setup)), UNCHANGED <<setup, plan>>
  PROVE  PlanShape(Len(setup))' /\ PlanSpecs' = PlanSpecs
<1>1. plan' = plan /\ setup' = setup
  OBVIOUS
<1>2. PlanSpecs' = PlanSpecs
  BY <1>1 DEF PlanSpecs
<1>3. Populated(plan.records)' = Populated(plan.records)
  BY <1>1 DEF Populated
<1>4. PlanShape(Len(setup))'
  BY <1>1, <1>3 DEF PlanShape
<1>5. QED BY <1>2, <1>4

\* A backend that refuses, even halfway, leaves the engine as it was.
LEMMA BackendRefusesStep == RInv /\ BackendRefuses => RInv'
<1> SUFFICES ASSUME RInv, BackendRefuses PROVE RInv'
  OBVIOUS
<1>1. PICK fault \in {"InvalidBinding", "TransportFault"} : Return(fault)
  BY DEF BackendRefuses
<1>2. /\ lifecycle # "Ready" /\ table = EmptyTable /\ handles = {}
      /\ backendSpecs' \subseteq PlanSpecs /\ PlanSpecs \subseteq Specs
      /\ \A s \in PlanSpecs : \A max \in ByteLimit : WireBytes(s.pixels) <= max
      /\ UNCHANGED <<setup, table, lifecycle, handles>>
  BY PlanComplete DEF BackendRefuses
<1>3. EmptyPlan \in [handles : SUBSET Indices, records : [Indices -> SUBSET Records],
                     specs : Seq(Specs), order : Seq(Indices)]
  BY DEF EmptyPlan, EmptyTable
<1>4. TypeOK'
  BY <1>1, <1>2, <1>3 DEF RInv, TypeOK, Return
<1>5. LoopInvariant' /\ Len(buf') <= DriverMaxChannels
  BY <1>1 DEF LoopInvariant, NoLocals, Return
<1>6. SetupWellFormed' /\ LimitsBeforeBackend' /\ BackendAgrees'
  BY <1>2 DEF RInv, SetupWellFormed, LimitsBeforeBackend, BackendAgrees
<1>7. OnlyGenuineRefusals' /\ AtomicConfiguration'
  BY <1>1, <1>2 DEF OnlyGenuineRefusals, AtomicConfiguration, Return
<1>8. QED BY <1>4, <1>5, <1>6, <1>7 DEF RInv

\* A backend that accepts has exactly the specs of the plan.
LEMMA BackendConfiguresStep == RInv /\ BackendConfigures => RInv'
<1> SUFFICES ASSUME RInv, BackendConfigures PROVE RInv'
  OBVIOUS
<1>1. /\ PlanShape(Len(setup)) /\ setup # <<>> /\ buf = setup
      /\ lifecycle # "Ready" /\ table = EmptyTable /\ handles = {}
      /\ PlanSpecs \subseteq Specs
      /\ \A s \in PlanSpecs : \A max \in ByteLimit : WireBytes(s.pixels) <= max
  BY PlanComplete DEF BackendConfigures
<1>2. /\ backendSpecs' = PlanSpecs /\ stage' = "commit" /\ next' = 1
      /\ UNCHANGED <<buf, seenLogical, seenBackend, setup, plan, table, lifecycle,
                     handles, outcome>>
  BY DEF BackendConfigures, engineVars
<1>3. TypeOK'
  BY <1>1, <1>2 DEF RInv, TypeOK
<1>4. LoopInvariant'
  <2>1. PlanShape(Len(setup))' /\ backendSpecs' = PlanSpecs'
    BY <1>1, <1>2, PlanStable
  <2>2. Len(setup) \in Nat /\ 1 .. next' - 1 = {}
    BY <1>2 DEF RInv, TypeOK
  <2>3. \A i \in Indices : table'[i] = {}
    BY <1>1, <1>2 DEF EmptyTable
  <2>4. QED BY <1>1, <1>2, <2>1, <2>2, <2>3 DEF LoopInvariant
<1>5. SetupWellFormed' /\ OnlyGenuineRefusals' /\ LimitsBeforeBackend' /\ BackendAgrees'
  BY <1>1, <1>2 DEF RInv, SetupWellFormed, OnlyGenuineRefusals, OutOfRange, Oversized,
    LimitsBeforeBackend, BackendAgrees
<1>6. AtomicConfiguration'
  BY <1>1, <1>2 DEF AtomicConfiguration
<1>7. QED BY <1>2, <1>3, <1>4, <1>5, <1>6 DEF RInv

\* The commit never meets a record it cannot register.
LEMMA CommitPosition ==
  ASSUME RInv, stage = "commit", next <= Len(plan.order)
  PROVE  /\ next \in 1 .. Len(setup) /\ PlanShape(Len(setup))
         /\ plan.order[next] = setup[next].logical /\ setup[next].logical \in Indices
         /\ RegisterError(plan.order[next]) = "Ok"
<1>1. /\ PlanShape(Len(setup)) /\ next \in Nat \ {0} /\ setup \in Seq(Bindings)
      /\ \A i \in Indices :
           table[i] = IF \E k \in 1 .. next - 1 : setup[k].logical = i
                      THEN plan.records[i] ELSE {}
  BY DEF RInv, TypeOK, LoopInvariant
<1>2. next \in 1 .. Len(setup)
  BY <1>1 DEF PlanShape
<1>3. /\ plan.order[next] = setup[next].logical
      /\ setup[next].logical < MaxChannels
  BY <1>1, <1>2 DEF PlanShape
<1>4. /\ setup[next].logical \in Indices
      /\ \A k \in 1 .. next - 1 : setup[k].logical # setup[next].logical
  BY <1>2 DEF RInv, SetupWellFormed, WellFormed
<1>5. table[setup[next].logical] = {}
  BY <1>1, <1>4
<1>6. ~ (setup[next].logical >= MaxChannels)
  BY <1>3, <1>4 DEF Indices
<1>7. RegisterError(plan.order[next]) = "Ok"
  BY <1>3, <1>5, <1>6 DEF RegisterError
<1>8. QED BY <1>1, <1>2, <1>3, <1>4, <1>7

\* Committing one staged record cannot fail and adds just that record.
LEMMA CommitStep == RInv /\ Commit => RInv'
<1> SUFFICES ASSUME RInv, Commit PROVE RInv'
  OBVIOUS
<1> DEFINE index == setup[next].logical
<1>1. /\ next \in 1 .. Len(setup) /\ PlanShape(Len(setup))
      /\ plan.order[next] = index /\ index \in Indices
      /\ RegisterError(plan.order[next]) = "Ok"
  BY CommitPosition DEF Commit
<1>2. /\ stage = "commit" /\ table' = [table EXCEPT ![index] = plan.records[index]]
      /\ next' = next + 1
      /\ UNCHANGED <<stage, buf, seenLogical, seenBackend, plan, outcome,
                     setup, lifecycle, backendSpecs, handles>>
  BY <1>1 DEF Commit
<1>3. table \in [Indices -> SUBSET Records] /\ plan.records \in [Indices -> SUBSET Records]
  BY DEF RInv, TypeOK
<1>4. TypeOK'
  BY <1>1, <1>2, <1>3 DEF RInv, TypeOK
<1>5. LoopInvariant'
  <2>1. /\ setup # <<>> /\ buf = setup /\ lifecycle # "Ready" /\ backendSpecs = PlanSpecs
        /\ \A i \in Indices :
             table[i] = IF \E k \in 1 .. next - 1 : setup[k].logical = i
                        THEN plan.records[i] ELSE {}
    BY <1>2 DEF RInv, LoopInvariant
  <2>2. PlanShape(Len(setup))' /\ backendSpecs' = PlanSpecs'
    BY <1>1, <1>2, <2>1, PlanStable
  <2>3. next' <= Len(setup') + 1
    BY <1>1, <1>2
  <2>4. ASSUME NEW i \in Indices
        PROVE  table'[i] = IF \E k \in 1 .. next : setup[k].logical = i
                           THEN plan.records[i] ELSE {}
    <3>1. CASE i = index
      BY <1>1, <1>2, <1>3, <3>1
    <3>2. CASE i # index
      <4>1. table'[i] = table[i]
        BY <1>2, <1>3, <3>2
      <4>2. (\E k \in 1 .. next : setup[k].logical = i)
              <=> \E k \in 1 .. next - 1 : setup[k].logical = i
        BY <1>1, <3>2
      <4>3. QED BY <2>1, <4>1, <4>2
    <3>3. QED BY <3>1, <3>2
  <2>5. next' - 1 = next
    BY <1>1, <1>2
  <2> HIDE DEF index
  <2>6. \A i \in Indices :
          table'[i] = IF \E k \in 1 .. next' - 1 : setup'[k].logical = i
                      THEN plan'.records[i] ELSE {}
    BY <1>2, <2>4, <2>5
  <2>7. QED BY <1>2, <2>1, <2>2, <2>3, <2>6 DEF LoopInvariant
<1>6. SetupWellFormed' /\ OnlyGenuineRefusals' /\ LimitsBeforeBackend'
  BY <1>2 DEF RInv, SetupWellFormed, OnlyGenuineRefusals, OutOfRange, Oversized,
    LimitsBeforeBackend
<1>7. lifecycle # "Ready"
  BY <1>2 DEF RInv, LoopInvariant
<1>8. BackendAgrees' /\ AtomicConfiguration'
  BY <1>2, <1>7 DEF RInv, BackendAgrees, AtomicConfiguration
<1>9. QED BY <1>2, <1>4, <1>5, <1>6, <1>8 DEF RInv

\* After the last record the table, the handles and the backend agree.
LEMMA CommittedStep == RInv /\ Committed => RInv'
<1> SUFFICES ASSUME RInv, Committed PROVE RInv'
  OBVIOUS
<1>1. /\ stage = "commit" /\ lifecycle' = "Ready" /\ handles' = plan.handles /\ Return("Ok")
      /\ UNCHANGED <<setup, table, backendSpecs>>
  BY DEF Committed
<1>2. /\ PlanShape(Len(setup)) /\ setup # <<>> /\ setup \in Seq(Bindings)
      /\ next = Len(setup) + 1 /\ backendSpecs = PlanSpecs
      /\ \A i \in Indices :
           table[i] = IF \E k \in 1 .. next - 1 : setup[k].logical = i
                      THEN plan.records[i] ELSE {}
  <2>1. /\ PlanShape(Len(setup)) /\ setup # <<>> /\ setup \in Seq(Bindings)
        /\ next <= Len(setup) + 1 /\ next \in Nat /\ backendSpecs = PlanSpecs
        /\ \A i \in Indices :
             table[i] = IF \E k \in 1 .. next - 1 : setup[k].logical = i
                        THEN plan.records[i] ELSE {}
    BY <1>1 DEF RInv, TypeOK, LoopInvariant
  <2>2. next > Len(setup)
    BY <2>1 DEF PlanShape, Committed
  <2>3. QED BY <2>1, <2>2
<1>3. /\ table \in [Indices -> SUBSET Records] /\ plan.records \in [Indices -> SUBSET Records]
      /\ plan.handles \subseteq Indices
  BY DEF RInv, TypeOK
<1>4. \A i \in Indices : table[i] = plan.records[i]
  <2> SUFFICES ASSUME NEW i \in Indices PROVE table[i] = plan.records[i]
    OBVIOUS
  <2>1. next - 1 = Len(setup)
    BY <1>2
  <2>2. table[i] = IF \E k \in 1 .. Len(setup) : setup[k].logical = i
                   THEN plan.records[i] ELSE {}
    BY <1>2, <2>1
  <2>3. plan.records[i] # {} => \E k \in 1 .. Len(setup) : setup[k].logical = i
    BY <1>2 DEF PlanShape
  <2>4. QED BY <2>2, <2>3
<1>5. \A k \in 1 .. Len(setup) :
        setup[k].logical \in Indices /\ table[setup[k].logical] = {RecordOf(setup[k])}
  BY <1>2, <1>4 DEF PlanShape, RInv, SetupWellFormed, WellFormed
<1>6. \A i \in Indices : table[i] # {} =>
        \E k \in 1 .. Len(setup) : setup[k].logical = i
  BY <1>2, <1>4 DEF PlanShape
<1>7. EmptyPlan \in [handles : SUBSET Indices, records : [Indices -> SUBSET Records],
                     specs : Seq(Specs), order : Seq(Indices)]
  BY DEF EmptyPlan, EmptyTable
<1>8. TypeOK'
  BY <1>1, <1>3, <1>7 DEF RInv, TypeOK, Return
<1>9. LoopInvariant' /\ Len(buf') <= DriverMaxChannels
  BY <1>1 DEF LoopInvariant, NoLocals, Return
<1>10. SetupWellFormed' /\ LimitsBeforeBackend' /\ OnlyGenuineRefusals'
  BY <1>1 DEF RInv, SetupWellFormed, LimitsBeforeBackend, OnlyGenuineRefusals, Return
<1>11. AtomicConfiguration'
  <2>1. handles' = Populated(table')
    BY <1>1, <1>2, <1>4 DEF PlanShape, Populated
  <2>2. table # EmptyTable
    <3>1. 1 \in 1 .. Len(setup)
      BY <1>2
    <3>2. table[setup[1].logical] # {} /\ setup[1].logical \in Indices
      BY <1>5, <3>1
    <3>3. QED BY <3>2 DEF EmptyTable
  <2>3. QED BY <1>1, <2>1, <2>2 DEF AtomicConfiguration
<1>12. BackendAgrees'
  <2>1. PlanSpecs = {SpecOf(setup[k]) : k \in 1 .. Len(setup)}
    BY <1>2 DEF PlanShape, PlanSpecs
  <2>2. UNION {table[i] : i \in Indices} = {RecordOf(setup[k]) : k \in 1 .. Len(setup)}
    <3> DEFINE recs == {RecordOf(setup[k]) : k \in 1 .. Len(setup)}
    <3>1. ASSUME NEW k \in 1 .. Len(setup)
          PROVE  RecordOf(setup[k]) \in UNION {table[i] : i \in Indices}
      BY <1>5
    <3>2. ASSUME NEW i \in Indices, NEW r \in table[i] PROVE r \in recs
      <4>1. PICK k \in 1 .. Len(setup) : setup[k].logical = i
        BY <1>6, <3>2
      <4>2. r = RecordOf(setup[k])
        BY <1>5, <3>2, <4>1
      <4>3. QED BY <4>2
    <3>3. UNION {table[i] : i \in Indices} \subseteq recs
      BY <3>2
    <3>4. recs \subseteq UNION {table[i] : i \in Indices}
      BY <3>1
    <3>5. QED BY <3>3, <3>4
  <2>3. \A k \in 1 .. Len(setup) :
          SpecOf(setup[k]) = [channel |-> RecordOf(setup[k]).backend,
                              pixels |-> RecordOf(setup[k]).pixels]
    BY DEF SpecOf, RecordOf
  <2>4. backendSpecs = {[channel |-> r.backend, pixels |-> r.pixels] :
                          r \in UNION {table[i] : i \in Indices}}
    <3> DEFINE S == UNION {table[i] : i \in Indices}
               T == {RecordOf(setup[k]) : k \in 1 .. Len(setup)}
    <3>1. {[channel |-> r.backend, pixels |-> r.pixels] : r \in T} =
            {SpecOf(setup[k]) : k \in 1 .. Len(setup)}
      BY <2>3
    <3>2. S = T
      BY <2>2
    <3> HIDE DEF S, T
    <3>3. backendSpecs = {[channel |-> r.backend, pixels |-> r.pixels] : r \in S}
      BY <1>2, <2>1, <3>1, <3>2
    <3>4. QED BY <3>3 DEF S
  <2>5. ASSUME NEW i \in Indices, NEW j \in Indices, NEW r \in table[i], NEW s \in table[j],
               r.backend = s.backend
        PROVE  i = j
    <3>1. PICK k \in 1 .. Len(setup) : setup[k].logical = i
      BY <1>6, <2>5
    <3>2. PICK l \in 1 .. Len(setup) : setup[l].logical = j
      BY <1>6, <2>5
    <3>3. r = RecordOf(setup[k]) /\ s = RecordOf(setup[l])
      BY <1>5, <2>5, <3>1, <3>2
    <3>4. setup[k].backend = setup[l].backend
      BY <2>5, <3>3 DEF RecordOf
    <3>5. k = l
      BY <3>4 DEF RInv, SetupWellFormed, WellFormed
    <3>6. QED BY <3>1, <3>2, <3>5
  <2>6. QED BY <1>1, <2>4, <2>5 DEF BackendAgrees
<1>13. QED BY <1>8, <1>9, <1>10, <1>11, <1>12 DEF RInv

\* A stuttering step changes nothing.
LEMMA RStutter == RInv /\ UNCHANGED vars => RInv'
<1> SUFFICES ASSUME RInv, UNCHANGED vars PROVE RInv'
  OBVIOUS
<1> USE DEF RInv, vars, setupVars, engineVars
<1>1. TypeOK'
  BY DEF TypeOK
<1>2. LoopInvariant' /\ Len(buf') <= DriverMaxChannels
  BY DEF LoopInvariant, NoLocals, ValidPrefix, PlanShape, PlanSpecs, Populated
<1>3. SetupWellFormed' /\ OnlyGenuineRefusals'
  BY DEF SetupWellFormed, OnlyGenuineRefusals, OutOfRange, Oversized
<1>4. AtomicConfiguration' /\ BackendAgrees' /\ LimitsBeforeBackend'
  BY DEF AtomicConfiguration, BackendAgrees, LimitsBeforeBackend
<1>5. QED BY <1>1, <1>2, <1>3, <1>4

\* The conjunction of the loop invariants and the properties is inductive.
THEOREM RegistrationInvariant == Spec => []RInv
<1>1. RInv /\ [Next]_vars => RInv'
  BY FromBindingsStep, CollectStep, CollectedStep, ValidateStep, ValidatedStep, ConfigureStep,
    PlanStep, BackendRefusesStep, BackendConfiguresStep, CommitStep, CommittedStep, RStutter
    DEF Next
<1>2. QED BY <1>1, RInit, PTL DEF Spec

\* Whatever bindings are offered, a PreparedSetup is a one-to-one map of in-range
\* logical channels to backend channels with pixels.
THEOREM SetupsWellFormed == Spec => []SetupWellFormed
<1>1. RInv => SetupWellFormed
  BY DEF RInv
<1>2. QED BY <1>1, RegistrationInvariant, PTL

\* The duplicate and capacity errors behind a prepared setup are unreachable;
\* commit_plan cannot fail after the backend accepted.
THEOREM RefusalsGenuine == Spec => []OnlyGenuineRefusals
<1>1. RInv => OnlyGenuineRefusals
  BY DEF RInv
<1>2. QED BY <1>1, RegistrationInvariant, PTL

\* Configuration is all or nothing, over any number of failed attempts.
THEOREM ConfigurationAtomic == Spec => []AtomicConfiguration
<1>1. RInv => AtomicConfiguration
  BY DEF RInv
<1>2. QED BY <1>1, RegistrationInvariant, PTL

\* A Ready engine and its backend agree on the targets, one per channel.
THEOREM BackendInAgreement == Spec => []BackendAgrees
<1>1. RInv => BackendAgrees
  BY DEF RInv
<1>2. QED BY <1>1, RegistrationInvariant, PTL

\* No backend is ever asked to configure, not even in an attempt that fails
\* halfway, a channel over the byte limit.
THEOREM LimitsComeFirst == Spec => []LimitsBeforeBackend
<1>1. RInv => LimitsBeforeBackend
  BY DEF RInv
<1>2. QED BY <1>1, RegistrationInvariant, PTL

\* The state stays in the types, whatever iterators and backends do.
THEOREM RegistrationTypes == Spec => []TypeOK
<1>1. RInv => TypeOK
  BY DEF RInv
<1>2. QED BY <1>1, RegistrationInvariant, PTL

-----------------------------------------------------------------------------
(* The one-step configuration of LedDriver.                                *)

\* What the instance makes of the steps of LedDriver's ConfigurePrepared: only
\* lifecycle, RegisteredIds and the outcome are left of its state.
LEMMA EngineFrame ==
  /\ UNCHANGED Engine!backendVars /\ UNCHANGED Engine!readyVars
  /\ Engine!BackendFaults = {"InvalidBinding", "TransportFault"}
  /\ Engine!Channels = 0 .. MaxChannels - 1
BY DEF Engine!backendVars, Engine!readyVars, Engine!BackendFaults, Engine!Channels

\* A refusal by the API itself.
LEMMA ApiRefusal ==
  ASSUME NEW reply \in {"EmptyConfiguration", "AlreadyConfigured"}, outcome' = reply,
         UNCHANGED <<lifecycle, RegisteredIds>>
  PROVE  Engine!RejectSetup(reply)
BY EngineFrame DEF Engine!RejectSetup, Engine!Return, Engine!registryVars

\* Neither a failed plan nor a backend's refusal registers anything.
LEMMA ConfigureFailure ==
  ASSUME lifecycle = "Registering", UNCHANGED <<lifecycle, RegisteredIds>>,
         NEW ids, ids # {}, NEW oversized,
         \/ outcome' \in Engine!PlanErrors(ids, oversized)
         \/ /\ Engine!PlanErrors(ids, oversized) = {}
            /\ outcome' \in {"InvalidBinding", "TransportFault"}
  PROVE  Engine!ConfigurePrepared(ids, oversized)
<1>1. CASE outcome' \in Engine!PlanErrors(ids, oversized)
  <2>1. outcome' \in {"ChannelOutOfRange", "ConfigurationLimitExceeded"}
    BY <1>1 DEF Engine!PlanErrors
  <2>2. Engine!Return("register", outcome')
    BY <2>1 DEF Engine!Return
  <2>3. Engine!ConfigureRejected(ids, oversized)
    BY <1>1, <2>2, EngineFrame DEF Engine!ConfigureRejected, Engine!registryVars
  <2>4. QED BY <2>3 DEF Engine!ConfigurePrepared
<1>2. CASE /\ Engine!PlanErrors(ids, oversized) = {}
           /\ outcome' \in {"InvalidBinding", "TransportFault"}
  <2>1. Engine!Return("register", outcome')
    BY <1>2 DEF Engine!Return
  <2>2. Engine!ConfigureBackendFailed(ids, oversized)
    BY <1>2, <2>1, EngineFrame DEF Engine!ConfigureBackendFailed, Engine!registryVars
  <2>3. QED BY <2>2 DEF Engine!ConfigurePrepared
<1>3. QED BY <1>1, <1>2

\* The numbers in a list of bindings.
LEMMA BindingTypes ==
  ASSUME NEW bindings \in Seq(Bindings), NEW k \in 1 .. Len(bindings)
  PROVE  bindings[k].logical \in Nat /\ bindings[k].pixels \in Nat
<1>1. bindings[k] \in Bindings
  OBVIOUS
<1>2. QED BY <1>1 DEF Bindings

\* A complete plan means that LedDriver allows no planning error.
LEMMA NoPlanErrors ==
  ASSUME RInv, PlanShape(Len(setup))
  PROVE  Engine!PlanErrors(Ids(setup), Oversized(setup)) = {}
<1>1. \A k \in 1 .. Len(setup) :
        /\ setup[k].logical \in Indices /\ setup[k].logical < MaxChannels
        /\ \A max \in ByteLimit : WireBytes(setup[k].pixels) <= max
  BY DEF PlanShape, RInv, SetupWellFormed, WellFormed
<1>2. Ids(setup) \subseteq Engine!Channels
  BY <1>1, EngineFrame DEF Ids, Indices
<1>3. \A k \in 1 .. Len(setup) : setup[k].pixels \in Nat
  BY BindingTypes DEF RInv, TypeOK
<1>4. ~ Oversized(setup)
  BY <1>1, <1>3 DEF Oversized, WireBytes
<1>5. QED BY <1>2, <1>4 DEF Engine!PlanErrors

\* A setup names a channel exactly if it is not empty.
LEMMA IdsEmpty ==
  ASSUME setup \in Seq(Bindings) PROVE Ids(setup) = {} <=> setup = <<>>
<1>1. setup = <<>> => Ids(setup) = {}
  BY DEF Ids
<1>2. setup # <<>> => 1 \in 1 .. Len(setup)
  OBVIOUS
<1>3. QED BY <1>1, <1>2 DEF Ids

\* A step that ends no configure_prepared call registers nothing.
LEMMA OtherStep ==
  ASSUME RInv, [Next]_vars, ~ ConfigureReturns
  PROVE  UNCHANGED <<lifecycle, RegisteredIds>>
<1>1. CASE FromBindings \/ \E b \in Bindings : Collect(b)
  BY <1>1 DEF FromBindings, Collect, Return, engineVars, RegisteredIds, Populated
<1>2. CASE Collected \/ Validate \/ Validated
  BY <1>2 DEF Collected, Validate, Validated, Return, setupVars, engineVars, RegisteredIds,
    Populated
<1>3. CASE ConfigurePrepared \/ Plan \/ BackendRefuses
  BY <1>3 DEF ConfigurePrepared, Plan, BackendRefuses, Return, ConfigureReturns, RegisteredIds,
    Populated
<1>4. CASE BackendConfigures
  <2>1. stage = "plan" /\ stage' = "commit" /\ lifecycle' = lifecycle /\ table = EmptyTable
    BY <1>4, PlanComplete DEF BackendConfigures, engineVars
  <2>2. QED BY <2>1 DEF RegisteredIds, Populated, EmptyTable
<1>5. CASE Commit
  BY <1>5 DEF Commit, Return, ConfigureReturns, RegisteredIds
<1>6. CASE Committed
  BY <1>6 DEF Committed, Return, ConfigureReturns
<1>7. CASE UNCHANGED vars
  BY <1>7 DEF vars, setupVars, engineVars, RegisteredIds, Populated
<1>8. QED BY <1>1, <1>2, <1>3, <1>4, <1>5, <1>6, <1>7 DEF Next

\* A step that ends one returns what LedDriver says it may.
LEMMA ReturnStep ==
  ASSUME RInv, RInv', Next, ConfigureReturns
  PROVE  Engine!ConfigurePrepared(Ids(setup), Oversized(setup))
<1> DEFINE ids == Ids(setup)
           oversized == Oversized(setup)
<1>1. /\ setup \in Seq(Bindings) /\ lifecycle \in {"Registering", "Ready"}
      /\ ids = {} <=> setup = <<>>
  BY IdsEmpty DEF RInv, TypeOK
<1>2. CASE ConfigurePrepared
  <2>1. \/ setup = <<>> /\ outcome' = "EmptyConfiguration"
        \/ setup # <<>> /\ lifecycle = "Ready" /\ outcome' = "AlreadyConfigured"
    BY <1>2 DEF ConfigurePrepared, ConfigureReturns, Return
  <2>2. UNCHANGED <<lifecycle, RegisteredIds>>
    BY <1>2 DEF ConfigurePrepared, ConfigureReturns, RegisteredIds, Populated
  <2>3. Engine!RejectSetup(outcome')
    BY <2>1, <2>2, ApiRefusal
  <2>4. QED BY <1>1, <2>1, <2>3 DEF Engine!ConfigurePrepared, Engine!Ready
<1>3. CASE Plan
  <2>1. /\ stage = "plan" /\ setup # <<>> /\ lifecycle # "Ready"
        /\ next <= Len(buf) /\ PlanError(buf[next]) # "Ok" /\ outcome' = PlanError(buf[next])
        /\ UNCHANGED <<setup, lifecycle, RegisteredIds>>
    BY <1>3 DEF RInv, LoopInvariant, Plan, ConfigureReturns, Return, RegisteredIds, Populated
  <2>2. outcome' \in {"ChannelOutOfRange", "ConfigurationLimitExceeded"}
    BY <2>1 DEF PlanError, RInv, OnlyGenuineRefusals
  <2>3. /\ outcome' = "ChannelOutOfRange" => OutOfRange(setup)
        /\ outcome' = "ConfigurationLimitExceeded" => Oversized(setup)
    BY <2>1 DEF RInv, OnlyGenuineRefusals, OutOfRange, Oversized
  <2>4. OutOfRange(setup) => ~ ids \subseteq Engine!Channels
    <3>1. \A k \in 1 .. Len(setup) : setup[k].logical \in Nat
      BY <1>1, BindingTypes
    <3>2. QED BY <3>1, EngineFrame DEF OutOfRange, Ids
  <2>5. outcome' \in Engine!PlanErrors(ids, oversized)
    BY <2>2, <2>3, <2>4 DEF Engine!PlanErrors
  <2>6. QED BY <1>1, <2>1, <2>5, ConfigureFailure
<1>4. CASE BackendRefuses
  <2>1. /\ PlanShape(Len(setup)) /\ setup # <<>> /\ lifecycle # "Ready"
        /\ UNCHANGED <<lifecycle, RegisteredIds>>
    BY <1>4, PlanComplete DEF BackendRefuses, ConfigureReturns, RegisteredIds, Populated
  <2>2. outcome' \in {"InvalidBinding", "TransportFault"}
    BY <1>4 DEF BackendRefuses, Return
  <2>3. QED BY <1>1, <2>1, <2>2, NoPlanErrors, ConfigureFailure
<1>5. CASE Committed
  <2>1. /\ PlanShape(Len(setup)) /\ setup # <<>> /\ lifecycle # "Ready"
        /\ lifecycle' = "Ready" /\ outcome' = "Ok" /\ stage' = "idle"
        /\ handles' = plan.handles
    BY <1>5 DEF RInv, LoopInvariant, Committed, Return
  <2>2. RegisteredIds' = ids
    <3>1. RegisteredIds' = Populated(plan.records)
      BY <2>1 DEF RInv, AtomicConfiguration, PlanShape, RegisteredIds, Populated
    <3>2. \A k \in 1 .. Len(setup) :
            setup[k].logical \in Indices /\ plan.records[setup[k].logical] # {}
      BY <2>1 DEF PlanShape, RInv, SetupWellFormed, WellFormed
    <3>3. \A i \in Indices : plan.records[i] # {} => \E k \in 1 .. Len(setup) : setup[k].logical = i
      BY <2>1 DEF PlanShape
    <3>4. QED BY <3>1, <3>2, <3>3 DEF Ids, Populated
  <2>3. Engine!Return("register", "Ok")
    BY <2>1 DEF Engine!Return
  <2>4. Engine!ConfigureCommitted(ids, oversized)
    BY <1>1, <2>1, <2>2, <2>3, NoPlanErrors, EngineFrame DEF Engine!ConfigureCommitted
  <2>5. QED BY <1>1, <2>1, <2>4 DEF Engine!ConfigurePrepared
<1>6. CASE Commit
  BY <1>6, CommitPosition DEF Commit, ConfigureReturns
<1>7. ~ FromBindings /\ (\A b \in Bindings : ~ Collect(b)) /\ ~ Collected /\ ~ Validate
        /\ ~ Validated /\ ~ BackendConfigures
  BY DEF ConfigureReturns, FromBindings, Collect, Collected, Validate, Validated,
    BackendConfigures
<1>8. QED BY <1>2, <1>3, <1>4, <1>5, <1>6, <1>7 DEF Next

\* Registration implements the one-step configuration of LedDriver: a call
\* returns what LedDriver says it may, and registers what it says, or nothing.
THEOREM ConfigureImplemented == Spec => ImplementsConfigure
<1> DEFINE Step ==
      IF ConfigureReturns THEN Engine!ConfigurePrepared(Ids(setup), Oversized(setup))
                          ELSE UNCHANGED <<lifecycle, RegisteredIds>>
<1>1. RInv /\ RInv' /\ [Next]_vars => [Step]_vars
  <2> SUFFICES ASSUME RInv, RInv', Next PROVE Step
    OBVIOUS
  <2>1. QED BY ReturnStep, OtherStep
<1> HIDE DEF Step
<1>2. Spec => [][Step]_vars
  BY <1>1, RegistrationInvariant, PTL DEF Spec
<1>3. QED BY <1>2 DEF ImplementsConfigure, Step

===============================================================================
