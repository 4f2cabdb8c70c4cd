----------------------------- MODULE Registration -----------------------------
(***************************************************************************)
(* How bindings become registered channels: PreparedSetup::from_bindings   *)
(* (api/setup.rs), then Driver::configure_prepared with the staged         *)
(* RegistrationPlan and the RegistrationTable (engine/registration.rs,     *)
(* engine/mod.rs), binding by binding, with a backend that may refuse the  *)
(* configuration halfway.  The firmware may build and configure again and  *)
(* again, after any failure and after success.                             *)
(*                                                                         *)
(* "stage" is where the call in progress stands; an Option is a set of at  *)
(* most one element.  The layout is opaque and left out.                   *)
(***************************************************************************)
EXTENDS Naturals, Sequences

CONSTANTS
  LogicalIds,         \* values a ChannelId can have
  BackendIds,         \* values a BackendChannelId can have
  PixelCounts,        \* values of PreparedBinding::pixels
  DriverMaxChannels,  \* DRIVER_MAX_CHANNELS
  MaxChannels,        \* engine.max_channels
  ByteLimit           \* Option: engine.max_bytes_per_channel

ASSUME RegistrationAssumption ==
  /\ LogicalIds \subseteq Nat
  /\ PixelCounts \subseteq Nat
  /\ DriverMaxChannels \in Nat
  /\ MaxChannels \in 0 .. DriverMaxChannels
  /\ ByteLimit \subseteq Nat

Bindings == [logical : LogicalIds, backend : BackendIds, pixels : PixelCounts]
Records  == [backend : BackendIds, pixels : PixelCounts]
Specs    == [channel : BackendIds, pixels : PixelCounts]
Indices  == 0 .. DriverMaxChannels - 1

VARIABLES
  stage,         \* "idle", or the loop the call in progress is in
  buf,           \* bindings collected by from_bindings, or walked by the plan
  next,          \* position of that loop in buf
  seenLogical,   \* seen_logical
  seenBackend,   \* seen_backend
  setup,         \* bindings of the PreparedSetup the firmware holds; it can
                 \* always build the empty one
  plan,          \* RegistrationPlan
  table,         \* RegistrationTable
  lifecycle,     \* EngineLifecycle, from Registering on
  backendSpecs,  \* what the backend is configured for
  handles,       \* logical channels of the handles the firmware received
  outcome        \* of the last call that returned; "none" while one runs

setupVars  == <<buf, next, seenLogical, seenBackend, setup>>
engineVars == <<plan, table, lifecycle>>
vars == <<stage, setupVars, engineVars, backendSpecs, handles, outcome>>

EmptyTable == [i \in Indices |-> {}]
EmptyPlan  == [handles |-> {}, records |-> EmptyTable, specs |-> <<>>, order |-> <<>>]
Populated(records) == {i \in Indices : records[i] # {}}

Init ==
  /\ stage = "idle"
  /\ buf = <<>> /\ next = 1 /\ seenLogical = {} /\ seenBackend = {}
  /\ setup = <<>>
  /\ plan = EmptyPlan /\ table = EmptyTable /\ lifecycle = "Registering"
  /\ backendSpecs = {}
  /\ handles = {}
  /\ outcome = "none"

\* A call returns: its locals are gone.
Return(reply) ==
  /\ outcome' = reply
  /\ stage' = "idle"
  /\ buf' = <<>> /\ next' = 1 /\ seenLogical' = {} /\ seenBackend' = {}
  /\ plan' = EmptyPlan

-----------------------------------------------------------------------------
(* PreparedSetup::from_bindings: collect from the iterator, then validate.  *)

FromBindings ==
  /\ stage = "idle"
  /\ stage' = "collect"
  /\ setup' = <<>>
  /\ outcome' = "none"
  /\ UNCHANGED <<buf, next, seenLogical, seenBackend, engineVars, backendSpecs, handles>>

Collect(b) ==
  /\ stage = "collect"
  /\ \/ /\ Len(buf) < DriverMaxChannels
        /\ buf' = Append(buf, b)
        /\ UNCHANGED <<stage, next, seenLogical, seenBackend, plan, outcome>>
     \/ Len(buf) = DriverMaxChannels /\ Return("CapacityExceeded")
  /\ UNCHANGED <<setup, table, lifecycle, backendSpecs, handles>>

Collected ==
  /\ stage = "collect"
  /\ stage' = "validate"
  /\ UNCHANGED <<setupVars, engineVars, backendSpecs, handles, outcome>>

\* Mutant: backend channels are not compared with each other.
BindingError_BackendReused(b) ==
  IF b.logical >= DriverMaxChannels THEN "InvalidLogicalChannel"
  ELSE IF b.logical \in seenLogical THEN "DuplicateLogicalChannel"
  ELSE IF b.pixels = 0              THEN "InvalidPixelCount"
  ELSE "Ok"

\* The checks on one binding, in the order of the code.
BindingError(b) ==
  IF b.logical >= DriverMaxChannels THEN "InvalidLogicalChannel"
  ELSE IF b.logical \in seenLogical THEN "DuplicateLogicalChannel"
  ELSE IF b.backend \in seenBackend THEN "DuplicateBackendChannel"
  ELSE IF b.pixels = 0              THEN "InvalidPixelCount"
  ELSE "Ok"

Validate ==
  /\ stage = "validate"
  /\ next <= Len(buf)
  /\ \/ /\ BindingError(buf[next]) = "Ok"
        /\ seenLogical' = seenLogical \cup {buf[next].logical}
        /\ seenBackend' = seenBackend \cup {buf[next].backend}
        /\ next' = next + 1
        /\ UNCHANGED <<stage, buf, plan, outcome>>
     \/ BindingError(buf[next]) # "Ok" /\ Return(BindingError(buf[next]))
  /\ UNCHANGED <<setup, table, lifecycle, backendSpecs, handles>>

Validated ==
  /\ stage = "validate"
  /\ next > Len(buf)
  /\ setup' = buf
  /\ Return("Ok")
  /\ UNCHANGED <<table, lifecycle, backendSpecs, handles>>

-----------------------------------------------------------------------------
(* Driver::configure_prepared: plan, backend, commit, enter Ready.          *)

ConfigurePrepared ==
  /\ stage = "idle"
  /\ \/ setup = <<>> /\ Return("EmptyConfiguration")
     \/ setup # <<>> /\ lifecycle = "Ready" /\ Return("AlreadyConfigured")
     \/ /\ setup # <<>> /\ lifecycle # "Ready"
        /\ stage' = "plan" /\ buf' = setup /\ outcome' = "none"
        /\ UNCHANGED <<next, seenLogical, seenBackend, plan>>
  /\ UNCHANGED <<setup, table, lifecycle, backendSpecs, handles>>

WireBytes(pixels) == 3 * pixels

\* Mutant: the byte limit is not checked while planning.
PlanError_NoByteLimit(b) ==
  IF b.logical >= MaxChannels THEN "ChannelOutOfRange"
  ELSE IF plan.records[b.logical] # {} THEN "ChannelAlreadyRegistered"
  ELSE "Ok"

\* Mutant: a channel of exactly the limit is refused.
PlanError_LimitOffByOne(b) ==
  IF b.logical >= MaxChannels THEN "ChannelOutOfRange"
  ELSE IF plan.records[b.logical] # {} THEN "ChannelAlreadyRegistered"
  ELSE IF \E max \in ByteLimit : WireBytes(b.pixels) >= max
       THEN "ConfigurationLimitExceeded"
  ELSE "Ok"

\* The checks on one binding; the last arm stands for the two full vectors.
PlanError(b) ==
  IF b.logical >= MaxChannels THEN "ChannelOutOfRange"
  ELSE IF plan.records[b.logical] # {} THEN "ChannelAlreadyRegistered"
  ELSE IF \E max \in ByteLimit : WireBytes(b.pixels) > max
       THEN "ConfigurationLimitExceeded"
  ELSE IF Len(plan.specs) >= DriverMaxChannels THEN "ConfigurationLimitExceeded"
  ELSE "Ok"

RecordOf(b) == [backend |-> b.backend, pixels |-> b.pixels]

\* Mutant: the spec names the logical channel's index instead of the target.
SpecOf_LogicalChannel(b) == [channel |-> b.logical, pixels |-> b.pixels]

SpecOf(b) == [channel |-> b.backend, pixels |-> b.pixels]

Staged(b) ==
  [handles |-> plan.handles \cup {b.logical},
   records |-> [plan.records EXCEPT ![b.logical] = {RecordOf(b)}],
   specs   |-> Append(plan.specs, SpecOf(b)),
   order   |-> Append(plan.order, b.logical)]

Plan ==
  /\ stage = "plan"
  /\ next <= Len(buf)
  /\ \/ /\ PlanError(buf[next]) = "Ok"
        /\ plan' = Staged(buf[next])
        /\ next' = next + 1
        /\ UNCHANGED <<stage, buf, seenLogical, seenBackend, outcome>>
     \/ PlanError(buf[next]) # "Ok" /\ Return(PlanError(buf[next]))
  /\ UNCHANGED <<setup, table, lifecycle, backendSpecs, handles>>

PlanSpecs == {plan.specs[i] : i \in 1 .. Len(plan.specs)}

\* Mutant: the plan is committed before the backend has answered.
BackendRefuses_AfterCommit ==
  /\ stage = "plan"
  /\ next > Len(buf)
  /\ table' = plan.records
  /\ backendSpecs' \in SUBSET PlanSpecs
  /\ \E fault \in {"InvalidBinding", "TransportFault"} : Return(fault)
  /\ UNCHANGED <<setup, lifecycle, handles>>

\* configure_channels fails, perhaps with part of the specs applied.
BackendRefuses ==
  /\ stage = "plan"
  /\ next > Len(buf)
  /\ backendSpecs' \in SUBSET PlanSpecs
  /\ \E fault \in {"InvalidBinding", "TransportFault"} : Return(fault)
  /\ UNCHANGED <<setup, table, lifecycle, handles>>

BackendConfigures ==
  /\ stage = "plan"
  /\ next > Len(buf)
  /\ backendSpecs' = PlanSpecs
  /\ stage' = "commit"
  /\ next' = 1
  /\ UNCHANGED <<buf, seenLogical, seenBackend, setup, engineVars, handles, outcome>>

\* RegistrationTable::register
RegisterError(index) ==
  IF index >= MaxChannels THEN "ChannelOutOfRange"
  ELSE IF table[index] # {} THEN "ChannelAlreadyRegistered" ELSE "Ok"

\* commit_plan, one staged record after the other.
Commit ==
  /\ stage = "commit"
  /\ next <= Len(plan.order)
  /\ LET index == plan.order[next] IN
       \/ /\ RegisterError(index) = "Ok"
          /\ table' = [table EXCEPT ![index] = plan.records[index]]
          /\ next' = next + 1
          /\ UNCHANGED <<stage, buf, seenLogical, seenBackend, plan, outcome>>
       \/ /\ RegisterError(index) # "Ok"
          /\ Return(RegisterError(index))
          /\ UNCHANGED table
  /\ UNCHANGED <<setup, lifecycle, backendSpecs, handles>>

Committed ==
  /\ stage = "commit"
  /\ next > Len(plan.order)
  /\ lifecycle' = "Ready"
  /\ handles' = plan.handles
  /\ Return("Ok")
  /\ UNCHANGED <<setup, table, backendSpecs>>

Next ==
  \/ FromBindings
  \/ \E b \in Bindings : Collect(b)
  \/ Collected
  \/ Validate
  \/ Validated
  \/ ConfigurePrepared
  \/ Plan
  \/ BackendRefuses
  \/ BackendConfigures
  \/ Commit
  \/ Committed

Spec == Init /\ [][Next]_vars

TypeOK ==
  /\ stage \in {"idle", "collect", "validate", "plan", "commit"}
  /\ buf \in Seq(Bindings) /\ setup \in Seq(Bindings)
  /\ next \in Nat \ {0}
  /\ seenLogical \subseteq LogicalIds /\ seenBackend \subseteq BackendIds
  /\ plan \in [handles : SUBSET Indices, records : [Indices -> SUBSET Records],
               specs : Seq(Specs), order : Seq(Indices)]
  /\ table \in [Indices -> SUBSET Records]
  /\ lifecycle \in {"Registering", "Ready"}
  /\ backendSpecs \subseteq Specs
  /\ handles \subseteq Indices
  /\ outcome \in {"none", "Ok", "CapacityExceeded", "InvalidLogicalChannel",
       "DuplicateLogicalChannel", "DuplicateBackendChannel", "InvalidPixelCount",
       "EmptyConfiguration", "AlreadyConfigured", "ChannelOutOfRange",
       "ChannelAlreadyRegistered", "ConfigurationLimitExceeded",
       "InvalidBinding", "TransportFault"}

-----------------------------------------------------------------------------

\* A one-to-one map from logical to backend channels, each with pixels, that
\* fits the driver.
WellFormed(bindings) ==
  /\ Len(bindings) <= DriverMaxChannels
  /\ \A i \in 1 .. Len(bindings) :
       bindings[i].logical \in Indices /\ bindings[i].pixels > 0
  /\ \A i, j \in 1 .. Len(bindings) : i # j =>
       /\ bindings[i].logical # bindings[j].logical
       /\ bindings[i].backend # bindings[j].backend

\* Whatever iterator from_bindings is given, the PreparedSetup it makes is well
\* formed: the marks of the single pass stand for the comparison of all pairs.
SetupWellFormed == WellFormed(setup)

\* The bindings of a setup that configuration must refuse.
OutOfRange(bindings) ==
  \E i \in 1 .. Len(bindings) : bindings[i].logical >= MaxChannels
Oversized(bindings) ==
  \E i \in 1 .. Len(bindings) : \E max \in ByteLimit : WireBytes(bindings[i].pixels) > max

\* Planning fails for no other reason than these two: the duplicate and
\* capacity errors of the plan and of the table are unreachable from a prepared
\* setup.  In particular commit_plan cannot fail once the backend has accepted.
OnlyGenuineRefusals ==
  /\ outcome # "ChannelAlreadyRegistered"
  /\ outcome = "ChannelOutOfRange" => OutOfRange(setup)
  /\ outcome = "ConfigurationLimitExceeded" => Oversized(setup)

\* driver.rs: "Atomically applies one validated setup": outside the commit
\* itself the table and the handles are all there, or, after any number of
\* failed attempts, both still empty, so that the next attempt starts afresh.
AtomicConfiguration ==
  /\ handles = IF lifecycle = "Ready" THEN Populated(table) ELSE {}
  /\ stage # "commit" => (lifecycle = "Ready") = (table # EmptyTable)

\* A Ready engine and its backend agree: the backend is configured for exactly
\* the targets of the table, and no two channels share a target (so a target
\* can stand for its channel, as in LedBackend).
BackendAgrees ==
  lifecycle = "Ready" =>
    /\ backendSpecs =
         {[channel |-> r.backend, pixels |-> r.pixels] : r \in UNION {table[i] : i \in Indices}}
    /\ \A i, j \in Indices : \A r \in table[i], s \in table[j] :
         r.backend = s.backend => i = j

\* backend.rs: configurations over the byte limit are rejected "before backend
\* mutation", in every attempt.
LimitsBeforeBackend ==
  \A s \in backendSpecs : \A max \in ByteLimit : WireBytes(s.pixels) <= max

===============================================================================
