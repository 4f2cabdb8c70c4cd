------------------------------- MODULE LedEngine -------------------------------
(***************************************************************************)
(* The engine (src/engine): lifecycle, registration table and the runtime  *)
(* state machine, one action per engine entry point or per step of one.    *)
(*                                                                         *)
(* Every entry point takes &mut self.  An entry point whose backend call   *)
(* the hardware can overtake is split at that call: "call" is the stage of *)
(* the public call that still holds the exclusive borrow, and only the     *)
(* hardware steps of LedBackend may come in between.                       *)
(***************************************************************************)
EXTENDS LedBackend, FiniteSets

CONSTANT DriverMaxChannels   \* DRIVER_MAX_CHANNELS: bound of a logical channel id

ASSUME EngineAssumption ==
  /\ DriverMaxChannels \in Nat
  /\ MaxChannels <= DriverMaxChannels

LogicalChannels == 0 .. DriverMaxChannels - 1

VARIABLES
  lifecycle,   \* EngineLifecycle
  registered,  \* indices of the populated registration records
  phase,       \* frame_phase of each record
  transfer,    \* TransferState: Idle or InFlight{dma_complete_pending, submitted_mask}
  dirty,       \* channels published since the last commit
  pending,     \* committed channels the transport has not accepted
  violation,   \* latched ingress contract violation
  call,        \* the public call that holds the exclusive borrow, and its stage
  result       \* boundary and outcome of the last engine or API call that returned

registryVars == <<lifecycle, registered>>
readyVars    == <<transfer, dirty, pending, violation>>
engineVars   == <<registryVars, phase, readyVars, call, result>>

Idle == [inFlight |-> FALSE, dmaComplete |-> FALSE, submitted |-> {}]
InFlight(batch) == [inFlight |-> TRUE, dmaComplete |-> FALSE, submitted |-> batch]

\* Stages of a call: no call; write_rgb48 holding a lease on "target" for the
\* channel in "batch"; write_rgb48 between publish and mark_channel_published;
\* service between StartTransfer::Started and recording it.
Stages == {"none", "leased", "published", "accepted"}
NoCall == [at |-> "none", batch |-> {}, target |-> {}, phase |-> 0]
Free   == call = NoCall

Ready == lifecycle = "Ready"

BackendFaults == {"InvalidBinding", "TransportFault"}
ContractViolations ==
  {"WrongChannelReturned", "WrongTargetLength", "TransferCompleteWhileIdle"}
EngineErrors ==
  {"InvalidState", "ChannelOutOfRange", "ChannelNotRegistered",
   "ChannelAlreadyRegistered", "ConfigurationLimitExceeded",
   "SourceLengthMismatch", "WriteBusy"} \cup ContractViolations \cup BackendFaults

Return(boundary, outcome) == result' = [at |-> boundary, err |-> outcome]

-----------------------------------------------------------------------------
(* Lifecycle and registration.                                             *)

EngineInit ==
  /\ lifecycle = "Uninitialized"
  /\ registered = {}
  /\ phase = [c \in Channels |-> 0]
  /\ transfer = Idle
  /\ dirty = {}
  /\ pending = {}
  /\ violation = FALSE
  /\ call = NoCall
  /\ result = [at |-> "none", err |-> "Ok"]

\* LedEngine::init: only a successful backend init leaves Uninitialized.
InitBackend(reply) ==
  /\ lifecycle' = IF reply = "Ok" THEN "Registering" ELSE lifecycle
  /\ Return("init", reply)
  /\ UNCHANGED <<registered, phase, readyVars, call, backendVars>>

\* What planning a setup can fail with: ids are its logical channels, and
\* oversized says that some binding exceeds max_bytes_per_channel.
PlanErrors(ids, oversized) ==
  {e \in {"ChannelOutOfRange", "ConfigurationLimitExceeded"} :
     \/ e = "ChannelOutOfRange" /\ ~ ids \subseteq Channels
     \/ e = "ConfigurationLimitExceeded" /\ oversized}

\* configure_prepared: plan, then the backend, and only then the local table.
ConfigureRejected(ids, oversized) ==
  /\ lifecycle = "Registering"
  /\ \E e \in PlanErrors(ids, oversized) : Return("register", e)
  /\ UNCHANGED <<registryVars, phase, readyVars, call, backendVars>>

ConfigureBackendFailed(ids, oversized) ==
  /\ lifecycle = "Registering"
  /\ PlanErrors(ids, oversized) = {}
  /\ \E fault \in BackendFaults : Return("register", fault)
  /\ UNCHANGED <<registryVars, phase, readyVars, call, backendVars>>

ConfigureCommitted(ids, oversized) ==
  /\ lifecycle = "Registering"
  /\ PlanErrors(ids, oversized) = {}
  /\ registered' = ids
  /\ lifecycle' = "Ready"
  /\ Return("register", "Ok")
  /\ UNCHANGED <<phase, readyVars, call, backendVars>>

\* Mutant: only the range of the index is checked.
RecordError_RangeOnly(c) == IF c < MaxChannels THEN "Ok" ELSE "ChannelOutOfRange"

\* RegistrationTable::record: how a channel index resolves.
RecordError(c) ==
  IF c \in registered THEN "Ok"
  ELSE IF c >= MaxChannels THEN "ChannelOutOfRange" ELSE "ChannelNotRegistered"

-----------------------------------------------------------------------------
(* The latch: every runtime entry point first surfaces a violation.        *)

\* Mutant: entry points do not look at the latch.
Latched_Ignored == FALSE

Latched == Ready /\ violation

SurfaceLatched(boundary) ==
  /\ Latched
  /\ violation' = FALSE
  /\ Return(boundary, "TransferCompleteWhileIdle")
  /\ UNCHANGED <<registryVars, phase, transfer, dirty, pending, call, backendVars>>

-----------------------------------------------------------------------------
(* acquire_prepared_write(c), then pack and publish on the lease.           *)

AcquireUnregistered(c) ==
  /\ ~ Latched
  /\ RecordError(c) # "Ok"
  /\ Return("prepare", RecordError(c))
  /\ UNCHANGED <<registryVars, phase, readyVars, call, backendVars>>

AcquireRefused(c) ==
  /\ ~ Latched
  /\ RecordError(c) = "Ok"
  /\ \E reply \in {"WriteBusy"} \cup BackendFaults : Return("prepare", reply)
  /\ UNCHANGED <<registryVars, phase, readyVars, call, backendVars>>

\* Mutant: the lease's channel is not compared with the one asked for.
LeaseFault_AnyChannel(c, target, exactLength) ==
  IF exactLength THEN "Ok" ELSE "WrongTargetLength"

\* The checks on the lease the backend returned: it must be for the channel
\* asked for and expose exactly the channel's wire bytes.
LeaseFault(c, target, exactLength) ==
  IF target # c THEN "WrongChannelReturned"
  ELSE IF exactLength THEN "Ok" ELSE "WrongTargetLength"

\* A lease that fails them is dropped, which aborts it.  A lease that names
\* another channel may hold the target of either.
AcquireMismatched(c, target, exactLength) ==
  /\ ~ Latched
  /\ RecordError(c) = "Ok"
  /\ LeaseFault(c, target, exactLength) # "Ok"
  /\ \E granted \in {c, target} : AbortedAcquire(granted)
  /\ Return("prepare", LeaseFault(c, target, exactLength))
  /\ UNCHANGED <<registryVars, phase, readyVars, call>>

\* The PreparedWrite captures the frame phase it will pack for.
AcquireReady(c, target, exactLength) ==
  /\ ~ Latched
  /\ RecordError(c) = "Ok"
  /\ LeaseFault(c, target, exactLength) = "Ok"
  /\ AcquireWriteTarget(target)
  /\ call' = [at |-> "leased", batch |-> {c}, target |-> {target}, phase |-> phase[c]]
  /\ UNCHANGED <<registryVars, phase, readyVars, result>>

\* A length mismatch found by packing, or a failed publish: the write is
\* dropped unpublished.
AbortWrite ==
  /\ call.at = "leased"
  /\ DropLease(call.target)
  /\ \/ Return("pack", "SourceLengthMismatch")
     \/ \E fault \in BackendFaults : Return("publish", fault)
  /\ call' = NoCall
  /\ UNCHANGED <<registryVars, phase, readyVars>>

PublishWrite ==
  /\ call.at = "leased"
  /\ PublishLease(call.target, call.phase)
  /\ call' = [call EXCEPT !.at = "published"]
  /\ UNCHANGED <<registryVars, phase, readyVars, result>>

\* mark_channel_published, which write_rgb48 runs after the publish: a latched
\* violation or an unknown channel would fail it with the frame already out.
MarkError ==
  IF Latched THEN "TransferCompleteWhileIdle"
  ELSE IF \A c \in call.batch : RecordError(c) = "Ok" THEN "Ok"
  ELSE "ChannelNotRegistered"

MarkChannelPublished ==
  /\ call.at = "published"
  /\ violation' = FALSE
  /\ dirty' = IF MarkError = "Ok" THEN dirty \cup call.batch ELSE dirty
  /\ Return("mark", MarkError)
  /\ call' = NoCall
  /\ UNCHANGED <<registryVars, phase, transfer, pending, backendVars>>

-----------------------------------------------------------------------------
(* submit_dirty: dirty_mask is promoted into pending_mask.                  *)

SubmitDirtyNotReady ==
  /\ ~ Ready
  /\ Return("commit", "InvalidState")
  /\ UNCHANGED <<registryVars, phase, readyVars, call, backendVars>>

\* Mutant: the new commit replaces the one the transport has not accepted yet.
SubmitDirty_Overwrites ==
  /\ Ready /\ ~ Latched
  /\ pending' = IF dirty = {} THEN pending ELSE dirty
  /\ dirty' = {}
  /\ Return("commit", "Ok")
  /\ UNCHANGED <<registryVars, phase, transfer, violation, call, backendVars>>

\* Mutant: a commit leaves the dirty bits set.
SubmitDirty_KeepsDirty ==
  /\ Ready /\ ~ Latched
  /\ pending' = pending \cup dirty
  /\ Return("commit", "Ok")
  /\ UNCHANGED <<registryVars, phase, transfer, dirty, violation, call, backendVars>>

SubmitDirty ==
  /\ Ready /\ ~ Latched
  /\ pending' = pending \cup dirty
  /\ dirty' = {}
  /\ Return("commit", "Ok")
  /\ UNCHANGED <<registryVars, phase, transfer, violation, call, backendVars>>

-----------------------------------------------------------------------------
(* service: complete_in_flight_if_ready, then try_start_pending_submit.     *)

ServiceNotReady ==
  /\ ~ Ready
  /\ Return("service", "InvalidState")
  /\ UNCHANGED <<registryVars, phase, readyVars, call, backendVars>>

\* Mutant: the transfer is cleared without waiting for its completion.
Completed_TooEarly == Idle

\* Mutant: a signalled completion is never cleared.
Completed_Never == transfer

\* The transfer state once a signalled completion has been cleared.
Completed == IF transfer.inFlight /\ transfer.dmaComplete THEN Idle ELSE transfer

\* The batch to submit: pending channels that are registered.
Submittable == pending \cap registered

ServiceWithoutSubmit ==
  /\ Ready /\ ~ Latched
  /\ Completed # Idle \/ Submittable = {}
  /\ transfer' = Completed
  /\ Return("service", "Ok")
  /\ UNCHANGED <<registryVars, phase, dirty, pending, violation, call, backendVars>>

\* Mutant: the batch is taken out of pending before the transport answers.
ServiceNotAccepted_DropsBatch ==
  /\ Ready /\ ~ Latched
  /\ Completed = Idle /\ Submittable # {}
  /\ transfer' = Idle
  /\ pending' = pending \ Submittable
  /\ \E reply \in {"Ok"} \cup BackendFaults : Return("service", reply)
  /\ UNCHANGED <<registryVars, phase, dirty, violation, call, backendVars>>

\* submit_channels is Busy or fails: the pending batch stays for a retry.
ServiceNotAccepted ==
  /\ Ready /\ ~ Latched
  /\ Completed = Idle /\ Submittable # {}
  /\ transfer' = Idle
  /\ \E reply \in {"Ok"} \cup BackendFaults : Return("service", reply)
  /\ UNCHANGED <<registryVars, phase, dirty, pending, violation, call, backendVars>>

\* submit_channels returns Started: from here on the transport owns the batch.
ServiceAccepted ==
  /\ Ready /\ ~ Latched
  /\ Completed = Idle /\ Submittable # {}
  /\ transfer' = Idle
  /\ SubmitChannels(Submittable)
  /\ call' = [at |-> "accepted", batch |-> Submittable, target |-> {}, phase |-> 0]
  /\ UNCHANGED <<registryVars, phase, dirty, pending, violation, result>>

\* Mutant: the epoch does not wrap.
AdvancePhase_NoWrap(p) == p + 1

AdvancePhase(p) == (p + 1) % PhaseModulus

\* Mutant: every channel advances, not only those of the batch.
Advanced_Everywhere(batch) == [c \in Channels |-> AdvancePhase(phase[c])]

Advanced(batch) ==
  [c \in Channels |-> IF c \in batch THEN AdvancePhase(phase[c]) ELSE phase[c]]

\* Mutant: the pending bits of the accepted batch are not cleared.
RecordStarted_KeepsPending ==
  /\ call.at = "accepted"
  /\ transfer' = InFlight(call.batch)
  /\ phase' = Advanced(call.batch)
  /\ Return("service", "Ok")
  /\ call' = NoCall
  /\ UNCHANGED <<registryVars, dirty, pending, violation, backendVars>>

\* ... and the engine records it: InFlight, pending bits, one phase per channel.
RecordStarted ==
  /\ call.at = "accepted"
  /\ transfer' = InFlight(call.batch)
  /\ pending' = pending \ call.batch
  /\ phase' = Advanced(call.batch)
  /\ Return("service", "Ok")
  /\ call' = NoCall
  /\ UNCHANGED <<registryVars, dirty, violation, backendVars>>

-----------------------------------------------------------------------------
(* Ingress.                                                                *)

\* Mutant: an event in flight is forwarded to the backend but not recorded.
OnBackendEvent_NotRecorded ==
  /\ TakeEvent
  /\ violation' = (violation \/ (Ready /\ ~ transfer.inFlight))
  /\ UNCHANGED <<registryVars, phase, transfer, dirty, pending, call, result>>

\* on_backend_event(TransferComplete); before Ready it is ignored.
OnBackendEvent ==
  /\ TakeEvent
  /\ transfer' = IF Ready /\ transfer.inFlight
                 THEN [transfer EXCEPT !.dmaComplete = TRUE] ELSE transfer
  /\ violation' = (violation \/ (Ready /\ ~ transfer.inFlight))
  /\ UNCHANGED <<registryVars, phase, dirty, pending, call, result>>

\* on_backend_signal only forwards; the backend may raise an event.
OnBackendSignal ==
  /\ TranslateSignal
  /\ UNCHANGED engineVars

EngineTypeOK ==
  /\ lifecycle \in {"Uninitialized", "Registering", "Ready"}
  /\ registered \subseteq Channels
  /\ phase \in [Channels -> Phases]
  /\ transfer \in [inFlight : BOOLEAN, dmaComplete : BOOLEAN,
                   submitted : SUBSET Channels]
  /\ dirty \subseteq Channels
  /\ pending \subseteq Channels
  /\ violation \in BOOLEAN
  /\ call \in [at : Stages, batch : SUBSET Channels,
               target : SUBSET Channels, phase : Phases]
  /\ result \in [at : {"none", "api", "init", "register", "prepare", "pack",
                       "publish", "mark", "commit", "service"},
                 err : EngineErrors \cup {"Ok", "EmptyConfiguration",
                                          "AlreadyConfigured", "InvalidChannel"}]

===============================================================================
