------------------------------- MODULE LedDriver -------------------------------
(***************************************************************************)
(* The public driver (api/driver.rs) over the engine and a backend: the    *)
(* typestate, channel handles, the single-shot configuration, the write,   *)
(* commit and service calls, and the ingress the firmware forwards.        *)
(*                                                                         *)
(* The firmware may call anything the typestate and the borrow of          *)
(* &mut Driver let it call, in any order; the transport runs on its own.   *)
(***************************************************************************)
EXTENDS LedEngine

CONSTANTS
  DebugAssertions,  \* the build: TRUE keeps debug_assert!, which then panics
  IdsWrapped        \* another driver's handle may carry this driver's id, which
                    \* the id allocator allows after 2^32 - 1 allocations

ASSUME DriverAssumption ==
  /\ DebugAssertions \in BOOLEAN
  /\ IdsWrapped \in BOOLEAN

VARIABLE typestate   \* of the Driver value the firmware holds, "None" without one

vars == <<typestate, engineVars, backendVars>>

-----------------------------------------------------------------------------
(* error_map.rs: the engine errors each boundary enumerates, with the       *)
(* public category of each.                                                *)

PublicCategory(boundary, err) ==
  CASE err = "InvalidBinding" /\ boundary = "register"      -> "InvalidBinding"
    [] err \in BackendFaults                                -> "Backend"
    [] err = "ChannelAlreadyRegistered"                     -> "DuplicateChannel"
    [] err \in ContractViolations /\ boundary = "register"  -> "InvalidBinding"
    [] err \in ContractViolations                           -> "BackendContract"
    [] err = "WriteBusy"                                    -> "Busy"
    [] err = "SourceLengthMismatch"                         -> "LengthMismatch"
    [] err \in {"ChannelOutOfRange", "ConfigurationLimitExceeded"}
         /\ boundary = "register"                           -> "InvalidBinding"
    [] err \in {"ChannelOutOfRange", "ChannelNotRegistered"} -> "InvalidChannel"
    [] OTHER                                                -> err

RuntimeErrors == ContractViolations \cup BackendFaults
ChannelErrors == {"ChannelOutOfRange", "ChannelNotRegistered"}

\* Mutant: the prepare boundary forgets that a target may be busy.
Enumerated_WithoutBusy(boundary) ==
  CASE boundary = "init"     -> BackendFaults
    [] boundary = "register" -> RuntimeErrors \cup
         {"ChannelOutOfRange", "ChannelAlreadyRegistered", "ConfigurationLimitExceeded"}
    [] boundary = "prepare"  -> RuntimeErrors \cup ChannelErrors
    [] boundary = "pack"     -> RuntimeErrors \cup {"SourceLengthMismatch"}
    [] boundary \in {"publish", "mark", "commit"} -> RuntimeErrors \cup ChannelErrors
    [] boundary = "service"  -> RuntimeErrors
    [] OTHER                 -> {}

Enumerated(boundary) ==
  CASE boundary = "init"     -> BackendFaults
    [] boundary = "register" -> RuntimeErrors \cup
         {"ChannelOutOfRange", "ChannelAlreadyRegistered", "ConfigurationLimitExceeded"}
    [] boundary = "prepare"  -> RuntimeErrors \cup ChannelErrors \cup {"WriteBusy"}
    [] boundary = "pack"     -> RuntimeErrors \cup {"SourceLengthMismatch"}
    [] boundary \in {"publish", "mark", "commit"} -> RuntimeErrors \cup ChannelErrors
    [] boundary = "service"  -> RuntimeErrors
    [] OTHER                 -> {}

\* The public outcome; unexpected_engine_error falls back to Backend.
PublicResult(r) ==
  IF r.err = "Ok" \/ r.at = "api" THEN r.err
  ELSE IF r.err \in Enumerated(r.at) THEN PublicCategory(r.at, r.err) ELSE "Backend"

-----------------------------------------------------------------------------
(* Configuring.                                                            *)

New ==
  /\ typestate = "None"
  /\ \E reply \in BackendFaults \cup {"Ok"} :
       /\ InitBackend(reply)
       /\ typestate' = IF reply = "Ok" THEN "Configuring" ELSE "None"

RejectSetup(reason) ==
  /\ Return("api", reason)
  /\ UNCHANGED <<registryVars, phase, readyVars, call, backendVars>>

ConfigurePrepared(ids, oversized) ==
  /\ typestate = "Configuring"
  /\ \/ ids = {} /\ RejectSetup("EmptyConfiguration")
     \/ ids # {} /\ Ready /\ RejectSetup("AlreadyConfigured")
     \/ ids # {} /\ ConfigureRejected(ids, oversized)
     \/ ids # {} /\ ConfigureBackendFailed(ids, oversized)
     \/ ids # {} /\ ConfigureCommitted(ids, oversized)
  /\ UNCHANGED typestate

\* Mutant: the build does not matter, nothing checks the configuration.
Finalize_Unchecked ==
  /\ typestate = "Configuring"
  /\ typestate' = "Ready"
  /\ UNCHANGED <<engineVars, backendVars>>

\* In a debug build finalizing an unconfigured driver panics: no such step.
Finalize ==
  /\ typestate = "Configuring"
  /\ DebugAssertions => Ready
  /\ typestate' = "Ready"
  /\ UNCHANGED <<engineVars, backendVars>>

-----------------------------------------------------------------------------
(* Running: each of these starts a call on &mut Driver<_, Ready>.           *)

\* Mutant: calls and ingress do not wait for the call in progress.
CanCall_SharedBorrow == typestate = "Ready"

CanCall == typestate = "Ready" /\ Free

\* channel(handle): a handle of another driver is refused by its owner id.
ForeignHandle ==
  /\ CanCall
  /\ RejectSetup("InvalidChannel")
  /\ UNCHANGED typestate

\* The indices a handle carrying this driver's id can name.
HandleIndices == IF IdsWrapped THEN LogicalChannels ELSE registered

\* channel(handle)?.write_rgb48(pixels) up to the lease.
WriteRgb48(c) ==
  /\ CanCall
  /\ c \in HandleIndices
  /\ \/ SurfaceLatched("prepare")
     \/ AcquireUnregistered(c)
     \/ AcquireRefused(c)
     \/ \E target \in Channels, exactLength \in BOOLEAN :
          AcquireMismatched(c, target, exactLength) \/ AcquireReady(c, target, exactLength)
  /\ UNCHANGED typestate

FinishWrite ==
  /\ AbortWrite \/ PublishWrite \/ MarkChannelPublished
  /\ UNCHANGED typestate

Commit ==
  /\ CanCall
  /\ SurfaceLatched("commit") \/ SubmitDirtyNotReady \/ SubmitDirty
  /\ UNCHANGED typestate

\* service() when the transport, if asked, does not take the batch.
ServiceIdle ==
  /\ CanCall
  /\ SurfaceLatched("service") \/ ServiceNotReady \/ ServiceWithoutSubmit
       \/ ServiceNotAccepted
  /\ UNCHANGED typestate

\* service() when it does.
ServiceStart ==
  /\ CanCall
  /\ ServiceAccepted
  /\ UNCHANGED typestate

FinishService == RecordStarted /\ UNCHANGED typestate

\* Ingress needs &mut Driver too: an interrupt handler has to wait for it.
BackendEvent  == CanCall /\ OnBackendEvent /\ UNCHANGED typestate
BackendSignal == CanCall /\ OnBackendSignal /\ UNCHANGED typestate

Hardware ==
  /\ FinishBatch \/ RaiseSpurious
  /\ UNCHANGED <<typestate, engineVars>>

-----------------------------------------------------------------------------

Init == typestate = "None" /\ EngineInit /\ BackendInit

Next ==
  \/ New
  \/ \E ids \in SUBSET LogicalChannels, oversized \in BOOLEAN :
       ConfigurePrepared(ids, oversized)
  \/ Finalize
  \/ ForeignHandle
  \/ \E c \in LogicalChannels : WriteRgb48(c)
  \/ FinishWrite
  \/ Commit
  \/ ServiceIdle
  \/ ServiceStart
  \/ FinishService
  \/ BackendEvent
  \/ BackendSignal
  \/ Hardware

Spec == Init /\ [][Next]_vars

TypeOK ==
  /\ typestate \in {"None", "Configuring", "Ready"}
  /\ EngineTypeOK
  /\ BackendTypeOK

-----------------------------------------------------------------------------
(* Safety.                                                                 *)

\* Channels with a published frame the transport has not accepted.
Waiting == {c \in Channels : frame[c] # NoFrame}

\* Channels whose frame is out and whose dirty bit follows, and channels the
\* transport has accepted and whose pending bit is about to be cleared.
Marking   == IF call.at = "published" THEN call.batch ELSE {}
Recording == IF call.at = "accepted" THEN call.batch ELSE {}

\* No published frame is ever forgotten: while one waits in a write target, its
\* channel is dirty, pending, or just about to be marked by the write_rgb48
\* that published it.  A latched violation failing mark_channel_published, a
\* Busy transport or a lease for another channel would break it.
NoLostFrame ==
  Waiting \subseteq dirty \cup pending \cup Marking

\* A waiting frame was packed for the phase its channel still has, although the
\* phase is read when the lease is acquired and used when it is published.
FramePhaseCurrent == \A c \in Waiting : frame[c] = phase[c]

\* With a backend that keeps the contract the transport never holds two
\* batches, and the engine's view of it is exact: the batch on the wire is the
\* submitted_mask of InFlight, not complete, or is just being recorded so.
TransferOwnership ==
  spurious = 0 /\ wire # <<>> =>
    /\ Len(wire) = 1
    /\ \/ call.at = "accepted" /\ call.batch = Head(wire) /\ transfer = Idle
       \/ transfer = InFlight(Head(wire))

\* Each completion reported in breach of the contract lets at most one batch
\* more onto the wire, however many of the real completions are lost.
OverrunBounded == Len(wire) <= 1 + spurious

\* A backend that keeps the contract is never accused of a completion while
\* idle, however late its event or signal is delivered.
NoFalseAccusation ==
  spurious = 0 => ~ violation /\ result.err # "TransferCompleteWhileIdle"

\* Whatever way a write ends, it leaves no live lease behind: the channel can
\* be acquired again.
NoLeakedLease == leased = IF call.at = "leased" THEN call.target ELSE {}

\* No dirty or pending bit names a channel that service would mask out of every
\* batch; not even a handle that outlived an id wrap-around can leave one.
NoStrandedWork == dirty \cup pending \cup transfer.submitted \subseteq registered

\* Channels that the masks hold, or are about to hold, and no frame waits in: a
\* launch would send them nothing and advance their phase.
Frameless == (dirty \cup Marking \cup (pending \ Recording)) \ Waiting

\* Only two things leave such a bit behind: a backend that withdraws the waiting
\* frame to grant the target again, in a write that publishes another or ends
\* without one, and a launch that takes the frame of a channel which was written
\* again after its commit.  The driver itself never marks a channel it has no
\* frame for, nor keeps the bit of one whose frame has left.
FrameBehindEveryBit ==
  [][\A c \in Frameless' \ Frameless :
       \/ c \in Waiting /\ UNCHANGED <<wire, dirty, pending>>
       \/ c \in Recording' \cap dirty]_vars

\* A call that fails, at the driver or at the backend, neither drops committed
\* or published work nor advances a phase: the masks and phases change only in
\* a call that returns Ok.
WorkChangesOnlyOnSuccess ==
  [][UNCHANGED <<dirty, pending, phase>> \/ result'.err = "Ok"]_vars

\* While a violation is latched the driver's state stands still, and the latch
\* is cleared only by a call that reports it and does nothing else.
LatchBlocksDriver ==
  [][violation =>
       /\ UNCHANGED <<dirty, pending, phase, transfer, leased, frame, call>>
       /\ violation' \/ result'.err = "TransferCompleteWhileIdle"]_vars

\* errors.rs: "A genuine backend-owned runtime failure occurred."  The public
\* Backend category is returned only when the backend itself failed.
BackendErrorIsGenuine ==
  PublicResult(result) = "Backend" => result.err \in BackendFaults

\* A driver that was finalized without being configured, which a release build
\* lets the firmware do.
FinalizedUnconfigured == typestate = "Ready" /\ ~ Ready

\* Such a driver is the only one that blames its backend wrongly: every other
\* engine error, at every boundary, in both builds, latched or returned by
\* whichever half of a write, is one the boundary's projection knows.
MisleadsOnlyUnconfigured == FinalizedUnconfigured \/ BackendErrorIsGenuine

-----------------------------------------------------------------------------
(* Commit as a barrier.  These two need a backend that answers Busy while a *)
(* published frame waits (Regrant = {}): the masks hold one bit per channel *)
(* and cannot tell a committed frame from the one that overwrote it.        *)

\* api/mod.rs: "submission through Driver::commit".  What a launch takes is
\* committed: no channel of the batch was written again since its commit.
CommittedBeforeLaunch == Recording \cap dirty = {}

\* Every channel of a launch sends a frame, and it is the one packed for the
\* phase the launch is counted as: so the frames of a channel that reach the
\* wire carry consecutive phases, which temporal dithering averages over.
ConsecutivePhases == [][\A c \in Recording' \ Recording : frame[c] = phase[c]]_vars

-----------------------------------------------------------------------------
(* Liveness.  The firmware's main loop commits and services periodically   *)
(* and forwards ingress (lib.rs), every call returns, the transport        *)
(* finishes what it accepted, and one that is asked again and again        *)
(* eventually accepts.  Calls exclude each other, so that each is only     *)
(* enabled between the others: hence the strong fairness.                  *)

Fairness ==
  /\ SF_vars(Commit)
  /\ SF_vars(ServiceIdle)
  /\ SF_vars(ServiceStart)
  /\ SF_vars(BackendEvent)
  /\ SF_vars(BackendSignal)
  /\ WF_vars(FinishWrite)
  /\ WF_vars(FinishService)
  /\ WF_vars(FinishBatch /\ UNCHANGED <<typestate, engineVars>>)

FairSpec == Spec /\ Fairness

\* Every published frame is eventually taken by the transport, past any number
\* of busy or failed submissions and a spurious completion.
FrameReachesWire ==
  \A c \in Channels : frame[c] # NoFrame ~> frame[c] = NoFrame

\* The engine always returns from InFlight, so that later work can start.
InFlightCompletes == transfer.inFlight ~> ~ transfer.inFlight

\* The engine waits for a completion that will not come: it has no timeout.
Stalled ==
  /\ transfer.inFlight /\ ~ transfer.dmaComplete
  /\ wire = <<>> /\ signals = 0 /\ events = 0

\* When completions can be lost, that is the only thing that ever holds up a
\* published frame ...
WaitsOnlyForCompletion ==
  \A c \in Channels : frame[c] # NoFrame ~> frame[c] = NoFrame \/ Stalled

\* ... and any one completion releases the engine, whichever batch it is for.
AnyCompletionHeals == transfer.inFlight /\ events > 0 ~> ~ transfer.inFlight

===============================================================================
