---------------------------- MODULE LedDriverSafety ----------------------------
(***************************************************************************)
(* The safety properties of LedDriver proved from one inductive invariant. *)
(*                                                                         *)
(* None of them is inductive alone.  They need to know what the call that  *)
(* holds the borrow has already established (CallShape), that an engine    *)
(* which is not Ready holds no work (NotReadyIsEmpty), and how a completion*)
(* is conserved between the wire, the signal and event queues and the      *)
(* engine's dma_complete_pending (CompletionConserved: a bound, since a    *)
(* completion may be lost and a false one absorbed or latched).            *)
(***************************************************************************)
EXTENDS LedDriverProofs

\* Before configuration the engine holds no work, and only an initialised
\* engine makes a driver.
NotReadyIsEmpty ==
  /\ typestate = "None" => lifecycle = "Uninitialized"
  /\ ~ Ready => /\ registered = {} /\ dirty = {} /\ pending = {}
                /\ transfer = Idle /\ ~ violation /\ call = NoCall

\* What a call in progress knows: the latch is clear, a write holds the lease of
\* its own registered channel at that channel's phase, and a service holds the
\* batch it took from pending while the transfer was idle.
CallShape ==
  /\ call.at = "none" => call = NoCall
  /\ call.at # "none" => ~ violation
  /\ call.at \in {"leased", "published"} =>
       \E c \in registered :
         call = [at |-> call.at, batch |-> {c}, target |-> {c}, phase |-> phase[c]]
  /\ call.at = "accepted" =>
       /\ transfer = Idle
       /\ call.batch \subseteq registered
       /\ \A c \in call.batch : frame[c] = NoFrame

TransferShape ==
  /\ ~ transfer.inFlight => transfer = Idle
  /\ violation => ~ transfer.inFlight

\* Completions still to come, or come and not yet consumed.
Undelivered == signals + events + (IF transfer.dmaComplete THEN 1 ELSE 0)

CompletionConserved ==
  Len(wire) + Undelivered <=
    (IF transfer.inFlight \/ call.at = "accepted" THEN 1 ELSE 0) + spurious

IInv ==
  /\ TypeOK
  /\ NotReadyIsEmpty
  /\ CallShape
  /\ TransferShape
  /\ NoStrandedWork
  /\ NoLeakedLease
  /\ FramePhaseCurrent
  /\ NoLostFrame
  /\ CompletionConserved
  /\ TransferOwnership
  /\ NoFalseAccusation

-----------------------------------------------------------------------------
(* The steps of the driver, regrouped for the proofs by what they change.  *)

\* A call that fails before it changes anything, or a finalize.
QuietStep ==
  /\ UNCHANGED <<registryVars, phase, readyVars, call, backendVars>>
  /\ typestate' = "None" => typestate = "None"
  /\ result'.err = "TransferCompleteWhileIdle" => result' = result

ConfiguringStep ==
  \/ typestate = "None" /\ typestate' = "Configuring" /\ InitBackend("Ok")
  \/ /\ typestate # "None" /\ UNCHANGED typestate
     /\ \E ids \in SUBSET LogicalChannels, oversized \in BOOLEAN :
          ConfigureCommitted(ids, oversized)

\* A write whose lease is wrong: the backend has granted a target and is given
\* it back.
RefusedLease ==
  /\ ~ Latched
  /\ \E granted \in registered \cup Channels : AbortedAcquire(granted)
  /\ UNCHANGED <<registryVars, phase, readyVars, call>>
  /\ result'.err # "TransferCompleteWhileIdle"

\* Steps that start while no call is in progress.
CallStep ==
  \/ \E boundary : SurfaceLatched(boundary)
  \/ RefusedLease
  \/ \E c \in LogicalChannels, target \in Channels, exactLength \in BOOLEAN :
       AcquireReady(c, target, exactLength)
  \/ SubmitDirty
  \/ ServiceWithoutSubmit
  \/ ServiceNotAccepted
  \/ ServiceAccepted
  \/ OnBackendEvent
  \/ OnBackendSignal

\* Steps that continue a call in progress.
ContinueStep == AbortWrite \/ PublishWrite \/ MarkChannelPublished \/ RecordStarted

HardwareStep == (FinishBatch \/ RaiseSpurious) /\ UNCHANGED engineVars

DriverStep ==
  \/ QuietStep
  \/ ConfiguringStep
  \/ CallStep /\ CanCall /\ UNCHANGED typestate
  \/ ContinueStep /\ UNCHANGED typestate
  \/ HardwareStep /\ UNCHANGED typestate

\* Every step of the driver is one of them.
LEMMA Steps == [Next]_vars => DriverStep
<1> SUFFICES ASSUME [Next]_vars PROVE DriverStep
  OBVIOUS
<1> USE DEF Return
<1>1. ASSUME NEW reply \in BackendFaults \cup {"Ok"}, typestate = "None", InitBackend(reply),
             typestate' = IF reply = "Ok" THEN "Configuring" ELSE "None"
      PROVE  DriverStep
  <2>1. CASE reply = "Ok"
    BY <1>1, <2>1 DEF DriverStep, ConfiguringStep
  <2>2. CASE reply # "Ok"
    BY <1>1, <2>2 DEF InitBackend, DriverStep, QuietStep, registryVars, BackendFaults
  <2>3. QED BY <2>1, <2>2
<1>2. ASSUME NEW ids \in SUBSET LogicalChannels, NEW oversized \in BOOLEAN,
             ConfigurePrepared(ids, oversized)
      PROVE  DriverStep
  <2>1. CASE ConfigureCommitted(ids, oversized)
    BY <1>2, <2>1 DEF ConfigurePrepared, DriverStep, ConfiguringStep
  <2>2. CASE \/ RejectSetup("EmptyConfiguration") \/ RejectSetup("AlreadyConfigured")
             \/ ConfigureBackendFailed(ids, oversized)
    BY <1>2, <2>2 DEF ConfigurePrepared, RejectSetup, ConfigureBackendFailed, DriverStep,
                      QuietStep, BackendFaults
  <2>3. CASE ConfigureRejected(ids, oversized)
    BY <1>2, <2>3 DEF ConfigurePrepared, ConfigureRejected, PlanErrors, DriverStep, QuietStep
  <2>4. QED BY <1>2, <2>1, <2>2, <2>3 DEF ConfigurePrepared
<1>3. CASE Finalize
  BY <1>3 DEF Finalize, engineVars, DriverStep, QuietStep
<1>4. CASE ForeignHandle
  BY <1>4 DEF ForeignHandle, RejectSetup, DriverStep, QuietStep
<1>5. ASSUME NEW c \in LogicalChannels, WriteRgb48(c)
      PROVE  DriverStep
  <2>1. CASE AcquireUnregistered(c)
    BY <1>5, <2>1 DEF WriteRgb48, AcquireUnregistered, RecordError, DriverStep, QuietStep
  <2>2. CASE AcquireRefused(c)
    BY <1>5, <2>2 DEF WriteRgb48, AcquireRefused, BackendFaults, DriverStep, QuietStep
  <2>3. ASSUME NEW target \in Channels, NEW exactLength \in BOOLEAN,
               AcquireMismatched(c, target, exactLength)
        PROVE  DriverStep
    <3>1. {c, target} \subseteq registered \cup Channels
      BY <2>3 DEF AcquireMismatched, RecordError
    <3>2. RefusedLease
      BY <2>3, <3>1 DEF AcquireMismatched, LeaseFault, RefusedLease
    <3>3. QED
      BY <1>5, <3>2 DEF WriteRgb48, DriverStep, CallStep
  <2>4. QED
    BY <1>5, <2>1, <2>2, <2>3 DEF WriteRgb48, DriverStep, CallStep
<1>6. CASE (SubmitDirtyNotReady \/ ServiceNotReady) /\ UNCHANGED typestate
  BY <1>6 DEF SubmitDirtyNotReady, ServiceNotReady, DriverStep, QuietStep
<1>7. CASE UNCHANGED vars
  BY <1>7 DEF vars, engineVars, DriverStep, QuietStep
<1>8. CASE FinishWrite \/ FinishService
  BY <1>8 DEF FinishWrite, FinishService, DriverStep, ContinueStep
<1>9. CASE Commit
  BY <1>6, <1>9 DEF Commit, DriverStep, CallStep
<1>10. CASE ServiceIdle
  BY <1>6, <1>10 DEF ServiceIdle, DriverStep, CallStep
<1>11. CASE ServiceStart \/ BackendEvent \/ BackendSignal
  BY <1>11 DEF ServiceStart, BackendEvent, BackendSignal, DriverStep, CallStep
<1>12. CASE Hardware
  BY <1>12 DEF Hardware, DriverStep, HardwareStep
<1>13. CASE New
  BY <1>1, <1>13 DEF New
<1>14. QED
  BY <1>2, <1>3, <1>4, <1>5, <1>7, <1>8, <1>9, <1>10, <1>11, <1>12, <1>13 DEF Next

-----------------------------------------------------------------------------
(* The invariant holds initially, and every step preserves each part of it. *)

\* The invariant holds of the driver before New.
LEMMA InvInit == Init => IInv
<1> SUFFICES ASSUME Init PROVE IInv
  OBVIOUS
<1>1. TypeOK
  BY TypeInit
<1>2. NotReadyIsEmpty /\ CallShape /\ TransferShape
  BY DEF Init, EngineInit, BackendInit, NotReadyIsEmpty, CallShape, TransferShape, Ready, Idle, NoCall
<1>3. NoStrandedWork /\ NoLeakedLease /\ NoFalseAccusation /\ TransferOwnership
  BY DEF Init, EngineInit, BackendInit, NoStrandedWork, NoLeakedLease, NoFalseAccusation,
         TransferOwnership, Idle, NoCall
<1>4. FramePhaseCurrent /\ NoLostFrame
  BY DEF Init, EngineInit, BackendInit, FramePhaseCurrent, NoLostFrame, Waiting
<1>5. CompletionConserved
  BY DEF Init, EngineInit, BackendInit, CompletionConserved, Undelivered, Idle, NoCall
<1>6. QED
  BY <1>1, <1>2, <1>3, <1>4, <1>5 DEF IInv

\* Work exists only in a Ready engine.
LEMMA NotReadyStep == IInv /\ DriverStep => NotReadyIsEmpty'
<1> SUFFICES ASSUME IInv, DriverStep PROVE NotReadyIsEmpty'
  OBVIOUS
<1> USE DEF NotReadyIsEmpty, Ready, registryVars, readyVars
<1>1. CASE QuietStep
  BY <1>1 DEF IInv, QuietStep
<1>2. CASE ConfiguringStep
  BY <1>2 DEF IInv, ConfiguringStep, InitBackend, ConfigureCommitted
<1>3. CASE CallStep /\ CanCall /\ UNCHANGED typestate
  <2>1. registered # {} => Ready
    BY DEF IInv
  <2>2. ASSUME NEW c \in LogicalChannels, NEW target \in Channels, NEW exactLength \in BOOLEAN,
               AcquireReady(c, target, exactLength)
        PROVE  NotReadyIsEmpty'
    BY <1>3, <2>1, <2>2 DEF IInv, AcquireReady, RecordError, CanCall
  <2>3. CASE \/ \E boundary : SurfaceLatched(boundary)
             \/ RefusedLease
             \/ SubmitDirty \/ ServiceWithoutSubmit \/ ServiceNotAccepted \/ ServiceAccepted
    BY <1>3, <2>3 DEF IInv, RefusedLease, SurfaceLatched, Latched, SubmitDirty, ServiceWithoutSubmit,
              ServiceNotAccepted, ServiceAccepted
  <2>4. CASE OnBackendEvent
    BY <1>3, <2>4 DEF IInv, OnBackendEvent
  <2>5. CASE OnBackendSignal
    BY <1>3, <2>5 DEF IInv, OnBackendSignal, engineVars
  <2>6. QED
    BY <1>3, <2>2, <2>3, <2>4, <2>5 DEF CallStep
<1>4. CASE ContinueStep /\ UNCHANGED typestate
  BY <1>4 DEF IInv, ContinueStep, AbortWrite, PublishWrite, MarkChannelPublished, RecordStarted,
              NoCall
<1>5. CASE HardwareStep /\ UNCHANGED typestate
  BY <1>5 DEF IInv, HardwareStep, engineVars
<1>6. QED BY <1>1, <1>2, <1>3, <1>4, <1>5 DEF DriverStep

\* A call in progress keeps what it has established.
LEMMA CallShapeStep == IInv /\ DriverStep => CallShape'
<1> SUFFICES ASSUME IInv, DriverStep PROVE CallShape'
  OBVIOUS
<1> USE DEF CallShape, registryVars, readyVars
<1>1. CASE QuietStep
  BY <1>1 DEF IInv, QuietStep, backendVars
<1>2. CASE ConfiguringStep
  <2>1. call = NoCall
    BY <1>2 DEF IInv, ConfiguringStep, InitBackend, ConfigureCommitted, NotReadyIsEmpty, Ready
  <2>2. QED
    BY <1>2, <2>1 DEF ConfiguringStep, InitBackend, ConfigureCommitted, NoCall
<1>3. CASE CallStep /\ CanCall /\ UNCHANGED typestate
  <2>1. call = NoCall
    BY <1>3 DEF CanCall, Free
  <2>2. ASSUME NEW c \in LogicalChannels, NEW target \in Channels, NEW exactLength \in BOOLEAN,
               AcquireReady(c, target, exactLength)
        PROVE  CallShape'
    <3>1. c \in registered /\ target = c /\ ~ Latched
      BY <2>2 DEF AcquireReady, RecordError, LeaseFault
    <3>2. ~ violation
      BY <3>1 DEF Latched, IInv, NotReadyIsEmpty
    <3>3. QED
      BY <2>2, <3>1, <3>2 DEF AcquireReady
  <2>3. CASE ServiceAccepted
    BY <2>3 DEF IInv, ServiceAccepted, SubmitChannels, Submittable, Latched, TypeOK, EngineTypeOK
  <2>4. CASE \E boundary : SurfaceLatched(boundary)
    BY <2>1, <2>4 DEF SurfaceLatched, NoCall
  <2>5. CASE \/ SubmitDirty \/ ServiceWithoutSubmit \/ ServiceNotAccepted
             \/ OnBackendEvent \/ OnBackendSignal \/ RefusedLease
    BY <2>1, <2>5 DEF RefusedLease, SubmitDirty, ServiceWithoutSubmit, ServiceNotAccepted, OnBackendEvent,
              OnBackendSignal, engineVars, NoCall
  <2>6. QED BY <1>3, <2>2, <2>3, <2>4, <2>5 DEF CallStep
<1>4. CASE ContinueStep /\ UNCHANGED typestate
  <2>1. CASE AbortWrite \/ MarkChannelPublished \/ RecordStarted
    BY <2>1 DEF AbortWrite, MarkChannelPublished, RecordStarted, NoCall
  <2>2. CASE PublishWrite
    <3>1. PICK c \in registered :
            call = [at |-> "leased", batch |-> {c}, target |-> {c}, phase |-> phase[c]]
      BY <2>2 DEF IInv, PublishWrite
    <3>2. call' = [at |-> "published", batch |-> {c}, target |-> {c}, phase |-> phase[c]]
      BY <2>2, <3>1 DEF PublishWrite
    <3>3. QED
      BY <2>2, <3>1, <3>2 DEF IInv, PublishWrite
  <2>3. QED BY <1>4, <2>1, <2>2 DEF ContinueStep
<1>5. CASE HardwareStep /\ UNCHANGED typestate
  BY <1>5 DEF IInv, HardwareStep, engineVars, FinishBatch, RaiseSpurious
<1>6. QED BY <1>1, <1>2, <1>3, <1>4, <1>5 DEF DriverStep

\* A transfer that is not in flight is Idle, and the latch is set only then.
LEMMA TransferShapeStep == IInv /\ DriverStep => TransferShape'
<1> SUFFICES ASSUME IInv, DriverStep PROVE TransferShape'
  OBVIOUS
<1> USE DEF TransferShape, registryVars, readyVars
<1>1. CASE QuietStep
  BY <1>1 DEF IInv, QuietStep
<1>2. CASE ConfiguringStep
  BY <1>2 DEF IInv, ConfiguringStep, InitBackend, ConfigureCommitted
<1>3. CASE CallStep /\ CanCall /\ UNCHANGED typestate
  <2>1. CASE \/ \E boundary : SurfaceLatched(boundary)
             \/ RefusedLease \/ SubmitDirty \/ OnBackendSignal
             \/ \E c \in LogicalChannels, target \in Channels, exactLength \in BOOLEAN :
                  AcquireReady(c, target, exactLength)
    BY <2>1 DEF IInv, RefusedLease, SurfaceLatched, SubmitDirty, OnBackendSignal, engineVars, AcquireReady
  <2>2. CASE ServiceWithoutSubmit \/ ServiceNotAccepted \/ ServiceAccepted
    BY <2>2, CompletedCases DEF IInv, ServiceWithoutSubmit, ServiceNotAccepted, ServiceAccepted,
                                Idle, Latched
  <2>3. CASE OnBackendEvent
    BY <2>3 DEF IInv, OnBackendEvent, TypeOK, EngineTypeOK, NotReadyIsEmpty, Idle
  <2>4. QED BY <1>3, <2>1, <2>2, <2>3 DEF CallStep
<1>4. CASE ContinueStep /\ UNCHANGED typestate
  BY <1>4 DEF IInv, ContinueStep, AbortWrite, PublishWrite, MarkChannelPublished, RecordStarted,
              InFlight, CallShape
<1>5. CASE HardwareStep /\ UNCHANGED typestate
  BY <1>5 DEF IInv, HardwareStep, engineVars
<1>6. QED BY <1>1, <1>2, <1>3, <1>4, <1>5 DEF DriverStep

\* Work is only ever held for registered channels.
LEMMA StrandedStep == IInv /\ DriverStep => NoStrandedWork'
<1> SUFFICES ASSUME IInv, DriverStep PROVE NoStrandedWork'
  OBVIOUS
<1> USE DEF NoStrandedWork, registryVars, readyVars
<1>1. CASE QuietStep
  BY <1>1 DEF IInv, QuietStep
<1>2. CASE ConfiguringStep
  BY <1>2 DEF IInv, ConfiguringStep, InitBackend, ConfigureCommitted, NotReadyIsEmpty, Ready, Idle
<1>3. CASE CallStep /\ CanCall /\ UNCHANGED typestate
  <2>1. CASE \/ \E boundary : SurfaceLatched(boundary)
             \/ RefusedLease \/ SubmitDirty \/ OnBackendSignal
             \/ \E c \in LogicalChannels, target \in Channels, exactLength \in BOOLEAN :
                  AcquireReady(c, target, exactLength)
    BY <2>1 DEF IInv, RefusedLease, SurfaceLatched, SubmitDirty, OnBackendSignal, engineVars, AcquireReady
  <2>2. CASE ServiceWithoutSubmit \/ ServiceNotAccepted \/ ServiceAccepted
    BY <2>2, CompletedCases DEF IInv, ServiceWithoutSubmit, ServiceNotAccepted, ServiceAccepted,
                                Idle
  <2>3. CASE OnBackendEvent
    BY <2>3 DEF IInv, OnBackendEvent, TypeOK, EngineTypeOK
  <2>4. QED BY <1>3, <2>1, <2>2, <2>3 DEF CallStep
<1>4. CASE ContinueStep /\ UNCHANGED typestate
  BY <1>4 DEF IInv, ContinueStep, AbortWrite, PublishWrite, MarkChannelPublished, RecordStarted,
              InFlight, CallShape
<1>5. CASE HardwareStep /\ UNCHANGED typestate
  BY <1>5 DEF IInv, HardwareStep, engineVars
<1>6. QED BY <1>1, <1>2, <1>3, <1>4, <1>5 DEF DriverStep

\* The only live lease is the one of the write in progress.
LEMMA LeaseStep == IInv /\ DriverStep => NoLeakedLease'
<1> SUFFICES ASSUME IInv, DriverStep PROVE NoLeakedLease'
  OBVIOUS
<1> USE DEF NoLeakedLease, backendVars
<1>1. CASE QuietStep
  BY <1>1 DEF IInv, QuietStep
<1>2. CASE ConfiguringStep
  BY <1>2 DEF IInv, ConfiguringStep, InitBackend, ConfigureCommitted
<1>3. CASE CallStep /\ CanCall /\ UNCHANGED typestate
  <2>1. leased = {} /\ call.at = "none"
    BY <1>3 DEF IInv, CanCall, Free, NoCall
  <2>2. ASSUME NEW c \in LogicalChannels, NEW target \in Channels, NEW exactLength \in BOOLEAN,
               AcquireReady(c, target, exactLength)
        PROVE  NoLeakedLease'
    BY <2>1, <2>2 DEF AcquireReady, AcquireWriteTarget
  <2>3. CASE \/ \E boundary : SurfaceLatched(boundary)
             \/ RefusedLease
             \/ SubmitDirty \/ ServiceWithoutSubmit \/ ServiceNotAccepted \/ ServiceAccepted
    BY <2>1, <2>3 DEF RefusedLease, AbortedAcquire, SurfaceLatched, SubmitDirty, ServiceWithoutSubmit, ServiceNotAccepted,
                      ServiceAccepted, SubmitChannels
  <2>4. CASE OnBackendEvent \/ OnBackendSignal
    BY <2>1, <2>4 DEF OnBackendEvent, TakeEvent, OnBackendSignal, TranslateSignal, engineVars
  <2>5. QED
    BY <1>3, <2>2, <2>3, <2>4 DEF CallStep
<1>4. CASE ContinueStep /\ UNCHANGED typestate
  BY <1>4 DEF IInv, ContinueStep, AbortWrite, DropLease, PublishWrite, PublishLease,
              MarkChannelPublished, RecordStarted, NoCall, TypeOK, EngineTypeOK
<1>5. CASE HardwareStep /\ UNCHANGED typestate
  BY <1>5 DEF IInv, HardwareStep, engineVars, FinishBatch, RaiseSpurious
<1>6. QED BY <1>1, <1>2, <1>3, <1>4, <1>5 DEF DriverStep

\* The phase of a waiting frame stays its channel's phase: phases advance only
\* for a batch whose frames the transport has taken.
LEMMA FramePhaseStep == IInv /\ DriverStep => FramePhaseCurrent'
<1> SUFFICES ASSUME IInv, DriverStep PROVE FramePhaseCurrent'
  OBVIOUS
<1> USE DEF FramePhaseCurrent, Waiting, registryVars, readyVars
<1>1. CASE QuietStep
  BY <1>1 DEF IInv, QuietStep, backendVars
<1>2. CASE ConfiguringStep
  BY <1>2 DEF IInv, ConfiguringStep, InitBackend, ConfigureCommitted, backendVars
<1>3. CASE CallStep /\ CanCall /\ UNCHANGED typestate
  <2>1. CASE ServiceAccepted
    BY <2>1 DEF IInv, ServiceAccepted, SubmitChannels, TypeOK, BackendTypeOK
  <2>2. ASSUME NEW target, Grant(target), UNCHANGED phase
        PROVE  FramePhaseCurrent'
    BY <2>2, GrantFrame DEF IInv
  <2>3. CASE \/ RefusedLease
             \/ \E c \in LogicalChannels, target \in Channels, exactLength \in BOOLEAN :
                  AcquireReady(c, target, exactLength)
    BY <2>2, <2>3 DEF RefusedLease, AbortedAcquire, AcquireReady, AcquireWriteTarget
  <2>4. CASE \/ \E boundary : SurfaceLatched(boundary)
             \/ SubmitDirty \/ OnBackendSignal \/ ServiceWithoutSubmit \/ ServiceNotAccepted
             \/ OnBackendEvent
    BY <2>4 DEF IInv, SurfaceLatched, SubmitDirty, OnBackendSignal, TranslateSignal,
         engineVars, backendVars, ServiceWithoutSubmit, ServiceNotAccepted, OnBackendEvent, TakeEvent
  <2>5. QED BY <1>3, <2>1, <2>3, <2>4 DEF CallStep
<1>4. CASE ContinueStep /\ UNCHANGED typestate
  <2>1. CASE AbortWrite \/ MarkChannelPublished
    BY <2>1 DEF IInv, AbortWrite, DropLease, MarkChannelPublished, backendVars
  <2>2. CASE PublishWrite
    <3>1. PICK c \in registered :
            call = [at |-> "leased", batch |-> {c}, target |-> {c}, phase |-> phase[c]]
      BY <2>2 DEF IInv, PublishWrite, CallShape
    <3>2. frame' = [d \in Channels |-> IF d = c THEN phase[c] ELSE frame[d]]
      BY <2>2, <3>1 DEF PublishWrite, PublishLease
    <3>3. QED
      BY <2>2, <3>2 DEF IInv, PublishWrite
  <2>3. CASE RecordStarted
    <3>1. \A c \in call.batch : frame[c] = NoFrame
      BY <2>3 DEF IInv, RecordStarted, CallShape
    <3>2. QED
      BY <2>3, <3>1 DEF IInv, RecordStarted, Advanced, backendVars
  <2>4. QED BY <1>4, <2>1, <2>2, <2>3 DEF ContinueStep
<1>5. CASE HardwareStep /\ UNCHANGED typestate
  BY <1>5 DEF IInv, HardwareStep, engineVars, FinishBatch, RaiseSpurious
<1>6. QED BY <1>1, <1>2, <1>3, <1>4, <1>5 DEF DriverStep

\* A waiting frame keeps its dirty or pending bit until the transport takes it;
\* mark_channel_published cannot fail in the write that published it.
LEMMA NoLostFrameStep == IInv /\ DriverStep => NoLostFrame'
<1> SUFFICES ASSUME IInv, DriverStep PROVE NoLostFrame'
  OBVIOUS
<1> USE DEF NoLostFrame, Waiting, Marking, registryVars, readyVars
<1>1. CASE QuietStep
  BY <1>1 DEF IInv, QuietStep, backendVars
<1>2. CASE ConfiguringStep
  BY <1>2 DEF IInv, ConfiguringStep, InitBackend, ConfigureCommitted, backendVars
<1>3. CASE CallStep /\ CanCall /\ UNCHANGED typestate
  <2>1. Waiting \subseteq dirty \cup pending
    BY <1>3 DEF IInv, CanCall, Free, NoCall
  <2>2. CASE ServiceAccepted
    BY <2>1, <2>2 DEF ServiceAccepted, SubmitChannels
  <2>3. CASE SubmitDirty
    BY <2>1, <2>3 DEF SubmitDirty, backendVars
  <2>4. ASSUME NEW target, Grant(target), UNCHANGED <<dirty, pending>>
        PROVE  NoLostFrame'
    BY <2>1, <2>4, GrantFrame DEF IInv
  <2>5. CASE \/ RefusedLease
             \/ \E c \in LogicalChannels, target \in Channels, exactLength \in BOOLEAN :
                  AcquireReady(c, target, exactLength)
    BY <2>4, <2>5 DEF RefusedLease, AbortedAcquire, AcquireReady, AcquireWriteTarget
  <2>6. CASE \/ \E boundary : SurfaceLatched(boundary)
             \/ OnBackendSignal \/ ServiceWithoutSubmit \/ ServiceNotAccepted \/ OnBackendEvent
    BY <2>1, <2>6 DEF SurfaceLatched, OnBackendSignal, TranslateSignal,
         engineVars, backendVars, ServiceWithoutSubmit, ServiceNotAccepted, OnBackendEvent, TakeEvent
  <2>7. QED BY <1>3, <2>2, <2>3, <2>5, <2>6 DEF CallStep
<1>4. CASE ContinueStep /\ UNCHANGED typestate
  <2>1. CASE AbortWrite
    BY <2>1 DEF IInv, AbortWrite, DropLease, NoCall
  <2>2. CASE PublishWrite
    <3>1. PICK c \in registered :
            call = [at |-> "leased", batch |-> {c}, target |-> {c}, phase |-> phase[c]]
      BY <2>2 DEF IInv, PublishWrite, CallShape
    <3>2. /\ frame' = [d \in Channels |-> IF d = c THEN phase[c] ELSE frame[d]]
          /\ call'.at = "published" /\ call'.batch = {c}
      BY <2>2, <3>1 DEF PublishWrite, PublishLease
    <3>3. QED
      BY <2>2, <3>1, <3>2 DEF IInv, PublishWrite
  <2>3. CASE MarkChannelPublished
    <3>1. MarkError = "Ok"
      BY <2>3 DEF IInv, MarkChannelPublished, CallShape, MarkError, Latched, RecordError
    <3>2. QED
      BY <2>3, <3>1 DEF IInv, MarkChannelPublished, backendVars
  <2>4. CASE RecordStarted
    BY <2>4 DEF IInv, RecordStarted, CallShape, backendVars
  <2>5. QED BY <1>4, <2>1, <2>2, <2>3, <2>4 DEF ContinueStep
<1>5. CASE HardwareStep /\ UNCHANGED typestate
  BY <1>5 DEF IInv, HardwareStep, engineVars, FinishBatch, RaiseSpurious
<1>6. QED BY <1>1, <1>2, <1>3, <1>4, <1>5 DEF DriverStep

\* A history without spurious completions had none before.
LEMMA SpuriousMonotone == IInv /\ DriverStep /\ spurious' = 0 => spurious = 0
<1> SUFFICES ASSUME IInv, DriverStep, spurious' = 0 PROVE spurious = 0
  OBVIOUS
<1>1. spurious \in Nat
  BY DEF IInv, TypeOK, BackendTypeOK
<1>2. UNCHANGED spurious \/ RaiseSpurious
  BY DEF DriverStep, QuietStep, ConfiguringStep, InitBackend, ConfigureCommitted, CallStep,
         SurfaceLatched, SubmitDirty, OnBackendSignal, TranslateSignal, AcquireReady,
         AcquireWriteTarget, Grant, RefusedLease, AbortedAcquire, ServiceWithoutSubmit, ServiceNotAccepted, ServiceAccepted,
         SubmitChannels, OnBackendEvent, TakeEvent, ContinueStep, AbortWrite, DropLease,
         PublishWrite, PublishLease, MarkChannelPublished, RecordStarted, HardwareStep,
         FinishBatch, backendVars
<1>3. QED
  BY <1>1, <1>2 DEF RaiseSpurious

\* A completion is never counted twice: each step moves it one stage on, loses
\* it, or spends it on the transfer it is taken for.
LEMMA ConservedStep == IInv /\ DriverStep => CompletionConserved'
<1> SUFFICES ASSUME IInv, DriverStep PROVE CompletionConserved'
  OBVIOUS
<1> USE DEF CompletionConserved, Undelivered, registryVars, readyVars
<1>1. wire \in Seq(SUBSET Channels) /\ signals \in Nat /\ events \in Nat /\ spurious \in Nat
  BY DEF IInv, TypeOK, BackendTypeOK
<1>2. CompletionConserved /\ Len(wire) \in Nat
  BY <1>1 DEF IInv
<1>3. ~ transfer.inFlight => ~ transfer.dmaComplete
  BY DEF IInv, TransferShape, Idle
<1>4. CASE QuietStep
  BY <1>2, <1>4 DEF QuietStep, backendVars
<1>5. CASE ConfiguringStep
  BY <1>2, <1>5 DEF ConfiguringStep, InitBackend, ConfigureCommitted, backendVars
<1>6. CASE CallStep /\ CanCall /\ UNCHANGED typestate
  <2>1. call.at = "none"
    BY <1>6 DEF CanCall, Free, NoCall
  <2>2. CASE (\E boundary : SurfaceLatched(boundary)) \/ SubmitDirty
    BY <1>2, <2>1, <2>2 DEF SurfaceLatched, SubmitDirty, backendVars
  <2>3. CASE RefusedLease
    BY <1>2, <2>1, <2>3, GrantFrame DEF RefusedLease, AbortedAcquire, IInv
  <2>4. ASSUME NEW c \in LogicalChannels, NEW target \in Channels, NEW exactLength \in BOOLEAN,
               AcquireReady(c, target, exactLength)
        PROVE  CompletionConserved'
    <3>1. UNCHANGED <<wire, signals, events, spurious, transfer>> /\ call'.at = "leased"
      BY <2>4, GrantFrame DEF AcquireReady, AcquireWriteTarget, IInv
    <3>2. QED BY <1>2, <2>1, <3>1
  <2>5. CASE OnBackendSignal
    BY <1>1, <1>2, <2>5 DEF OnBackendSignal, TranslateSignal, engineVars
  <2>6. CASE ServiceWithoutSubmit \/ ServiceNotAccepted
    <3>1. UNCHANGED <<wire, signals, events, spurious, call>> /\ transfer' = Completed
      BY <2>6 DEF ServiceWithoutSubmit, ServiceNotAccepted, backendVars
    <3>2. QED
      BY <1>1, <1>2, <2>1, <3>1 DEF Completed, Idle
  <2>7. CASE ServiceAccepted
    <3>1. Len(wire') = Len(wire) + 1
      BY <1>1, <2>7 DEF ServiceAccepted, SubmitChannels
    <3>2. /\ UNCHANGED <<signals, events, spurious>>
          /\ call'.at = "accepted" /\ ~ transfer'.inFlight /\ ~ transfer'.dmaComplete
      BY <2>7 DEF ServiceAccepted, SubmitChannels, Idle
    <3>3. ~ transfer.inFlight \/ transfer.dmaComplete
      BY <2>7 DEF ServiceAccepted, Completed, Idle
    <3>4. QED
      BY <1>1, <1>2, <1>3, <2>1, <3>1, <3>2, <3>3
  <2>8. CASE OnBackendEvent
    <3>1. /\ UNCHANGED <<wire, signals, spurious, call>> /\ events > 0 /\ events' = events - 1
          /\ transfer'.inFlight = transfer.inFlight
      BY <2>8 DEF OnBackendEvent, TakeEvent, IInv, TypeOK, EngineTypeOK
    <3>2. QED
      BY <1>1, <1>2, <1>3, <3>1, <2>8 DEF OnBackendEvent
  <2>9. QED BY <1>6, <2>2, <2>3, <2>4, <2>5, <2>6, <2>7, <2>8 DEF CallStep
<1>7. CASE ContinueStep /\ UNCHANGED typestate
  <2>1. CASE AbortWrite \/ PublishWrite \/ MarkChannelPublished
    <3>1. /\ UNCHANGED <<wire, signals, events, spurious, transfer>>
          /\ call.at # "accepted" /\ call'.at # "accepted"
      BY <2>1 DEF AbortWrite, DropLease, PublishWrite, PublishLease, MarkChannelPublished,
                  backendVars, NoCall, IInv, TypeOK, EngineTypeOK
    <3>2. QED BY <1>2, <3>1
  <2>2. CASE RecordStarted
    BY <1>1, <1>2, <2>2 DEF RecordStarted, backendVars, NoCall, InFlight, Idle, IInv, CallShape
  <2>3. QED BY <1>7, <2>1, <2>2 DEF ContinueStep
<1>8. CASE HardwareStep /\ UNCHANGED typestate
  <2>1. CASE FinishBatch
    <3>1. Len(wire') = Len(wire) - 1
      BY <1>1, <2>1 DEF FinishBatch
    <3>2. QED
      BY <1>1, <1>2, <1>8, <2>1, <3>1 DEF HardwareStep, FinishBatch, engineVars
  <2>2. CASE RaiseSpurious
    BY <1>1, <1>2, <1>8, <2>2 DEF HardwareStep, RaiseSpurious, engineVars
  <2>3. QED BY <1>8, <2>1, <2>2 DEF HardwareStep
<1>9. QED BY <1>4, <1>5, <1>6, <1>7, <1>8 DEF DriverStep

\* One batch at a time, and the engine knows which.
LEMMA OwnershipStep == IInv /\ DriverStep => TransferOwnership'
<1> SUFFICES ASSUME IInv, DriverStep, spurious' = 0, wire' # <<>>
             PROVE  /\ Len(wire') = 1
                    /\ \/ call'.at = "accepted" /\ call'.batch = Head(wire') /\ transfer' = Idle
                       \/ transfer' = InFlight(Head(wire'))
  BY DEF TransferOwnership
<1> USE DEF registryVars, readyVars
<1>1. spurious = 0
  BY SpuriousMonotone
<1>2. wire \in Seq(SUBSET Channels) /\ signals \in Nat /\ events \in Nat
  BY DEF IInv, TypeOK, BackendTypeOK
<1>3. Len(wire) + Undelivered <= IF transfer.inFlight \/ call.at = "accepted" THEN 1 ELSE 0
  BY <1>1, <1>2 DEF IInv, CompletionConserved, Undelivered
<1>4. wire # <<>> =>
        /\ Len(wire) = 1
        /\ \/ call.at = "accepted" /\ call.batch = Head(wire) /\ transfer = Idle
           \/ transfer = InFlight(Head(wire))
  BY <1>1 DEF IInv, TransferOwnership
<1>5. CASE QuietStep \/ ConfiguringStep
  BY <1>4, <1>5 DEF QuietStep, ConfiguringStep, InitBackend, ConfigureCommitted, backendVars
<1>6. CASE CallStep /\ CanCall /\ UNCHANGED typestate
  <2>1. call.at = "none"
    BY <1>6 DEF CanCall, Free, NoCall
  <2>2. CASE \/ \E boundary : SurfaceLatched(boundary)
             \/ RefusedLease \/ SubmitDirty \/ OnBackendSignal
             \/ \E c \in LogicalChannels, target \in Channels, exactLength \in BOOLEAN :
                  AcquireReady(c, target, exactLength)
    BY <1>4, <2>1, <2>2 DEF SurfaceLatched, RefusedLease, AbortedAcquire, SubmitDirty, AcquireReady,
                AcquireWriteTarget, Grant, OnBackendSignal, TranslateSignal, engineVars, backendVars
  <2>3. CASE ServiceWithoutSubmit \/ ServiceNotAccepted
    <3>1. wire' = wire /\ call' = call /\ transfer' = Completed
      BY <2>3 DEF ServiceWithoutSubmit, ServiceNotAccepted, backendVars
    <3>2. ~ transfer.dmaComplete
      BY <1>4, <2>1, <3>1 DEF InFlight
    <3>3. QED
      BY <1>4, <2>1, <3>1, <3>2 DEF Completed
  <2>4. CASE ServiceAccepted
    <3>1. Len(wire) = 0
      BY <1>2, <1>3, <2>1, <2>4 DEF ServiceAccepted, Completed, Idle, Undelivered
    <3>2. wire = <<>>
      BY <1>2, <3>1
    <3>3. wire' = <<Submittable>>
      BY <2>4, <3>2 DEF ServiceAccepted, SubmitChannels
    <3>4. QED
      BY <2>4, <3>3 DEF ServiceAccepted
  <2>5. CASE OnBackendEvent
    <3>1. wire = <<>>
      BY <1>2, <1>3, <2>1, <2>5 DEF OnBackendEvent, TakeEvent, Undelivered
    <3>2. QED
      BY <2>5, <3>1 DEF OnBackendEvent, TakeEvent
  <2>6. QED BY <1>6, <2>2, <2>3, <2>4, <2>5 DEF CallStep
<1>7. CASE ContinueStep /\ UNCHANGED typestate
  <2>1. CASE AbortWrite \/ PublishWrite \/ MarkChannelPublished
    BY <1>4, <2>1 DEF AbortWrite, DropLease, PublishWrite, PublishLease, MarkChannelPublished,
                      backendVars
  <2>2. CASE RecordStarted
    <3>1. wire' = wire /\ call.at = "accepted" /\ transfer' = InFlight(call.batch)
      BY <2>2 DEF RecordStarted, backendVars
    <3>2. transfer = Idle
      BY <3>1 DEF IInv, CallShape
    <3>3. ASSUME NEW b PROVE Idle # InFlight(b)
      BY DEF Idle, InFlight
    <3>4. QED
      BY <1>4, <3>1, <3>2, <3>3
  <2>3. QED BY <1>7, <2>1, <2>2 DEF ContinueStep
<1>8. CASE HardwareStep /\ UNCHANGED typestate
  <2>1. CASE FinishBatch
    <3>1. Len(wire) = 1
      BY <1>4, <2>1 DEF FinishBatch
    <3>2. wire' = <<>>
      BY <1>2, <2>1, <3>1 DEF FinishBatch
    <3>3. QED BY <3>2
  <2>2. CASE RaiseSpurious
    BY <1>1, <2>2 DEF RaiseSpurious
  <2>3. QED BY <1>8, <2>1, <2>2 DEF HardwareStep
<1>9. QED BY <1>5, <1>6, <1>7, <1>8 DEF DriverStep

\* An event taken from a backend that keeps the contract finds the transfer it
\* completes still in flight.
LEMMA AccusationStep == IInv /\ DriverStep => NoFalseAccusation'
<1> SUFFICES ASSUME IInv, DriverStep, spurious' = 0
             PROVE  ~ violation' /\ result'.err # "TransferCompleteWhileIdle"
  BY DEF NoFalseAccusation
<1> USE DEF registryVars, readyVars, Return
<1>1. spurious = 0
  BY SpuriousMonotone
<1>2. ~ violation /\ result.err # "TransferCompleteWhileIdle"
  BY <1>1 DEF IInv, NoFalseAccusation
<1>3. CASE QuietStep \/ ConfiguringStep
  BY <1>2, <1>3 DEF QuietStep, ConfiguringStep, InitBackend, ConfigureCommitted
<1>4. CASE CallStep /\ CanCall /\ UNCHANGED typestate
  <2>1. CASE OnBackendEvent
    <3>1. call.at = "none" /\ events > 0
      BY <1>4, <2>1 DEF CanCall, Free, NoCall, OnBackendEvent, TakeEvent
    <3>2. Len(wire) \in Nat /\ signals \in Nat /\ events \in Nat
      BY DEF IInv, TypeOK, BackendTypeOK
    <3>3. transfer.inFlight
      BY <1>1, <3>1, <3>2 DEF IInv, CompletionConserved, Undelivered
    <3>4. QED
      BY <1>2, <2>1, <3>3 DEF OnBackendEvent
  <2>2. CASE CallStep /\ ~ OnBackendEvent
    BY <1>2, <2>2 DEF CallStep, RefusedLease, SurfaceLatched, Latched, SubmitDirty,
         OnBackendSignal, engineVars, AcquireReady, ServiceWithoutSubmit, ServiceNotAccepted,
         ServiceAccepted, BackendFaults
  <2>3. QED BY <1>4, <2>1, <2>2
<1>5. CASE ContinueStep /\ UNCHANGED typestate
  BY <1>2, <1>5 DEF ContinueStep, AbortWrite, PublishWrite, MarkChannelPublished, MarkError,
              Latched, RecordStarted, BackendFaults
<1>6. CASE HardwareStep /\ UNCHANGED typestate
  BY <1>2, <1>6 DEF HardwareStep, engineVars
<1>7. QED BY <1>3, <1>4, <1>5, <1>6 DEF DriverStep

\* The whole invariant is inductive.
LEMMA InvNext == IInv /\ [Next]_vars => IInv'
BY Steps, TypeNext, NotReadyStep, CallShapeStep, TransferShapeStep, StrandedStep, LeaseStep,
   FramePhaseStep, NoLostFrameStep, ConservedStep, OwnershipStep, AccusationStep DEF IInv

\* ... and holds of every reachable state.
LEMMA Invariance == Spec => []IInv
BY InvInit, InvNext, PTL DEF Spec

-----------------------------------------------------------------------------
(* The safety properties.                                                  *)

\* A published frame is never forgotten: write_rgb48 cannot leave one in a
\* target whose channel is neither dirty nor pending, whatever fails.
THEOREM FramesNotLost == Spec => []NoLostFrame
BY Invariance, PTL DEF IInv

\* A waiting frame was packed for the phase its channel still has.
THEOREM FramePhasesCurrent == Spec => []FramePhaseCurrent
BY Invariance, PTL DEF IInv

\* While a contract-keeping backend transmits, InFlight names exactly that batch.
THEOREM TransferOwned == Spec => []TransferOwnership
BY Invariance, PTL DEF IInv

\* Each false completion lets at most one batch more onto the wire, whether or
\* not the real completions arrive.
THEOREM OverrunsBounded == Spec => []OverrunBounded
<1>1. IInv => OverrunBounded
  <2> SUFFICES ASSUME IInv PROVE Len(wire) <= 1 + spurious
    BY DEF OverrunBounded
  <2>1. Len(wire) \in Nat /\ signals \in Nat /\ events \in Nat /\ spurious \in Nat
    BY DEF IInv, TypeOK, BackendTypeOK
  <2>2. QED
    BY <2>1 DEF IInv, CompletionConserved, Undelivered
<1>2. QED
  BY <1>1, Invariance, PTL

\* A contract-keeping backend never meets TransferCompleteWhileIdle.
THEOREM NeverFalselyAccused == Spec => []NoFalseAccusation
BY Invariance, PTL DEF IInv

\* No ended write leaves a live lease.
THEOREM LeasesReturned == Spec => []NoLeakedLease
BY Invariance, PTL DEF IInv

\* No mask bit names a channel that service would mask out.
THEOREM WorkIsServiceable == Spec => []NoStrandedWork
BY Invariance, PTL DEF IInv

\* One step changes dirty, pending or a phase only when its call returns Ok.
LEMMA WorkStep ==
  DriverStep => UNCHANGED <<dirty, pending, phase>> \/ result'.err = "Ok"
<1> USE DEF registryVars, readyVars, engineVars, Return
<1>1. ASSUME CallStep
      PROVE  UNCHANGED <<dirty, pending, phase>> \/ result'.err = "Ok"
  BY <1>1 DEF CallStep, RefusedLease, SurfaceLatched, AcquireReady, SubmitDirty, ServiceWithoutSubmit,
       ServiceNotAccepted, ServiceAccepted, OnBackendEvent, OnBackendSignal
<1>2. ASSUME ContinueStep
      PROVE  UNCHANGED <<dirty, pending, phase>> \/ result'.err = "Ok"
  BY <1>2 DEF ContinueStep, AbortWrite, PublishWrite, MarkChannelPublished, RecordStarted
<1>3. QED
  BY <1>1, <1>2 DEF DriverStep, QuietStep, ConfiguringStep, InitBackend, ConfigureCommitted,
       HardwareStep

\* A failing call drops no work and advances no phase.
THEOREM FailuresKeepWork == Spec => WorkChangesOnlyOnSuccess
<1>1. [Next]_vars => [UNCHANGED <<dirty, pending, phase>> \/ result'.err = "Ok"]_vars
  BY Steps, WorkStep
<1>2. QED BY <1>1, PTL DEF Spec, WorkChangesOnlyOnSuccess

\* With the latch set only a call that surfaces it changes the driver.
LEMMA LatchStep ==
  IInv /\ DriverStep /\ violation =>
    /\ UNCHANGED <<dirty, pending, phase, transfer, leased, frame, call>>
    /\ violation' \/ result'.err = "TransferCompleteWhileIdle"
<1> SUFFICES ASSUME IInv, DriverStep, violation
             PROVE  /\ UNCHANGED <<dirty, pending, phase, transfer, leased, frame, call>>
                    /\ violation' \/ result'.err = "TransferCompleteWhileIdle"
  OBVIOUS
<1> USE DEF registryVars, readyVars, backendVars, Return
<1>1. Ready /\ Latched /\ call.at = "none" /\ ~ transfer.inFlight /\ typestate # "None"
      /\ lifecycle = "Ready"
  BY DEF IInv, NotReadyIsEmpty, CallShape, TransferShape, Latched, Ready
<1>2. CASE QuietStep
  BY <1>2 DEF QuietStep
<1>3. CASE CallStep
  <2>1. CASE \E boundary : SurfaceLatched(boundary)
    BY <2>1 DEF SurfaceLatched
  <2>2. CASE OnBackendEvent
    BY <1>1, <2>2 DEF OnBackendEvent, TakeEvent
  <2>3. CASE OnBackendSignal
    BY <2>3 DEF OnBackendSignal, TranslateSignal, engineVars
  <2>4. QED
    BY <1>1, <1>3, <2>1, <2>2, <2>3 DEF CallStep, RefusedLease, AcquireReady, SubmitDirty,
       ServiceWithoutSubmit, ServiceNotAccepted, ServiceAccepted
<1>4. ~ ConfiguringStep /\ ~ ContinueStep
  BY <1>1 DEF ConfiguringStep, ConfigureCommitted, ContinueStep, AbortWrite, PublishWrite,
       MarkChannelPublished, RecordStarted
<1>5. CASE HardwareStep
  BY <1>5 DEF HardwareStep, engineVars, FinishBatch, RaiseSpurious
<1>6. QED BY <1>2, <1>3, <1>4, <1>5 DEF DriverStep

\* A latched violation blocks the driver until it has been reported once.
THEOREM LatchBlocks == Spec => LatchBlocksDriver
<1>1. IInv /\ [Next]_vars =>
        [violation =>
           /\ UNCHANGED <<dirty, pending, phase, transfer, leased, frame, call>>
           /\ violation' \/ result'.err = "TransferCompleteWhileIdle"]_vars
  BY Steps, LatchStep
<1>2. QED BY <1>1, Invariance, PTL DEF Spec, LatchBlocksDriver

\* The bits of the masks, those about to be set included and those about to be
\* cleared left out.
Held == dirty \cup Marking \cup (pending \ Recording)

\* The two ways in which a bit loses its frame.
LosesFrame(c) ==
  \/ c \in Waiting /\ UNCHANGED <<wire, dirty, pending>>
  \/ c \in Recording' \cap dirty

\* One step leaves a bit without its frame only in these two ways.
LEMMA FramelessStep ==
  ASSUME IInv, DriverStep, NEW c, c \in Frameless', c \notin Frameless
  PROVE  LosesFrame(c)
<1> USE DEF registryVars, readyVars
<1>1. c \in Held' /\ c \notin Waiting' /\ (c \in Held => c \in Waiting)
  BY DEF Frameless, Held
<1>2. UNCHANGED <<frame, dirty, pending, call>> => FALSE
  BY <1>1 DEF Held, Marking, Recording, Waiting
<1>3. CASE QuietStep \/ ConfiguringStep
  BY <1>2, <1>3 DEF QuietStep, ConfiguringStep, InitBackend, ConfigureCommitted, backendVars
<1>4. CASE CallStep /\ CanCall /\ UNCHANGED typestate
  <2>1. Marking = {} /\ Recording = {}
    BY <1>4 DEF CanCall, Free, NoCall, Marking, Recording
  <2>2. CASE ServiceAccepted
    <3>1. /\ frame' = [d \in Channels |-> IF d \in Submittable THEN NoFrame ELSE frame[d]]
          /\ call'.at = "accepted" /\ call'.batch = Submittable
          /\ UNCHANGED <<dirty, pending>>
      BY <2>2 DEF ServiceAccepted, SubmitChannels
    <3>2. Marking' = {} /\ Recording' = Submittable
      BY <3>1 DEF Marking, Recording
    <3>3. c \in Held /\ c \in Waiting
      BY <1>1, <2>1, <3>1, <3>2 DEF Held
    <3>4. c \in Submittable
      BY <1>1, <3>1, <3>3 DEF Waiting
    <3>5. c \in dirty
      BY <1>1, <3>1, <3>2, <3>4 DEF Held
    <3>6. QED BY <3>2, <3>4, <3>5 DEF LosesFrame
  <2>3. CASE \/ RefusedLease
             \/ \E d \in LogicalChannels, target \in Channels, exactLength \in BOOLEAN :
                  AcquireReady(d, target, exactLength)
    <3>1. UNCHANGED <<wire, dirty, pending>> /\ (UNCHANGED call \/ call'.at = "leased")
      BY <2>3 DEF RefusedLease, AbortedAcquire, AcquireReady, AcquireWriteTarget, Grant
    <3>2. Held' = Held
      BY <2>1, <3>1 DEF Held, Marking, Recording
    <3>3. QED BY <1>1, <3>1, <3>2 DEF LosesFrame
  <2>4. CASE SubmitDirty
    <3>1. Held' \subseteq Held /\ UNCHANGED frame
      BY <2>1, <2>4 DEF SubmitDirty, backendVars, Held, Marking, Recording
    <3>2. QED BY <1>1, <3>1 DEF Waiting
  <2>5. CASE \/ \E boundary : SurfaceLatched(boundary)
             \/ ServiceWithoutSubmit \/ ServiceNotAccepted \/ OnBackendEvent \/ OnBackendSignal
    BY <1>2, <2>5 DEF SurfaceLatched, ServiceWithoutSubmit, ServiceNotAccepted, backendVars,
         OnBackendEvent, TakeEvent, OnBackendSignal, TranslateSignal, engineVars
  <2>6. QED BY <1>4, <2>2, <2>3, <2>4, <2>5 DEF CallStep
<1>5. CASE ContinueStep /\ UNCHANGED typestate
  <2>1. CASE PublishWrite
    <3>1. PICK d \in registered :
            call = [at |-> "leased", batch |-> {d}, target |-> {d}, phase |-> phase[d]]
      BY <2>1 DEF IInv, PublishWrite, CallShape
    <3>2. d \in Channels /\ phase[d] # NoFrame
      BY DEF IInv, TypeOK, EngineTypeOK, Phases, NoFrame
    <3>3. /\ frame' = [e \in Channels |-> IF e = d THEN phase[d] ELSE frame[e]]
          /\ call'.at = "published" /\ call'.batch = {d} /\ UNCHANGED <<dirty, pending>>
      BY <2>1, <3>1 DEF PublishWrite, PublishLease
    <3>4. Held' = Held \cup {d}
      BY <3>1, <3>3 DEF Held, Marking, Recording
    <3>5. Waiting' = Waiting \cup {d}
      BY <3>2, <3>3 DEF Waiting
    <3>6. QED BY <1>1, <3>4, <3>5
  <2>2. CASE AbortWrite \/ MarkChannelPublished \/ RecordStarted
    <3>1. UNCHANGED frame
      BY <2>2 DEF AbortWrite, DropLease, MarkChannelPublished, RecordStarted, backendVars
    <3>2. Held' \subseteq Held
      BY <2>2 DEF AbortWrite, MarkChannelPublished, RecordStarted, NoCall, Held, Marking, Recording
    <3>3. QED BY <1>1, <3>1, <3>2 DEF Waiting
  <2>3. QED BY <1>5, <2>1, <2>2 DEF ContinueStep
<1>6. CASE HardwareStep /\ UNCHANGED typestate
  BY <1>2, <1>6 DEF HardwareStep, engineVars, FinishBatch, RaiseSpurious
<1>7. QED BY <1>3, <1>4, <1>5, <1>6 DEF DriverStep

\* Behind every bit there is a frame, unless the backend took it back or a launch
\* took a rewritten one before its commit.
THEOREM FramesBehindBits == Spec => FrameBehindEveryBit
<1>1. IInv /\ [Next]_vars =>
        [\A c \in Frameless' \ Frameless :
           \/ c \in Waiting /\ UNCHANGED <<wire, dirty, pending>>
           \/ c \in Recording' \cap dirty]_vars
  BY Steps, FramelessStep DEF LosesFrame
<1>2. QED BY <1>1, Invariance, PTL DEF Spec, FrameBehindEveryBit

===============================================================================
