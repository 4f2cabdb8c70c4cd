----------------------- MODULE LedDriverTransportProofs -----------------------
(***************************************************************************)
(* LedDriver implements FrameTransport for every number of channels and    *)
(* every epoch width, over a backend that may lose completions, may report *)
(* false ones, and whatever it does with a waiting frame when its target   *)
(* is granted again.  The steps are those of LedDriverSafety; five of them *)
(* are steps of FrameTransport, every other one is a stutter.              *)
(***************************************************************************)
EXTENDS LedDriverSafety, LedDriverTransport

\* A driver step that touches none of the mapped state is a stutter.
LEMMA Stutters ==
  UNCHANGED <<frame, dirty, pending, wire, phase, call>> => UNCHANGED Transport!vars
BY DEF Transport!vars, Marking, Recording, Advanced

\* A grant leaves the frames alone or is a Withdraw, whatever becomes of the lease.
LEMMA GrantMaps ==
  ASSUME NEW c \in Channels, Grant(c), UNCHANGED <<dirty, pending, phase>>,
         UNCHANGED <<Marking, Recording>>
  PROVE  Transport!Withdraw(c) \/ UNCHANGED Transport!vars
<1>1. UNCHANGED <<wire, Advanced(Recording)>>
  BY DEF Grant, Advanced
<1>2. CASE UNCHANGED frame
  BY <1>1, <1>2 DEF Transport!vars
<1>3. CASE "withdrawn" \in Regrant /\ frame' = [frame EXCEPT ![c] = NoFrame]
  BY <1>1, <1>3 DEF Transport!Withdraw, Transport!NoFrame, NoFrame
<1>4. QED BY <1>2, <1>3 DEF Grant

\* The initial states agree.
LEMMA TransportInit == Init => Transport!Init
<1> SUFFICES ASSUME Init PROVE Transport!Init
  OBVIOUS
<1>1. Marking = {} /\ Recording = {}
  BY DEF Init, EngineInit, BackendInit, NoCall, Marking, Recording
<1>2. Advanced(Recording) = [c \in Channels |-> 0]
  BY <1>1 DEF Advanced, Init, EngineInit
<1>3. QED
  BY <1>1, <1>2 DEF Transport!Init, Transport!NoFrame, NoFrame, Init, EngineInit, BackendInit

\* publish() is Publish.
LEMMA PublishMaps == IInv /\ PublishWrite => \E c \in Channels : Transport!Publish(c)
<1> SUFFICES ASSUME IInv, PublishWrite PROVE \E c \in Channels : Transport!Publish(c)
  OBVIOUS
<1> USE DEF registryVars, readyVars
<1>1. PICK c \in registered :
        call = [at |-> "leased", batch |-> {c}, target |-> {c}, phase |-> phase[c]]
  BY DEF IInv, PublishWrite, CallShape
<1>2. c \in Channels /\ phase \in [Channels -> Phases] /\ frame \in [Channels -> Phases \cup {NoFrame}]
  BY DEF IInv, TypeOK, EngineTypeOK, BackendTypeOK
<1>3. /\ call' = [at |-> "published", batch |-> {c}, target |-> {c}, phase |-> phase[c]]
      /\ frame' = [d \in Channels |-> IF d = c THEN phase[c] ELSE frame[d]]
      /\ UNCHANGED <<dirty, pending, wire, phase>>
  BY <1>1 DEF PublishWrite, PublishLease
<1>4. Marking = {} /\ Marking' = {c} /\ Recording = {} /\ Recording' = {}
  BY <1>1, <1>3 DEF Marking, Recording
<1>5. Advanced(Recording) = phase /\ Advanced(Recording)' = phase
  BY <1>2, <1>3, <1>4 DEF Advanced
<1>6. frame' = [frame EXCEPT ![c] = phase[c]]
  BY <1>2, <1>3
<1>7. Transport!Publish(c)
  BY <1>3, <1>4, <1>5, <1>6 DEF Transport!Publish
<1>8. QED BY <1>2, <1>7

\* mark_channel_published only moves the mark from the call to dirty.
LEMMA MarkMaps == IInv /\ MarkChannelPublished => UNCHANGED Transport!vars
<1> SUFFICES ASSUME IInv, MarkChannelPublished PROVE UNCHANGED Transport!vars
  OBVIOUS
<1>1. MarkError = "Ok"
  BY DEF IInv, MarkChannelPublished, CallShape, MarkError, Latched, RecordError
<1>2. /\ dirty' = dirty \cup call.batch /\ call.at = "published" /\ call'.at = "none"
      /\ UNCHANGED <<pending, wire, frame, phase>>
  BY <1>1 DEF MarkChannelPublished, backendVars, NoCall
<1>3. Marking = call.batch /\ Marking' = {} /\ Recording = {} /\ Recording' = {}
  BY <1>2 DEF Marking, Recording
<1>4. QED
  BY <1>2, <1>3 DEF Transport!vars, Advanced

\* Recording a started transfer only catches up with the launch.
LEMMA RecordMaps == IInv /\ RecordStarted => UNCHANGED Transport!vars
<1> SUFFICES ASSUME IInv, RecordStarted PROVE UNCHANGED Transport!vars
  OBVIOUS
<1>1. /\ pending' = pending \ call.batch /\ call.at = "accepted" /\ call'.at = "none"
      /\ phase' = Advanced(call.batch)
      /\ UNCHANGED <<dirty, wire, frame>>
  BY DEF RecordStarted, backendVars, NoCall
<1>2. Marking = {} /\ Marking' = {} /\ Recording = call.batch /\ Recording' = {}
  BY <1>1 DEF Marking, Recording
<1>3. Advanced(Recording)' = Advanced(Recording)
  BY <1>1, <1>2, AdvancedType DEF Advanced, IInv, TypeOK, EngineTypeOK
<1>4. QED
  BY <1>1, <1>2, <1>3 DEF Transport!vars

\* submit_dirty is Commit.
LEMMA CommitMaps == IInv /\ CanCall /\ SubmitDirty => Transport!Commit
<1> SUFFICES ASSUME IInv, CanCall, SubmitDirty PROVE Transport!Commit
  OBVIOUS
<1>1. /\ pending' = pending \cup dirty /\ dirty' = {}
      /\ UNCHANGED <<wire, frame, phase, call>> /\ call.at = "none"
  BY DEF SubmitDirty, CanCall, Free, NoCall, backendVars
<1>2. Marking = {} /\ Marking' = {} /\ Recording = {} /\ Recording' = {}
  BY <1>1 DEF Marking, Recording
<1>3. QED
  BY <1>1, <1>2 DEF Transport!Commit, Advanced

\* submit_channels accepting the batch is Launch: an engine that finds its transfer
\* complete finds at most the batches that false completions ended early.
LEMMA LaunchMaps ==
  IInv /\ CanCall /\ ServiceAccepted => Transport!Launch
<1> SUFFICES ASSUME IInv, CanCall, ServiceAccepted PROVE Transport!Launch
  OBVIOUS
<1>1. wire \in Seq(SUBSET Channels) /\ signals \in Nat /\ events \in Nat
      /\ spurious \in 0 .. MaxSpurious
  BY DEF IInv, TypeOK, BackendTypeOK
<1>2. call.at = "none"
  BY DEF CanCall, Free, NoCall
<1>3. Len(wire) <= spurious
  BY <1>1, <1>2 DEF ServiceAccepted, IInv, CompletionConserved, Undelivered, Completed, Idle
<1>4. Len(wire) < 1 + MaxSpurious
  <2>1. Len(wire) \in Nat /\ spurious \in Nat /\ spurious <= MaxSpurious /\ MaxSpurious \in Nat
    BY <1>1, BackendAssumption
  <2>2. QED BY ONLY <1>3, <2>1
<1>5. Submittable = pending /\ pending # {}
  BY DEF IInv, NoStrandedWork, Submittable, ServiceAccepted
<1>6. wire' = Append(wire, pending)
  BY <1>5 DEF ServiceAccepted, SubmitChannels
<1>7. Marking = {} /\ Marking' = {} /\ Recording = {} /\ Recording' = pending
  BY <1>2, <1>5 DEF Marking, Recording, ServiceAccepted
<1>8. /\ frame' = [c \in Channels |-> IF c \in pending THEN NoFrame ELSE frame[c]]
      /\ UNCHANGED <<dirty, pending, phase>>
  BY <1>5 DEF ServiceAccepted, SubmitChannels
<1>9. Advanced(Recording) = phase
  BY <1>7 DEF Advanced, IInv, TypeOK, EngineTypeOK
<1>10. Advanced(Recording)' = [c \in Channels |-> IF c \in pending
                                 THEN (phase[c] + 1) % PhaseModulus ELSE phase[c]]
  BY <1>7, <1>8 DEF Advanced, AdvancePhase
<1>11. QED
  BY <1>4, <1>5, <1>6, <1>7, <1>8, <1>9, <1>10 DEF Transport!Launch, Transport!NoFrame, NoFrame

\* The transport finishing its oldest batch is Finish.
LEMMA FinishMaps == FinishBatch /\ UNCHANGED engineVars => Transport!Finish
<1> SUFFICES ASSUME FinishBatch, UNCHANGED engineVars PROVE Transport!Finish
  OBVIOUS
<1>1. UNCHANGED <<frame, dirty, pending, phase, call>>
  BY DEF FinishBatch, engineVars, readyVars, registryVars
<1>2. UNCHANGED <<Marking, Recording, Advanced(Recording)>>
  BY <1>1 DEF Marking, Recording, Advanced
<1>3. QED BY <1>1, <1>2 DEF FinishBatch, Transport!Finish

\* Every step of the driver is a step of FrameTransport or a stutter.
LEMMA TransportNext == IInv /\ [Next]_vars => [Transport!Next]_(Transport!vars)
<1> SUFFICES ASSUME IInv, DriverStep
             PROVE  Transport!Next \/ UNCHANGED Transport!vars
  BY Steps
<1> USE DEF registryVars, readyVars, backendVars
<1>1. CASE QuietStep \/ ConfiguringStep
  BY <1>1, Stutters DEF QuietStep, ConfiguringStep, InitBackend, ConfigureCommitted
<1>2. CASE CallStep /\ CanCall
  <2>1. CASE SubmitDirty \/ ServiceAccepted
    BY <1>2, <2>1, CommitMaps, LaunchMaps DEF Transport!Next
  <2>2. ASSUME NEW c \in LogicalChannels, NEW target \in Channels, NEW exactLength \in BOOLEAN,
               AcquireReady(c, target, exactLength)
        PROVE  Transport!Next \/ UNCHANGED Transport!vars
    <3>1. call.at = "none" /\ call'.at = "leased"
      BY <1>2, <2>2 DEF CanCall, Free, NoCall, AcquireReady
    <3>2. UNCHANGED <<Marking, Recording>>
      BY <3>1 DEF Marking, Recording
    <3>3. Grant(target) /\ UNCHANGED <<dirty, pending, phase>>
      BY <2>2 DEF AcquireReady, AcquireWriteTarget
    <3>4. QED BY <3>2, <3>3, GrantMaps DEF Transport!Next
  <2>3. CASE \/ \E boundary : SurfaceLatched(boundary)
             \/ ServiceWithoutSubmit \/ ServiceNotAccepted
    BY <2>3, Stutters DEF SurfaceLatched, ServiceWithoutSubmit, ServiceNotAccepted
  <2>4. CASE OnBackendEvent \/ OnBackendSignal
    BY <2>4, Stutters DEF OnBackendEvent, TakeEvent, OnBackendSignal, TranslateSignal, engineVars
  <2>5. CASE RefusedLease
    <3>1. UNCHANGED <<dirty, pending, phase, call>>
      BY <2>5 DEF RefusedLease
    <3>2. UNCHANGED <<Marking, Recording>>
      BY <3>1 DEF Marking, Recording
    <3>3. PICK granted \in Channels : Grant(granted)
      BY <2>5 DEF RefusedLease, AbortedAcquire, IInv, TypeOK, EngineTypeOK
    <3>4. QED BY <3>1, <3>2, <3>3, GrantMaps DEF Transport!Next
  <2>6. QED BY <1>2, <2>1, <2>2, <2>3, <2>4, <2>5 DEF CallStep
<1>3. CASE ContinueStep
  <2>1. CASE AbortWrite
    <3>1. call.at = "leased" /\ call'.at = "none"
      BY <2>1 DEF AbortWrite, NoCall
    <3>2. UNCHANGED <<Marking, Recording>>
      BY <3>1 DEF Marking, Recording
    <3>3. QED
      BY <2>1, <3>2 DEF AbortWrite, DropLease, Transport!vars, Advanced
  <2>2. QED
    BY <1>3, <2>1, PublishMaps, MarkMaps, RecordMaps DEF ContinueStep, Transport!Next
<1>4. CASE HardwareStep
  <2>1. CASE FinishBatch
    BY <1>4, <2>1, FinishMaps DEF HardwareStep, Transport!Next
  <2>2. CASE RaiseSpurious
    BY <1>4, <2>2, Stutters DEF HardwareStep, RaiseSpurious, engineVars
  <2>3. QED BY <1>4, <2>1, <2>2 DEF HardwareStep
<1>5. QED BY <1>1, <1>2, <1>3, <1>4 DEF DriverStep

\* Every behaviour of the driver is a behaviour of FrameTransport, whatever the
\* backend does: completions lost, delayed or false, calls refused or failing.
\* The wire holds more than one batch only if completions can be false, and
\* frames are withdrawn only if the backend withdraws them.
THEOREM DriverImplementsTransport == Spec => ImplementsTransport
BY TransportNext, TransportInit, Invariance, PTL DEF Spec, ImplementsTransport, Transport!Spec

-----------------------------------------------------------------------------
(***************************************************************************)
(* Commit is a barrier, and the frames on the wire have consecutive phases,*)
(* over a backend that answers Busy while a published frame waits.         *)
(*                                                                         *)
(* The masks have one bit per channel and no trace of which frame it was   *)
(* set for.  With such a backend they need none: a channel has at most one *)
(* frame waiting, and its bit is dirty or pending but not both.            *)
(***************************************************************************)

BatchInv ==
  /\ dirty \cup (pending \ Recording) \subseteq Waiting
  /\ Recording \subseteq pending
  /\ dirty \cap pending = {}
  /\ call.at = "leased" => call.batch \cap (Waiting \cup dirty \cup pending) = {}
  /\ Marking \subseteq Waiting
  /\ Marking \cap (dirty \cup pending) = {}

\* A backend that does not grant a target again grants only an empty one.
LEMMA GrantIsFresh ==
  ASSUME Regrant = {}, NEW c, Grant(c)
  PROVE  frame[c] = NoFrame /\ UNCHANGED <<frame, wire>>
BY DEF Grant

\* The invariant holds before anything is written.
LEMMA BatchInit == Init => BatchInv
BY DEF Init, EngineInit, BackendInit, BatchInv, Recording, Marking, Waiting, NoCall

\* A step that leaves frames, masks and the call alone keeps it.
LEMMA BatchStutter == BatchInv /\ UNCHANGED <<frame, dirty, pending, call>> => BatchInv'
BY DEF BatchInv, Waiting, Recording, Marking

\* A call starts with nothing being marked or recorded.
LEMMA FreeCall == Free => call.at = "none" /\ Marking = {} /\ Recording = {}
BY DEF Free, NoCall, Marking, Recording

\* Calls that start keep it: a lease is for a channel with no frame waiting, and
\* a batch takes all of pending and nothing that is dirty.
LEMMA BatchCall ==
  ASSUME Regrant = {}, IInv, BatchInv, CallStep, CanCall
  PROVE  BatchInv'
<1> USE DEF registryVars, readyVars
<1>1. call.at = "none" /\ Marking = {} /\ Recording = {}
  BY FreeCall DEF CanCall
<1>2. CASE RefusedLease
  BY <1>2, GrantIsFresh, BatchStutter DEF RefusedLease, AbortedAcquire
<1>3. CASE \/ \E boundary : SurfaceLatched(boundary)
           \/ ServiceWithoutSubmit \/ ServiceNotAccepted
  BY <1>3, BatchStutter DEF SurfaceLatched, ServiceWithoutSubmit, ServiceNotAccepted, backendVars
<1>4. CASE OnBackendEvent \/ OnBackendSignal
  BY <1>4, BatchStutter DEF OnBackendEvent, TakeEvent, OnBackendSignal, TranslateSignal, engineVars
<1>5. ASSUME NEW c \in LogicalChannels, NEW target \in Channels, NEW exactLength \in BOOLEAN,
             AcquireReady(c, target, exactLength)
      PROVE  BatchInv'
  <2>1. target = c /\ frame[c] = NoFrame
    BY <1>5, GrantIsFresh DEF AcquireReady, AcquireWriteTarget, LeaseFault
  <2>2. c \notin Waiting \cup dirty \cup pending
    BY <1>1, <2>1 DEF BatchInv, Waiting
  <2>3. /\ call'.at = "leased" /\ call'.batch = {c}
        /\ UNCHANGED <<frame, dirty, pending>>
    BY <1>5, GrantIsFresh DEF AcquireReady, AcquireWriteTarget
  <2>4. Marking' = {} /\ Recording' = {} /\ Waiting' = Waiting
    BY <2>3 DEF Marking, Recording, Waiting
  <2>5. QED BY <1>1, <2>2, <2>3, <2>4 DEF BatchInv
<1>6. CASE SubmitDirty
  <2>1. /\ pending' = pending \cup dirty /\ dirty' = {} /\ UNCHANGED <<frame, call>>
    BY <1>6 DEF SubmitDirty, backendVars
  <2>2. Marking' = {} /\ Recording' = {} /\ Waiting' = Waiting
    BY <1>1, <2>1 DEF Marking, Recording, Waiting
  <2>3. QED BY <1>1, <2>1, <2>2 DEF BatchInv
<1>7. CASE ServiceAccepted
  <2>1. Submittable = pending
    BY DEF Submittable, IInv, NoStrandedWork
  <2>2. /\ frame' = [c \in Channels |-> IF c \in pending THEN NoFrame ELSE frame[c]]
        /\ call'.at = "accepted" /\ call'.batch = pending /\ UNCHANGED <<dirty, pending>>
    BY <1>7, <2>1 DEF ServiceAccepted, SubmitChannels
  <2>3. Marking' = {} /\ Recording' = pending
    BY <2>2 DEF Marking, Recording
  <2>4. dirty \subseteq Waiting'
    BY <1>1, <2>2 DEF BatchInv, Waiting
  <2>5. QED BY <2>2, <2>3, <2>4 DEF BatchInv
<1>8. QED BY <1>2, <1>3, <1>4, <1>5, <1>6, <1>7 DEF CallStep

\* Calls that continue keep it.
LEMMA BatchContinue ==
  ASSUME IInv, BatchInv, ContinueStep
  PROVE  BatchInv'
<1> USE DEF registryVars, readyVars
<1>1. CASE AbortWrite
  <2>1. /\ call.at = "leased" /\ call'.at = "none" /\ UNCHANGED <<frame, dirty, pending>>
    BY <1>1 DEF AbortWrite, DropLease, NoCall
  <2>2. QED BY <2>1 DEF BatchInv, Waiting, Marking, Recording
<1>2. CASE PublishWrite
  <2>1. PICK c \in registered :
          call = [at |-> "leased", batch |-> {c}, target |-> {c}, phase |-> phase[c]]
    BY <1>2 DEF IInv, PublishWrite, CallShape
  <2>2. c \in Channels /\ phase[c] \in Phases
    BY DEF IInv, TypeOK, EngineTypeOK
  <2>3. phase[c] # NoFrame
    BY <2>2, BackendAssumption DEF Phases, NoFrame
  <2>4. /\ frame' = [d \in Channels |-> IF d = c THEN phase[c] ELSE frame[d]]
        /\ call'.at = "published" /\ call'.batch = {c} /\ UNCHANGED <<dirty, pending>>
    BY <1>2, <2>1 DEF PublishWrite, PublishLease
  <2>5. Waiting' = Waiting \cup {c}
    BY <2>2, <2>3, <2>4 DEF Waiting
  <2>6. Marking = {} /\ Recording = {} /\ Marking' = {c} /\ Recording' = {}
    BY <2>1, <2>4 DEF Marking, Recording
  <2>7. c \notin dirty \cup pending
    BY <2>1 DEF BatchInv
  <2>8. QED BY <2>4, <2>5, <2>6, <2>7 DEF BatchInv
<1>3. CASE MarkChannelPublished
  <2>1. MarkError = "Ok"
    BY <1>3 DEF IInv, MarkChannelPublished, CallShape, MarkError, Latched, RecordError
  <2>2. /\ dirty' = dirty \cup Marking /\ call.at = "published" /\ call'.at = "none"
        /\ UNCHANGED <<frame, pending>>
    BY <1>3, <2>1 DEF MarkChannelPublished, Marking, NoCall, backendVars
  <2>3. Recording = {} /\ Marking' = {} /\ Recording' = {} /\ Waiting' = Waiting
    BY <2>2 DEF Marking, Recording, Waiting
  <2>4. QED BY <2>2, <2>3 DEF BatchInv
<1>4. CASE RecordStarted
  <2>1. /\ pending' = pending \ Recording /\ call.at = "accepted" /\ call'.at = "none"
        /\ UNCHANGED <<frame, dirty>>
    BY <1>4 DEF RecordStarted, Recording, NoCall, backendVars
  <2>2. Marking' = {} /\ Recording' = {} /\ Waiting' = Waiting
    BY <2>1 DEF Marking, Recording, Waiting
  <2>3. QED BY <2>1, <2>2 DEF BatchInv
<1>5. QED BY <1>1, <1>2, <1>3, <1>4 DEF ContinueStep

\* Every step keeps it.
LEMMA BatchNext ==
  ASSUME Regrant = {}
  PROVE  IInv /\ BatchInv /\ [Next]_vars => BatchInv'
<1> SUFFICES ASSUME IInv, BatchInv, DriverStep PROVE BatchInv'
  BY Steps
<1>1. CASE QuietStep \/ ConfiguringStep
  BY <1>1, BatchStutter DEF QuietStep, ConfiguringStep, InitBackend, ConfigureCommitted,
                            readyVars, backendVars
<1>2. CASE HardwareStep
  BY <1>2, BatchStutter DEF HardwareStep, FinishBatch, RaiseSpurious, engineVars, readyVars
<1>3. QED BY <1>1, <1>2, BatchCall, BatchContinue DEF DriverStep

\* No channel of a launch was written again since its commit: a frame goes out
\* through Driver::commit, if the backend does not let it overtake one.
THEOREM CommitIsABarrier ==
  ASSUME Regrant = {}
  PROVE  Spec => []CommittedBeforeLaunch
<1>1. BatchInv => CommittedBeforeLaunch
  BY DEF BatchInv, CommittedBeforeLaunch
<1>2. IInv /\ BatchInv /\ [Next]_vars => BatchInv'
  BY BatchNext
<1>3. QED
  BY <1>1, <1>2, BatchInit, Invariance, PTL DEF Spec

\* A batch starts only in ServiceAccepted, and takes waiting frames.
LEMMA LaunchStep ==
  ASSUME IInv, BatchInv, DriverStep, NEW c \in Recording' \ Recording
  PROVE  frame[c] = phase[c]
<1>1. call'.at = "accepted" /\ call' # call
  BY DEF Recording
<1>2. ServiceAccepted /\ CanCall
  BY <1>1 DEF DriverStep, QuietStep, ConfiguringStep, InitBackend, ConfigureCommitted, CallStep,
     SurfaceLatched, RefusedLease, AcquireReady, SubmitDirty, ServiceWithoutSubmit,
     ServiceNotAccepted, OnBackendEvent, OnBackendSignal, ContinueStep, AbortWrite, PublishWrite,
     MarkChannelPublished, RecordStarted, HardwareStep, engineVars, NoCall, IInv, TypeOK, EngineTypeOK
<1>3. c \in pending /\ Recording = {}
  BY <1>2, FreeCall DEF ServiceAccepted, Submittable, Recording, CanCall
<1>4. c \in Waiting
  BY <1>3 DEF BatchInv
<1>5. QED
  BY <1>4 DEF IInv, FramePhaseCurrent

\* The frames of a channel that reach the wire carry consecutive phases.
THEOREM PhasesHaveNoGap ==
  ASSUME Regrant = {}
  PROVE  Spec => ConsecutivePhases
<1>1. IInv /\ BatchInv /\ [Next]_vars
        => [\A c \in Recording' \ Recording : frame[c] = phase[c]]_vars
  BY Steps, LaunchStep
<1>2. IInv /\ BatchInv /\ [Next]_vars => BatchInv'
  BY BatchNext
<1>3. QED
  BY <1>1, <1>2, BatchInit, Invariance, PTL DEF Spec, ConsecutivePhases

===============================================================================
