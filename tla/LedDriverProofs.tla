---------------------------- MODULE LedDriverProofs ----------------------------
(***************************************************************************)
(* Proofs about LedDriver, for every number of channels, every epoch width,*)
(* every number of spurious completions and both builds.                   *)
(***************************************************************************)
EXTENDS LedDriver, TLAPS

USE BackendAssumption, EngineAssumption, DriverAssumption

\* AdvancePhase wraps inside the epoch (model.rs, wrapping_add).
LEMMA PhaseAdvances ==
  ASSUME NEW p \in Phases
  PROVE  AdvancePhase(p) \in Phases
BY DEF Phases, AdvancePhase

\* Advancing a batch keeps every record's phase an epoch.
LEMMA AdvancedType ==
  ASSUME NEW batch, phase \in [Channels -> Phases]
  PROVE  Advanced(batch) \in [Channels -> Phases]
BY PhaseAdvances DEF Advanced

\* The initial epoch is one.
LEMMA ZeroPhase == 0 \in Phases
BY DEF Phases

\* Completed is one of the two transfer states.
LEMMA CompletedCases == Completed = Idle \/ Completed = transfer
BY DEF Completed

\* Idle is a transfer state.
LEMMA IdleType == Idle \in [inFlight : BOOLEAN, dmaComplete : BOOLEAN,
                            submitted : SUBSET Channels]
BY DEF Idle

\* Granting a target touches no queue, and a waiting frame stays or goes.
LEMMA GrantFrame ==
  ASSUME NEW c, TypeOK, Grant(c)
  PROVE  /\ UNCHANGED <<wire, signals, events, spurious>>
         /\ frame' \in [Channels -> Phases \cup {NoFrame}]
         /\ \A d \in Channels : frame'[d] = frame[d] \/ frame'[d] = NoFrame
BY DEF Grant, TypeOK, BackendTypeOK

-----------------------------------------------------------------------------
(* Type correctness.                                                       *)

\* The initial state is well typed.
LEMMA TypeInit == Init => TypeOK
<1>1. ASSUME Init PROVE EngineTypeOK
  BY <1>1, ZeroPhase DEF Init, EngineInit, EngineTypeOK, Idle, NoCall, Stages
<1>2. ASSUME Init PROVE BackendTypeOK
  BY <1>2 DEF Init, BackendInit, BackendTypeOK, NoFrame
<1>3. QED BY <1>1, <1>2 DEF TypeOK, Init

\* Every step keeps the state well typed.
LEMMA TypeNext == TypeOK /\ [Next]_vars => TypeOK'
<1> SUFFICES ASSUME TypeOK, [Next]_vars PROVE TypeOK'
  OBVIOUS
<1> USE DEF Return, registryVars, readyVars
<1>1. CASE New
  BY <1>1 DEF New, InitBackend, TypeOK, EngineTypeOK, BackendTypeOK, backendVars,
              EngineErrors
<1>2. ASSUME NEW ids \in SUBSET LogicalChannels, NEW oversized \in BOOLEAN,
             ConfigurePrepared(ids, oversized)
      PROVE  TypeOK'
  <2>1. CASE ConfigureCommitted(ids, oversized)
    <3>1. ids \subseteq Channels
      BY <2>1 DEF ConfigureCommitted, PlanErrors
    <3>2. QED
      BY <1>2, <2>1, <3>1 DEF ConfigurePrepared, ConfigureCommitted, TypeOK, EngineTypeOK, BackendTypeOK,
                       backendVars
  <2>2. CASE ConfigureRejected(ids, oversized)
    BY <1>2, <2>2 DEF ConfigurePrepared, ConfigureRejected, PlanErrors, TypeOK, EngineTypeOK,
                     BackendTypeOK, backendVars, EngineErrors
  <2>3. CASE ConfigureBackendFailed(ids, oversized)
    BY <1>2, <2>3 DEF ConfigurePrepared, ConfigureBackendFailed, TypeOK, EngineTypeOK,
                     BackendTypeOK, backendVars, EngineErrors
  <2>4. CASE RejectSetup("EmptyConfiguration") \/ RejectSetup("AlreadyConfigured")
    BY <1>2, <2>4 DEF ConfigurePrepared, RejectSetup, TypeOK, EngineTypeOK, BackendTypeOK, backendVars
  <2>5. QED
    BY <1>2, <2>1, <2>2, <2>3, <2>4 DEF ConfigurePrepared
<1>3. CASE Finalize
  BY <1>3 DEF Finalize, engineVars, TypeOK, EngineTypeOK, BackendTypeOK, backendVars
<1>4. CASE ForeignHandle
  BY <1>4 DEF ForeignHandle, RejectSetup, TypeOK, EngineTypeOK, BackendTypeOK, backendVars
<1>5. ASSUME NEW c \in LogicalChannels, WriteRgb48(c)
      PROVE  TypeOK'
  <2>1. CASE SurfaceLatched("prepare")
    BY <1>5, <2>1 DEF WriteRgb48, SurfaceLatched, TypeOK, EngineTypeOK, BackendTypeOK,
                     backendVars, EngineErrors, ContractViolations
  <2>2. CASE AcquireUnregistered(c)
    BY <1>5, <2>2 DEF WriteRgb48, AcquireUnregistered, RecordError, TypeOK, EngineTypeOK,
                     BackendTypeOK, backendVars, EngineErrors
  <2>3. CASE AcquireRefused(c)
    BY <1>5, <2>3 DEF WriteRgb48, AcquireRefused, TypeOK, EngineTypeOK, BackendTypeOK,
                     backendVars, EngineErrors, BackendFaults
  <2>4. ASSUME NEW target \in Channels, NEW exactLength \in BOOLEAN,
               AcquireMismatched(c, target, exactLength)
        PROVE  TypeOK'
    <3>1. PICK granted \in {c, target} : AbortedAcquire(granted)
      BY <2>4 DEF AcquireMismatched
    <3>2. BackendTypeOK'
      BY <3>1, GrantFrame DEF AbortedAcquire, TypeOK, BackendTypeOK
    <3>3. QED
      BY <1>5, <2>4, <3>2 DEF WriteRgb48, AcquireMismatched, LeaseFault, TypeOK, EngineTypeOK,
                       EngineErrors, ContractViolations
  <2>5. ASSUME NEW target \in Channels, NEW exactLength \in BOOLEAN,
               AcquireReady(c, target, exactLength)
        PROVE  TypeOK'
    <3>1. c \in registered
      BY <2>5 DEF AcquireReady, RecordError
    <3>2. c \in Channels /\ phase[c] \in Phases
      BY <3>1 DEF TypeOK, EngineTypeOK
    <3>3. BackendTypeOK'
      BY <2>5, GrantFrame DEF AcquireReady, AcquireWriteTarget, TypeOK, BackendTypeOK
    <3>4. QED
      BY <1>5, <2>5, <3>2, <3>3 DEF WriteRgb48, AcquireReady, TypeOK, EngineTypeOK, Stages
  <2>6. QED
    BY <1>5, <2>1, <2>2, <2>3, <2>4, <2>5 DEF WriteRgb48
<1>6. CASE FinishWrite
  <2>1. CASE AbortWrite
    BY <1>6, <2>1, ZeroPhase DEF FinishWrite, AbortWrite, DropLease, NoCall, TypeOK, EngineTypeOK,
                     BackendTypeOK, EngineErrors, BackendFaults, Stages
  <2>2. CASE PublishWrite
    <3>1. PublishWrite /\ UNCHANGED typestate
      BY <1>6, <2>2 DEF FinishWrite
    <3>2. call' \in [at : Stages, batch : SUBSET Channels, target : SUBSET Channels, phase : Phases]
      BY <2>2 DEF PublishWrite, TypeOK, EngineTypeOK, Stages
    <3>3. frame' \in [Channels -> Phases \cup {NoFrame}]
      BY <2>2 DEF PublishWrite, PublishLease, TypeOK, EngineTypeOK, BackendTypeOK
    <3>4. /\ leased' = leased \ call.target
          /\ UNCHANGED <<wire, signals, events, spurious, registryVars, phase, readyVars, result>>
      BY <2>2 DEF PublishWrite, PublishLease
    <3>5. QED
      BY <3>1, <3>2, <3>3, <3>4 DEF registryVars, readyVars, TypeOK, EngineTypeOK, BackendTypeOK
  <2>3. CASE MarkChannelPublished
    BY <1>6, <2>3, ZeroPhase DEF FinishWrite, MarkChannelPublished, MarkError, NoCall, TypeOK,
                     EngineTypeOK, BackendTypeOK, backendVars, EngineErrors, ContractViolations,
                     Stages
  <2>4. QED BY <1>6, <2>1, <2>2, <2>3 DEF FinishWrite
<1>7. CASE Commit
  <2>1. CASE SurfaceLatched("commit")
    BY <1>7, <2>1 DEF Commit, SurfaceLatched, TypeOK, EngineTypeOK, BackendTypeOK,
                     backendVars, EngineErrors, ContractViolations
  <2>2. CASE SubmitDirtyNotReady \/ SubmitDirty
    BY <1>7, <2>2 DEF Commit, SubmitDirtyNotReady, SubmitDirty, TypeOK, EngineTypeOK,
                     BackendTypeOK, backendVars, EngineErrors
  <2>3. QED BY <1>7, <2>1, <2>2 DEF Commit
<1>8. CASE ServiceIdle
  <2>1. CASE SurfaceLatched("service")
    BY <1>8, <2>1 DEF ServiceIdle, SurfaceLatched, TypeOK, EngineTypeOK, BackendTypeOK,
                     backendVars, EngineErrors, ContractViolations
  <2>2. CASE ServiceNotReady
    BY <1>8, <2>2 DEF ServiceIdle, ServiceNotReady, TypeOK, EngineTypeOK,
                     BackendTypeOK, backendVars, EngineErrors
  <2>3. CASE ServiceWithoutSubmit \/ ServiceNotAccepted
    <3>1. transfer' \in [inFlight : BOOLEAN, dmaComplete : BOOLEAN,
                         submitted : SUBSET Channels]
      BY <2>3, CompletedCases, IdleType
         DEF ServiceWithoutSubmit, ServiceNotAccepted, TypeOK, EngineTypeOK
    <3>2. result'.err \in {"Ok"} \cup BackendFaults /\ result' = [at |-> "service", err |-> result'.err]
      BY <2>3 DEF ServiceWithoutSubmit, ServiceNotAccepted
    <3>3. QED
      BY <1>8, <2>3, <3>1, <3>2 DEF ServiceIdle, ServiceWithoutSubmit, ServiceNotAccepted,
                  TypeOK, EngineTypeOK, BackendTypeOK, backendVars, EngineErrors, BackendFaults
  <2>4. QED BY <1>8, <2>1, <2>2, <2>3 DEF ServiceIdle
<1>9. CASE ServiceStart
  <2>1. Submittable \in SUBSET Channels
    BY DEF Submittable, TypeOK, EngineTypeOK
  <2>2. EngineTypeOK'
    BY <1>9, <2>1, ZeroPhase DEF ServiceStart, ServiceAccepted, Idle, TypeOK, EngineTypeOK, Stages
  <2>3. BackendTypeOK'
    BY <1>9, <2>1 DEF ServiceStart, ServiceAccepted, SubmitChannels, TypeOK, BackendTypeOK
  <2>4. QED BY <1>9, <2>2, <2>3 DEF ServiceStart, TypeOK
<1>10. CASE FinishService
  <2>1. phase' \in [Channels -> Phases]
    BY <1>10, AdvancedType DEF FinishService, RecordStarted, TypeOK, EngineTypeOK
  <2>2. QED
    BY <1>10, <2>1, ZeroPhase DEF FinishService, RecordStarted, InFlight, NoCall, TypeOK,
                       EngineTypeOK, BackendTypeOK, backendVars, Stages
<1>11. CASE BackendEvent
  <2>1. transfer' \in [inFlight : BOOLEAN, dmaComplete : BOOLEAN,
                       submitted : SUBSET Channels]
    BY <1>11 DEF BackendEvent, OnBackendEvent, TypeOK, EngineTypeOK
  <2>2. violation' \in BOOLEAN
    BY <1>11 DEF BackendEvent, OnBackendEvent
  <2>3. events' \in Nat
    BY <1>11 DEF BackendEvent, OnBackendEvent, TakeEvent, TypeOK, BackendTypeOK
  <2>4. QED
    BY <1>11, <2>1, <2>2, <2>3
       DEF BackendEvent, OnBackendEvent, TakeEvent, TypeOK, EngineTypeOK, BackendTypeOK
<1>12. CASE BackendSignal
  BY <1>12 DEF BackendSignal, OnBackendSignal, TranslateSignal, engineVars, TypeOK,
              EngineTypeOK, BackendTypeOK
<1>13. CASE Hardware
  <2>1. wire' \in Seq(SUBSET Channels)
    BY <1>13 DEF Hardware, FinishBatch, RaiseSpurious, TypeOK, BackendTypeOK
  <2>2. signals' \in Nat /\ events' \in Nat /\ spurious' \in 0 .. MaxSpurious
    BY <1>13 DEF Hardware, FinishBatch, RaiseSpurious, TypeOK, BackendTypeOK
  <2>3. QED
    BY <1>13, <2>1, <2>2 DEF Hardware, FinishBatch, RaiseSpurious, engineVars, TypeOK,
                EngineTypeOK, BackendTypeOK
<1>14. CASE UNCHANGED vars
  BY <1>14 DEF vars, engineVars, backendVars, TypeOK, EngineTypeOK, BackendTypeOK
<1>15. QED
  BY <1>1, <1>2, <1>3, <1>4, <1>5, <1>6, <1>7, <1>8, <1>9, <1>10, <1>11, <1>12, <1>13,
     <1>14 DEF Next

\* Type correctness: the engine's masks stay inside the registered range, the
\* phases inside the epoch, and every outcome is one the source can return.
THEOREM TypeCorrect == Spec => []TypeOK
BY TypeInit, TypeNext, PTL DEF Spec

-----------------------------------------------------------------------------
(***************************************************************************)
(* The error projection (error_map.rs) is honest of a driver that was      *)
(* configured: no call path of the public API produces an engine error its *)
(* boundary does not enumerate, so the fallback of unexpected_engine_error *)
(* is never taken.                                                         *)
(***************************************************************************)

\* The outcome is one its boundary enumerates; the fallback is not taken.
Expected ==
  \/ result.err = "Ok"
  \/ result.at = "api"
  \/ result.err \in Enumerated(result.at)

ErrorInv == TypeOK /\ (FinalizedUnconfigured \/ Expected)

\* What a boundary enumerates it does not map to Backend, unless it is a fault.
LEMMA ExpectedIsGenuine == TypeOK /\ Expected => BackendErrorIsGenuine
<1> SUFFICES ASSUME TypeOK, Expected, result.err \notin BackendFaults
             PROVE  PublicResult(result) # "Backend"
  BY DEF BackendErrorIsGenuine
<1>1. CASE result.err = "Ok" \/ result.at = "api"
  BY <1>1 DEF PublicResult, TypeOK, EngineTypeOK, EngineErrors, ContractViolations, BackendFaults
<1>2. CASE result.err # "Ok" /\ result.at # "api"
  <2>1. result.err \in Enumerated(result.at)
    BY <1>2 DEF Expected
  <2>2. PublicResult(result) = PublicCategory(result.at, result.err)
    BY <1>2, <2>1 DEF PublicResult
  <2>3. result.err \in ContractViolations \cup ChannelErrors \cup
          {"ChannelAlreadyRegistered", "ConfigurationLimitExceeded", "WriteBusy",
           "SourceLengthMismatch"}
    BY <2>1 DEF Enumerated, RuntimeErrors, ChannelErrors, BackendFaults
  <2>4. QED
    BY <2>2, <2>3 DEF PublicCategory, ContractViolations, ChannelErrors, BackendFaults
<1>3. QED BY <1>1, <1>2

\* The error invariant holds initially.
LEMMA ErrorInit == Init => ErrorInv
BY TypeInit DEF Init, EngineInit, ErrorInv, Expected

\* Only Finalize makes a driver Ready, and a Ready driver is not configured later.
LEMMA ReadyIsFinal ==
  ASSUME [Next]_vars
  PROVE  /\ typestate = "Ready" => UNCHANGED <<typestate, lifecycle>>
         /\ typestate # "Ready" /\ typestate' = "Ready" => Finalize
BY DEF Next, vars, engineVars, registryVars, New, ConfigurePrepared, Finalize, ForeignHandle, RejectSetup,
       WriteRgb48, SurfaceLatched, AcquireUnregistered, AcquireRefused, AcquireMismatched,
       AcquireReady, FinishWrite, AbortWrite, PublishWrite, MarkChannelPublished, Commit,
       SubmitDirtyNotReady, SubmitDirty, ServiceIdle, ServiceNotReady, ServiceWithoutSubmit,
       ServiceNotAccepted, ServiceStart, ServiceAccepted, FinishService, RecordStarted,
       BackendEvent, OnBackendEvent, BackendSignal, OnBackendSignal, Hardware

\* A driver once finalized without configuration stays unconfigured.
LEMMA UnconfiguredForGood ==
  FinalizedUnconfigured /\ [Next]_vars => FinalizedUnconfigured'
BY ReadyIsFinal DEF FinalizedUnconfigured, Ready

\* Every step keeps it.
LEMMA ErrorNext == ErrorInv /\ [Next]_vars => ErrorInv'
<1> SUFFICES ASSUME TypeOK, Expected, ~ FinalizedUnconfigured, [Next]_vars
             PROVE  FinalizedUnconfigured' \/ Expected'
  BY TypeNext, UnconfiguredForGood DEF ErrorInv
<1> USE DEF Expected, FinalizedUnconfigured, Ready, Return, registryVars, Enumerated, RuntimeErrors
<1>1. CASE New
  BY <1>1 DEF New, InitBackend, BackendFaults
<1>2. ASSUME NEW ids \in SUBSET LogicalChannels, NEW oversized \in BOOLEAN,
             ConfigurePrepared(ids, oversized)
      PROVE  FinalizedUnconfigured' \/ Expected'
  <2>1. CASE RejectSetup("EmptyConfiguration") \/ RejectSetup("AlreadyConfigured")
    BY <1>2, <2>1 DEF ConfigurePrepared, RejectSetup
  <2>2. CASE ConfigureRejected(ids, oversized)
    BY <1>2, <2>2 DEF ConfigurePrepared, ConfigureRejected, PlanErrors
  <2>3. CASE ConfigureBackendFailed(ids, oversized)
    BY <1>2, <2>3 DEF ConfigurePrepared, ConfigureBackendFailed
  <2>4. CASE ConfigureCommitted(ids, oversized)
    BY <1>2, <2>4 DEF ConfigurePrepared, ConfigureCommitted
  <2>5. QED BY <1>2, <2>1, <2>2, <2>3, <2>4 DEF ConfigurePrepared
<1>3. CASE Finalize
  BY <1>3 DEF Finalize, engineVars
<1>4. CASE ForeignHandle
  BY <1>4 DEF ForeignHandle, RejectSetup
<1>5. ASSUME NEW c \in LogicalChannels, WriteRgb48(c)
      PROVE  FinalizedUnconfigured' \/ Expected'
  <2>1. CASE SurfaceLatched("prepare")
    BY <1>5, <2>1 DEF WriteRgb48, SurfaceLatched, ContractViolations
  <2>2. CASE AcquireUnregistered(c)
    BY <1>5, <2>2 DEF WriteRgb48, AcquireUnregistered, RecordError, ChannelErrors
  <2>3. CASE AcquireRefused(c)
    BY <1>5, <2>3 DEF WriteRgb48, AcquireRefused, BackendFaults
  <2>4. ASSUME NEW target \in Channels, NEW exactLength \in BOOLEAN,
               AcquireMismatched(c, target, exactLength) \/ AcquireReady(c, target, exactLength)
        PROVE  FinalizedUnconfigured' \/ Expected'
    BY <1>5, <2>4 DEF WriteRgb48, AcquireMismatched, AcquireReady, LeaseFault, ContractViolations
  <2>5. QED BY <1>5, <2>1, <2>2, <2>3, <2>4 DEF WriteRgb48
<1>6. CASE FinishWrite
  <2>1. CASE AbortWrite
    BY <1>6, <2>1 DEF FinishWrite, AbortWrite, BackendFaults
  <2>2. CASE PublishWrite \/ MarkChannelPublished
    BY <1>6, <2>2 DEF FinishWrite, PublishWrite, MarkChannelPublished, MarkError,
                      ContractViolations, ChannelErrors
  <2>3. QED BY <1>6, <2>1, <2>2 DEF FinishWrite
<1>7. CASE Commit
  BY <1>7 DEF Commit, CanCall, SurfaceLatched, SubmitDirtyNotReady, SubmitDirty, ContractViolations
<1>8. CASE ServiceIdle \/ ServiceStart
  BY <1>8 DEF ServiceIdle, ServiceStart, CanCall, SurfaceLatched, ServiceNotReady,
              ServiceWithoutSubmit, ServiceNotAccepted, ServiceAccepted, ContractViolations,
              BackendFaults
<1>9. CASE FinishService \/ BackendEvent \/ BackendSignal \/ Hardware \/ UNCHANGED vars
  BY <1>9 DEF FinishService, RecordStarted, BackendEvent, OnBackendEvent, BackendSignal,
              OnBackendSignal, Hardware, engineVars, vars
<1>10. QED
  BY <1>1, <1>2, <1>3, <1>4, <1>5, <1>6, <1>7, <1>8, <1>9 DEF Next

\* A wrong Backend error (errors.rs) comes only from a driver that was finalized
\* without being configured, for any number of channels and in both builds.
THEOREM ErrorsMisleadOnlyUnconfigured == Spec => []MisleadsOnlyUnconfigured
<1>1. ErrorInv => MisleadsOnlyUnconfigured
  BY ExpectedIsGenuine DEF ErrorInv, MisleadsOnlyUnconfigured
<1>2. QED
  BY <1>1, ErrorInit, ErrorNext, PTL DEF Spec

\* A debug build has no such driver.
LEMMA NeverUnconfigured ==
  ASSUME DebugAssertions = TRUE
  PROVE  Spec => []~ FinalizedUnconfigured
<1>1. Init => ~ FinalizedUnconfigured
  BY DEF Init, FinalizedUnconfigured
<1>2. ~ FinalizedUnconfigured /\ [Next]_vars => ~ FinalizedUnconfigured'
  BY ReadyIsFinal DEF FinalizedUnconfigured, Ready, Finalize, engineVars, registryVars
<1>3. QED BY <1>1, <1>2, PTL DEF Spec

\* In a debug build the public Backend error always is a failure of the backend
\* (errors.rs); LedDriverRelease.cfg shows that a release build lacks this.
THEOREM BackendErrorsGenuine ==
  ASSUME DebugAssertions = TRUE
  PROVE  Spec => []BackendErrorIsGenuine
<1>1. MisleadsOnlyUnconfigured /\ ~ FinalizedUnconfigured => BackendErrorIsGenuine
  BY DEF MisleadsOnlyUnconfigured
<1>2. QED
  BY <1>1, ErrorsMisleadOnlyUnconfigured, NeverUnconfigured, PTL

===============================================================================
