# Verification of led-wire-driver

TLA+ models of the `led-wire-driver` crate, checked with TLC and, where it
matters most, proved with TLAPS. Paths are relative to the repository root (the
crate's sources are in `src/`). Two conventions are used throughout: a
definition keeps the name of the code it translates where TLA+ allows it, and a
mutant (`Name_WhatIsWrong`, right before `Name`) is a plausible bug kept next to
the definition it breaks, so that every checked property is known to catch one.

## 1. The system

A `no_std`, fixed-capacity LED driver. Firmware builds a validated setup,
creates `Driver<B, Configuring>`, configures it once, finalizes it into
`Driver<B, Ready>`, and then writes channels, commits, services periodically and
forwards what its interrupt glue collects (`on_backend_signal`,
`on_backend_event`). Everything goes through `&mut Driver`: there is no lock and
no thread in the crate. The concurrency is between the driver and the transport
hardware below the backend, which finishes transfers and raises completions at
any time, also in the middle of a driver call.

| Component | Source | State | Operations |
|---|---|---|---|
| public driver | `api/driver.rs`, `api/channel.rs` | typestate, driver id | `new`, `configure_prepared`, `finalize`, `channel`, `write_rgb48`, `commit`, `service`, ingress |
| id allocator | `api/driver.rs:22-56` | `NEXT_DRIVER_ID` | load / compare-exchange loop |
| engine lifecycle | `engine/mod.rs` | `EngineLifecycle` | `init`, plan, apply, enter ready |
| registration | `engine/registration.rs` | records with layout, length and `frame_phase` | plan, commit, lookup, `advance_phase` |
| engine runtime | `engine/runtime.rs`, `engine/prepared_write.rs`, `engine/mask.rs` | `TransferState`, `dirty_mask`, `pending_mask`, `ingress_violation` | acquire, pack, publish, mark, submit_dirty, service, ingress |
| error projection | `api/error_map.rs`, `api/errors.rs`, `engine/error.rs` | none | engine error -> public error, per boundary |
| backend contract | `api/backend.rs` | backend-owned targets, accepted batches | the `LedBackend` and `BackendWriteLease` traits |
| setup | `api/setup.rs`, `model.rs` | immutable bindings | `from_bindings` |
| packing | `pack/*` | none (pure) | layout, temporal offset, quantizer |
| fake backend | `test_support.rs` | scripted replies, slots, log | test double of the backend |

How they interact: `write_rgb48` acquires a lease from the backend, packs for the
channel's current phase, publishes, and only then marks the channel dirty, in a
second engine call. `commit` moves dirty to pending. `service` first clears a
completed transfer, then, from idle, offers the pending batch to the backend; if
that answers `Started` the batch becomes `InFlight` and its channels' phases
advance. `TransferComplete` while in flight is noted for the next `service`;
while idle it latches a violation which the next runtime call returns, once.

What makes it hard:

* between `submit_channels` accepting a batch and the engine recording it the
  hardware may already have finished it;
* a write is two engine calls, and the second can fail on its own terms;
* a busy or failing transport, with further writes and commits arriving;
* the phase is read at acquire, used at pack, and advanced at accept;
* completions that come late, through a private signal, not at all, or were
  never owed;
* a channel written again before the batch its last frame belongs to is launched;
  and what the backend does with a waiting frame when it grants the target again;
* handles and phases on counters that wrap.

What makes each part correct:

* runtime: no published frame is forgotten; a waiting frame was packed for the
  phase it will be sent with; the engine knows exactly which batch the transport
  holds; a failing call drops nothing; a lease never outlives its call; a good
  backend is never accused; work that exists is eventually sent; with a backend
  that does not grant a waiting target again, a launch sends committed frames only
  and the phases on the wire have no gap.
* public driver: handles cannot strand work, ids are distinct and non-zero.
* error projection: a category says what happened.
* setup and registration: a prepared setup is a one-to-one map, configuration is
  refused for genuine reasons only, and is all or nothing whatever the backend
  does halfway.
* packing: dithering changes no colour, an off pixel is dark, nothing jumps.
* abstractly: the whole behaves as a frame transport (section 2).

`PROJECT.json` lists every hazard at its line with the properties that cover it.

## 2. Modules

    LedBackend        the backend contract and the hardware below it
      LedEngine       the engine, one action per entry point or step of one
        LedDriver     the public driver; Init, Next, Spec, fairness, properties
          LedDriverProofs         type correctness, the error projection (TLAPS)
            LedDriverSafety       the inductive invariant and safety theorems
          LedDriverTransport      refinement mapping to FrameTransport
            LedDriverTransportProofs  the refinement proved; commit as a barrier
                                      and consecutive phases
    FrameTransport    what the driver promises, abstractly
    ChannelMasks      the mask words; maps to FrameTransport
      ChannelMaskProofs   its theorems
    FakeBackend       the tests' backend; every step one of LedBackend's
      FakeBackendProofs   its theorems
    Registration      bindings to registered channels
      RegistrationEngine  maps it to LedDriver's configuration
        RegistrationProofs  theorems of both
    Packing           colours to wire bytes, over the frames of a channel
      MCPacking       the colours TLC checks
      PackingProofs   its theorems
    DriverIds         the id allocator
      DriverIdProofs  its theorems

EXTENDS stacks the three layers on one state: an entry point of the driver is a
conjunction of the engine's action and the backend's answer, as the call is in
the code.

**LedBackend.** There is no hardware backend in the repository, so this module is
external: the most general backend the trait's contract allows. `leased` are
live leases, `frame[c]` is the published frame that waits in c's target (only the
phase it was packed for is kept, or `NoFrame`), `wire` the accepted batches not
yet finished, `signals` and `events` the completions on their way, `spurious`
how many were raised in breach of the contract. A target is named by the logical
channel bound to it. A repeated publish replaces the waiting frame. The contract
leaves two things open, so they are parameters:

* `Regrant`: what happens when the target of a waiting frame is acquired again. The
  frame stays until the next publish ("kept"), it is gone at once ("withdrawn", so
  that an aborted write loses it; FakeBackend does this), or the target is `Busy`
  until the frame was submitted (`{}`).
* `Lossy`: `FinishBatch` may leave no completion. `MaxSpurious` bounds the
  completions nobody is owed.

A lease the engine rejects (`AcquireMismatched`) may hold any target, the requested
one or another; `AbortedAcquire` grants and drops it in one step, which can still
withdraw the frame that waited there.

**LedEngine.** `lifecycle`, `registered`, `phase`, `transfer`, `dirty`, `pending`
and `violation` are the fields of `LedEngine`, `RegistrationTable` and
`ReadyState`; channel masks are sets. `result` is the last engine outcome with
its boundary. `call` is the stage of the public call in progress: `write_rgb48`
has a state with the lease held ("leased") and one between `publish` and
`mark_channel_published` ("published"), and `service` one between `Started` and
the recording of `InFlight` ("accepted"). These are the points where the hardware
can overtake the driver. Everything else between a call's backend call and its
return touches only the engine's own fields, so it is one action.

| Code | Actions |
|---|---|
| `configure_prepared` | `ConfigureRejected`, `ConfigureBackendFailed`, `ConfigureCommitted` |
| `acquire_prepared_write` | `SurfaceLatched`, `AcquireUnregistered`, `AcquireRefused`, `AcquireMismatched`, `AcquireReady` |
| `pack_rgb48_active`, `publish`, drop | `AbortWrite`, `PublishWrite` |
| `mark_channel_published` | `MarkChannelPublished` |
| `submit_dirty` | `SurfaceLatched`, `SubmitDirtyNotReady`, `SubmitDirty` |
| `service` | `SurfaceLatched`, `ServiceNotReady`, `ServiceWithoutSubmit`, `ServiceNotAccepted`, `ServiceAccepted` then `RecordStarted` |
| ingress | `OnBackendEvent`, `OnBackendSignal` |

**LedDriver.** `typestate` is the type parameter of the `Driver` the firmware
holds. `CanCall` is the exclusive borrow: no call and no ingress starts while
another is in progress (the borrow checker enforces it; the mutant
`CanCall_SharedBorrow` shows what that buys). `DebugAssertions` selects the
build: a panicking `debug_assert!` is an action that is not enabled. `IdsWrapped`
lets a handle of another driver carry this driver's id. `PublicResult` is
`error_map.rs`.

**FrameTransport** has no calls, leases or errors: `Publish`, `Commit`, `Launch`
(the whole committed set, only when the wire has room, one number per channel),
`Finish`, and `Withdraw` where the backend takes a waiting frame back. The wire has
room for `Depth` batches: one, and one for each completion the backend may report in
breach of the contract. **LedDriverTransport** maps to it: a frame counts as published when the
lease is (a channel being marked counts as uncommitted), a batch as launched when
the transport accepts it (so the recorded part, `InFlight`, pending bits, phases,
lags behind and is anticipated in the mapping).

**ChannelMasks** has the masks as the code has them, natural numbers of
`CapacityBits` bits, with the shifts, unions, intersections and complements of
`mask_bit`, `registered_channel_mask`, `submit_dirty` and
`try_start_pending_submit`. It maps to FrameTransport, as LedDriverTransport
does, so both descriptions of the masks meet the same abstract one. The bits of a
word are found by halving it and a word is made of bits by doubling, recursive
functions that can be proved about. Only the successful calls are in it. It assumes
`DriverMaxChannels <= CapacityBits`, which `engine/mod.rs:50` asserts when the crate
is compiled (8 and 32).

**FakeBackend** is `test_support.rs`: the one-shot script, the slots with their three
flags, and the lease, whose `Drop` and `publish` write those flags. A test may
script any reply at any moment. The log, the bytes and the byte limit of
`validate_specs`, which the engine has already checked, are left out. Batches name
slots directly, as the tests bind logical channel 0 to backend channel 0.

**Registration** takes apart what LedEngine does in one configuration action: the
loops of `from_bindings`, `from_prepared_setup` and `commit_plan`, one binding per
step, with the backend's answer between the last two. An `Option` is a set of at
most one element; `stage` is the loop in progress, `buf` and `next` its list and
position. `BackendRefuses` may leave any part of the specs applied: of a failed call
`api/backend.rs:145` asks that the driver need not be recreated to clear partial
state and that a retry stays possible, not that nothing was applied; so each later
attempt is enabled and may succeed. The two duplicate checks and the full vectors behind
`from_bindings` are kept, to show that they are never taken.
**RegistrationEngine** maps this to LedDriver: the steps that end a
`configure_prepared` call are `ConfigurePrepared` steps there for the ids and sizes
of the setup, and all others leave lifecycle and registered channels alone.

**Packing** is `pack/*` with the policies of all four feature combinations: a
channel of one 8x8 tile shows frames of one colour or of none, each packed for the
channel's epoch into its lanes of the wire bytes; `Accept` is the epoch's advance
in the engine. `shown` is a history variable, the light (sum of bytes) per
component of the last frames. It reads the bytes by `WireOrder`, the order in which
the strip is sent the components, which is stated apart from `layout_map`: Rgb, Grb
and Brg as the test at `pack/pipeline.rs:154` expects them, Bgr and Rbg as named
(each is its own inverse), Gbr by the rule of Brg.

**DriverIds** is `allocate_driver_id` with its load, exchange and retry steps for
any number of callers; `issued` is a history variable.

## 3. Runs

| Run | What it shows |
|---|---|
| `driver_safety` (LedDriver.cfg) | type correctness, eight invariants, three action properties over 1,615,431 states: 2 of 3 channels, epochs of 3 values, one spurious completion, any completion lost, waiting frames kept or withdrawn, release build, wrapped ids |
| `driver_liveness` (LedDriverLive.cfg) | with fairness, every published frame is taken by the transport and every transfer ends; in a debug build no misleading `Backend` error |
| `driver_batches` (LedDriverBatches.cfg) | two channels, `Regrant = {}`, completions lost and spurious: launches take committed frames only, in consecutive phases; a frame is held up by nothing but a completion that never comes, and any one completion ends that; the driver still implements FrameTransport, whose wire now has room for two batches |
| `driver_implements_transport` (LedDriverTransport.cfg) | two channels, contract kept, waiting frames kept or withdrawn: the driver implements FrameTransport, its fairness included |
| `release_finalize` (LedDriverRelease.cfg) | violation: see Findings |
| `driver_barrier` (LedDriverBarrier.cfg) | violation: see Findings |
| `channel_masks` (ChannelMasks.cfg) | the mask words implement the sets of FrameTransport; that they name registered channels only is proved |
| `fake_backend` (FakeBackend.cfg) | every call of the test double is one LedBackend allows; its slot flags follow its leases |
| `registration` (Registration.cfg) | six invariants over every list of up to four bindings, built and configured again and again, the backend failing anywhere; the whole implements LedDriver's configuration |
| `packing` (MCPacking.cfg) | six layouts, four feature combinations, 32 colours, every starting epoch: light preserved, off dark, steps small |
| `driver_ids` (DriverIds.cfg) | three callers, almost three turns of a 4-valued counter |
| `driver_id_replay` (DriverIdsWrap.cfg) | violation: see Findings |

`NoLostFrame` is the central property: what waits in a target is dirty, pending
or about to be marked. It depends on the latch being clear whenever a write is
in progress, on the lease being for the channel asked for, and on pending being
merged and retained. `FramePhaseCurrent` is half of what the temporal dither needs: a
frame that is sent was packed for the phase it is counted as. `TransferOwnership` and `NoFalseAccusation` say that the
engine's view of the wire is exact although it is recorded after the fact.
`NoStrandedWork` is what makes the masking in `try_start_pending_submit` harmless.
`WorkChangesOnlyOnSuccess`, `LatchBlocksDriver` and `FrameBehindEveryBit` are about
steps. The last is the converse of `NoLostFrame`, for any backend: a mask comes to
name a channel in which no frame waits only when the backend withdraws the frame to
grant its target again, or when a launch takes the frame of a channel that was
written again after its commit. Such a channel is launched with nothing to send and
its phase advances; the driver adds no third way to it, by whichever path it drops
a lease or fails.

The other half is `ConsecutivePhases`: each channel of a launch sends a frame, so no
phase is skipped. It holds only if a frame that waits cannot be replaced or
withdrawn, since otherwise a channel written again after its commit is dirty and
pending at once, is launched, and is launched again with nothing to send.
`CommittedBeforeLaunch` fails for the same reason (run `driver_barrier`), and
both are therefore checked, and proved, for `Regrant = {}`.

When completions may be lost the engine can wait for ever: the crate has no timeout
and no reset. `WaitsOnlyForCompletion` says this is the only way a frame is held
up, `AnyCompletionHeals` that the next completion, whatever it was for, ends it,
and `OverrunBounded` what the price is: each completion that is not owed puts at most
one batch more on the wire than the one the engine knows of.

`AtomicConfiguration` is the sentence "Atomically applies one validated setup" of
`api/driver.rs`, over any number of failed attempts with different setups;
`BackendAgrees` adds that the successful one leaves nothing of the earlier ones
in the backend, and that a target can stand for its channel, on which LedBackend
relies. `LightPreserved` is why the temporal offsets are what they are: over any
four consecutive epochs (consecutive as `ConsecutivePhases` says, hence for a backend
with `Regrant = {}`) the bytes
of the 8x8 tile add up to the 16-bit component, within 3 of 65535, because the
offsets cancel and the 64 thresholds round each fraction to its share of the
tile. It is stated where the offsets do not saturate; at the ends only `SmallSteps`
and `OffIsDark` hold.

**Bounds.** Two channels are the fewest for which a batch is a proper subset, a
lease can be for the wrong channel, and one channel can be pending while another
is dirty; a third logical id lies outside the backend's range. Three epochs
distinguish current, previous and next, and wrap. One spurious completion meets
every state (idle: latch; in flight: early end, then the true completion arrives
late). The liveness run uses one channel, which keeps it small; the transport run
repeats liveness, as refinement of fairness, with two, and `driver_batches`
checks its own with two. Two epochs are enough there: a skipped phase is the wrong
one of two, and the proof covers the rest. `wire`, `signals` and `events` need no
bound: by `OverrunBounded` the wire holds at most one batch more than there were
spurious completions, and completions are batches or bounded spurious ones.
ChannelMasks has three of four channels in five bits, every registered subset, so
that both an unregistered channel below a registered one and the unused upper bits of
a word occur (8,280 states). FakeBackend has two slots, as one lease and one
other slot to confuse it with, and bounds only the accepted submissions, whose
history would grow (205,824 states); the script is refilled without bound. In Registration four logical ids, three places and an engine range of two make
every check bite alone: an id can be in the driver's range and not in the
engine's, or in neither, and a list can be too long; two backend ids force
duplicates, and are not channel indices, so that the two id spaces cannot be
mixed up. Three pixel counts are zero, exactly the byte limit, and above it. In
Packing the grey levels lie at and next to each value where an offset saturates,
a fraction crosses a threshold or the top byte is reached; three colours with
different components tell the lanes apart. `EpochModulus` is 8: like 2^32 a
multiple of four, which is what makes the offsets continue across the wrap. In
DriverIds `MaxAllocations`
bounds the history; behaviours end there, so that run does not check deadlock.

**Fairness.** The crate's documentation asks for periodic `service`; firmware is
assumed to commit and service again and again and to forward every signal and
event (strong fairness, because calls exclude each other and the firmware may
write in between), calls return (weak fairness of `FinishWrite`, `FinishService`),
the hardware finishes what it accepted (weak fairness of `FinishBatch`), and a
transport that is asked again and again eventually accepts (strong fairness of
`ServiceStart`): the contract allows `Busy`, but not forever. Nothing is assumed
about `write_rgb48`, which may fail or never be called, and nothing about the
delivery of a completion that was lost.

## 4. Findings

* `finalize()` checks the configuration with `debug_assert!` only. In a release
  build a driver finalized without configuration answers `commit` and `service`
  with `RuntimeError::Backend`, documented (`api/errors.rs:32`) as "A genuine
  backend-owned runtime failure occurred."; the engine error behind it is
  `InvalidState`. `MisleadsOnlyUnconfigured` says that this is the only way.
* Driver ids repeat after 2^32 - 1 allocations, so a handle kept that long can be
  replayed on another driver; `api/channel.rs:16` says it cannot. What then
  happens is contained: `NoStrandedWork` holds with wrapped ids.
* A frame that was never committed can be sent. A channel that is written again
  between its `commit` and the launch is pending for the first frame and dirty for the
  second; over a backend that grants the target again, as the one of the tests does,
  the launch takes the second frame, which no commit followed. `api/mod.rs:9`
  and `api/backend.rs:13` describe commit as what precedes submission.
  FrameTransport allows it explicitly. The next commit submits the channel
  once more, possibly without a frame, and its phase advances all the same.

Observations that contradict no document:

* The backend is never told which logical channel drives which target. The specs of
  `configure_channels` (`api/backend.rs:69`) and `acquire_write_target` name
  backend channels, while the masks of `submit_channels` have logical bits. Every
  test binds channel 0 to 0. For another binding, what a bit means has to be known
  otherwise; LedBackend takes it as known and names targets by logical channel.
* `max_channels` bounds the logical index, not the number of channels as its
  comment (`api/backend.rs:113`) may be read: a one-channel backend refuses a setup
  whose only channel has the index 1.
* The names of the layouts `Gbr` and `Brg` give the index of each component's lane,
  not the order on the wire: `Brg` sends green, blue, red. The test at
  `pack/pipeline.rs:181` expects exactly that.
* A component that is 0 in a lit pixel may be nudged above 0 in two of four frames
  (with the spatial quantizer); only pixels that are off altogether stay dark.

## 5. Proofs

All theorems hold for every value of the constants: any number of channels, any
epoch width, any number of spurious completions, completions lost or not, any
`Regrant`, both builds, unless a premise below says otherwise. Assumptions are
those named in the modules (`BackendAssumption`, `EngineAssumption`,
`DriverAssumption`, `IdAssumption`, `RegistrationAssumption`, `PackingAssumption`,
`EpochAssumption`, `MaskAssumption`, `FakeAssumption`): sizes are naturals, moduli are
large enough, the engine's range lies in the driver's and the driver's in the word,
colours are 16-bit triplets, and the number of epochs is a multiple of four, which
2^32 is.

* `TypeCorrect`: `TypeOK` is inductive. `RegistrationTypes`, `BytesAreBytes` and `IdTypes` are its
  counterparts; there `TypeOK` is a conjunct of the invariants below, from which
  the loops' positions and the ranges of the sums follow.
* `FramesNotLost`, `FramePhasesCurrent`, `TransferOwned`, `OverrunsBounded`,
  `NeverFalselyAccused`, `LeasesReturned`, `WorkIsServiceable`, `FailuresKeepWork`, `LatchBlocks`,
  `FramesBehindBits`: the properties of `driver_safety`, all from the invariant `IInv` of LedDriverSafety.
  The properties are not inductive on their own. `NoLostFrame` survives
  `MarkChannelPublished` only if the latch is clear and the channel registered
  (`CallShape`); `RecordStarted` may clear pending bits only because the batch's
  targets are empty; `NoFalseAccusation` needs that a completion is conserved on
  its way from the wire to `dma_complete_pending` (`CompletionConserved`): what is on
  the wire or undelivered is at most one for the batch in flight and one for each
  spurious completion, an inequality because completions may be lost.
  The lemma `Steps` first regroups the actions by what they change; then there is
  one lemma per conjunct of `IInv`, with one step per group.
* `CommitIsABarrier`, `PhasesHaveNoGap`: premise `Regrant = {}`. The invariant
  `BatchInv` of LedDriverTransportProofs adds to `IInv` the converse of `NoLostFrame`: a
  dirty channel, and a pending one whose batch is not just being recorded, has a
  frame that waits; no channel is dirty and pending; a leased one is neither. The
  premise enters at acquire alone (`GrantIsFresh`).
* `DriverImplementsTransport`: no premise; the constants of FrameTransport say what the
  backend may do (`Depth`, `Withdraws`). Every step is a FrameTransport step or a
  stutter; one lemma per non-stuttering step. `LaunchMaps` needs
  `CompletionConserved`: an engine that finds its transfer complete finds at most as many
  batches on the wire as there were false completions.
* `ErrorsMisleadOnlyUnconfigured`: unless the driver was finalized without being configured, every
  outcome is one its boundary enumerates; the fallback of `unexpected_engine_error` is
  never taken. `BackendErrorsGenuine` follows with the premise of debug assertions, under which
  there is no such driver.
* `IdsDistinct`: the invariant follows the counter around the cycle of non-zero
  ids, `d` allocations being `d` steps, less one turn after a wrap; linear
  arithmetic does the rest.

* `SetupsWellFormed`, `RefusalsGenuine`, `ConfigurationAtomic`,
  `BackendInAgreement`, `LimitsComeFirst`, `ConfigureImplemented`: from `RInv` of RegistrationProofs, which adds to the
  properties what each loop knows at binding number `next`: the marks are those of
  the prefix and the prefix is valid; the plan stages exactly the prefix, in
  order; the table holds exactly the committed prefix. A plan of a well-formed
  setup has distinct indices within the engine's range, so `RegisterError` is
  never met. `ConfigureImplemented` then takes the returning steps one by one: a
  refusal names a binding that LedDriver's `PlanErrors` finds as well, and a commit
  has registered exactly the ids of the setup.
* `OffStaysDark`, `NoJumps`: a lit frame was packed with one nudge throughout
  (`OneNudge`); the saturated sums for two nudges differ by at most 64, hence lie
  in the same or adjacent steps of 256, and the quantizer rounds to one of the two
  neighbours. Between adjacent steps a byte that moved by two would
  have the larger fraction on the upper side, hence values more than 256 apart
  (lemma `QuantizeClose`).

* `LightIsPreserved`: `PInv` of the above with `CurrentFrame` (a lit frame that waits was
  packed with the nudge of the current epoch, so its light is a function of the epoch)
  and `ShownLight` (the frames in `shown` are those of the epochs just before, in
  order). The four nudges of a cycle cancel, also across the wrap (`NudgesCancel`,
  `EpochAssumption`). `MapIsWireOrder`: the lanes written are those read. What one frame sends (`FrameLight`) is a sum of 64 terms: each
  threshold of a row rounds up when the fraction exceeds it, and as the 64 thresholds
  are evenly spaced the number of those passed is a quarter of the fraction, rounded
  up (`LevelsPassed`, `RowSum`, `SpatialSum`); `TotalIsSum` unfolds the sum.
* `FakeTypes`, `SlotsFollowLeases`, `FakeKeepsContract`: from `FInv` of FakeBackendProofs,
  which adds to the properties that a slot which is not configured is blank and that
  the slot of a live lease is not yet published. Without the second, a drop would
  leave its slot acquired. The refinement takes the calls one by one; a granted lease
  withdraws what waited, as `Regrant = {"withdrawn"}` says.
* `MaskTypes`, `NoMaskHasStrayBits`, `WordsImplementSets`: first a theory of words, by
  induction over the bits: the bits of the word made of a set are the set
  (`OnesOfWord`), a word without bits from m on is less than 2^m (`WordBound`), hence
  the operators on words are those on sets (`WordOperators`). Then `MInv`: every mask
  fits the channels (`Fits`) and has registered channels' bits only. `LaunchedBatch` is the point of the code's masking: as pending holds no
  stray bit, the launch takes all of it and nothing stays behind.

Recursive functions have a value by `RecursionExists` (`SumExists` in PackingProofs), and
induction over the naturals is the lemma `Induction` about sets of naturals, which
needs no operator parameter.

Only model-checked are the properties that rest on fairness, for which the prover
would need ENABLED: `FrameReachesWire`, `InFlightCompletes`, `WaitsOnlyForCompletion`,
`AnyCompletionHeals` and `ImplementsFairness`. Of the three violations,
`BackendErrorIsGenuine` and `CommittedBeforeLaunch` are proved under the premise the
run lacks.

## 6. Not modelled, and the plan

1. (done) LedBackend, LedEngine, LedDriver with safety and liveness; FrameTransport
   and the refinement; DriverIds; the proofs above.
2. (done) Registration: from the list of bindings to the committed table, with its
   proofs.
3. (done) Packing, with its proofs.
4. (done) Fault model and buffering policies of LedBackend: lost completions, waiting
   frames kept, withdrawn or protected; the barrier properties with their proofs.
5. (done) The mask words (ChannelMasks), FakeBackend as an instance of LedBackend,
   Registration as a refinement of the driver's configuration.
6. (done) Proofs about FakeBackend and ChannelMasks, and of `LightPreserved`.
7. Open: the barrier restated for backends that grant a
   waiting target again, as the pairs of commits and launches it does allow.

Not modelled because the repository does not determine it: how a backend maps the
bits of `submit_channels` to its targets (section 4).

Left out for good: the pixel bytes themselves in the driver model (only the
phase a frame was packed for matters to its properties), frames of more than one
colour and channels of more than one tile in Packing (`index % 64` repeats the
tile, pixels do not influence each other), the unsupported feature combinations,
which do not compile, layouts in Registration, which it only copies, the length
arithmetic that cannot overflow (`u16 * 3` in `u32`), the crate root and re-exports, the
unit tests, logging and formatting.
