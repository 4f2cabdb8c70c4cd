------------------------------ MODULE LedBackend ------------------------------
(***************************************************************************)
(* The backend side of the driver/backend contract (trait LedBackend).     *)
(*                                                                         *)
(* The crate ships no hardware backend: it only states, in api/backend.rs, *)
(* what one must do.  This module is the most general backend that keeps   *)
(* that contract, with the transport hardware below it, which runs         *)
(* concurrently with the driver, and with a bounded number of completion   *)
(* events reported in breach of the contract.  Each action is one call of  *)
(* the trait or one step of the hardware, and says only what happens to    *)
(* the backend's own variables; LedEngine joins the calls to engine steps. *)
(*                                                                         *)
(* A write target is named by the logical channel it is bound to.          *)
(***************************************************************************)
EXTENDS Naturals, Sequences

CONSTANTS
  MaxChannels,   \* logical channels the engine may register (engine.max_channels)
  PhaseModulus,  \* number of values of a FrameEpoch: 2^32 in the code
  MaxSpurious,   \* bound: completion events reported in breach of the contract
  Lossy,         \* a finished batch may leave no signal and no event
  Regrant        \* how a target with a waiting frame is granted again: the frame
                 \* is "kept" until the next publish, or "withdrawn" at once;
                 \* {} is a backend that answers Busy until it is submitted

ASSUME BackendAssumption ==
  /\ MaxChannels \in Nat
  /\ PhaseModulus \in Nat \ {0}
  /\ MaxSpurious \in Nat
  /\ Lossy \in BOOLEAN
  /\ Regrant \subseteq {"kept", "withdrawn"}

Channels == 0 .. MaxChannels - 1
Phases   == 0 .. PhaseModulus - 1

\* No published frame waits in this target (any value that is not a phase).
NoFrame == PhaseModulus

VARIABLES
  leased,    \* channels whose write target is held by a live lease
  frame,     \* backend-pending state: per channel, the phase the waiting frame
             \* was packed for, or NoFrame
  wire,      \* accepted batches the transport has not finished, oldest first
  signals,   \* finished batches whose low-level signal was not yet translated
  events,    \* TransferComplete events raised and not yet given to the driver
  spurious   \* events raised so far with no batch to complete

backendVars == <<leased, frame, wire, signals, events, spurious>>

-----------------------------------------------------------------------------

BackendInit ==
  /\ leased = {}
  /\ frame = [c \in Channels |-> NoFrame]
  /\ wire = <<>>
  /\ signals = 0
  /\ events = 0
  /\ spurious = 0

\* acquire_write_target(c) = Ready: one live lease per target, and a frame that
\* waits in it meets the backend's buffering policy.
Grant(c) ==
  /\ c \notin leased
  /\ \/ frame[c] = NoFrame /\ UNCHANGED frame
     \/ "kept" \in Regrant /\ UNCHANGED frame
     \/ "withdrawn" \in Regrant /\ frame' = [frame EXCEPT ![c] = NoFrame]
  /\ UNCHANGED <<wire, signals, events, spurious>>

AcquireWriteTarget(c) == Grant(c) /\ leased' = leased \cup {c}

\* Mutant: that lease is forgotten instead of dropped.
AbortedAcquire_Forgotten(c) == AcquireWriteTarget(c)

\* The lease is dropped in the call that acquired it.
AbortedAcquire(c) == Grant(c) /\ UNCHANGED leased

\* Mutant: the unpublished lease is forgotten instead of dropped.
DropLease_Forgotten(S) == UNCHANGED backendVars

\* Dropping an unpublished lease aborts it and the channel is retryable.
DropLease(S) ==
  /\ leased' = leased \ S
  /\ UNCHANGED <<frame, wire, signals, events, spurious>>

\* publish() moves the write into backend-pending state; the lease is over.
PublishLease(S, packedFor) ==
  /\ leased' = leased \ S
  /\ frame' = [c \in Channels |-> IF c \in S THEN packedFor ELSE frame[c]]
  /\ UNCHANGED <<wire, signals, events, spurious>>

\* submit_channels(batch) = Started: exactly this batch was accepted, with the
\* frames that waited in its targets.
SubmitChannels(batch) ==
  /\ wire' = Append(wire, batch)
  /\ frame' = [c \in Channels |-> IF c \in batch THEN NoFrame ELSE frame[c]]
  /\ UNCHANGED <<leased, signals, events, spurious>>

\* on_signal: backend-private; it may turn a finished batch into an event.
TranslateSignal ==
  /\ signals > 0
  /\ signals' = signals - 1
  /\ events' = events + 1
  /\ UNCHANGED <<leased, frame, wire, spurious>>

\* The host hands one raised event to the driver.
TakeEvent ==
  /\ events > 0
  /\ events' = events - 1
  /\ UNCHANGED <<leased, frame, wire, signals, spurious>>

-----------------------------------------------------------------------------
(* Hardware steps: they need no access to the driver.                      *)

\* The oldest batch leaves the wire; its completion is raised directly or as a
\* low-level signal, unless it is lost.
FinishBatch ==
  /\ wire # <<>>
  /\ wire' = Tail(wire)
  /\ \/ events' = events + 1 /\ UNCHANGED signals
     \/ signals' = signals + 1 /\ UNCHANGED events
     \/ Lossy /\ UNCHANGED <<signals, events>>
  /\ UNCHANGED <<leased, frame, spurious>>

\* A completion event that no accepted batch accounts for.
RaiseSpurious ==
  /\ spurious < MaxSpurious
  /\ spurious' = spurious + 1
  /\ events' = events + 1
  /\ UNCHANGED <<leased, frame, wire, signals>>

BackendTypeOK ==
  /\ leased \subseteq Channels
  /\ frame \in [Channels -> Phases \cup {NoFrame}]
  /\ wire \in Seq(SUBSET Channels)
  /\ signals \in Nat
  /\ events \in Nat
  /\ spurious \in 0 .. MaxSpurious

===============================================================================
