---------------------------- MODULE FrameTransport ----------------------------
(***************************************************************************)
(* What the driver promises the firmware, without leases, latches, events  *)
(* or calls that fail: a published frame waits until it is committed and   *)
(* launched, a commit launches as one batch, the wire holds few batches    *)
(* (one, if nobody reports false completions), and the frames of a channel *)
(* are numbered by its launches.                                           *)
(* (The invariants at the head of engine/runtime.rs and the busy/submit    *)
(* semantics of api/backend.rs.)                                           *)
(***************************************************************************)
EXTENDS Naturals, Sequences

CONSTANTS
  Channels,      \* the channels frames are published for
  PhaseModulus,  \* frame numbers wrap at this value
  Depth,         \* number of batches the wire may hold
  Withdraws      \* a waiting frame may be taken back to be written anew, and
                 \* is gone if that write is then aborted

NoFrame == PhaseModulus

VARIABLES
  waiting,      \* number of the published frame that waits in a channel, or NoFrame
  uncommitted,  \* channels published since the last commit
  committed,    \* channels of the next batch
  onWire,       \* the batches being transmitted, oldest first
  number        \* number of the next frame of each channel

vars == <<waiting, uncommitted, committed, onWire, number>>

Init ==
  /\ waiting = [c \in Channels |-> NoFrame]
  /\ uncommitted = {}
  /\ committed = {}
  /\ onWire = <<>>
  /\ number = [c \in Channels |-> 0]

Publish(c) ==
  /\ waiting' = [waiting EXCEPT ![c] = number[c]]
  /\ uncommitted' = uncommitted \cup {c}
  /\ UNCHANGED <<committed, onWire, number>>

Withdraw(c) ==
  /\ Withdraws
  /\ waiting' = [waiting EXCEPT ![c] = NoFrame]
  /\ UNCHANGED <<uncommitted, committed, onWire, number>>

Commit ==
  /\ committed' = committed \cup uncommitted
  /\ uncommitted' = {}
  /\ UNCHANGED <<waiting, onWire, number>>

\* The whole committed set goes out as one batch, and only when the wire has room.
Launch ==
  /\ committed # {}
  /\ Len(onWire) < Depth
  /\ onWire' = Append(onWire, committed)
  /\ committed' = {}
  /\ waiting' = [c \in Channels |-> IF c \in committed THEN NoFrame ELSE waiting[c]]
  /\ number' = [c \in Channels |-> IF c \in committed
                                   THEN (number[c] + 1) % PhaseModulus ELSE number[c]]
  /\ UNCHANGED uncommitted

Finish ==
  /\ onWire # <<>>
  /\ onWire' = Tail(onWire)
  /\ UNCHANGED <<waiting, uncommitted, committed, number>>

Next == (\E c \in Channels : Publish(c) \/ Withdraw(c)) \/ Commit \/ Launch \/ Finish

Spec == Init /\ [][Next]_vars

\* The firmware keeps committing and servicing; the transport keeps finishing.
Fairness == WF_vars(Commit) /\ WF_vars(Launch) /\ WF_vars(Finish)

FairSpec == Spec /\ Fairness

===============================================================================
