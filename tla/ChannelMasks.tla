----------------------------- MODULE ChannelMasks -----------------------------
(***************************************************************************)
(* The channel masks as the code keeps them, one machine word each: the    *)
(* bit arithmetic of engine/registration.rs and engine/runtime.rs that     *)
(* LedEngine writes as sets.  Only the calls that succeed are here, each   *)
(* as one step; LedEngine has the rest.                                    *)
(*                                                                         *)
(* "waiting" is a history of what the backend holds, for the comparison    *)
(* with FrameTransport.                                                    *)
(***************************************************************************)
EXTENDS Naturals

CONSTANTS
  CapacityBits,       \* ChannelMask::CAPACITY_BITS
  DriverMaxChannels,  \* DRIVER_MAX_CHANNELS
  MaxChannels,        \* engine.max_channels
  PhaseModulus        \* number of FrameEpochs

\* engine/mod.rs:50 asserts DRIVER_MAX_CHANNELS <= CAPACITY_BITS when the crate is
\* compiled (8 and 32), and SetupWellFormed keeps the ids below the former.
ASSUME MaskAssumption ==
  /\ CapacityBits \in Nat
  /\ DriverMaxChannels \in 0 .. CapacityBits
  /\ MaxChannels \in 0 .. DriverMaxChannels
  /\ PhaseModulus \in Nat \ {0}

Channels == 0 .. MaxChannels - 1

-----------------------------------------------------------------------------
(* Machine words.                                                          *)

Bits == 0 .. CapacityBits - 1

\* 1 << c
MaskBit(c) ==
  LET shifted[n \in 0 .. CapacityBits] == IF n = 0 THEN 1 ELSE 2 * shifted[n - 1]
  IN shifted[c]

Words == 0 .. MaskBit(CapacityBits) - 1

\* word >> c
ShiftRight(word, c) ==
  LET shifted[n \in 0 .. CapacityBits] == IF n = 0 THEN word ELSE shifted[n - 1] \div 2
  IN shifted[c]

\* The bits set in a word.
Ones(word) == {c \in Bits : ShiftRight(word, c) % 2 = 1}

\* The word with these bits set, from the highest bit down.
WordOf(ones) ==
  LET value[n \in 0 .. CapacityBits] ==
        IF n = 0 THEN 0
        ELSE 2 * value[n - 1] + (IF CapacityBits - n \in ones THEN 1 ELSE 0)
  IN value[CapacityBits]

BitOr(x, y)      == WordOf(Ones(x) \cup Ones(y))
BitAnd(x, y)     == WordOf(Ones(x) \cap Ones(y))
Complement(word) == WordOf(Bits \ Ones(word))

-----------------------------------------------------------------------------

VARIABLES
  records,    \* RegistrationTable: per index, Option of the record's frame_phase
  dirty,      \* dirty_mask
  pending,    \* pending_mask
  inFlight,   \* TransferState: Idle, or InFlight with ...
  submitted,  \* ... submitted_mask
  waiting     \* per channel, the phase its waiting frame was packed for

vars == <<records, dirty, pending, inFlight, submitted, waiting>>

NoFrame == PhaseModulus

\* Some channels were registered and the driver is Ready.
Init ==
  /\ records \in {r \in [0 .. DriverMaxChannels - 1 -> {{}, {0}}] :
                    /\ \A i \in DOMAIN r : r[i] # {} => i \in Channels
                    /\ \E i \in DOMAIN r : r[i] # {}}
  /\ dirty = 0 /\ pending = 0
  /\ inFlight = FALSE /\ submitted = 0
  /\ waiting = [c \in Channels |-> NoFrame]

\* Mutant: indices count from one.
RegisteredChannelMask_ShiftedByOne ==
  LET bits[n \in 0 .. MaxChannels] ==
        IF n = 0 THEN 0
        ELSE IF records[n - 1] # {} THEN BitOr(bits[n - 1], MaskBit(n)) ELSE bits[n - 1]
  IN bits[MaxChannels]

\* registered_channel_mask
RegisteredChannelMask ==
  LET bits[n \in 0 .. MaxChannels] ==
        IF n = 0 THEN 0
        ELSE IF records[n - 1] # {} THEN BitOr(bits[n - 1], MaskBit(n - 1)) ELSE bits[n - 1]
  IN bits[MaxChannels]

\* Mutant: the bit is added, and carries into the next channel when it is set.
Marked_Added(c) == dirty + MaskBit(c)

\* mark_written
Marked(c) == BitOr(dirty, MaskBit(c))

\* A publish and its mark_channel_published.
MarkPublished(c) ==
  /\ \E phase \in records[c] : waiting' = [waiting EXCEPT ![c] = phase]
  /\ dirty' = Marked(c)
  /\ UNCHANGED <<records, pending, inFlight, submitted>>

SubmitDirty ==
  /\ dirty # 0
  /\ pending' = BitOr(pending, dirty)
  /\ dirty' = 0
  /\ UNCHANGED <<records, inFlight, submitted, waiting>>

\* FrameEpoch::wrapping_add in each record whose bit is in the batch.
Advanced(batch) ==
  [i \in DOMAIN records |->
     IF i < MaxChannels /\ BitAnd(batch, MaskBit(i)) # 0
     THEN {(phase + 1) % PhaseModulus : phase \in records[i]} ELSE records[i]]

\* try_start_pending_submit when the transport takes the batch.
StartPendingSubmit ==
  /\ ~ inFlight
  /\ LET batch == BitAnd(pending, RegisteredChannelMask) IN
       /\ batch # 0
       /\ inFlight' = TRUE /\ submitted' = batch
       /\ pending' = BitAnd(pending, Complement(batch))
       /\ records' = Advanced(batch)
       /\ waiting' = [c \in Channels |-> IF BitAnd(batch, MaskBit(c)) # 0 THEN NoFrame ELSE waiting[c]]
  /\ UNCHANGED dirty

\* complete_in_flight_if_ready after the completion.
CompleteInFlight ==
  /\ inFlight
  /\ inFlight' = FALSE /\ submitted' = 0
  /\ UNCHANGED <<records, dirty, pending, waiting>>

Next ==
  \/ \E c \in Channels : MarkPublished(c)
  \/ SubmitDirty
  \/ StartPendingSubmit
  \/ CompleteInFlight

Spec == Init /\ [][Next]_vars

\* The masks fit the word.
TypeOK ==
  /\ records \in [0 .. DriverMaxChannels - 1 -> {{}} \cup {{p} : p \in 0 .. PhaseModulus - 1}]
  /\ dirty \in Words /\ pending \in Words /\ submitted \in Words
  /\ inFlight \in BOOLEAN
  /\ waiting \in [Channels -> 0 .. PhaseModulus]

-----------------------------------------------------------------------------

\* The channels of a mask.
SetOf(word) == Ones(word) \cap Channels

Registered == {c \in Channels : records[c] # {}}

Transport == INSTANCE FrameTransport
  WITH Channels    <- Channels,
       Depth       <- 1,
       Withdraws   <- FALSE,
       uncommitted <- SetOf(dirty),
       committed   <- SetOf(pending),
       onWire      <- IF inFlight THEN <<SetOf(submitted)>> ELSE <<>>,
       number      <- [c \in Channels |-> IF records[c] = {} THEN 0
                                          ELSE CHOOSE p \in records[c] : TRUE]

\* Read as sets the words behave as the sets of FrameTransport, as those of
\* LedEngine do: marking a channel twice touches no other bit, what a launch
\* takes out of pending is what it takes, and the phases of just these
\* channels advance.
WordsAreSets == Transport!Spec

\* No mask ever has a bit that is not a registered channel's, also beyond the
\* channels SetOf looks at: submit_channels is given the whole word, and a stray
\* bit in pending_mask would stay there and be masked out by every service.
NoStrayBits ==
  \A word \in {dirty, pending, submitted} :
    SetOf(word) \subseteq Registered /\ word < MaskBit(MaxChannels)

===============================================================================
