------------------------------- MODULE Packing --------------------------------
(***************************************************************************)
(* The packing pipeline (src/pack) of one channel, over the frames it      *)
(* sends: a colour is packed for the channel's epoch into its wire bytes,  *)
(* perhaps again before the transport takes them, and each frame taken     *)
(* advances the epoch.  All four supported feature combinations.           *)
(*                                                                         *)
(* The channel is one 8x8 tile of the spatial quantizer, and a frame is of *)
(* a single colour: "lit", chosen once per behaviour, or all off.          *)
(***************************************************************************)
EXTENDS Integers, Sequences

CONSTANTS
  Colors,        \* lit colours to show: a subset of Rgb48
  Layouts,       \* values of PixelLayout in use
  EpochModulus   \* number of FrameEpochs: 2^32 in the code

Word16 == {n \in Nat : n <= 65535}
Byte   == {n \in Nat : n <= 255}

Components == {"r", "g", "b"}
Rgb48 == [Components -> Word16]
Off   == [c \in Components |-> 0]

ASSUME PackingAssumption ==
  /\ Colors \subseteq Rgb48 \ {Off}
  /\ Layouts \subseteq {"Grb", "Rgb", "Bgr", "Rbg", "Gbr", "Brg"}
  /\ EpochModulus \in Nat \ {0}

\* The wrap-around does not interrupt the cycle of four nudges.
ASSUME EpochAssumption == EpochModulus % 4 = 0

Pixels    == 64
ByteCount == 3 * Pixels

VARIABLES
  features,  \* the build: which policies dither
  layout,    \* PixelLayout of the channel
  lit,       \* the colour of this behaviour
  epoch,     \* frame_phase of the channel
  target,    \* the wire bytes
  content,   \* what they show: "stale", "lit" or "off"
  waiting,   \* they were published and the transport has not taken them
  shown      \* history: light per component of the last lit frames in a row
             \* that the transport took, at most four

vars == <<features, layout, lit, epoch, target, content, waiting, shown>>

-----------------------------------------------------------------------------
(* The policies.                                                           *)

\* Mutant: the offsets do not cancel out.
TemporalOffset_Biased(e) == <<-32, 32, -16, 32>>[(e % 4) + 1]

\* TemporalDither::offset
TemporalOffset(e) ==
  IF features.temporal THEN <<-32, 32, -16, 16>>[(e % 4) + 1] ELSE 0

\* Mutant: the nudge wraps around instead of saturating.
ApplyTemporal_Wrapping(value, nudge) == (value + nudge) % 65536

\* u16::saturating_add_signed
ApplyTemporal(value, nudge) ==
  IF value + nudge < 0 THEN 0
  ELSE IF value + nudge > 65535 THEN 65535 ELSE value + nudge

Threshold8x8 == <<
  0, 32768, 8192, 40960, 2048, 34816, 10240, 43008, 49152, 16384, 57344, 24576, 51200,
  18432, 59392, 26624, 12288, 45056, 4096, 36864, 14336, 47104, 6144, 38912, 61440,
  28672, 53248, 20480, 63488, 30720, 55296, 22528, 3072, 35840, 11264, 44032, 1024,
  33792, 9216, 41984, 52224, 19456, 60416, 27648, 50176, 17408, 58368, 25600, 15360,
  48128, 7168, 39936, 13312, 46080, 5120, 37888, 64512, 31744, 56320, 23552, 62464,
  29696, 54272, 21504 >>

\* Mutant: the top byte is rounded up too.
Quantize_NoCeiling(value, index) ==
  LET fraction == (value % 256) * 256 IN
  IF features.spatial /\ fraction > Threshold8x8[(index % 64) + 1]
  THEN value \div 256 + 1 ELSE value \div 256

\* SpatialQuantizer::quantize
Quantize(value, index) ==
  LET base     == value \div 256
      fraction == (value % 256) * 256
  IN IF features.spatial /\ fraction > Threshold8x8[(index % 64) + 1] /\ base < 255
     THEN base + 1 ELSE base

-----------------------------------------------------------------------------
(* The kernel.                                                             *)

\* Mutant: the two cyclic layouts have each other's indices.
LayoutMap_CyclesSwapped(l) ==
  LET map == CASE l = "Grb" -> <<1, 0, 2>>
               [] l = "Rgb" -> <<0, 1, 2>>
               [] l = "Bgr" -> <<2, 1, 0>>
               [] l = "Rbg" -> <<0, 2, 1>>
               [] l = "Gbr" -> <<2, 0, 1>>
               [] l = "Brg" -> <<1, 2, 0>>
  IN [r |-> map[1], g |-> map[2], b |-> map[3]]

\* layout_map: the write index of each component in the wire triplet.
LayoutMap(l) ==
  LET map == CASE l = "Grb" -> <<1, 0, 2>>
               [] l = "Rgb" -> <<0, 1, 2>>
               [] l = "Bgr" -> <<2, 1, 0>>
               [] l = "Rbg" -> <<0, 2, 1>>
               [] l = "Gbr" -> <<1, 2, 0>>
               [] l = "Brg" -> <<2, 0, 1>>
  IN [r |-> map[1], g |-> map[2], b |-> map[3]]

\* The component that is written to a lane of the triplet.
LaneComponent(l, lane) == CHOOSE c \in Components : LayoutMap(l)[c] = lane

\* Mutant: an off pixel is nudged and quantized like any other.
PackPixel_NoOff(color, lane, index) ==
  Quantize(ApplyTemporal(color[LaneComponent(layout, lane)], TemporalOffset(epoch)), index)

\* One byte of one pixel.
PackPixel(color, lane, index) ==
  IF color = Off THEN 0
  ELSE Quantize(ApplyTemporal(color[LaneComponent(layout, lane)], TemporalOffset(epoch)), index)

PackKernel(color) ==
  [k \in 1 .. ByteCount |-> PackPixel(color, (k - 1) % 3, (k - 1) \div 3)]

\* pack_into_bytes with a source of the given length: all or nothing.
PackIntoBytes(color, length) ==
  IF length # ByteCount \div 3 THEN target ELSE PackKernel(color)

-----------------------------------------------------------------------------

Init ==
  /\ features \in [temporal : BOOLEAN, spatial : BOOLEAN]
  /\ layout \in Layouts
  /\ lit \in Colors
  /\ epoch \in 0 .. EpochModulus - 1
  /\ target = [k \in 1 .. ByteCount |-> 255]
  /\ content = "stale"
  /\ waiting = FALSE
  /\ shown = <<>>

Write(color, kind, length) ==
  /\ target' = PackIntoBytes(color, length)
  /\ \/ length = Pixels /\ content' = kind /\ waiting' = TRUE
     \/ length # Pixels /\ UNCHANGED <<content, waiting>>
  /\ UNCHANGED <<features, layout, lit, epoch, shown>>

WriteLit   == Write(lit, "lit", Pixels)
WriteOff   == Write(Off, "off", Pixels)
WriteShort == Write(lit, "lit", Pixels - 1)

\* The sum of the numbers in b.
Total(b) ==
  LET sum[n \in 0 .. Pixels] == IF n = 0 THEN 0 ELSE sum[n - 1] + b[n] IN sum[Pixels]

\* The components in the order the strip is sent them, for the comparison with
\* layout_map.  Rgb, Grb and Brg are what maps_layout_indices_correctly expects
\* (pack/pipeline.rs:154); Brg is the inverse of its name, read as an order, and
\* Gbr is so with it.
WireOrder(l) ==
  CASE l = "Grb" -> <<"g", "r", "b">>
    [] l = "Rgb" -> <<"r", "g", "b">>
    [] l = "Bgr" -> <<"b", "g", "r">>
    [] l = "Rbg" -> <<"r", "b", "g">>
    [] l = "Gbr" -> <<"b", "r", "g">>
    [] l = "Brg" -> <<"g", "b", "r">>

\* The place of a component in the wire triplet.
WirePlace(l, c) == CHOOSE place \in 1 .. 3 : WireOrder(l)[place] = c

\* The light of a component in the frame: the sum of its bytes.
Light(c) == Total([n \in 1 .. Pixels |-> target[3 * (n - 1) + WirePlace(layout, c)]])

LastFour(s) == IF Len(s) > 4 THEN Tail(s) ELSE s

\* FrameEpoch::wrapping_add(1)
NextEpoch == (epoch + 1) % EpochModulus

\* The transport takes the frame, the engine advances the channel's epoch.
Accept ==
  /\ waiting
  /\ waiting' = FALSE
  /\ epoch' = NextEpoch
  /\ shown' = IF content = "lit"
              THEN LastFour(Append(shown, [c \in Components |-> Light(c)])) ELSE <<>>
  /\ UNCHANGED <<features, layout, lit, target, content>>

Next == WriteLit \/ WriteOff \/ WriteShort \/ Accept

Spec == Init /\ [][Next]_vars

\* The history shown is left out: only LightPreserved reads it.
TypeOK ==
  /\ features \in [temporal : BOOLEAN, spatial : BOOLEAN]
  /\ layout \in Layouts
  /\ lit \in Colors
  /\ epoch \in 0 .. EpochModulus - 1
  /\ target \in [1 .. ByteCount -> Byte]
  /\ content \in {"stale", "lit", "off"}
  /\ waiting \in BOOLEAN

-----------------------------------------------------------------------------

\* An off frame is dark whatever its epoch's nudge and whatever frame the
\* target held before.
OffIsDark == content = "off" => \A k \in 1 .. ByteCount : target[k] = 0

\* The nudges reach neither end of the range, and the top byte is not cut off.
Unsaturated(value) == value >= 32 /\ value + 32 <= 255 * 256

\* Dithering does not change a colour: over any four frames in a row, also
\* across the wrap-around of the epoch, the bytes of a component add up to its
\* 16-bit value, to within 3 with the spatial quantizer; truncation alone loses
\* up to 255 and never adds light.  The bytes of a component are those the wire
\* order gives it, so a component packed into another's lane shows too.
LightPreserved ==
  Len(shown) = 4 =>
    \A c \in Components : Unsaturated(lit[c]) =>
      LET error == shown[1][c] + shown[2][c] + shown[3][c] + shown[4][c] - lit[c] IN
      error \in IF features.spatial THEN 0 .. 3 ELSE -255 .. 0

\* From frame to frame of the same colour no byte moves by more than one step,
\* at the ends of the range too.
SmallSteps ==
  [][content = "lit" /\ content' = "lit" =>
       \A k \in 1 .. ByteCount : target'[k] - target[k] \in -1 .. 1]_vars

===============================================================================
