---------------------------- MODULE PackingProofs -----------------------------
(***************************************************************************)
(* Packing proved for every colour, every layout and every number of       *)
(* epochs: bytes are bytes, an off frame is dark, frames of the same       *)
(* colour never differ by more than one step in any byte, and four frames  *)
(* in a row add up to the colour.                                          *)
(***************************************************************************)
EXTENDS Packing, TLAPS, SequenceTheorems, WellFoundedInduction

Nudges == {-32, 32, -16, 16, 0}

\* The byte at position k of a frame of the lit colour, packed with nudge n.
LitByte(k, n) ==
  Quantize(ApplyTemporal(lit[LaneComponent(layout, (k - 1) % 3)], n), (k - 1) \div 3)

\* A lit frame was packed with one nudge throughout.
OneNudge ==
  content = "lit" =>
    \E n \in Nudges : \A k \in 1 .. ByteCount : target[k] = LitByte(k, n)

PInv == TypeOK /\ OffIsDark /\ OneNudge

\* Entries of the threshold matrix are numbers.
LEMMA ThresholdType ==
  ASSUME NEW i \in Nat PROVE Threshold8x8[(i % 64) + 1] \in Int
<1>1. \A k \in 1 .. 64 : Threshold8x8[k] \in Int
  BY DEF Threshold8x8
<1>2. (i % 64) + 1 \in 1 .. 64
  OBVIOUS
<1>3. QED BY <1>1, <1>2

\* Every epoch has one of the five nudges.
LEMMA OffsetType ==
  ASSUME TypeOK PROVE TemporalOffset(epoch) \in Nudges
<1>1. epoch \in Nat /\ epoch % 4 \in 0 .. 3
  BY PackingAssumption DEF TypeOK
<1>2. QED BY <1>1 DEF TemporalOffset, Nudges

\* A nudge is at most 32.
LEMMA NudgeRange ==
  ASSUME NEW n \in Nudges PROVE n \in Int /\ -32 <= n /\ n <= 32
BY DEF Nudges

\* A nudge saturates at both ends of the range.
LEMMA TemporalType ==
  ASSUME NEW v \in Word16, NEW n \in Nudges PROVE ApplyTemporal(v, n) \in Word16
<1>1. n \in Int
  BY NudgeRange
<1>2. QED BY <1>1 DEF ApplyTemporal, Word16

\* Two nudges of the same value are at most 64 apart.
LEMMA TemporalClose ==
  ASSUME NEW v \in Word16, NEW m \in Nudges, NEW n \in Nudges
  PROVE  ApplyTemporal(v, n) - ApplyTemporal(v, m) \in -64 .. 64
<1>1. n \in Int /\ m \in Int /\ -32 <= n /\ n <= 32 /\ -32 <= m /\ m <= 32
  BY NudgeRange
<1>2. QED BY <1>1 DEF ApplyTemporal, Word16

\* A 16-bit value is its two bytes.
LEMMA TwoBytes ==
  ASSUME NEW v \in Word16
  PROVE  v \div 256 \in Byte /\ v % 256 \in Byte /\ v = 256 * (v \div 256) + (v % 256)
BY DEF Word16, Byte

\* The quantizer returns a byte: the top one is not rounded up.
LEMMA QuantizeType ==
  ASSUME NEW v \in Word16, NEW i \in Nat PROVE Quantize(v, i) \in Byte
<1>1. v \div 256 \in Byte
  BY TwoBytes
<1>2. QED BY <1>1 DEF Quantize, Byte

\* At one position the quantizer maps close values to the same or to
\* neighbouring bytes.
LEMMA QuantizeClose ==
  ASSUME NEW v \in Word16, NEW w \in Word16, NEW i \in Nat, w - v \in -64 .. 64
  PROVE  Quantize(w, i) - Quantize(v, i) \in -1 .. 1
<1>1. PICK t \in Int : t = Threshold8x8[(i % 64) + 1]
  BY ThresholdType
<1>2. PICK p, q, x, y \in Byte :
        /\ p = v \div 256 /\ x = v % 256 /\ v = 256 * p + x
        /\ q = w \div 256 /\ y = w % 256 /\ w = 256 * q + y
  BY TwoBytes
<1>3. Quantize(v, i) = IF features.spatial /\ x * 256 > t /\ p < 255 THEN p + 1 ELSE p
  BY <1>1, <1>2 DEF Quantize
<1>4. Quantize(w, i) = IF features.spatial /\ y * 256 > t /\ q < 255 THEN q + 1 ELSE q
  BY <1>1, <1>2 DEF Quantize
<1>5. QED BY <1>1, <1>2, <1>3, <1>4 DEF Byte

-----------------------------------------------------------------------------

\* Every lane of every layout carries a component.
LEMMA LaneType ==
  ASSUME NEW l \in Layouts, NEW lane \in 0 .. 2 PROVE LaneComponent(l, lane) \in Components
<1>1. \E c \in Components : LayoutMap(l)[c] = lane
  <2>1. l \in {"Grb", "Rgb", "Bgr", "Rbg", "Gbr", "Brg"} /\ lane \in {0, 1, 2}
    BY PackingAssumption
  <2>2. QED BY <2>1 DEF LayoutMap, Components
<1>2. QED BY <1>1 DEF LaneComponent

\* Where byte k sits: its lane and its pixel.
LEMMA Position ==
  ASSUME NEW k \in 1 .. ByteCount PROVE (k - 1) % 3 \in 0 .. 2 /\ (k - 1) \div 3 \in Nat
BY DEF ByteCount, Pixels

\* What is packed for a colour other than Off: the nudged and quantized value
\* of the lane's component.
LEMMA PixelValue ==
  ASSUME TypeOK, NEW k \in 1 .. ByteCount
  PROVE  /\ lit \in Rgb48 /\ lit # Off
         /\ lit[LaneComponent(layout, (k - 1) % 3)] \in Word16
         /\ TemporalOffset(epoch) \in Nudges
         /\ PackPixel(lit, (k - 1) % 3, (k - 1) \div 3) = LitByte(k, TemporalOffset(epoch))
         /\ \A n \in Nudges : LitByte(k, n) \in Byte
<1>1. lit \in Rgb48 /\ lit # Off
  BY PackingAssumption DEF TypeOK
<1>2. LaneComponent(layout, (k - 1) % 3) \in Components
  BY LaneType, Position DEF TypeOK
<1>3. lit[LaneComponent(layout, (k - 1) % 3)] \in Word16
  BY <1>1, <1>2 DEF Rgb48
<1>4. TemporalOffset(epoch) \in Nudges
  BY OffsetType
<1>5. PackPixel(lit, (k - 1) % 3, (k - 1) \div 3) = LitByte(k, TemporalOffset(epoch))
  BY <1>1 DEF PackPixel, LitByte
<1>6. ASSUME NEW n \in Nudges PROVE LitByte(k, n) \in Byte
  BY <1>3, Position, TemporalType, QuantizeType DEF LitByte
<1>7. QED BY <1>1, <1>3, <1>4, <1>5, <1>6

\* The three properties hold of the stale bytes.
LEMMA PInit == Init => PInv
<1> SUFFICES ASSUME Init PROVE PInv
  OBVIOUS
<1>1. 255 \in Byte
  BY DEF Byte
<1>2. TypeOK
  BY <1>1 DEF Init, TypeOK
<1>3. QED BY <1>2 DEF Init, PInv, OffIsDark, OneNudge

\* A frame of the lit colour is packed for the current epoch.
LEMMA WriteLitStep == PInv /\ WriteLit => PInv'
<1> SUFFICES ASSUME PInv, WriteLit PROVE PInv'
  OBVIOUS
<1>1. /\ target' = PackKernel(lit) /\ content' = "lit" /\ waiting' = TRUE
      /\ UNCHANGED <<features, layout, lit, epoch, shown>>
  BY DEF WriteLit, Write, PackIntoBytes, ByteCount, Pixels
<1>2. \A k \in 1 .. ByteCount :
        target'[k] = LitByte(k, TemporalOffset(epoch)) /\ target'[k] \in Byte
  BY <1>1, PixelValue DEF PInv, PackKernel
<1>3. target' \in [1 .. ByteCount -> Byte]
  BY <1>1, <1>2 DEF PackKernel
<1>4. TypeOK'
  BY <1>1, <1>3 DEF PInv, TypeOK
<1>5. OneNudge'
  <2>1. TemporalOffset(epoch) \in Nudges
    BY OffsetType DEF PInv
  <2>2. \A k \in 1 .. ByteCount : \A n \in Nudges : LitByte(k, n)' = LitByte(k, n)
    BY <1>1 DEF LitByte, Quantize
  <2>3. QED BY <1>2, <2>1, <2>2 DEF OneNudge
<1>6. QED BY <1>1, <1>4, <1>5 DEF PInv, OffIsDark

\* An off frame is all zeros.
LEMMA WriteOffStep == PInv /\ WriteOff => PInv'
<1> SUFFICES ASSUME PInv, WriteOff PROVE PInv'
  OBVIOUS
<1>1. /\ target' = [k \in 1 .. ByteCount |-> 0] /\ content' = "off" /\ waiting' = TRUE
      /\ UNCHANGED <<features, layout, lit, epoch, shown>>
  BY DEF WriteOff, Write, PackIntoBytes, PackKernel, PackPixel, ByteCount, Pixels
<1>2. target' \in [1 .. ByteCount -> Byte]
  BY <1>1 DEF Byte
<1>3. QED BY <1>1, <1>2 DEF PInv, TypeOK, OffIsDark, OneNudge

\* A step that leaves the bytes alone.
LEMMA SameBytes ==
  ASSUME PInv, UNCHANGED <<features, layout, lit, target, content>>,
         epoch' \in 0 .. EpochModulus - 1, waiting' \in BOOLEAN
  PROVE  PInv'
<1>1. TypeOK' /\ OffIsDark'
  BY DEF PInv, TypeOK, OffIsDark
<1>2. \A k \in 1 .. ByteCount : \A n \in Nudges : LitByte(k, n)' = LitByte(k, n)
  BY DEF LitByte, Quantize
<1>3. OneNudge'
  BY <1>2 DEF PInv, OneNudge
<1>4. QED BY <1>1, <1>3 DEF PInv

\* Every step preserves the invariant of the packed target.
LEMMA PNext == PInv /\ [Next]_vars => PInv'
<1> SUFFICES ASSUME PInv, [Next]_vars PROVE PInv'
  OBVIOUS
<1>1. CASE WriteLit
  BY <1>1, WriteLitStep
<1>2. CASE WriteOff
  BY <1>2, WriteOffStep
<1>3. CASE WriteShort
  <2>1. UNCHANGED <<features, layout, lit, epoch, target, content, waiting>>
    BY <1>3 DEF WriteShort, Write, PackIntoBytes, ByteCount, Pixels
  <2>2. QED BY <2>1, SameBytes DEF PInv, TypeOK
<1>4. CASE Accept
  <2>1. epoch' \in 0 .. EpochModulus - 1
    BY <1>4, PackingAssumption DEF Accept, NextEpoch, PInv, TypeOK
  <2>2. QED BY <1>4, <2>1, SameBytes DEF Accept
<1>5. CASE UNCHANGED vars
  BY <1>5, SameBytes DEF vars, PInv, TypeOK
<1>6. QED BY <1>1, <1>2, <1>3, <1>4, <1>5 DEF Next

\* The conjunction is inductive.
LEMMA PackingInvariant == Spec => []PInv
BY PInit, PNext, PTL DEF Spec

\* Every wire byte is a byte, in every build: nothing rounds past the top.
THEOREM BytesAreBytes == Spec => []TypeOK
<1>1. PInv => TypeOK
  BY DEF PInv
<1>2. QED BY <1>1, PackingInvariant, PTL

\* An off frame is dark in every epoch, over whatever the target held.
THEOREM OffStaysDark == Spec => []OffIsDark
<1>1. PInv => OffIsDark
  BY DEF PInv
<1>2. QED BY <1>1, PackingInvariant, PTL

\* Frames of the same colour differ by at most one step in every byte.
LEMMA StepIsSmall ==
  ASSUME PInv, PInv', UNCHANGED <<features, layout, lit>>,
         content = "lit", content' = "lit", NEW k \in 1 .. ByteCount
  PROVE  target'[k] - target[k] \in -1 .. 1
<1> DEFINE v == lit[LaneComponent(layout, (k - 1) % 3)]
<1>1. PICK m \in Nudges : target[k] = LitByte(k, m)
  BY DEF PInv, OneNudge
<1>2. PICK n \in Nudges : target'[k] = LitByte(k, n)
  <2>1. \A j \in 1 .. ByteCount : \A n \in Nudges : LitByte(j, n)' = LitByte(j, n)
    BY DEF LitByte, Quantize
  <2>2. QED BY <2>1 DEF PInv, OneNudge
<1>3. v \in Word16
  BY PixelValue DEF PInv
<1> HIDE DEF v
<1>4. /\ ApplyTemporal(v, m) \in Word16 /\ ApplyTemporal(v, n) \in Word16
      /\ ApplyTemporal(v, n) - ApplyTemporal(v, m) \in -64 .. 64
  BY <1>3, TemporalType, TemporalClose
<1>5. Quantize(ApplyTemporal(v, n), (k - 1) \div 3) - Quantize(ApplyTemporal(v, m), (k - 1) \div 3)
        \in -1 .. 1
  BY <1>4, Position, QuantizeClose
<1>6. QED BY <1>1, <1>2, <1>5 DEF LitByte, v

\* From frame to frame of the same colour no byte jumps, in every build.
THEOREM NoJumps == Spec => SmallSteps
<1>1. PInv /\ PInv' /\ [Next]_vars =>
        [content = "lit" /\ content' = "lit" =>
           \A k \in 1 .. ByteCount : target'[k] - target[k] \in -1 .. 1]_vars
  <2>1. [Next]_vars => UNCHANGED <<features, layout, lit>>
    BY DEF Next, WriteLit, WriteOff, WriteShort, Write, Accept, vars
  <2>2. QED BY <2>1, StepIsSmall
<1>2. QED BY <1>1, PackingInvariant, PTL DEF Spec, SmallSteps

-----------------------------------------------------------------------------
(* Sums over the pixels of the tile.                                       *)

\* A set of natural numbers that is not empty has a least element.
LEMMA Least ==
  ASSUME NEW T \in SUBSET Nat, T # {}
  PROVE  \E x \in T : \A y \in T : x <= y
<1>1. IsWellFoundedOn(OpToRel(<, Nat), Nat)
  BY NatLessThanWellFounded
<1>2. PICK x \in T : \A y \in T : ~ (<<y, x>> \in OpToRel(<, Nat))
  BY <1>1, WFMin
<1>3. \A y \in T : ~ (y < x)
  <2> SUFFICES ASSUME NEW y \in T, y < x PROVE FALSE
    OBVIOUS
  <2>1. <<y, x>> \in OpToRel(<, Nat)
    BY DEF OpToRel
  <2>2. QED BY <1>2, <2>1
<1>4. QED BY <1>3

\* Induction, as a fact about sets.
LEMMA Induction ==
  ASSUME NEW S \in SUBSET Nat, 0 \in S, \A n \in S : n + 1 \in S
  PROVE  S = Nat
<1> SUFFICES ASSUME Nat \ S # {} PROVE FALSE
  OBVIOUS
<1>1. PICK x \in Nat \ S : \A y \in Nat \ S : x <= y
  BY Least
<1>2. QED BY <1>1


\* A running sum is a function: there is one, and it is the one defined.
LEMMA SumExists ==
  ASSUME NEW N \in Nat, NEW b \in [1 .. N -> Int]
  PROVE  \E f : f = [n \in 0 .. N |-> IF n = 0 THEN 0 ELSE f[n - 1] + b[n]]
<1> DEFINE Sums(f, m) == /\ f \in [0 .. m -> Int]
                         /\ f[0] = 0
                         /\ \A n \in 1 .. m : f[n] = f[n - 1] + b[n]
           S == {m \in Nat : m <= N => \E f : Sums(f, m)}
<1>1. 0 \in S
  <2> DEFINE f == [n \in 0 .. 0 |-> 0]
  <2>1. Sums(f, 0)
    OBVIOUS
  <2> HIDE DEF f, Sums
  <2>2. QED BY <2>1
<1>2. ASSUME NEW m \in S PROVE m + 1 \in S
  <2> SUFFICES ASSUME m + 1 <= N PROVE \E f : Sums(f, m + 1)
    <3> HIDE DEF Sums
    <3>1. QED OBVIOUS
  <2>1. m \in Nat /\ m + 1 \in 1 .. N
    OBVIOUS
  <2>2. PICK f : Sums(f, m)
    BY <1>2, <2>1
  <2> DEFINE g == [n \in 0 .. m + 1 |-> IF n <= m THEN f[n] ELSE f[m] + b[m + 1]]
  <2>3. g \in [0 .. m + 1 -> Int]
    BY <2>1, <2>2
  <2>4. g[0] = 0
    BY <2>1, <2>2
  <2>5. ASSUME NEW n \in 1 .. m + 1 PROVE g[n] = g[n - 1] + b[n]
    <3>1. n \in 0 .. m + 1 /\ n - 1 \in 0 .. m + 1 /\ n - 1 <= m
      BY <2>1
    <3>2. g[n - 1] = f[n - 1]
      BY <3>1
    <3>3. CASE n = m + 1
      <4>1. g[n] = f[m] + b[m + 1] /\ n - 1 = m
        BY <2>1, <3>1, <3>3
      <4> HIDE DEF g
      <4>2. QED BY <3>2, <3>3, <4>1
    <3>4. CASE n # m + 1
      <4>1. g[n] = f[n] /\ n \in 1 .. m
        BY <2>1, <3>1, <3>4
      <4>2. f[n] = f[n - 1] + b[n]
        BY <2>2, <4>1
      <4> HIDE DEF g
      <4>3. QED BY <3>2, <4>1, <4>2
    <3>5. QED BY <3>3, <3>4
  <2> HIDE DEF g
  <2>6. Sums(g, m + 1)
    BY <2>3, <2>4, <2>5
  <2>7. QED BY <2>6
<1>3. N \in S
  <2>1. S \in SUBSET Nat
    OBVIOUS
  <2> HIDE DEF S
  <2>2. QED BY <1>1, <1>2, <2>1, Induction
<1>4. PICK f : Sums(f, N)
  BY <1>3
<1>5. f = [n \in 0 .. N |-> IF n = 0 THEN 0 ELSE f[n - 1] + b[n]]
  BY <1>4
<1>6. QED BY <1>5

\* Total is the last of the running sums.
LEMMA TotalIsSum ==
  ASSUME NEW b \in [1 .. Pixels -> Int]
  PROVE  \E sum \in [0 .. Pixels -> Int] :
           /\ sum[0] = 0
           /\ \A n \in 1 .. Pixels : sum[n] = sum[n - 1] + b[n]
           /\ Total(b) = sum[Pixels]
<1> DEFINE sum[n \in 0 .. Pixels] == IF n = 0 THEN 0 ELSE sum[n - 1] + b[n]
<1>1. Pixels \in Nat
  BY DEF Pixels
<1>2. \E f : f = [n \in 0 .. Pixels |-> IF n = 0 THEN 0 ELSE f[n - 1] + b[n]]
  BY <1>1, SumExists
<1>3. sum = [n \in 0 .. Pixels |-> IF n = 0 THEN 0 ELSE sum[n - 1] + b[n]]
  BY <1>2
<1>4. Total(b) = sum[Pixels]
  BY DEF Total
<1> HIDE DEF sum
<1>5. sum[0] = 0
  BY <1>1, <1>3
<1>6. \A n \in 1 .. Pixels : sum[n] = sum[n - 1] + b[n]
  BY <1>1, <1>3
<1>7. \A n \in 0 .. Pixels : sum[n] \in Int
  <2> DEFINE S == {n \in Nat : n <= Pixels => sum[n] \in Int}
  <2>1. 0 \in S
    BY <1>5
  <2>2. \A n \in S : n + 1 \in S
    BY <1>1, <1>6
  <2>3. S = Nat
    <3>1. S \in SUBSET Nat
      OBVIOUS
    <3> HIDE DEF S
    <3>2. QED BY <2>1, <2>2, <3>1, Induction
  <2>4. QED BY <1>1, <2>3
<1>8. sum \in [0 .. Pixels -> Int]
  BY <1>3, <1>7
<1>9. QED BY <1>4, <1>5, <1>6, <1>8

\* One if the fraction x / 256 is above the level-th 64th.
Up(x, level) == IF x > 4 * level THEN 1 ELSE 0

\* How many thresholds of a row a fraction x passes.
Passed(x, row) ==
  CASE row = 0 -> Up(x, 0) + Up(x, 32) + Up(x, 8) + Up(x, 40) + Up(x, 2) + Up(x, 34) + Up(x, 10) + Up(x, 42) 
    [] row = 1 -> Up(x, 48) + Up(x, 16) + Up(x, 56) + Up(x, 24) + Up(x, 50) + Up(x, 18) + Up(x, 58) + Up(x, 26) 
    [] row = 2 -> Up(x, 12) + Up(x, 44) + Up(x, 4) + Up(x, 36) + Up(x, 14) + Up(x, 46) + Up(x, 6) + Up(x, 38) 
    [] row = 3 -> Up(x, 60) + Up(x, 28) + Up(x, 52) + Up(x, 20) + Up(x, 62) + Up(x, 30) + Up(x, 54) + Up(x, 22) 
    [] row = 4 -> Up(x, 3) + Up(x, 35) + Up(x, 11) + Up(x, 43) + Up(x, 1) + Up(x, 33) + Up(x, 9) + Up(x, 41) 
    [] row = 5 -> Up(x, 51) + Up(x, 19) + Up(x, 59) + Up(x, 27) + Up(x, 49) + Up(x, 17) + Up(x, 57) + Up(x, 25) 
    [] row = 6 -> Up(x, 15) + Up(x, 47) + Up(x, 7) + Up(x, 39) + Up(x, 13) + Up(x, 45) + Up(x, 5) + Up(x, 37) 
    [] row = 7 -> Up(x, 63) + Up(x, 31) + Up(x, 55) + Up(x, 23) + Up(x, 61) + Up(x, 29) + Up(x, 53) + Up(x, 21) 

\* Every fourth value of the fraction passes one threshold more.
LEMMA LevelsPassed ==
  ASSUME NEW x \in 0 .. 255
  PROVE  (x + 3) \div 4 = Passed(x, 0) + Passed(x, 1) + Passed(x, 2) + Passed(x, 3)
                          + Passed(x, 4) + Passed(x, 5) + Passed(x, 6) + Passed(x, 7)
BY DEF Passed, Up

\* Counts are numbers.
LEMMA PassedType ==
  ASSUME NEW x \in 0 .. 255 PROVE \A r \in 0 .. 7 : Passed(x, r) \in Int
BY DEF Passed, Up

\* The pixels b are p, rounded up where the fraction x passes the threshold.
Rounded(b, x, p) ==
  /\ b \in [1 .. Pixels -> Int]
  /\ \A n \in 1 .. Pixels : b[n] = IF x * 256 > Threshold8x8[n] THEN p + 1 ELSE p

\* Row r of the tile.
Row(b, r) == b[8 * r + 1] + b[8 * r + 2] + b[8 * r + 3] + b[8 * r + 4]
             + b[8 * r + 5] + b[8 * r + 6] + b[8 * r + 7] + b[8 * r + 8]

\* A row of pixels adds up to eight times p and the thresholds passed.
LEMMA RowSum ==
  ASSUME NEW x \in 0 .. 255, NEW p \in Int, NEW b, Rounded(b, x, p), NEW r \in 0 .. 7
  PROVE  Row(b, r) = 8 * p + Passed(x, r)
<1>1. \A k \in 1 .. 8 : b[8 * r + k] = IF x * 256 > Threshold8x8[8 * r + k] THEN p + 1 ELSE p
  BY DEF Rounded, Pixels
<1>2. CASE r = 0
  BY <1>1, <1>2 DEF Row, Threshold8x8, Passed, Up
<1>3. CASE r = 1
  BY <1>1, <1>3 DEF Row, Threshold8x8, Passed, Up
<1>4. CASE r = 2
  BY <1>1, <1>4 DEF Row, Threshold8x8, Passed, Up
<1>5. CASE r = 3
  BY <1>1, <1>5 DEF Row, Threshold8x8, Passed, Up
<1>6. CASE r = 4
  BY <1>1, <1>6 DEF Row, Threshold8x8, Passed, Up
<1>7. CASE r = 5
  BY <1>1, <1>7 DEF Row, Threshold8x8, Passed, Up
<1>8. CASE r = 6
  BY <1>1, <1>8 DEF Row, Threshold8x8, Passed, Up
<1>9. CASE r = 7
  BY <1>1, <1>9 DEF Row, Threshold8x8, Passed, Up
<1>10. QED BY <1>2, <1>3, <1>4, <1>5, <1>6, <1>7, <1>8, <1>9

\* Eight running sums further.
LEMMA RowStep ==
  ASSUME NEW b \in [1 .. Pixels -> Int], NEW s \in [0 .. Pixels -> Int],
         \A n \in 1 .. Pixels : s[n] = s[n - 1] + b[n],
         NEW r \in 0 .. 7
  PROVE  s[8 * r + 8] = s[8 * r] + Row(b, r)
BY DEF Row, Pixels

\* The rounded tile adds up to its 64 pixels of p and a quarter of the fraction.
LEMMA SpatialSum ==
  ASSUME NEW x, x \in 0 .. 255, NEW p, p \in Int, NEW b, Rounded(b, x, p)
  PROVE  Total(b) = Pixels * p + (x + 3) \div 4
<1>1. b \in [1 .. Pixels -> Int]
  BY DEF Rounded
<1>2. PICK s : /\ s \in [0 .. Pixels -> Int]
               /\ s[0] = 0
               /\ \A n \in 1 .. Pixels : s[n] = s[n - 1] + b[n]
               /\ Total(b) = s[Pixels]
  BY <1>1, TotalIsSum
<1>3. \A r \in 0 .. 7 : Passed(x, r) \in Int
  BY PassedType
<1>4. ASSUME NEW r \in 0 .. 7
      PROVE  s[8 * r] \in Int /\ s[8 * r + 8] = s[8 * r] + 8 * p + Passed(x, r)
  <2>1. s[8 * r + 8] = s[8 * r] + Row(b, r)
    BY <1>1, <1>2, RowStep
  <2>2. Row(b, r) = 8 * p + Passed(x, r)
    BY RowSum
  <2>3. s[8 * r] \in Int
    BY <1>2 DEF Pixels
  <2>4. QED BY <1>3, <2>1, <2>2, <2>3
<1>5. /\ s[8]  = s[0]  + 8 * p + Passed(x, 0) /\ s[16] = s[8]  + 8 * p + Passed(x, 1)
      /\ s[24] = s[16] + 8 * p + Passed(x, 2) /\ s[32] = s[24] + 8 * p + Passed(x, 3)
      /\ s[40] = s[32] + 8 * p + Passed(x, 4) /\ s[48] = s[40] + 8 * p + Passed(x, 5)
      /\ s[56] = s[48] + 8 * p + Passed(x, 6) /\ s[64] = s[56] + 8 * p + Passed(x, 7)
  BY <1>4
<1>6. /\ Passed(x, 0) \in Int /\ Passed(x, 1) \in Int /\ Passed(x, 2) \in Int /\ Passed(x, 3) \in Int
      /\ Passed(x, 4) \in Int /\ Passed(x, 5) \in Int /\ Passed(x, 6) \in Int /\ Passed(x, 7) \in Int
  BY <1>3
<1>7. s[0] = 0 /\ p \in Int
  BY <1>2
<1>8. s[64] = 64 * p + (Passed(x, 0) + Passed(x, 1) + Passed(x, 2) + Passed(x, 3)
                        + Passed(x, 4) + Passed(x, 5) + Passed(x, 6) + Passed(x, 7))
  BY ONLY <1>5, <1>6, <1>7
<1>9. s[64] = 64 * p + (x + 3) \div 4
  BY <1>8, LevelsPassed
<1>10. QED BY <1>2, <1>9 DEF Pixels

\* A tile of equal bytes.
LEMMA TruncatedSum ==
  ASSUME NEW p \in Int, NEW b \in [1 .. Pixels -> Int], \A n \in 1 .. Pixels : b[n] = p
  PROVE  Total(b) = Pixels * p
<1>1. PICK s \in [0 .. Pixels -> Int] :
        /\ s[0] = 0
        /\ \A n \in 1 .. Pixels : s[n] = s[n - 1] + b[n]
        /\ Total(b) = s[Pixels]
  BY TotalIsSum
<1> DEFINE S == {n \in Nat : n <= Pixels => s[n] = n * p}
<1>2. 0 \in S
  BY <1>1
<1>3. ASSUME NEW n \in S PROVE n + 1 \in S
  <2> SUFFICES ASSUME n + 1 <= Pixels PROVE s[n + 1] = (n + 1) * p
    OBVIOUS
  <2>1. n \in Nat /\ n + 1 \in 1 .. Pixels /\ s[n] = n * p
    BY DEF Pixels
  <2>2. s[n + 1] = s[n] + p
    BY <1>1, <2>1
  <2>3. (n + 1) * p = n * p + p
    BY <2>1
  <2>4. QED BY <2>1, <2>2, <2>3
<1>4. S = Nat
  <2>1. S \in SUBSET Nat
    OBVIOUS
  <2> HIDE DEF S
  <2>2. QED BY <1>2, <1>3, <2>1, Induction
<1>5. Pixels \in S
  BY <1>4 DEF Pixels
<1>6. QED BY <1>1, <1>5

-----------------------------------------------------------------------------
(* The light of a frame.                                                   *)

\* The bytes of component c in a frame of the lit colour, packed with nudge n.
Tile(c, n) == [i \in 1 .. Pixels |-> Quantize(ApplyTemporal(lit[c], n), i - 1)]

\* What the bytes of a nudged value add up to.
TileLight(v) == IF features.spatial THEN (v + 3) \div 4 ELSE Pixels * (v \div 256)

\* Thresholds are at least 0.
LEMMA ThresholdPositive == \A i \in 1 .. 64 : Threshold8x8[i] \in Nat
BY DEF Threshold8x8

\* The light of a component whose nudges do not saturate.
LEMMA TileTotal ==
  ASSUME TypeOK, NEW c \in Components, NEW n \in Nudges, Unsaturated(lit[c])
  PROVE  Total(Tile(c, n)) = TileLight(lit[c] + n)
<1> DEFINE v == lit[c]
           w == v + n
           b == Tile(c, n)
<1>1. v \in Word16
  BY PackingAssumption DEF TypeOK, Rgb48
<1>2. w \in Word16 /\ w <= 255 * 256 /\ ApplyTemporal(v, n) = w
  BY <1>1, NudgeRange DEF Unsaturated, ApplyTemporal, Word16
<1> HIDE DEF w
<1>3. PICK p, x : /\ p \in Byte /\ x \in Byte /\ p = w \div 256 /\ x = w % 256 /\ w = 256 * p + x
                  /\ (p < 255 \/ x = 0)
  BY <1>2, TwoBytes DEF Byte, Word16
<1>4. p \in Int /\ x \in 0 .. 255
  BY <1>3 DEF Byte
<1>5. \A i \in 1 .. Pixels :
        b[i] = IF features.spatial /\ x * 256 > Threshold8x8[i] THEN p + 1 ELSE p
  <2> SUFFICES ASSUME NEW i \in 1 .. Pixels
               PROVE  b[i] = IF features.spatial /\ x * 256 > Threshold8x8[i] THEN p + 1 ELSE p
    OBVIOUS
  <2>1. ((i - 1) % 64) + 1 = i
    BY DEF Pixels
  <2>2. b[i] = Quantize(w, i - 1)
    BY <1>2 DEF Tile
  <2>3. Quantize(w, i - 1) =
          IF features.spatial /\ x * 256 > Threshold8x8[i] /\ p < 255 THEN p + 1 ELSE p
    BY <1>3, <2>1 DEF Quantize
  <2>4. Threshold8x8[i] \in Nat
    BY ThresholdPositive DEF Pixels
  <2>5. p < 255 \/ ~ (x * 256 > Threshold8x8[i])
    BY <1>3, <2>4
  <2>6. QED BY <2>2, <2>3, <2>5
<1>6. b \in [1 .. Pixels -> Int]
  <2>1. \A i \in 1 .. Pixels : b[i] \in Int
    BY <1>4, <1>5
  <2>2. b = [i \in 1 .. Pixels |-> b[i]]
    BY DEF Tile
  <2> HIDE DEF b
  <2>3. QED BY <2>1, <2>2
<1> HIDE DEF b
<1>7. CASE features.spatial
  <2>1. Rounded(b, x, p)
    BY <1>5, <1>6, <1>7 DEF Rounded
  <2>2. Total(b) = Pixels * p + (x + 3) \div 4
    BY <1>4, <2>1, SpatialSum
  <2>3. 64 * p + (x + 3) \div 4 = (256 * p + x + 3) \div 4
    BY <1>4
  <2>4. TileLight(w) = (w + 3) \div 4
    BY <1>7 DEF TileLight
  <2>5. QED BY <1>3, <2>2, <2>3, <2>4 DEF b, w, Pixels
<1>8. CASE ~ features.spatial
  <2>1. \A i \in 1 .. Pixels : b[i] = p
    BY <1>5, <1>8
  <2>2. Total(b) = Pixels * p
    BY <1>4, <1>6, <2>1, TruncatedSum
  <2>3. QED BY <1>3, <1>8, <2>2 DEF TileLight, b, w
<1>9. QED BY <1>7, <1>8

\* layout_map writes each component where the wire order has it.
LEMMA MapIsWireOrder ==
  ASSUME NEW l \in Layouts, NEW c \in Components
  PROVE  WirePlace(l, c) = LayoutMap(l)[c] + 1
<1>1. l \in {"Grb", "Rgb", "Bgr", "Rbg", "Gbr", "Brg"}
  BY PackingAssumption
<1>2. LayoutMap(l)[c] + 1 \in 1 .. 3 /\ WireOrder(l)[LayoutMap(l)[c] + 1] = c
  BY <1>1 DEF LayoutMap, WireOrder, Components
<1>3. \A place \in 1 .. 3 : WireOrder(l)[place] = c => place = LayoutMap(l)[c] + 1
  BY <1>1 DEF LayoutMap, WireOrder, Components
<1>4. QED BY <1>2, <1>3 DEF WirePlace

\* The i-th byte of a component is at its place in the i-th triplet.
LEMMA WirePosition ==
  ASSUME TypeOK, NEW c \in Components, NEW i \in 1 .. Pixels
  PROVE  LET k == 3 * (i - 1) + WirePlace(layout, c) IN
         /\ k \in 1 .. ByteCount
         /\ LaneComponent(layout, (k - 1) % 3) = c
         /\ (k - 1) \div 3 = i - 1
<1> DEFINE lane == LayoutMap(layout)[c]
           k == 3 * (i - 1) + WirePlace(layout, c)
<1>1. layout \in {"Grb", "Rgb", "Bgr", "Rbg", "Gbr", "Brg"}
  BY PackingAssumption DEF TypeOK
<1>2. lane \in 0 .. 2
  BY <1>1 DEF LayoutMap, Components
<1>3. \A d \in Components : LayoutMap(layout)[d] = lane => d = c
  BY <1>1 DEF LayoutMap, Components
<1>4. LaneComponent(layout, lane) = c
  BY <1>3 DEF LaneComponent
<1> HIDE DEF lane
<1>5. WirePlace(layout, c) = lane + 1
  BY MapIsWireOrder DEF lane, TypeOK
<1>6. k \in 1 .. ByteCount /\ (k - 1) % 3 = lane /\ (k - 1) \div 3 = i - 1
  BY <1>2, <1>5 DEF Pixels, ByteCount
<1>7. QED BY <1>4, <1>6 DEF lane

\* The light of a frame packed with nudge n throughout.
LEMMA FrameLight ==
  ASSUME TypeOK, NEW c \in Components, NEW n \in Nudges,
         \A k \in 1 .. ByteCount : target[k] = LitByte(k, n)
  PROVE  Light(c) = Total(Tile(c, n))
<1> DEFINE k(i) == 3 * (i - 1) + WirePlace(layout, c)
<1>1. ASSUME NEW i \in 1 .. Pixels PROVE target[k(i)] = Quantize(ApplyTemporal(lit[c], n), i - 1)
  <2>1. k(i) \in 1 .. ByteCount /\ LaneComponent(layout, (k(i) - 1) % 3) = c /\ (k(i) - 1) \div 3 = i - 1
    BY WirePosition
  <2> HIDE DEF k
  <2>2. QED BY <2>1 DEF LitByte
<1>2. [i \in 1 .. Pixels |-> target[k(i)]] = Tile(c, n)
  <2> HIDE DEF k
  <2>1. QED BY <1>1 DEF Tile
<1>3. QED BY <1>2 DEF Light

\* A number for each component.
Lights == [Components -> Int]

\* The light of any frame is a number.
LEMMA LightType == ASSUME TypeOK PROVE [c \in Components |-> Light(c)] \in Lights
<1> SUFFICES ASSUME NEW c \in Components PROVE Light(c) \in Int
  BY DEF Lights
<1> DEFINE b == [i \in 1 .. Pixels |-> target[3 * (i - 1) + WirePlace(layout, c)]]
<1>1. b \in [1 .. Pixels -> Int]
  <2>1. \A i \in 1 .. Pixels : 3 * (i - 1) + WirePlace(layout, c) \in 1 .. ByteCount
    BY WirePosition
  <2>2. target \in [1 .. ByteCount -> Int]
    BY DEF TypeOK, Byte
  <2>3. QED BY <2>1, <2>2
<1>2. Total(b) \in Int
  <2>1. PICK s \in [0 .. Pixels -> Int] : Total(b) = s[Pixels]
    <3> HIDE DEF b
    <3>1. QED BY <1>1, TotalIsSum
  <2>2. QED BY <2>1 DEF Pixels
<1>3. QED BY <1>2 DEF Light

\* A lit frame that waits was packed for the epoch it will be taken in.
CurrentFrame ==
  waiting /\ content = "lit" =>
    \A k \in 1 .. ByteCount : target[k] = LitByte(k, TemporalOffset(epoch))

\* The last frames taken show the colour as packed for the epochs before this one, in order.
ShownLight ==
  /\ shown \in Seq(Lights)
  /\ Len(shown) <= 4
  /\ \A i \in 1 .. Len(shown) : \A c \in Components :
       Unsaturated(lit[c]) =>
         shown[i][c] = TileLight(lit[c] + TemporalOffset(epoch + 3 + i - Len(shown)))

LightInv == PInv /\ CurrentFrame /\ ShownLight

\* No frame was taken yet.
LEMMA LightInit == Init => LightInv
<1>1. Init => CurrentFrame /\ ShownLight
  BY DEF Init, CurrentFrame, ShownLight
<1>2. QED BY <1>1, PInit DEF LightInv

\* A step that takes no frame leaves the frames taken as they were.
LEMMA SameShown ==
  ASSUME ShownLight, UNCHANGED <<features, layout, lit, epoch, shown>>
  PROVE  ShownLight'
BY DEF ShownLight, TileLight, TemporalOffset

\* Adding the same to numbers with the same remainder.
LEMMA ModAdd ==
  ASSUME NEW e \in Nat, NEW f \in Nat, f % 4 = (e + 1) % 4, NEW d \in 0 .. 4
  PROVE  (f + d) % 4 = (e + 1 + d) % 4
<1>1. PICK q, r \in Nat : r = f % 4 /\ r < 4 /\ f = 4 * q + r
  BY f = 4 * (f \div 4) + (f % 4)
<1>2. PICK p \in Nat : e + 1 = 4 * p + r
  BY <1>1, e + 1 = 4 * ((e + 1) \div 4) + ((e + 1) % 4)
<1>3. (4 * q + r + d) % 4 = (r + d) % 4 /\ (4 * p + r + d) % 4 = (r + d) % 4
  BY <1>1, <1>2
<1>4. QED BY <1>1, <1>2, <1>3

\* The frame taken joins the last four.
LEMMA AcceptShown ==
  ASSUME LightInv, Accept PROVE ShownLight'
<1> USE DEF LightInv, PInv
<1>1. CASE content # "lit"
  <2>1. shown' = <<>>
    BY <1>1 DEF Accept
  <2>2. QED BY <2>1 DEF ShownLight
<1>2. CASE content = "lit"
  <2> DEFINE f == [c \in Components |-> Light(c)]
             n == TemporalOffset(epoch)
             L == Len(shown)
             more == Append(shown, f)
  <2>1. f \in Lights /\ n \in Nudges
    BY LightType, OffsetType
  <2>2. ASSUME NEW c \in Components, Unsaturated(lit[c]) PROVE f[c] = TileLight(lit[c] + n)
    <3>1. \A k \in 1 .. ByteCount : target[k] = LitByte(k, n)
      BY <1>2 DEF CurrentFrame, Accept
    <3>2. Light(c) = Total(Tile(c, n))
      BY <2>1, <3>1, FrameLight
    <3>3. Total(Tile(c, n)) = TileLight(lit[c] + n)
      BY <2>1, <2>2, TileTotal
    <3>4. QED BY <3>2, <3>3
  <2>3. shown' = LastFour(more) /\ UNCHANGED <<features, layout, lit>>
    BY <1>2 DEF Accept
  <2>4. epoch \in Nat /\ epoch' \in Nat /\ epoch' % 4 = (epoch + 1) % 4
    BY PackingAssumption, EpochAssumption DEF TypeOK, Accept, NextEpoch
  <2>5. \A d \in 0 .. 4 : TemporalOffset(epoch' + d) = TemporalOffset(epoch + 1 + d)
    <3>1. \A d \in 0 .. 4 : (epoch' + d) % 4 = (epoch + 1 + d) % 4
      BY <2>4, ModAdd
    <3>2. QED BY <3>1 DEF TemporalOffset
  <2>6. \A v, e : TileLight(v + TemporalOffset(e))' = TileLight(v + TemporalOffset(e))
    BY <2>3 DEF TileLight, TemporalOffset
  <2> HIDE DEF f, n
  <2>7. /\ L \in 0 .. 4 /\ more \in Seq(Lights) /\ Len(more) = L + 1
        /\ more[L + 1] = f /\ \A i \in 1 .. L : more[i] = shown[i]
    <3>1. shown \in Seq(Lights)
      BY DEF ShownLight
    <3>2. Len(shown) <= 4
      BY DEF ShownLight
    <3>3. Len(shown) \in Nat
      BY <3>1, LenProperties
    <3>4. L \in 0 .. 4
      <4>1. \A m \in Nat : m <= 4 => m \in 0 .. 4
        OBVIOUS
      <4>2. QED BY <3>2, <3>3, <4>1, Zenon
    <3>5. QED BY <2>1, <3>1, <3>4, AppendProperties
  <2>8. ASSUME NEW i \in 1 .. L + 1, NEW c \in Components, Unsaturated(lit[c])
        PROVE  more[i][c] = TileLight(lit[c] + TemporalOffset(epoch + 3 + i - L))
    <3>1. CASE i \in 1 .. L
      BY <2>7, <2>8, <3>1 DEF ShownLight
    <3>2. CASE i = L + 1
      <4>1. TemporalOffset(epoch + 3 + i - L) = n
        <5>1. (epoch + 3 + i - L) % 4 = epoch % 4
          BY <2>4, <2>7, <3>2
        <5>2. QED BY <5>1 DEF TemporalOffset, n
      <4>2. QED BY <2>2, <2>7, <2>8, <3>2, <4>1
    <3>3. QED BY <3>1, <3>2
  <2> HIDE DEF L, more
  <2>9. CASE L < 4
    <3>1. shown' = more /\ Len(shown') = L + 1
      BY <2>3, <2>7, <2>9 DEF LastFour
    <3>2. ASSUME NEW i \in 1 .. L + 1, NEW c \in Components, Unsaturated(lit[c])
          PROVE  more[i][c] = TileLight(lit[c] + TemporalOffset(epoch' + 3 + i - (L + 1)))
      <4>1. 3 + i - (L + 1) \in 0 .. 4
        BY <2>7, <2>9
      <4>2. TemporalOffset(epoch' + (3 + i - (L + 1))) = TemporalOffset(epoch + 1 + (3 + i - (L + 1)))
        BY <2>5, <4>1
      <4>3. /\ epoch' + (3 + i - (L + 1)) = epoch' + 3 + i - (L + 1)
            /\ epoch + 1 + (3 + i - (L + 1)) = epoch + 3 + i - L
        <5>1. epoch \in Int /\ epoch' \in Int /\ L \in Int /\ i \in Int
          BY <2>4, <2>7
        <5>2. QED BY <5>1
      <4>4. QED BY <2>8, <3>2, <4>2, <4>3
    <3>3. QED BY <2>3, <2>6, <2>7, <2>9, <3>1, <3>2 DEF ShownLight, Unsaturated
  <2>10. CASE L = 4
    <3>1. /\ shown' = Tail(more) /\ Len(shown') = 4 /\ shown' \in Seq(Lights)
          /\ \A i \in 1 .. 4 : shown'[i] = more[i + 1]
      <4>1. shown' = Tail(more)
        BY <2>3, <2>7, <2>10 DEF LastFour
      <4>2. more \in Seq(Lights) /\ Len(more) = 5
        BY <2>7, <2>10
      <4>3. more # <<>>
        BY <4>2, EmptySeq
      <4>4. Tail(more) \in Seq(Lights) /\ Len(Tail(more)) = 4
        BY <4>2, <4>3, HeadTailProperties
      <4>5. \A i \in 1 .. Len(Tail(more)) : Tail(more)[i] = more[i + 1]
        BY <4>2, <4>3, HeadTailProperties
      <4>6. QED BY <4>1, <4>4, <4>5
    <3>2. ASSUME NEW i \in 1 .. 4, NEW c \in Components, Unsaturated(lit[c])
          PROVE  more[i + 1][c] = TileLight(lit[c] + TemporalOffset(epoch' + 3 + i - Len(shown')))
      <4>1. TemporalOffset(epoch' + (3 + i - 4)) = TemporalOffset(epoch + 1 + (3 + i - 4))
        BY <2>5
      <4>2. /\ epoch' + (3 + i - 4) = epoch' + 3 + i - 4
            /\ epoch + 1 + (3 + i - 4) = epoch + 3 + (i + 1) - L
        BY <2>4, <2>10
      <4>3. more[i + 1][c] = TileLight(lit[c] + TemporalOffset(epoch + 3 + (i + 1) - L))
        BY <2>8, <2>10, <3>2
      <4>4. QED BY <3>1, <4>1, <4>2, <4>3
    <3>3. ASSUME NEW i \in 1 .. Len(shown'), NEW c \in Components, Unsaturated(lit[c])'
          PROVE  shown'[i][c] = TileLight(lit[c] + TemporalOffset(epoch + 3 + i - Len(shown)))'
      <4>1. i \in 1 .. 4 /\ Unsaturated(lit[c]) /\ lit' = lit
        BY <2>3, <3>1, <3>3 DEF Unsaturated
      <4>2. shown'[i][c] = TileLight(lit[c] + TemporalOffset(epoch' + 3 + i - Len(shown')))
        BY <3>1, <3>2, <4>1
      <4>3. QED BY <2>3, <4>2 DEF TileLight, TemporalOffset
    <3>4. Len(shown') <= 4
      BY <3>1
    <3>5. QED BY <3>1, <3>3, <3>4 DEF ShownLight
  <2>11. QED BY <2>7, <2>9, <2>10
<1>3. QED BY <1>1, <1>2

\* Every step preserves the invariant of the frames taken.
LEMMA LightNext == LightInv /\ [Next]_vars => LightInv'
<1> SUFFICES ASSUME LightInv, [Next]_vars PROVE LightInv'
  OBVIOUS
<1>1. PInv'
  BY PNext DEF LightInv
<1>2. CASE WriteLit
  <2>1. /\ target' = PackKernel(lit) /\ UNCHANGED <<features, layout, lit, epoch, shown>>
    BY <1>2 DEF WriteLit, Write, PackIntoBytes, ByteCount, Pixels
  <2>2. \A k \in 1 .. ByteCount : target'[k] = LitByte(k, TemporalOffset(epoch))
    BY <2>1, PixelValue DEF LightInv, PInv, PackKernel
  <2>3. \A k : LitByte(k, TemporalOffset(epoch))' = LitByte(k, TemporalOffset(epoch))
    BY <2>1 DEF LitByte, Quantize, TemporalOffset
  <2>4. CurrentFrame'
    BY <2>2, <2>3 DEF CurrentFrame
  <2>5. QED BY <1>1, <2>1, <2>4, SameShown DEF LightInv
<1>3. CASE WriteOff
  <2>1. content' = "off" /\ UNCHANGED <<features, layout, lit, epoch, shown>>
    BY <1>3 DEF WriteOff, Write
  <2>2. QED BY <1>1, <2>1, SameShown DEF LightInv, CurrentFrame
<1>4. CASE WriteShort
  <2>1. UNCHANGED vars
    BY <1>4 DEF WriteShort, Write, PackIntoBytes, ByteCount, Pixels, vars
  <2>2. CurrentFrame'
    BY <2>1 DEF LightInv, CurrentFrame, LitByte, Quantize, TemporalOffset, vars
  <2>3. QED BY <1>1, <2>1, <2>2, SameShown DEF LightInv, vars
<1>5. CASE Accept
  <2>1. CurrentFrame'
    BY <1>5 DEF Accept, CurrentFrame
  <2>2. QED BY <1>1, <1>5, <2>1, AcceptShown DEF LightInv
<1>6. CASE UNCHANGED vars
  <2>1. CurrentFrame'
    BY <1>6 DEF LightInv, CurrentFrame, LitByte, Quantize, TemporalOffset, vars
  <2>2. QED BY <1>1, <1>6, <2>1, SameShown DEF LightInv, vars
<1>7. QED BY <1>2, <1>3, <1>4, <1>5, <1>6 DEF Next

\* The nudges of four epochs in a row cancel out.
LEMMA NudgesCancel ==
  ASSUME NEW e \in Nat
  PROVE  /\ TemporalOffset(e) \in Nudges /\ TemporalOffset(e + 1) \in Nudges
         /\ TemporalOffset(e + 2) \in Nudges /\ TemporalOffset(e + 3) \in Nudges
         /\ TemporalOffset(e) + TemporalOffset(e + 1) + TemporalOffset(e + 2) + TemporalOffset(e + 3) = 0
<1> DEFINE Nudge(m) == <<-32, 32, -16, 16>>[m + 1]
<1>1. CASE ~ features.temporal
  BY <1>1 DEF TemporalOffset, Nudges
<1>2. CASE features.temporal
  <2>1. /\ Nudge(0) = -32 /\ Nudge(1) = 32 /\ Nudge(2) = -16 /\ Nudge(3) = 16
    OBVIOUS
  <2>2. /\ TemporalOffset(e) = Nudge(e % 4) /\ TemporalOffset(e + 1) = Nudge((e + 1) % 4)
        /\ TemporalOffset(e + 2) = Nudge((e + 2) % 4) /\ TemporalOffset(e + 3) = Nudge((e + 3) % 4)
    BY <1>2 DEF TemporalOffset
  <2> HIDE DEF Nudge
  <2>3. \/ e % 4 = 0 /\ (e + 1) % 4 = 1 /\ (e + 2) % 4 = 2 /\ (e + 3) % 4 = 3
        \/ e % 4 = 1 /\ (e + 1) % 4 = 2 /\ (e + 2) % 4 = 3 /\ (e + 3) % 4 = 0
        \/ e % 4 = 2 /\ (e + 1) % 4 = 3 /\ (e + 2) % 4 = 0 /\ (e + 3) % 4 = 1
        \/ e % 4 = 3 /\ (e + 1) % 4 = 0 /\ (e + 2) % 4 = 1 /\ (e + 3) % 4 = 2
    OBVIOUS
  <2>4. QED BY <2>1, <2>2, <2>3 DEF Nudges
<1>3. QED BY <1>1, <1>2

\* Four frames whose nudges cancel out: rounding errs by at most 3, truncation
\* by at most 255 and never upwards.
LEMMA FourFrames ==
  ASSUME NEW v \in Word16,
         NEW n1 \in Nudges, NEW n2 \in Nudges, NEW n3 \in Nudges, NEW n4 \in Nudges,
         n1 + n2 + n3 + n4 = 0
  PROVE  TileLight(v + n1) + TileLight(v + n2) + TileLight(v + n3) + TileLight(v + n4) - v
           \in IF features.spatial THEN 0 .. 3 ELSE -255 .. 0
<1>1. v \in Nat /\ n1 \in Int /\ n2 \in Int /\ n3 \in Int /\ n4 \in Int
  BY NudgeRange DEF Word16
<1>2. CASE features.spatial
  <2>1. \A n \in Nudges : TileLight(v + n) \in Int /\ 4 * TileLight(v + n) = 4 * ((v + 3) \div 4) + n
    BY <1>1, <1>2 DEF TileLight, Nudges
  <2>2. PICK t1, t2, t3, t4 \in Int :
          /\ t1 = TileLight(v + n1) /\ t2 = TileLight(v + n2)
          /\ t3 = TileLight(v + n3) /\ t4 = TileLight(v + n4)
    BY <2>1
  <2>3. PICK q \in Int : q = (v + 3) \div 4 /\ v <= 4 * q /\ 4 * q <= v + 3
    BY <1>1
  <2>4. 4 * t1 = 4 * q + n1 /\ 4 * t2 = 4 * q + n2 /\ 4 * t3 = 4 * q + n3 /\ 4 * t4 = 4 * q + n4
    BY <2>1, <2>2, <2>3
  <2>5. t1 + t2 + t3 + t4 - v \in 0 .. 3
    BY <1>1, <2>3, <2>4
  <2>6. QED BY <1>2, <2>2, <2>5
<1>3. CASE ~ features.spatial
  <2>1. \A n \in Nudges : /\ TileLight(v + n) \in Int
                          /\ 4 * TileLight(v + n) <= v + n
                          /\ 4 * TileLight(v + n) >= v + n - 255
    BY <1>1, <1>3 DEF TileLight, Pixels, Nudges
  <2>2. PICK t1, t2, t3, t4 \in Int :
          /\ t1 = TileLight(v + n1) /\ t2 = TileLight(v + n2)
          /\ t3 = TileLight(v + n3) /\ t4 = TileLight(v + n4)
    BY <2>1
  <2>3. /\ 4 * t1 <= v + n1 /\ 4 * t2 <= v + n2 /\ 4 * t3 <= v + n3 /\ 4 * t4 <= v + n4
        /\ 4 * t1 >= v + n1 - 255 /\ 4 * t2 >= v + n2 - 255
        /\ 4 * t3 >= v + n3 - 255 /\ 4 * t4 >= v + n4 - 255
    BY <2>1, <2>2
  <2>4. t1 + t2 + t3 + t4 - v \in -255 .. 0
    BY <1>1, <2>3
  <2>5. QED BY <1>3, <2>2, <2>4
<1>4. QED BY <1>2, <1>3

\* Dithering does not change a colour, for every colour, every layout and every
\* number of epochs that keeps the cycle of nudges whole: the bytes of four
\* frames in a row add up to the 16-bit value.
THEOREM LightIsPreserved == Spec => []LightPreserved
<1>1. LightInv => LightPreserved
  <2> SUFFICES ASSUME LightInv, Len(shown) = 4, NEW c \in Components, Unsaturated(lit[c])
               PROVE  LET error == shown[1][c] + shown[2][c] + shown[3][c] + shown[4][c] - lit[c]
                      IN error \in IF features.spatial THEN 0 .. 3 ELSE -255 .. 0
    BY DEF LightPreserved
  <2>1. epoch \in Nat /\ lit[c] \in Word16
    BY PackingAssumption DEF LightInv, PInv, TypeOK, Rgb48
  <2>2. \A i \in 1 .. 4 : shown[i][c] = TileLight(lit[c] + TemporalOffset(epoch + 3 + i - 4))
    BY DEF LightInv, ShownLight
  <2>3. /\ shown[1][c] = TileLight(lit[c] + TemporalOffset(epoch))
        /\ shown[2][c] = TileLight(lit[c] + TemporalOffset(epoch + 1))
        /\ shown[3][c] = TileLight(lit[c] + TemporalOffset(epoch + 2))
        /\ shown[4][c] = TileLight(lit[c] + TemporalOffset(epoch + 3))
    <3>1. /\ epoch + 3 + 1 - 4 = epoch /\ epoch + 3 + 2 - 4 = epoch + 1
          /\ epoch + 3 + 3 - 4 = epoch + 2 /\ epoch + 3 + 4 - 4 = epoch + 3
      BY <2>1
    <3>2. QED BY <2>2, <3>1
  <2>4. PICK n1, n2, n3, n4 \in Nudges :
          /\ n1 = TemporalOffset(epoch) /\ n2 = TemporalOffset(epoch + 1)
          /\ n3 = TemporalOffset(epoch + 2) /\ n4 = TemporalOffset(epoch + 3)
          /\ n1 + n2 + n3 + n4 = 0
    BY <2>1, NudgesCancel
  <2>5. QED BY <2>1, <2>3, <2>4, FourFrames
<1>2. QED BY <1>1, LightInit, LightNext, PTL DEF Spec

===============================================================================
