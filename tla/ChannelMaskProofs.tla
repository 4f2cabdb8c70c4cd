-------------------------- MODULE ChannelMaskProofs ---------------------------
(***************************************************************************)
(* The mask arithmetic proved for every word width, every number of        *)
(* channels and every number of epochs: the words never hold a stray bit,  *)
(* and read as sets they behave as FrameTransport.                         *)
(*                                                                         *)
(* The first part is about words: the bits of the word made of a set of    *)
(* bits are that set.  It goes by induction over the bits, as a fact about *)
(* sets of numbers.                                                        *)
(***************************************************************************)
EXTENDS ChannelMasks, Sequences, WellFoundedInduction, TLAPS

\* A set of natural numbers that has 0, and n + 1 whenever it has n, has all.
LEMMA Induction ==
  ASSUME NEW S \in SUBSET Nat, 0 \in S, \A n \in S : n + 1 \in S
  PROVE  S = Nat
<1> SUFFICES ASSUME Nat \ S # {} PROVE FALSE
  OBVIOUS
<1>1. PICK x \in Nat \ S : \A y \in Nat \ S : ~ (<<y, x>> \in OpToRel(<, Nat))
  <2>1. IsWellFoundedOn(OpToRel(<, Nat), Nat)
    BY NatLessThanWellFounded
  <2>2. QED BY <2>1, WFMin
<1>2. x - 1 \in Nat /\ x - 1 < x
  OBVIOUS
<1>3. x - 1 \in S
  BY <1>1, <1>2 DEF OpToRel
<1>4. QED BY <1>2, <1>3

\* A function that starts with x0 and takes the steps up to N.
Steps(f, N, x0, step) ==
  /\ f \in [0 .. N -> Nat]
  /\ f[0] = x0
  /\ \A n \in 1 .. N : f[n] = step[n][f[n - 1]]

\* A recursive definition of numbers over 0 .. N has a value.
LEMMA RecursionExists ==
  ASSUME NEW N \in Nat, NEW x0 \in Nat, NEW step, \A n \in Nat, x \in Nat : step[n][x] \in Nat
  PROVE  \E f : Steps(f, N, x0, step)
<1> DEFINE S == {m \in Nat : \E f : Steps(f, m, x0, step)}
<1>1. 0 \in S
  <2> DEFINE f == [n \in 0 .. 0 |-> x0]
  <2>1. Steps(f, 0, x0, step)
    BY DEF Steps
  <2> HIDE DEF f
  <2>2. QED BY <2>1
<1>2. ASSUME NEW m \in S PROVE m + 1 \in S
  <2>1. m \in Nat
    OBVIOUS
  <2>2. PICK f : Steps(f, m, x0, step)
    BY <1>2
  <2> DEFINE g == [n \in 0 .. m + 1 |-> IF n <= m THEN f[n] ELSE step[m + 1][f[m]]]
  <2>3. g \in [0 .. m + 1 -> Nat]
    BY <2>1, <2>2 DEF Steps
  <2>4. g[0] = x0
    BY <2>1, <2>2 DEF Steps
  <2>5. ASSUME NEW n \in 1 .. m + 1 PROVE g[n] = step[n][g[n - 1]]
    BY <2>1, <2>2 DEF Steps
  <2> HIDE DEF g
  <2>6. Steps(g, m + 1, x0, step)
    BY <2>3, <2>4, <2>5 DEF Steps
  <2>7. QED BY <2>1, <2>6
<1>3. N \in S
  <2>1. S \in SUBSET Nat
    OBVIOUS
  <2> HIDE DEF S
  <2>2. QED BY <1>1, <1>2, <2>1, Induction
<1>4. QED BY <1>3

-----------------------------------------------------------------------------
(* Words.                                                                  *)

\* Shifting a one.
LEMMA MaskBits ==
  /\ MaskBit(0) = 1
  /\ \A c \in Bits : MaskBit(c + 1) = 2 * MaskBit(c)
  /\ \A c \in 0 .. CapacityBits : MaskBit(c) \in Nat
<1> DEFINE shifted[n \in 0 .. CapacityBits] == IF n = 0 THEN 1 ELSE 2 * shifted[n - 1]
           step == [n \in Nat |-> [x \in Nat |-> 2 * x]]
<1>1. CapacityBits \in Nat /\ 1 \in Nat
  BY MaskAssumption
<1>2. \A n \in Nat, x \in Nat : step[n][x] = 2 * x /\ step[n][x] \in Nat
  OBVIOUS
<1> HIDE DEF step
<1>3. PICK f : Steps(f, CapacityBits, 1, step)
  BY <1>1, <1>2, RecursionExists
<1>4. f = [n \in 0 .. CapacityBits |-> IF n = 0 THEN 1 ELSE 2 * f[n - 1]]
  <2>1. ASSUME NEW n \in 1 .. CapacityBits PROVE f[n] = 2 * f[n - 1]
    <3>1. n \in Nat /\ f[n - 1] \in Nat
      BY <1>1, <1>3 DEF Steps
    <3>2. f[n] = step[n][f[n - 1]]
      BY <1>3 DEF Steps
    <3>3. QED BY <1>2, <3>1, <3>2
  <2>2. QED BY <1>1, <1>3, <2>1 DEF Steps
<1>5. shifted = [n \in 0 .. CapacityBits |-> IF n = 0 THEN 1 ELSE 2 * shifted[n - 1]]
  BY <1>4
<1>6. \A c : MaskBit(c) = shifted[c]
  BY DEF MaskBit
<1> HIDE DEF shifted
<1>7. shifted[0] = 1 /\ \A n \in 1 .. CapacityBits : shifted[n] = 2 * shifted[n - 1]
  <2>1. \A n \in 0 .. CapacityBits : shifted[n] = IF n = 0 THEN 1 ELSE 2 * shifted[n - 1]
    BY <1>5, Zenon
  <2>2. QED BY <1>1, <2>1
<1> DEFINE S == {n \in Nat : n <= CapacityBits => shifted[n] \in Nat}
<1>8. S = Nat
  <2>1. 0 \in S /\ (\A n \in S : n + 1 \in S) /\ S \in SUBSET Nat
    BY <1>1, <1>7
  <2> HIDE DEF S
  <2>2. QED BY <2>1, Induction
<1>9. \A n \in 0 .. CapacityBits : shifted[n] \in Nat
  BY <1>1, <1>8
<1>10. QED BY <1>1, <1>6, <1>7, <1>9 DEF Bits

\* Shifting a word down halves it.
LEMMA Shifts ==
  ASSUME NEW word \in Nat
  PROVE  /\ ShiftRight(word, 0) = word
         /\ \A c \in Bits : ShiftRight(word, c + 1) = ShiftRight(word, c) \div 2
         /\ \A c \in 0 .. CapacityBits : ShiftRight(word, c) \in Nat
<1> DEFINE shifted[n \in 0 .. CapacityBits] == IF n = 0 THEN word ELSE shifted[n - 1] \div 2
           step == [n \in Nat |-> [x \in Nat |-> x \div 2]]
<1>1. CapacityBits \in Nat
  BY MaskAssumption
<1>2. \A n \in Nat, x \in Nat : step[n][x] = x \div 2 /\ step[n][x] \in Nat
  OBVIOUS
<1> HIDE DEF step
<1>3. PICK f : Steps(f, CapacityBits, word, step)
  BY <1>1, <1>2, RecursionExists
<1>4. f = [n \in 0 .. CapacityBits |-> IF n = 0 THEN word ELSE f[n - 1] \div 2]
  <2>1. ASSUME NEW n \in 1 .. CapacityBits PROVE f[n] = f[n - 1] \div 2
    <3>1. n \in Nat /\ f[n - 1] \in Nat
      BY <1>1, <1>3 DEF Steps
    <3>2. f[n] = step[n][f[n - 1]]
      BY <1>3 DEF Steps
    <3>3. QED BY <1>2, <3>1, <3>2
  <2>2. QED BY <1>1, <1>3, <2>1 DEF Steps
<1>5. shifted = [n \in 0 .. CapacityBits |-> IF n = 0 THEN word ELSE shifted[n - 1] \div 2]
  BY <1>4
<1>6. \A c : ShiftRight(word, c) = shifted[c]
  BY DEF ShiftRight
<1> HIDE DEF shifted
<1>7. shifted[0] = word /\ \A n \in 1 .. CapacityBits : shifted[n] = shifted[n - 1] \div 2
  <2>1. \A n \in 0 .. CapacityBits : shifted[n] = IF n = 0 THEN word ELSE shifted[n - 1] \div 2
    BY <1>5, Zenon
  <2>2. QED BY <1>1, <2>1
<1> DEFINE S == {n \in Nat : n <= CapacityBits => shifted[n] \in Nat}
<1>8. S = Nat
  <2>1. 0 \in S /\ (\A n \in S : n + 1 \in S) /\ S \in SUBSET Nat
    BY <1>1, <1>7
  <2> HIDE DEF S
  <2>2. QED BY <2>1, Induction
<1>9. \A n \in 0 .. CapacityBits : shifted[n] \in Nat
  BY <1>1, <1>8
<1>10. QED BY <1>1, <1>6, <1>7, <1>9 DEF Bits

\* The word of a set of bits grows from its highest bit down.
LEMMA WordValue ==
  ASSUME NEW ones
  PROVE  \E v \in [0 .. CapacityBits -> Nat] :
           /\ v[0] = 0
           /\ \A n \in 1 .. CapacityBits :
                v[n] = 2 * v[n - 1] + (IF CapacityBits - n \in ones THEN 1 ELSE 0)
           /\ WordOf(ones) = v[CapacityBits]
<1> DEFINE value[n \in 0 .. CapacityBits] ==
             IF n = 0 THEN 0
             ELSE 2 * value[n - 1] + (IF CapacityBits - n \in ones THEN 1 ELSE 0)
           bit(n) == IF CapacityBits - n \in ones THEN 1 ELSE 0
           step == [n \in Nat |-> [x \in Nat |-> 2 * x + bit(n)]]
<1>1. CapacityBits \in Nat /\ 0 \in Nat
  BY MaskAssumption
<1>2. \A n \in Nat, x \in Nat : step[n][x] = 2 * x + bit(n) /\ step[n][x] \in Nat
  OBVIOUS
<1> HIDE DEF step
<1>3. PICK f : Steps(f, CapacityBits, 0, step)
  <2> HIDE DEF bit
  <2>1. QED BY <1>1, <1>2, RecursionExists
<1>4. f = [n \in 0 .. CapacityBits |-> IF n = 0 THEN 0 ELSE 2 * f[n - 1] + bit(n)]
  <2> HIDE DEF bit
  <2>1. ASSUME NEW n \in 1 .. CapacityBits PROVE f[n] = 2 * f[n - 1] + bit(n)
    <3>1. n \in Nat /\ f[n - 1] \in Nat
      BY <1>1, <1>3 DEF Steps
    <3>2. f[n] = step[n][f[n - 1]]
      BY <1>3 DEF Steps
    <3>3. QED BY <1>2, <3>1, <3>2
  <2>2. QED BY <1>1, <1>3, <2>1 DEF Steps
<1>5. value = [n \in 0 .. CapacityBits |-> IF n = 0 THEN 0 ELSE 2 * value[n - 1] + bit(n)]
  BY <1>4
<1>6. WordOf(ones) = value[CapacityBits]
  BY DEF WordOf
<1> HIDE DEF value
<1>7. value[0] = 0 /\ \A n \in 1 .. CapacityBits : value[n] = 2 * value[n - 1] + bit(n)
  <2>1. \A n \in 0 .. CapacityBits : value[n] = IF n = 0 THEN 0 ELSE 2 * value[n - 1] + bit(n)
    BY <1>5, Zenon
  <2>2. QED BY <1>1, <2>1
<1> DEFINE S == {n \in Nat : n <= CapacityBits => value[n] \in Nat}
<1>8. S = Nat
  <2>1. 0 \in S /\ (\A n \in S : n + 1 \in S) /\ S \in SUBSET Nat
    BY <1>1, <1>7
  <2> HIDE DEF S
  <2>2. QED BY <2>1, Induction
<1>9. value \in [0 .. CapacityBits -> Nat]
  <2>1. \A n \in 0 .. CapacityBits : value[n] \in Nat
    BY <1>1, <1>8
  <2>2. value = [n \in 0 .. CapacityBits |-> value[n]]
    BY <1>5, Zenon
  <2>3. QED BY <2>1, <2>2
<1>10. QED BY <1>6, <1>7, <1>9

\* The bits of the word made of a set of bits are that set.
LEMMA OnesOfWord ==
  ASSUME NEW ones \in SUBSET Bits
  PROVE  Ones(WordOf(ones)) = ones /\ WordOf(ones) \in Nat
<1>1. CapacityBits \in Nat
  BY MaskAssumption
<1>2. PICK v \in [0 .. CapacityBits -> Nat] :
        /\ v[0] = 0
        /\ \A n \in 1 .. CapacityBits :
             v[n] = 2 * v[n - 1] + (IF CapacityBits - n \in ones THEN 1 ELSE 0)
        /\ WordOf(ones) = v[CapacityBits]
  BY WordValue
<1> DEFINE w == WordOf(ones)
<1>3. w \in Nat
  BY <1>1, <1>2
<1> HIDE DEF w
<1> DEFINE S == {c \in Nat : c <= CapacityBits => ShiftRight(w, c) = v[CapacityBits - c]}
<1>4. 0 \in S
  BY <1>1, <1>2, <1>3, Shifts DEF w
<1>5. ASSUME NEW c \in S PROVE c + 1 \in S
  <2> SUFFICES ASSUME c + 1 <= CapacityBits
               PROVE  ShiftRight(w, c + 1) = v[CapacityBits - (c + 1)]
    OBVIOUS
  <2>1. c \in Bits /\ ShiftRight(w, c) = v[CapacityBits - c]
    BY <1>1 DEF Bits
  <2>2. ShiftRight(w, c + 1) = v[CapacityBits - c] \div 2
    BY <1>3, <2>1, Shifts
  <2> DEFINE n == CapacityBits - c
  <2>3. n \in 1 .. CapacityBits /\ n - 1 = CapacityBits - (c + 1)
    BY <1>1, <2>1 DEF Bits
  <2> HIDE DEF n
  <2>4. v[n - 1] \in Nat /\ v[n] \in {2 * v[n - 1], 2 * v[n - 1] + 1}
    <3>1. v[n] = 2 * v[n - 1] + (IF CapacityBits - n \in ones THEN 1 ELSE 0)
      BY <1>2, <2>3
    <3>2. n - 1 \in 0 .. CapacityBits
      BY <1>1, <2>3
    <3>3. v[n - 1] \in Nat
      BY <1>2, <3>2
    <3>4. QED BY <3>1, <3>3
  <2>5. v[n] \div 2 = v[n - 1]
    <3>1. \A x \in Nat : (2 * x) \div 2 = x /\ (2 * x + 1) \div 2 = x
      OBVIOUS
    <3>2. QED BY <2>4, <3>1
  <2>6. QED BY <2>2, <2>3, <2>5 DEF n
<1>6. S = Nat
  <2>1. S \in SUBSET Nat
    OBVIOUS
  <2> HIDE DEF S
  <2>2. QED BY <1>4, <1>5, <2>1, Induction
<1>7. ASSUME NEW c \in Bits PROVE ShiftRight(w, c) % 2 = 1 <=> c \in ones
  <2>1. c \in Nat /\ c < CapacityBits
    BY <1>1, <1>7 DEF Bits
  <2>2. ShiftRight(w, c) = v[CapacityBits - c]
    BY <1>1, <1>6, <2>1
  <2> DEFINE n == CapacityBits - c
  <2>3. n \in 1 .. CapacityBits /\ CapacityBits - n = c
    BY <1>1, <2>1
  <2> HIDE DEF n
  <2>4. v[n - 1] \in Nat /\ v[n] = 2 * v[n - 1] + (IF c \in ones THEN 1 ELSE 0)
    BY <1>1, <1>2, <2>3
  <2>5. v[n] % 2 = 1 <=> c \in ones
    BY <2>4
  <2>6. QED BY <2>2, <2>5 DEF n
<1>8. Ones(w) = ones
  BY <1>7 DEF Ones
<1>9. QED BY <1>3, <1>8 DEF w

\* No bit at or above m: the word is less than 1 << m.
LEMMA WordBound ==
  ASSUME NEW m \in 0 .. CapacityBits, NEW ones \in SUBSET (0 .. m - 1)
  PROVE  WordOf(ones) < MaskBit(m)
<1>1. CapacityBits \in Nat /\ m \in Nat /\ m <= CapacityBits
  BY MaskAssumption
<1>2. PICK v \in [0 .. CapacityBits -> Nat] :
        /\ v[0] = 0
        /\ \A n \in 1 .. CapacityBits :
             v[n] = 2 * v[n - 1] + (IF CapacityBits - n \in ones THEN 1 ELSE 0)
        /\ WordOf(ones) = v[CapacityBits]
  BY WordValue
<1> DEFINE low == CapacityBits - m
           S == {n \in Nat : n <= low => v[n] = 0}
           T == {k \in Nat : k <= m => v[low + k] < MaskBit(k)}
<1>3. low \in Nat /\ low <= CapacityBits /\ low + m = CapacityBits
  BY <1>1
<1> HIDE DEF low
<1>4. S = Nat
  <2>1. 0 \in S
    BY <1>2
  <2>2. ASSUME NEW n \in S PROVE n + 1 \in S
    <3> SUFFICES ASSUME n + 1 <= low PROVE v[n + 1] = 0
      OBVIOUS
    <3>1. n + 1 \in 1 .. CapacityBits /\ v[n] = 0 /\ CapacityBits - (n + 1) \notin ones
      BY <1>1, <1>3
    <3>2. v[n + 1] = 2 * v[(n + 1) - 1]
      BY <1>2, <3>1
    <3>3. QED BY <3>1, <3>2
  <2>3. S \in SUBSET Nat
    OBVIOUS
  <2> HIDE DEF S
  <2>4. QED BY <2>1, <2>2, <2>3, Induction
<1>5. T = Nat
  <2>1. 0 \in T
    BY <1>3, <1>4, MaskBits
  <2>2. ASSUME NEW k \in T PROVE k + 1 \in T
    <3> SUFFICES ASSUME k + 1 <= m PROVE v[low + (k + 1)] < MaskBit(k + 1)
      OBVIOUS
    <3>1. k \in Bits /\ low + (k + 1) \in 1 .. CapacityBits /\ (low + (k + 1)) - 1 = low + k
      BY <1>1, <1>3 DEF Bits
    <3>2. v[low + k] < MaskBit(k) /\ v[low + k] \in Nat /\ MaskBit(k) \in Nat
      BY <1>1, <1>3, <3>1, MaskBits DEF Bits
    <3>3. v[low + (k + 1)] \in {2 * v[low + k], 2 * v[low + k] + 1}
      <4> DEFINE n == low + (k + 1)
      <4>1. n \in 1 .. CapacityBits /\ n - 1 = low + k
        BY <3>1
      <4> HIDE DEF n
      <4>2. v[n] = 2 * v[n - 1] + (IF CapacityBits - n \in ones THEN 1 ELSE 0)
        BY <1>2, <4>1
      <4>3. v[n] \in {2 * v[n - 1], 2 * v[n - 1] + 1}
        BY <3>2, <4>1, <4>2
      <4>4. QED BY <4>1, <4>3 DEF n
    <3>4. MaskBit(k + 1) = 2 * MaskBit(k)
      BY <3>1, MaskBits
    <3>5. QED BY <3>2, <3>3, <3>4
  <2>3. T \in SUBSET Nat
    OBVIOUS
  <2> HIDE DEF T
  <2>4. QED BY <2>1, <2>2, <2>3, Induction
<1>6. v[low + m] < MaskBit(m)
  BY <1>1, <1>5
<1>7. QED BY <1>2, <1>3, <1>6

\* Zero has no bits.
LEMMA OnesOfZero == Ones(0) = {}
<1> DEFINE S == {c \in Nat : c <= CapacityBits => ShiftRight(0, c) = 0}
<1>1. CapacityBits \in Nat
  BY MaskAssumption
<1>2. 0 \in S
  BY Shifts
<1>3. \A c \in S : c + 1 \in S
  BY <1>1, Shifts DEF Bits
<1>4. S = Nat
  <2>1. S \in SUBSET Nat
    OBVIOUS
  <2> HIDE DEF S
  <2>2. QED BY <1>2, <1>3, <2>1, Induction
<1>5. \A c \in Bits : ShiftRight(0, c) = 0
  BY <1>1, <1>4 DEF Bits
<1>6. QED BY <1>5 DEF Ones

\* A word is zero when it has no bits.
LEMMA ZeroWord ==
  ASSUME NEW ones \in SUBSET Bits PROVE WordOf(ones) = 0 <=> ones = {}
<1>1. CASE ones = {}
  <2>1. 0 \in 0 .. CapacityBits /\ ones \in SUBSET (0 .. 0 - 1)
    BY <1>1, MaskAssumption
  <2>2. WordOf(ones) < 1
    BY <2>1, WordBound, MaskBits
  <2>3. WordOf(ones) \in Nat
    BY OnesOfWord
  <2>4. QED BY <1>1, <2>2, <2>3
<1>2. CASE ones # {}
  BY <1>2, OnesOfWord, OnesOfZero
<1>3. QED BY <1>1, <1>2

\* One bit.
LEMMA OnesOfMaskBit ==
  ASSUME NEW c \in Bits PROVE Ones(MaskBit(c)) = {c}
<1> DEFINE w == MaskBit(c)
           S == {k \in Nat : k <= c => ShiftRight(w, k) = MaskBit(c - k)}
           T == {k \in Nat : c + 1 + k <= CapacityBits => ShiftRight(w, c + 1 + k) = 0}
<1>1. CapacityBits \in Nat /\ c \in Nat /\ c < CapacityBits
  BY MaskAssumption DEF Bits
<1>2. w \in Nat /\ MaskBit(0) = 1
  BY <1>1, MaskBits
<1>3. S = Nat
  <2>1. 0 \in S
    BY <1>1, <1>2, Shifts
  <2>2. ASSUME NEW k \in S PROVE k + 1 \in S
    <3> SUFFICES ASSUME k + 1 <= c PROVE ShiftRight(w, k + 1) = MaskBit(c - (k + 1))
      OBVIOUS
    <3>1. k \in Bits /\ c - (k + 1) \in Bits /\ (c - (k + 1)) + 1 = c - k
      BY <1>1 DEF Bits
    <3>2. ShiftRight(w, k + 1) = MaskBit(c - k) \div 2
      <4>1. ShiftRight(w, k) = MaskBit(c - k)
        BY <1>1, <2>2
      <4> HIDE DEF w
      <4>2. ShiftRight(w, k + 1) = ShiftRight(w, k) \div 2
        BY <1>2, <3>1, Shifts
      <4>3. QED BY <4>1, <4>2
    <3>3. MaskBit(c - k) = 2 * MaskBit(c - (k + 1)) /\ MaskBit(c - (k + 1)) \in Nat
      BY <1>1, <3>1, MaskBits DEF Bits
    <3>4. QED BY <3>2, <3>3
  <2>3. S \in SUBSET Nat
    OBVIOUS
  <2> HIDE DEF S
  <2>4. QED BY <2>1, <2>2, <2>3, Induction
<1>4. ShiftRight(w, c) = 1
  BY <1>1, <1>2, <1>3
<1>5. T = Nat
  <2>1. 0 \in T
    BY <1>1, <1>2, <1>4, Shifts
  <2>2. ASSUME NEW k \in T PROVE k + 1 \in T
    <3> SUFFICES ASSUME c + 1 + (k + 1) <= CapacityBits PROVE ShiftRight(w, c + 1 + (k + 1)) = 0
      OBVIOUS
    <3>1. c + 1 + k \in Bits /\ c + 1 + (k + 1) = (c + 1 + k) + 1 /\ ShiftRight(w, c + 1 + k) = 0
      BY <1>1 DEF Bits
    <3>2. ShiftRight(w, (c + 1 + k) + 1) = ShiftRight(w, c + 1 + k) \div 2
      BY <1>2, <3>1, Shifts
    <3>3. QED BY <3>1, <3>2
  <2>3. T \in SUBSET Nat
    OBVIOUS
  <2> HIDE DEF T
  <2>4. QED BY <2>1, <2>2, <2>3, Induction
<1>6. ASSUME NEW k \in Bits PROVE ShiftRight(w, k) % 2 = 1 <=> k = c
  <2>1. CASE k < c
    <3>1. ShiftRight(w, k) = MaskBit(c - k)
      BY <1>3, <2>1 DEF Bits
    <3>2. c - (k + 1) \in Bits /\ (c - (k + 1)) + 1 = c - k
      BY <1>1, <2>1 DEF Bits
    <3>3. MaskBit(c - k) = 2 * MaskBit(c - (k + 1)) /\ MaskBit(c - (k + 1)) \in Nat
      BY <1>1, <3>2, MaskBits DEF Bits
    <3>4. MaskBit(c - k) % 2 # 1
      BY <3>3
    <3>5. k # c
      BY <1>1, <2>1 DEF Bits
    <3>6. QED BY <3>1, <3>4, <3>5
  <2>2. CASE k = c
    BY <1>4, <2>2
  <2>3. CASE k > c
    <3>1. k - (c + 1) \in Nat /\ c + 1 + (k - (c + 1)) = k /\ k <= CapacityBits
      BY <1>1, <2>3 DEF Bits
    <3>2. ShiftRight(w, k) = 0
      BY <1>5, <3>1
    <3>3. 0 % 2 # 1 /\ k # c
      BY <1>1, <2>3 DEF Bits
    <3>4. QED BY <3>2, <3>3
  <2>4. QED BY <1>1, <2>1, <2>2, <2>3 DEF Bits
<1>7. QED BY <1>6 DEF Ones

\* The operators on words are those on sets of bits.
LEMMA WordOperators ==
  ASSUME NEW x, NEW y
  PROVE  /\ Ones(BitOr(x, y)) = Ones(x) \cup Ones(y)
         /\ Ones(BitAnd(x, y)) = Ones(x) \cap Ones(y)
         /\ Ones(Complement(x)) = Bits \ Ones(x)
         /\ BitOr(x, y) \in Nat /\ BitAnd(x, y) \in Nat
         /\ BitAnd(x, y) = 0 <=> Ones(x) \cap Ones(y) = {}
<1>1. Ones(x) \in SUBSET Bits /\ Ones(y) \in SUBSET Bits
  BY DEF Ones
<1>2. /\ Ones(x) \cup Ones(y) \in SUBSET Bits
      /\ Ones(x) \cap Ones(y) \in SUBSET Bits
      /\ Bits \ Ones(x) \in SUBSET Bits
  BY <1>1
<1>3. QED BY <1>2, OnesOfWord, ZeroWord DEF BitOr, BitAnd, Complement

-----------------------------------------------------------------------------
(* Masks.                                                                  *)

\* The channels are bits of the word.
LEMMA ChannelsAreBits ==
  /\ CapacityBits \in Nat /\ MaxChannels \in 0 .. CapacityBits
  /\ DriverMaxChannels \in Nat /\ MaxChannels <= DriverMaxChannels
  /\ Channels \in SUBSET Bits /\ Channels \in SUBSET (0 .. DriverMaxChannels - 1)
  /\ Registered \in SUBSET Channels
BY MaskAssumption DEF Channels, Bits, Registered

\* A word with no bit that is not one of these channels'.
Fits(word, channels) ==
  /\ word \in Words /\ word < MaskBit(MaxChannels)
  /\ Ones(word) \subseteq channels

\* The word of a set of channels.
LEMMA WordOfChannels ==
  ASSUME NEW ones \in SUBSET Channels
  PROVE  Fits(WordOf(ones), ones) /\ Ones(WordOf(ones)) = ones
<1>1. ones \in SUBSET Bits
  BY ChannelsAreBits
<1>2. Ones(WordOf(ones)) = ones /\ WordOf(ones) \in Nat
  BY <1>1, OnesOfWord
<1>3. WordOf(ones) < MaskBit(MaxChannels)
  BY ChannelsAreBits, WordBound DEF Channels
<1>4. WordOf(ones) < MaskBit(CapacityBits)
  <2>1. CapacityBits \in 0 .. CapacityBits /\ ones \in SUBSET (0 .. CapacityBits - 1)
    BY <1>1, ChannelsAreBits DEF Bits
  <2>2. QED BY <2>1, WordBound
<1>5. MaskBit(CapacityBits) \in Nat
  BY MaskBits, ChannelsAreBits
<1>6. QED BY <1>2, <1>3, <1>4, <1>5 DEF Fits, Words

\* The mask of the registered channels has just their bits.
LEMMA RegisteredBits == Ones(RegisteredChannelMask) = Registered
<1> DEFINE bits[n \in 0 .. MaxChannels] ==
             IF n = 0 THEN 0
             ELSE IF records[n - 1] # {} THEN BitOr(bits[n - 1], MaskBit(n - 1)) ELSE bits[n - 1]
           with(n, x) == IF records[n - 1] # {} THEN BitOr(x, MaskBit(n - 1)) ELSE x
           step == [n \in Nat |-> [x \in Nat |-> with(n, x)]]
<1>1. MaxChannels \in Nat /\ 0 \in Nat
  BY ChannelsAreBits
<1>2. \A n \in Nat, x \in Nat : step[n][x] = with(n, x) /\ step[n][x] \in Nat
  <2>1. \A n \in Nat, x \in Nat : with(n, x) \in Nat
    BY WordOperators
  <2> HIDE DEF with
  <2>2. QED BY <2>1
<1> HIDE DEF step
<1>3. PICK f : Steps(f, MaxChannels, 0, step)
  <2> HIDE DEF with
  <2>1. QED BY <1>1, <1>2, RecursionExists
<1>4. f = [n \in 0 .. MaxChannels |-> IF n = 0 THEN 0 ELSE with(n, f[n - 1])]
  <2> HIDE DEF with
  <2>1. ASSUME NEW n \in 1 .. MaxChannels PROVE f[n] = with(n, f[n - 1])
    <3>1. n \in Nat /\ f[n - 1] \in Nat
      BY <1>1, <1>3 DEF Steps
    <3>2. f[n] = step[n][f[n - 1]]
      BY <1>3 DEF Steps
    <3>3. QED BY <1>2, <3>1, <3>2
  <2>2. QED BY <1>1, <1>3, <2>1 DEF Steps
<1>5. bits = [n \in 0 .. MaxChannels |-> IF n = 0 THEN 0 ELSE with(n, bits[n - 1])]
  BY <1>4
<1>6. RegisteredChannelMask = bits[MaxChannels]
  BY DEF RegisteredChannelMask
<1> HIDE DEF bits
<1>7. bits[0] = 0 /\ \A n \in 1 .. MaxChannels : bits[n] = with(n, bits[n - 1])
  <2> HIDE DEF with
  <2>1. \A n \in 0 .. MaxChannels : bits[n] = IF n = 0 THEN 0 ELSE with(n, bits[n - 1])
    BY <1>5, Zenon
  <2>2. QED BY <1>1, <2>1
<1> DEFINE Below(n) == {c \in 0 .. n - 1 : records[c] # {}}
           S == {n \in Nat : n <= MaxChannels => Ones(bits[n]) = Below(n)}
<1>8. S = Nat
  <2>1. 0 \in S
    BY <1>7, OnesOfZero
  <2>2. ASSUME NEW n \in S PROVE n + 1 \in S
    <3> SUFFICES ASSUME n + 1 <= MaxChannels PROVE Ones(bits[n + 1]) = Below(n + 1)
      OBVIOUS
    <3>1. n \in Bits /\ n + 1 \in 1 .. MaxChannels /\ (n + 1) - 1 = n
      BY ChannelsAreBits DEF Bits
    <3>2. Ones(bits[n]) = Below(n)
      BY <1>1, <2>2
    <3>3. bits[n + 1] = IF records[n] # {} THEN BitOr(bits[n], MaskBit(n)) ELSE bits[n]
      BY <1>7, <3>1
    <3>4. Ones(BitOr(bits[n], MaskBit(n))) = Below(n) \cup {n}
      BY <3>1, <3>2, OnesOfMaskBit, WordOperators
    <3>5. Below(n + 1) = IF records[n] # {} THEN Below(n) \cup {n} ELSE Below(n)
      BY <3>1
    <3>6. QED BY <3>2, <3>3, <3>4, <3>5
  <2>3. S \in SUBSET Nat
    OBVIOUS
  <2> HIDE DEF S
  <2>4. QED BY <2>1, <2>2, <2>3, Induction
<1>9. Ones(bits[MaxChannels]) = Below(MaxChannels)
  BY <1>1, <1>8
<1>10. QED BY <1>6, <1>9 DEF Registered, Channels

-----------------------------------------------------------------------------
(* The invariant: no mask has a bit of its own.                            *)

MInv ==
  /\ TypeOK
  /\ \A word \in {dirty, pending, submitted} : Fits(word, Registered)

\* A bit test: word & (1 << c) is not zero.
LEMMA BitTest ==
  ASSUME NEW word, NEW c \in Channels
  PROVE  BitAnd(word, MaskBit(c)) # 0 <=> c \in Ones(word)
<1>1. Ones(MaskBit(c)) = {c}
  BY ChannelsAreBits, OnesOfMaskBit
<1>2. QED BY <1>1, WordOperators

\* The masks of a union and of an intersection.
LEMMA FitsOperators ==
  ASSUME NEW x, NEW y, NEW channels \in SUBSET Channels, Ones(x) \subseteq channels
  PROVE  /\ Ones(y) \subseteq channels => Fits(BitOr(x, y), channels)
         /\ Fits(BitAnd(x, y), channels)
<1>1. ASSUME NEW ones \in SUBSET channels PROVE Fits(WordOf(ones), channels)
  BY WordOfChannels DEF Fits
<1>2. Ones(x) \cap Ones(y) \in SUBSET channels
  OBVIOUS
<1>3. QED BY <1>1, <1>2 DEF BitOr, BitAnd

\* Zero is the empty mask.
LEMMA ZeroFits == Fits(0, Registered)
<1>1. {} \in SUBSET Bits /\ {} \in SUBSET Channels
  OBVIOUS
<1>2. WordOf({}) = 0
  BY <1>1, ZeroWord
<1>3. QED BY <1>1, <1>2, WordOfChannels DEF Fits

LEMMA MInvInit == Init => MInv
<1> SUFFICES ASSUME Init PROVE MInv
  OBVIOUS
<1>1. TypeOK
  <2>1. records \in [0 .. DriverMaxChannels - 1 -> {{}} \cup {{p} : p \in 0 .. PhaseModulus - 1}]
    <3>1. {{}, {0}} \subseteq {{}} \cup {{p} : p \in 0 .. PhaseModulus - 1}
      BY MaskAssumption
    <3>2. QED BY <3>1 DEF Init
  <2>2. waiting \in [Channels -> 0 .. PhaseModulus]
    BY MaskAssumption DEF Init, NoFrame
  <2>3. 0 \in Words
    BY ZeroFits DEF Fits
  <2>4. QED BY <2>1, <2>2, <2>3 DEF Init, TypeOK
<1>2. QED BY <1>1, ZeroFits DEF Init, MInv

\* The phase record of a registered channel.
LEMMA PhaseOf ==
  ASSUME TypeOK, NEW c \in Channels
  PROVE  \/ records[c] = {}
         \/ \E p \in 0 .. PhaseModulus - 1 : records[c] = {p}
<1>1. c \in 0 .. DriverMaxChannels - 1
  BY ChannelsAreBits
<1>2. records[c] \in {{}} \cup {{p} : p \in 0 .. PhaseModulus - 1}
  BY <1>1 DEF TypeOK
<1>3. QED BY <1>2

\* A launch advances the phases of its batch and registers nobody.
LEMMA AdvancedPhases ==
  ASSUME TypeOK, NEW batch
  PROVE  /\ Advanced(batch) \in
              [0 .. DriverMaxChannels - 1 -> {{}} \cup {{p} : p \in 0 .. PhaseModulus - 1}]
         /\ \A c \in Channels :
              Advanced(batch)[c] = IF c \in Ones(batch)
                                   THEN {(p + 1) % PhaseModulus : p \in records[c]}
                                   ELSE records[c]
<1> DEFINE Records == {{}} \cup {{p} : p \in 0 .. PhaseModulus - 1}
           next(i) == {(p + 1) % PhaseModulus : p \in records[i]}
<1>1. records \in [0 .. DriverMaxChannels - 1 -> Records]
  BY DEF TypeOK
<1>2. ASSUME NEW i \in 0 .. DriverMaxChannels - 1 PROVE next(i) \in Records
  <2>1. records[i] \in Records
    BY <1>1
  <2>2. CASE records[i] = {}
    BY <2>2
  <2>3. ASSUME NEW p \in 0 .. PhaseModulus - 1, records[i] = {p} PROVE next(i) \in Records
    <3>1. next(i) = {(p + 1) % PhaseModulus}
      BY <2>3
    <3>2. (p + 1) % PhaseModulus \in 0 .. PhaseModulus - 1
      BY MaskAssumption
    <3>3. QED BY <3>1, <3>2
  <2>4. QED BY <2>1, <2>2, <2>3
<1>3. Advanced(batch) = [i \in 0 .. DriverMaxChannels - 1 |->
                           IF i < MaxChannels /\ BitAnd(batch, MaskBit(i)) # 0
                           THEN next(i) ELSE records[i]]
  BY <1>1 DEF Advanced
<1> HIDE DEF Records, next
<1>4. Advanced(batch) \in [0 .. DriverMaxChannels - 1 -> Records]
  BY <1>1, <1>2, <1>3
<1>5. ASSUME NEW c \in Channels
      PROVE  Advanced(batch)[c] = IF c \in Ones(batch) THEN next(c) ELSE records[c]
  <2>1. c \in 0 .. DriverMaxChannels - 1 /\ c < MaxChannels
    BY ChannelsAreBits DEF Channels
  <2>2. QED BY <1>3, <2>1, BitTest
<1>6. QED BY <1>4, <1>5 DEF Records, next

\* What a launch takes is all of pending, and what it leaves of it nothing.
LEMMA LaunchedBatch ==
  ASSUME MInv
  PROVE  LET batch == BitAnd(pending, RegisteredChannelMask)
         IN  /\ Ones(batch) = Ones(pending)
             /\ Ones(BitAnd(pending, Complement(batch))) = {}
             /\ batch # 0 <=> Ones(pending) # {}
<1> DEFINE batch == BitAnd(pending, RegisteredChannelMask)
<1>1. Ones(pending) \subseteq Registered
  BY DEF MInv, Fits
<1>2. Ones(batch) = Ones(pending)
  <2>1. Ones(batch) = Ones(pending) \cap Ones(RegisteredChannelMask)
    BY WordOperators
  <2>2. QED BY <1>1, <2>1, RegisteredBits
<1>3. batch # 0 <=> Ones(pending) # {}
  <2>1. batch = 0 <=> Ones(pending) \cap Ones(RegisteredChannelMask) = {}
    BY WordOperators
  <2>2. Ones(pending) \cap Ones(RegisteredChannelMask) = Ones(pending)
    BY <1>1, RegisteredBits
  <2>3. QED BY <2>1, <2>2
<1> HIDE DEF batch
<1>4. Ones(BitAnd(pending, Complement(batch))) = {}
  <2>1. Ones(Complement(batch)) = Bits \ Ones(batch)
    BY WordOperators
  <2>2. QED BY <1>2, <2>1, WordOperators
<1>5. QED BY <1>2, <1>3, <1>4 DEF batch

LEMMA MInvNext == MInv /\ [Next]_vars => MInv'
<1> SUFFICES ASSUME MInv, [Next]_vars PROVE MInv'
  OBVIOUS
<1>1. TypeOK /\ Fits(dirty, Registered) /\ Fits(pending, Registered) /\ Fits(submitted, Registered)
  BY DEF MInv
<1>2. Registered \in SUBSET Channels
  BY ChannelsAreBits
<1>3. ASSUME NEW c \in Channels, MarkPublished(c) PROVE MInv'
  <2>1. PICK p \in records[c] : waiting' = [waiting EXCEPT ![c] = p]
    BY <1>3 DEF MarkPublished
  <2>2. p \in 0 .. PhaseModulus /\ c \in Registered
    BY <1>1, <2>1, PhaseOf, MaskAssumption DEF Registered
  <2>3. waiting' \in [Channels -> 0 .. PhaseModulus]
    BY <1>1, <2>1, <2>2 DEF TypeOK
  <2>4. Ones(MaskBit(c)) \subseteq Registered
    BY <2>2, ChannelsAreBits, OnesOfMaskBit
  <2>5. Fits(dirty', Registered)
    BY <1>1, <1>2, <1>3, <2>4, FitsOperators DEF MarkPublished, Marked, Fits
  <2>6. Registered' = Registered
    BY <1>3 DEF MarkPublished, Registered
  <2>7. TypeOK'
    BY <1>1, <1>3, <2>3, <2>5 DEF TypeOK, MarkPublished, Fits
  <2>8. QED BY <1>1, <1>3, <2>5, <2>6, <2>7 DEF MInv, MarkPublished
<1>4. CASE SubmitDirty
  <2>1. Fits(pending', Registered) /\ Fits(dirty', Registered)
    BY <1>1, <1>2, <1>4, FitsOperators, ZeroFits DEF SubmitDirty, Fits
  <2>2. Registered' = Registered
    BY <1>4 DEF SubmitDirty, Registered
  <2>3. TypeOK'
    BY <1>1, <1>4, <2>1 DEF TypeOK, SubmitDirty, Fits
  <2>4. QED BY <1>1, <1>4, <2>1, <2>2, <2>3 DEF MInv, SubmitDirty
<1>5. CASE StartPendingSubmit
  <2> DEFINE batch == BitAnd(pending, RegisteredChannelMask)
  <2>1. /\ batch # 0 /\ inFlight' = TRUE /\ submitted' = batch
        /\ pending' = BitAnd(pending, Complement(batch))
        /\ records' = Advanced(batch)
        /\ waiting' = [c \in Channels |-> IF BitAnd(batch, MaskBit(c)) # 0 THEN NoFrame ELSE waiting[c]]
        /\ dirty' = dirty
    BY <1>5 DEF StartPendingSubmit
  <2>2. Fits(submitted', Registered) /\ Fits(pending', Registered)
    BY <1>1, <1>2, <2>1, FitsOperators DEF Fits
  <2> HIDE DEF batch
  <2>3. Registered' = Registered
    <3>1. ASSUME NEW c \in Channels PROVE records'[c] = {} <=> records[c] = {}
      <4>1. records'[c] = IF c \in Ones(batch) THEN {(p + 1) % PhaseModulus : p \in records[c]}
                          ELSE records[c]
        BY <1>1, <2>1, AdvancedPhases
      <4>2. {(p + 1) % PhaseModulus : p \in records[c]} = {} <=> records[c] = {}
        OBVIOUS
      <4>3. QED BY <4>1, <4>2
    <3>2. QED BY <3>1 DEF Registered
  <2>4. waiting' \in [Channels -> 0 .. PhaseModulus]
    BY <1>1, <2>1, MaskAssumption DEF TypeOK, NoFrame
  <2>5. TypeOK'
    BY <1>1, <2>1, <2>2, <2>4, AdvancedPhases DEF TypeOK, Fits
  <2>6. QED BY <1>1, <2>1, <2>2, <2>3, <2>5 DEF MInv
<1>6. CASE CompleteInFlight
  <2>1. Fits(submitted', Registered)
    BY <1>6, ZeroFits DEF CompleteInFlight
  <2>2. Registered' = Registered
    BY <1>6 DEF CompleteInFlight, Registered
  <2>3. TypeOK'
    BY <1>1, <1>6, <2>1 DEF TypeOK, CompleteInFlight, Fits
  <2>4. QED BY <1>1, <1>6, <2>1, <2>2, <2>3 DEF MInv, CompleteInFlight
<1>7. CASE UNCHANGED vars
  <2>1. Registered' = Registered
    BY <1>7 DEF vars, Registered
  <2>2. TypeOK'
    BY <1>1, <1>7 DEF vars, TypeOK
  <2>3. QED BY <1>1, <1>7, <2>1, <2>2 DEF vars, MInv
<1>8. QED BY <1>3, <1>4, <1>5, <1>6, <1>7 DEF Next

\* The masks fit the word, whatever its width (TypeOK).
THEOREM MaskTypes == Spec => []TypeOK
<1>1. MInv => TypeOK
  BY DEF MInv
<1>2. QED BY <1>1, MInvInit, MInvNext, PTL DEF Spec

\* No mask ever has the bit of a channel that is not registered, nor one
\* beyond the channels of the instance.
THEOREM NoMaskHasStrayBits == Spec => []NoStrayBits
<1>1. MInv => NoStrayBits
  BY DEF MInv, NoStrayBits, Fits, SetOf
<1>2. QED BY <1>1, MInvInit, MInvNext, PTL DEF Spec

-----------------------------------------------------------------------------
(* The words behave as sets.                                               *)

\* The number of the next frame of a channel.
NumberOf(c) == IF records[c] = {} THEN 0 ELSE CHOOSE p \in records[c] : TRUE

LEMMA NumberIsPhase ==
  ASSUME NEW c, NEW p, records[c] = {p} PROVE NumberOf(c) = p
BY DEF NumberOf

\* A mask of registered channels read as a set.
LEMMA SetOfFitting ==
  ASSUME NEW word, Fits(word, Registered) PROVE SetOf(word) = Ones(word)
BY ChannelsAreBits DEF Fits, SetOf

LEMMA SetsInit == Init => Transport!Init
<1> SUFFICES ASSUME Init PROVE Transport!Init
  OBVIOUS
<1>1. SetOf(0) = {}
  BY OnesOfZero DEF SetOf
<1>2. ASSUME NEW c \in Channels PROVE NumberOf(c) = 0
  <2>1. c \in 0 .. DriverMaxChannels - 1
    BY ChannelsAreBits
  <2>2. records[c] \in {{}, {0}}
    BY <2>1 DEF Init
  <2>3. QED BY <2>2, NumberIsPhase DEF NumberOf
<1>3. [c \in Channels |-> NumberOf(c)] = [c \in Channels |-> 0]
  BY <1>2
<1>4. QED BY <1>1, <1>3 DEF Init, Transport!Init, NoFrame, Transport!NoFrame, NumberOf

\* Each step is a step of FrameTransport on the sets, or leaves them alone.
LEMMA SetsNext == MInv /\ [Next]_vars => [Transport!Next]_(Transport!vars)
<1> SUFFICES ASSUME MInv, [Next]_vars PROVE [Transport!Next]_(Transport!vars)
  OBVIOUS
<1> DEFINE number == [c \in Channels |-> NumberOf(c)]
<1>1. TypeOK /\ Fits(dirty, Registered) /\ Fits(pending, Registered) /\ Fits(submitted, Registered)
  BY DEF MInv
<1>2. /\ SetOf(dirty) = Ones(dirty) /\ SetOf(pending) = Ones(pending)
      /\ SetOf(submitted) = Ones(submitted)
  BY <1>1, SetOfFitting
<1>3. SetOf(0) = {}
  BY OnesOfZero DEF SetOf
<1>4. ASSUME NEW c \in Channels, MarkPublished(c) PROVE Transport!Publish(c)
  <2>1. PICK p \in records[c] : waiting' = [waiting EXCEPT ![c] = p]
    BY <1>4 DEF MarkPublished
  <2>2. records[c] = {p}
    BY <1>1, <2>1, PhaseOf
  <2>3. waiting' = [waiting EXCEPT ![c] = number[c]]
    BY <2>1, <2>2, NumberIsPhase
  <2>4. SetOf(dirty') = SetOf(dirty) \cup {c}
    BY <1>4, ChannelsAreBits, OnesOfMaskBit, WordOperators DEF MarkPublished, Marked, SetOf
  <2>5. UNCHANGED <<records, pending, inFlight, submitted>>
    BY <1>4 DEF MarkPublished
  <2>6. QED BY <2>3, <2>4, <2>5 DEF Transport!Publish, NumberOf
<1>5. CASE SubmitDirty
  <2>1. SetOf(pending') = SetOf(pending) \cup SetOf(dirty)
    BY <1>5, WordOperators DEF SubmitDirty, SetOf
  <2>2. SetOf(dirty') = {} /\ UNCHANGED <<records, inFlight, submitted, waiting>>
    BY <1>3, <1>5 DEF SubmitDirty
  <2>3. QED BY <2>1, <2>2 DEF Transport!Next, Transport!Commit
<1>6. CASE StartPendingSubmit
  <2> DEFINE batch == BitAnd(pending, RegisteredChannelMask)
  <2>1. /\ ~ inFlight /\ batch # 0 /\ submitted' = batch
        /\ pending' = BitAnd(pending, Complement(batch))
        /\ records' = Advanced(batch)
        /\ waiting' = [c \in Channels |-> IF BitAnd(batch, MaskBit(c)) # 0 THEN NoFrame ELSE waiting[c]]
        /\ dirty' = dirty
    BY <1>6 DEF StartPendingSubmit
  <2>2. Ones(batch) = SetOf(pending) /\ SetOf(pending) # {} /\ SetOf(pending') = {}
    BY <1>2, <2>1, LaunchedBatch DEF SetOf
  <2>3. inFlight' = TRUE /\ Len(<<>>) < 1 /\ Append(<<>>, SetOf(pending)) = <<SetOf(pending)>>
    BY <1>6 DEF StartPendingSubmit
  <2>4. SetOf(submitted') = SetOf(pending)
    BY <2>1, <2>2 DEF SetOf
  <2> HIDE DEF batch
  <2>5. waiting' = [c \in Channels |-> IF c \in SetOf(pending) THEN NoFrame ELSE waiting[c]]
    BY <2>1, <2>2, BitTest
  <2>6. ASSUME NEW c \in Channels
        PROVE  NumberOf(c)' = IF c \in SetOf(pending)
                              THEN (NumberOf(c) + 1) % PhaseModulus ELSE NumberOf(c)
    <3>1. records'[c] = IF c \in SetOf(pending)
                        THEN {(p + 1) % PhaseModulus : p \in records[c]} ELSE records[c]
      BY <1>1, <2>1, <2>2, AdvancedPhases
    <3>2. CASE c \in SetOf(pending)
      <4>1. records[c] # {}
        BY <1>1, <1>2, <3>2 DEF Fits, Registered
      <4>2. PICK p : records[c] = {p}
        BY <1>1, <4>1, PhaseOf
      <4>3. records'[c] = {(p + 1) % PhaseModulus}
        BY <3>1, <3>2, <4>2
      <4>4. NumberOf(c) = p
        BY <4>2, NumberIsPhase
      <4>5. NumberOf(c)' = (p + 1) % PhaseModulus
        BY <4>3 DEF NumberOf
      <4>6. QED BY <3>2, <4>4, <4>5
    <3>3. CASE c \notin SetOf(pending)
      BY <3>1, <3>3 DEF NumberOf
    <3>4. QED BY <3>2, <3>3
  <2>7. number' = [c \in Channels |-> IF c \in SetOf(pending)
                                      THEN (number[c] + 1) % PhaseModulus ELSE number[c]]
    BY <2>6
  <2>8. Transport!Launch
    BY <2>1, <2>2, <2>3, <2>4, <2>5, <2>7
    DEF Transport!Launch, Transport!NoFrame, NoFrame, NumberOf
  <2>9. QED BY <2>8 DEF Transport!Next
<1>7. CASE CompleteInFlight
  <2>1. inFlight /\ ~ inFlight' /\ UNCHANGED <<records, dirty, pending, waiting>>
    BY <1>7 DEF CompleteInFlight
  <2>2. Tail(<<SetOf(submitted)>>) = <<>> /\ <<SetOf(submitted)>> # <<>>
    OBVIOUS
  <2>3. QED BY <2>1, <2>2 DEF Transport!Next, Transport!Finish
<1>8. CASE UNCHANGED vars
  BY <1>8 DEF vars, Transport!vars
<1>9. QED BY <1>4, <1>5, <1>6, <1>7, <1>8 DEF Next, Transport!Next

\* Read as sets the words implement FrameTransport: marking a channel twice
\* touches no other bit, a launch takes all of pending, and the phases of just
\* its channels advance.
THEOREM WordsImplementSets == Spec => WordsAreSets
BY SetsInit, SetsNext, MInvInit, MInvNext, PTL DEF Spec, WordsAreSets, Transport!Spec

===============================================================================
