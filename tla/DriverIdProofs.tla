---------------------------- MODULE DriverIdProofs ----------------------------
(***************************************************************************)
(* The id allocator hands out distinct non-zero ids, for every number of   *)
(* callers, every counter width and however many ids are issued.           *)
(*                                                                         *)
(* The invariant follows the counter around the cycle of non-zero ids:     *)
(* d allocations later the id is d further on, less one turn of the cycle  *)
(* when it wrapped.                                                        *)
(***************************************************************************)
EXTENDS DriverIds, TLAPS

USE IdAssumption

Follows(a, b, d) == b = a + d \/ b = a + d - (IdModulus - 1)

IdInv ==
  /\ TypeOK
  /\ nextId # 0
  /\ \A i \in 1 .. Len(issued) : issued[i] # 0
  /\ \A i, j \in 1 .. Len(issued) :
       i < j /\ j < i + (IdModulus - 1) => Follows(issued[i], issued[j], j - i)
  /\ \A i \in 1 .. Len(issued) :
       Len(issued) < i + (IdModulus - 1) =>
         Follows(issued[i], nextId, Len(issued) + 1 - i)

\* One more turn of the counter is one step further on the cycle.
LEMMA SuccessorFollows ==
  ASSUME NEW a \in Ids \ {0}, NEW b \in Ids \ {0}, NEW d \in Nat,
         d >= 1, d < IdModulus - 1, Follows(a, b, d)
  PROVE  Follows(a, Successor(b), d + 1)
BY DEF Follows, Successor, Ids

\* A counter that is not zero stays so.
LEMMA SuccessorType ==
  ASSUME NEW a \in Ids \ {0}
  PROVE  Successor(a) \in Ids \ {0}
BY DEF Successor, Ids

\* From an id to the next one.
LEMMA SuccessorOne ==
  ASSUME NEW a \in Ids \ {0}
  PROVE  Follows(a, Successor(a), 1)
BY DEF Follows, Successor, Ids

\* The allocator starts at 1 with nothing issued.
LEMMA IdInit == Init => IdInv
BY DEF Init, IdInv, TypeOK, Ids, Idle

\* Only a successful exchange moves the counter, from the value it compared.
LEMMA IdNext == IdInv /\ [Next]_vars => IdInv'
<1> SUFFICES ASSUME IdInv, [Next]_vars PROVE IdInv'
  OBVIOUS
<1>1. ASSUME NEW t \in Callers, Load(t) \/ Retry(t) PROVE IdInv'
  <2>1. UNCHANGED <<nextId, issued>>
    BY <1>1 DEF Load, Retry
  <2>2. TypeOK'
    BY <1>1, <2>1 DEF IdInv, TypeOK, Load, Retry
  <2>3. QED BY <2>1, <2>2 DEF IdInv
<1>2. ASSUME NEW t \in Callers, Exchange(t) PROVE IdInv'
  <2> DEFINE n == Len(issued)
  <2>1. issued \in Seq(Ids) /\ n \in Nat /\ nextId \in Ids \ {0}
    BY DEF IdInv, TypeOK
  <2>2. nextId' = Successor(nextId) /\ issued' = Append(issued, nextId)
    BY <1>2, <2>1 DEF Exchange, Raw
  <2>3. /\ Len(issued') = n + 1
        /\ \A i \in 1 .. n : issued'[i] = issued[i]
        /\ issued'[n + 1] = nextId
    BY <2>1, <2>2
  <2>4. nextId' \in Ids \ {0}
    BY <2>1, <2>2, SuccessorType
  <2>5. TypeOK'
    BY <1>2, <2>1, <2>2, <2>4 DEF IdInv, TypeOK, Exchange
  <2>6. \A i \in 1 .. Len(issued') : issued'[i] # 0
    BY <2>1, <2>3 DEF IdInv
  <2>7. ASSUME NEW i \in 1 .. Len(issued'), NEW j \in 1 .. Len(issued'),
               i < j, j < i + (IdModulus - 1)
        PROVE  Follows(issued'[i], issued'[j], j - i)
    <3>1. CASE j <= n
      BY <2>1, <2>3, <2>7, <3>1 DEF IdInv
    <3>2. CASE j = n + 1
      BY <2>1, <2>3, <2>7, <3>2 DEF IdInv
    <3>3. QED BY <2>1, <2>3, <3>1, <3>2
  <2>8. ASSUME NEW i \in 1 .. Len(issued'), Len(issued') < i + (IdModulus - 1)
        PROVE  Follows(issued'[i], nextId', Len(issued') + 1 - i)
    <3>1. CASE i = n + 1
      BY <2>1, <2>2, <2>3, <3>1, SuccessorOne
    <3>2. CASE i <= n
      <4>1. issued[i] \in Ids \ {0} /\ issued'[i] = issued[i]
        BY <2>1, <2>3, <3>2 DEF IdInv
      <4>2. Follows(issued[i], nextId, n + 1 - i)
        BY <2>1, <2>3, <2>8, <3>2 DEF IdInv
      <4>3. n + 1 - i \in Nat /\ n + 1 - i >= 1 /\ n + 1 - i < IdModulus - 1
        BY <2>1, <2>3, <2>8, <3>2
      <4>4. Follows(issued[i], Successor(nextId), (n + 1 - i) + 1)
        BY <2>1, <4>1, <4>2, <4>3, SuccessorFollows
      <4>5. QED BY <2>1, <2>2, <2>3, <4>1, <4>4
    <3>3. QED BY <2>1, <2>3, <3>1, <3>2
  <2>9. QED BY <2>4, <2>5, <2>6, <2>7, <2>8 DEF IdInv
<1>3. CASE UNCHANGED vars
  BY <1>3 DEF vars, IdInv, TypeOK
<1>4. QED BY <1>1, <1>2, <1>3 DEF Next

\* Ids are distinct and non-zero within every turn of the counter.
THEOREM IdsDistinct == Spec => []DistinctInWindow
<1>1. IdInv => DistinctInWindow
  <2> SUFFICES ASSUME IdInv, NEW i \in 1 .. Len(issued), NEW j \in 1 .. Len(issued),
                      i <= j, j < i + (IdModulus - 1)
               PROVE  issued[i] # 0 /\ (i # j => issued[i] # issued[j])
    BY DEF DistinctInWindow
  <2>1. issued[i] # 0 /\ issued[i] \in Ids /\ issued[j] \in Ids
    BY DEF IdInv, TypeOK
  <2>2. CASE i # j
    <3>1. Follows(issued[i], issued[j], j - i)
      BY <2>2 DEF IdInv
    <3>2. QED BY <2>1, <2>2, <3>1 DEF Follows, Ids
  <2>3. QED BY <2>1, <2>2
<1>2. QED BY <1>1, IdInit, IdNext, PTL DEF Spec

\* The counter and every loaded value stay ids, and only ids are issued.
THEOREM IdTypes == Spec => []TypeOK
<1>1. IdInv => TypeOK
  BY DEF IdInv
<1>2. QED BY <1>1, IdInit, IdNext, PTL DEF Spec

===============================================================================
