------------------------------- MODULE DriverIds -------------------------------
(***************************************************************************)
(* The driver id allocator (allocate_driver_id in api/driver.rs): a        *)
(* compare-and-swap loop on one static counter, run by any number of       *)
(* callers of Driver::new at once.  compare_exchange_weak may fail         *)
(* although the counter has the expected value.                            *)
(*                                                                         *)
(* The counter is one relaxed atomic: its modification order is the only   *)
(* order that matters, so each access is one step on one variable.         *)
(***************************************************************************)
EXTENDS Naturals, Sequences

CONSTANTS
  Callers,        \* threads that create drivers
  IdModulus,      \* number of values of the counter: 2^32 in the code
  MaxAllocations  \* bound: ids issued in one behaviour

ASSUME IdAssumption ==
  /\ IdModulus \in Nat /\ IdModulus >= 2
  /\ MaxAllocations \in Nat

Ids == 0 .. IdModulus - 1

VARIABLES
  nextId,   \* NEXT_DRIVER_ID
  current,  \* what each caller read last, or "idle" between allocations
  issued    \* history: every id returned so far, oldest first

vars == <<nextId, current, issued>>

Idle == IdModulus   \* the caller is not allocating (any value that is not an id)

Init ==
  /\ nextId = 1
  /\ current = [t \in Callers |-> Idle]
  /\ issued = <<>>

\* DriverId(0) is reserved: a counter at zero hands out 1.
Raw(value) == IF value = 0 THEN 1 ELSE value

\* Mutant: the counter does not wrap.
Successor_NoWrap(raw) == raw + 1

\* raw.checked_add(1).unwrap_or(1)
Successor(raw) == IF raw + 1 = IdModulus THEN 1 ELSE raw + 1

Load(t) ==
  /\ current[t] = Idle
  /\ Len(issued) < MaxAllocations
  /\ current' = [current EXCEPT ![t] = nextId]
  /\ UNCHANGED <<nextId, issued>>

\* Mutant: load and store instead of compare-and-swap.
Exchange_BlindStore(t) ==
  /\ current[t] # Idle
  /\ Len(issued) < MaxAllocations
  /\ nextId' = Successor(Raw(current[t]))
  /\ issued' = Append(issued, Raw(current[t]))
  /\ current' = [current EXCEPT ![t] = Idle]

Exchange(t) ==
  /\ current[t] # Idle
  /\ Len(issued) < MaxAllocations
  /\ nextId = current[t]
  /\ nextId' = Successor(Raw(current[t]))
  /\ issued' = Append(issued, Raw(current[t]))
  /\ current' = [current EXCEPT ![t] = Idle]

\* The exchange fails, spuriously or not, and the caller retries with the value
\* it observed.
Retry(t) ==
  /\ current[t] # Idle
  /\ current' = [current EXCEPT ![t] = nextId]
  /\ UNCHANGED <<nextId, issued>>

Next == \E t \in Callers : Load(t) \/ Exchange(t) \/ Retry(t)

Spec == Init /\ [][Next]_vars

TypeOK ==
  /\ nextId \in Ids
  /\ current \in [Callers -> Ids \cup {Idle}]
  /\ issued \in Seq(Ids)

-----------------------------------------------------------------------------

\* Concurrent callers receive distinct, non-zero ids: any IdModulus - 1
\* allocations in a row are all the non-zero ids, however the callers
\* interleave, and also when one of them sleeps through a whole wrap-around
\* between its load and its exchange.
DistinctInWindow ==
  \A i, j \in 1 .. Len(issued) :
    i <= j /\ j < i + (IdModulus - 1) =>
      issued[i] # 0 /\ (i # j => issued[i] # issued[j])

\* channel.rs: "so handles cannot be replayed across drivers".  That needs ids
\* that never repeat.
NeverReplayed ==
  \A i, j \in 1 .. Len(issued) : i # j => issued[i] # issued[j]

===============================================================================
