---------------------------- MODULE BoundedFifo ----------------------------
(***************************************************************************)
(* What struct ring_buffer promises its users, with no pointers: a queue   *)
(* of bytes that never exceeds its capacity, keeps their order and returns *)
(* each of them once.  cap = 0 stands for a ring without storage.  io is   *)
(* the call that returned last, with what it returned.                     *)
(***************************************************************************)
EXTENDS Integers, Sequences

CONSTANTS Bytes,     \* the values a byte can take
          Zero,      \* the byte memset() writes
          Chunks,    \* the sequences of bytes a writer may pass
          Counts,    \* the byte counts a reader may ask for
          Drops,     \* the byte counts a reader may skip
          Sizes      \* the capacities a ring may be given

VARIABLES q, cap, io

vars == <<q, cap, io>>

Least(a, b) == IF a <= b THEN a ELSE b

Silence(n) == [i \in 1..n |-> Zero]

Idle == [op |-> "none", n |-> 0, data |-> <<>>]

Init == q = <<>> /\ cap = 0 /\ io = Idle

Alloc(n) == cap = 0 /\ cap' = n /\ q' = <<>> /\ UNCHANGED io

Free == cap' = 0 /\ q' = <<>> /\ UNCHANGED io

Put(data) ==
  LET n == Least(Len(data), cap - Len(q))
  IN  /\ q' = q \o SubSeq(data, 1, n)
      /\ io' = [op |-> "write", n |-> n, data |-> <<>>]
      /\ UNCHANGED cap

Take(k) ==
  LET n == Least(k, Len(q))
  IN  /\ q' = SubSeq(q, n + 1, Len(q))
      /\ io' = [op |-> "read", n |-> n, data |-> SubSeq(q, 1, n)]
      /\ UNCHANGED cap

Drop(k) ==
  LET n == Least(k, Len(q))
  IN  /\ q' = SubSeq(q, n + 1, Len(q))
      /\ io' = [op |-> "seek", n |-> n, data |-> <<>>]
      /\ UNCHANGED cap

Clear == q' = Silence(Len(q)) /\ UNCHANGED <<cap, io>>

Empty == q' = <<>> /\ UNCHANGED <<cap, io>>

\* A smaller ring is empty or full of silence: ring_buffer_reset_size leaves
\* last_is_write alone, so which of the two depends on the call before it.
Shrink(n) ==
  /\ n <= cap
  /\ cap' = n
  /\ q' \in {<<>>, Silence(n)}
  /\ UNCHANGED io

ReadLevel  == /\ io' = [op |-> "rspace", n |-> IF cap = 0 THEN -1 ELSE Len(q), data |-> <<>>]
              /\ UNCHANGED <<q, cap>>
WriteLevel == /\ io' = [op |-> "wspace", n |-> IF cap = 0 THEN -1 ELSE cap - Len(q), data |-> <<>>]
              /\ UNCHANGED <<q, cap>>

Next ==
  \/ \E n \in Sizes : Alloc(n) \/ Shrink(n)
  \/ \E data \in Chunks : Put(data)
  \/ \E k \in Counts : Take(k)
  \/ \E k \in Drops : Drop(k)
  \/ Free \/ Clear \/ Empty \/ ReadLevel \/ WriteLevel

Spec == Init /\ [][Next]_vars
============================================================================
