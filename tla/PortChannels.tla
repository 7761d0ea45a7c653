---------------------------- MODULE PortChannels ----------------------------
(***************************************************************************)
(* What the sub mixer promises its streams.  A stream that plays holds a   *)
(* port of its own, and what it writes reaches the mix through that port   *)
(* in order, once, and in whole chunks; closing drops what still waits.    *)
(***************************************************************************)
EXTENDS Integers, Sequences

CONSTANTS Streams, NInports, Cap, ChunkLen

Ports == 0..(NInports - 1)
Unassigned == -1

VARIABLES held,   \* the port of each stream
          queue,  \* the units on their way from each stream to the mix
          sent    \* the units each stream has written to its port

vars == <<held, queue, sent>>

Init ==
  /\ held = [s \in Streams |-> Unassigned]
  /\ queue = [s \in Streams |-> <<>>]
  /\ sent = [s \in Streams |-> 0]

Acquire(s) ==
  /\ held[s] = Unassigned
  /\ \E i \in Ports \ {held[t] : t \in Streams} : held' = [held EXCEPT ![s] = i]
  /\ UNCHANGED <<queue, sent>>

Put(s) ==
  /\ held[s] # Unassigned
  /\ \E n \in 1..(Cap + ChunkLen - Len(queue[s])) :
       /\ queue' = [queue EXCEPT ![s] = @ \o [k \in 1..n |-> <<s, sent[s] + k>>]]
       /\ sent' = [sent EXCEPT ![s] = @ + n]
  /\ UNCHANGED held

Mix(s) ==
  /\ held[s] # Unassigned
  /\ Len(queue[s]) >= ChunkLen
  /\ queue' = [queue EXCEPT ![s] = SubSeq(@, ChunkLen + 1, Len(@))]
  /\ UNCHANGED <<held, sent>>

Release(s) ==
  /\ held[s] # Unassigned
  /\ held' = [held EXCEPT ![s] = Unassigned]
  /\ queue' = [queue EXCEPT ![s] = <<>>]
  /\ sent' = [sent EXCEPT ![s] = 0]

Next == \E s \in Streams : Acquire(s) \/ Put(s) \/ Mix(s) \/ Release(s)

Spec == Init /\ [][Next]_vars
=============================================================================
