--------------------------- MODULE SubMixerProofs ---------------------------
(***************************************************************************)
(* Theorems about SubMixer for any number of streams and ports and every   *)
(* length of ring, chunk and write: nothing freed is used, the tables      *)
(* agree, no data is lost, and the mixer implements PortChannels.          *)
(*                                                                         *)
(* They are about the streams that the audio policy service opens and      *)
(* closes, one at a time (Framework = Streams).  With a stream that it     *)
(* does not order, two inits can take one index: see IndexWasAvailable.    *)
(***************************************************************************)
EXTENDS SubMixer, TLAPS, SequenceTheorems, FiniteSetTheorems

----------------------------------------------------------------------------
(* The invariant. *)

\* The index a stream works on, from the moment its init takes it from the
\* available ones until its close puts it back.
Index(s) == IF pc[s] \in {"registering", "masking"} THEN local[s].index ELSE inputPortID[s]

\* Where a stream has an index, and its port is not in in_ports.
Detached == {"registering", "unmasking", "releasing"}

\* No two streams are being opened or closed.
OneAtATime ==
  \A s, t \in Streams :
    s # t /\ pc[s] \in Opening \cup Closing => pc[t] \notin Opening \cup Closing

\* Where a stream is decides whether it has a port, and its port an index.
Placed(s) ==
  /\ pc[s] \in Opening \cup {"closed"} => inputPortID[s] = Unassigned
  /\ pc[s] \in {"filling"} \cup Closing => inputPortID[s] # Unassigned
  /\ pc[s] \in {"registering", "masking"} => local[s].index \in Ports
  /\ s \in alive <=>
       \/ pc[s] \in Opening \cup {"deleting"}
       \/ pc[s] \in {"open", "writing", "filling"} /\ inputPortID[s] # Unassigned

\* The tables hold the stream's index the way its place says.
Registered(s) ==
  Index(s) # Unassigned =>
    /\ Index(s) \notin inportsAvailMasks
    /\ Index(s) \in inportsMasks <=> pc[s] \notin {"registering", "masking", "releasing"}
    /\ in_ports[Index(s)] = IF pc[s] \in Detached THEN NULL ELSE s
    /\ pc[s] \notin Detached => port[s].ID = Index(s)

\* What a thread read from a table is what the table still holds.
LocalsFresh(s) ==
  /\ pc[s] = "claiming" => /\ local[s].mask = inportsAvailMasks
                           /\ local[s].index = FirstBit(inportsAvailMasks)
  /\ pc[s] \in {"masking", "unmasking"} => local[s].mask = inportsMasks
  /\ pc[s] = "releasing" => local[s].mask = inportsAvailMasks
  /\ pc[s] \in {"filling", "deleting"} => local[s].in_port = s
  /\ pc[s] \in {"writing", "filling"} => written[s] + local[s].todo <= MaxUnits

\* The units of the stream are in the mix, in the chunk and in the ring.
DataKept(s) ==
  s \in alive =>
    /\ Len(port[s].ring) <= Cap
    /\ Len(port[s].data) = IF port[s].data_valid THEN ChunkLen ELSE 0
    /\ mixed[s] \o port[s].data \o port[s].ring = [k \in 1..written[s] |-> Unit(s, k)]
    /\ pc[s] \in Opening =>
         port[s].ring = <<>> /\ ~port[s].data_valid /\ written[s] = 0

Distinct ==
  \A s, t \in Streams : s # t /\ Index(s) # Unassigned => Index(s) # Index(t)

Free(i) == i \in inportsAvailMasks /\ i \notin inportsMasks /\ in_ports[i] = NULL

\* An index that no stream works on is free.
FreeIndices ==
  \A i \in Ports : (\A s \in Streams : Index(s) # i) => Free(i)

LockHeld ==
  /\ lock = Mixer <=> mixer.at \in {"reading", "read", "mixing", "mix"}
  /\ \A s \in Streams : lock = s <=> pc[s] \in {"unmasking", "releasing"}

\* The port that the mixer thread has fetched is in in_ports.
MixerPort ==
  mixer.at \in {"read", "mix"} =>
    /\ mixer.in_port \in Streams
    /\ Index(mixer.in_port) # Unassigned
    /\ pc[mixer.in_port] \notin Detached

DeviceIdle ==
  /\ life.device # "open" => \A s \in Streams : pc[s] = "closed"
  /\ life.device = "closed" => mixer.at = "ended"

MixerInv ==
  /\ TypeOK /\ OneAtATime /\ Distinct /\ FreeIndices
  /\ LockHeld /\ MixerPort /\ DeviceIdle /\ NothingFreedIsUsed
  /\ \A s \in Streams : Placed(s) /\ Registered(s) /\ LocalsFresh(s) /\ DataKept(s)

----------------------------------------------------------------------------
(* What the masks and the table say. *)

\* A mask has a lowest bit, and the lowest bit of an empty one is past the ports.
LEMMA FirstBitLemma ==
  ASSUME NEW m \in SUBSET Ports
  PROVE  /\ FirstBit(m) \in 0..NInports
         /\ m # {} => FirstBit(m) \in m
         /\ m = {} => FirstBit(m) \notin Ports
<1>1. CASE m = {}
  BY <1>1, SubMixerAssumption DEF FirstBit, Ports
<1>2. CASE m # {}
  <2>1. m \subseteq Nat
    BY SubMixerAssumption DEF Ports
  <2>2. PICK i \in m : \A j \in m : <<j, i>> \notin OpToRel(<, Nat)
    BY <1>2, <2>1, NatLessThanWellFounded, WFMin, Zenon
  <2>3. \A j \in m : ~(j < i)
    BY <2>1, <2>2, Zenon DEF OpToRel
  <2>4. \E k \in m : \A j \in m : k <= j
    BY <2>1, <2>3
  <2>5. FirstBit(m) \in m
    BY <1>2, <2>4, Zenon DEF FirstBit
  <2>6. FirstBit(m) \in 0..(NInports - 1)
    BY <2>5 DEF Ports
  <2> QED BY <1>2, <2>5, <2>6, SubMixerAssumption
<1> QED BY <1>1, <1>2

\* An index that a stream works on is an index.
LEMMA IndexLemma ==
  ASSUME MixerInv, NEW s \in Streams
  PROVE  Index(s) \in Ports \cup {Unassigned}
<1>1. inputPortID[s] \in Ports \cup {Unassigned}
  BY DEF MixerInv, TypeOK
<1> QED BY <1>1 DEF MixerInv, Placed, Index

\* A port found in in_ports is that of the stream that works on the index.
LEMMA TableLemma ==
  ASSUME MixerInv, NEW i \in Ports, in_ports[i] # NULL
  PROVE  /\ in_ports[i] \in Streams
         /\ Index(in_ports[i]) = i
         /\ pc[in_ports[i]] \notin Detached
         /\ in_ports[i] \in alive
         /\ port[in_ports[i]].ID = i
<1>1. i # Unassigned
  BY SubMixerAssumption DEF Ports, Unassigned
<1>2. PICK s \in Streams : Index(s) = i
  BY DEF MixerInv, FreeIndices, Free
<1>3. Placed(s) /\ Registered(s)
  BY DEF MixerInv
<1>4. in_ports[i] = s /\ pc[s] \notin Detached /\ port[s].ID = i
  BY <1>1, <1>2, <1>3 DEF Registered
<1>5. pc[s] \in PCs
  BY DEF MixerInv, TypeOK
<1>6. s \in alive
  BY <1>1, <1>2, <1>3, <1>4, <1>5 DEF Placed, Index, PCs, Detached, Opening, Closing
<1> QED BY <1>2, <1>4, <1>6

----------------------------------------------------------------------------
(* The steps of the streams. *)

\* What is common to them: they leave the other streams alone, the mixer
\* thread and the device, and the tables but for the stream's own index.
StreamEffect(s) ==
  /\ UNCHANGED <<mixer, life>>
  /\ \A t \in Streams \ {s} :
       /\ pc'[t] = pc[t] /\ local'[t] = local[t] /\ inputPortID'[t] = inputPortID[t]
       /\ port'[t] = port[t] /\ written'[t] = written[t] /\ mixed'[t] = mixed[t]
       /\ t \in alive' <=> t \in alive
  /\ \A i \in Ports \ {Index(s), Index(s)'} :
       /\ in_ports'[i] = in_ports[i]
       /\ i \in inportsMasks' <=> i \in inportsMasks
       /\ i \in inportsAvailMasks' <=> i \in inportsAvailMasks
  /\ pc[s] \notin Opening \cup Closing =>
       UNCHANGED <<inportsMasks, inportsAvailMasks>>
  /\ pc'[s] \in Opening \cup Closing => pc[s] \in Opening \cup Closing \/ PolicyIdle(s)
  /\ Index(s)' \in {Index(s), Unassigned} \cup inportsAvailMasks
  /\ \A i \in Ports : i = Index(s) /\ i # Index(s)' => Free(i)'
  /\ lock' = IF pc'[s] \in {"unmasking", "releasing"} THEN s
             ELSE IF pc[s] \in {"unmasking", "releasing"} THEN None ELSE lock
  /\ pc'[s] \in {"unmasking", "releasing"} =>
       pc[s] \in {"unmasking", "releasing"} \/ lock = None
  /\ lock = Mixer /\ Index(s) # Unassigned /\ pc[s] \notin Detached =>
       Index(s)' # Unassigned /\ pc'[s] \notin Detached
  /\ pc'[s] # "closed" => pc[s] # "closed" \/ life.device = "open"

\* A step of that kind keeps the invariant if it keeps what the invariant
\* says of the stream itself.
LEMMA StreamEffectInv ==
  ASSUME Framework = Streams, MixerInv, NEW s \in Streams, StreamEffect(s),
         TypeOK', NothingFreedIsUsed',
         Placed(s)', Registered(s)', LocalsFresh(s)', DataKept(s)'
  PROVE  MixerInv'
<1>1. \A t \in Streams \ {s} : Index(t)' = Index(t)
  BY DEF StreamEffect, Index
<1>2. \A t \in Streams : Index(t) \in Ports \cup {Unassigned}
  BY IndexLemma
<1>3. \A t \in Streams : Index(t) # Unassigned => Index(t) \notin inportsAvailMasks
  BY DEF MixerInv, Registered
<1>4. Distinct
  BY DEF MixerInv
<1>5. Distinct'
  <2>1. ASSUME NEW t \in Streams \ {s}, Index(t) # Unassigned
        PROVE  Index(t) # Index(s)'
    BY <1>3, <1>4, <2>1 DEF StreamEffect, Distinct
  <2> QED BY <1>1, <1>4, <2>1 DEF Distinct
<1>6. OneAtATime'
  <2>1. OneAtATime
    BY DEF MixerInv
  <2>2. \A t \in Streams \ {s} : pc'[t] = pc[t]
    BY DEF StreamEffect
  <2>3. pc'[s] \in Opening \cup Closing =>
          \A t \in Streams \ {s} : pc[t] \notin Opening \cup Closing
    BY <2>1 DEF StreamEffect, OneAtATime, PolicyIdle
  <2> QED BY <2>1, <2>2, <2>3 DEF OneAtATime
<1>7. FreeIndices'
  <2> SUFFICES ASSUME NEW i \in Ports, \A t \in Streams : Index(t)' # i
               PROVE  Free(i)'
    BY DEF FreeIndices, Ports
  <2>1. CASE i = Index(s)
    <3>1. Index(s)' # i
      OBVIOUS
    <3> QED BY <2>1, <3>1 DEF StreamEffect
  <2>2. CASE i # Index(s)
    <3>1. \A t \in Streams : Index(t) # i
      BY <1>1, <2>2
    <3>2. Free(i)
      BY <3>1 DEF MixerInv, FreeIndices
    <3> QED BY <2>2, <3>2 DEF StreamEffect, Free
  <2> QED BY <2>1, <2>2
<1>8. LockHeld'
  <2>1. LockHeld /\ None # Mixer /\ None \notin Streams /\ Mixer \notin Streams
    BY SubMixerAssumption DEF MixerInv
  <2>2. UNCHANGED mixer
    BY DEF StreamEffect
  <2>3. \A t \in Streams \ {s} : pc'[t] = pc[t]
    BY DEF StreamEffect
  <2>4. /\ lock' = IF pc'[s] \in {"unmasking", "releasing"} THEN s
                   ELSE IF pc[s] \in {"unmasking", "releasing"} THEN None ELSE lock
        /\ pc'[s] \in {"unmasking", "releasing"} =>
             pc[s] \in {"unmasking", "releasing"} \/ lock = None
    BY DEF StreamEffect
  <2>5. lock' = Mixer <=> lock = Mixer
    BY <2>1, <2>4 DEF LockHeld
  <2>6. ASSUME NEW t \in Streams
        PROVE  lock' = t <=> pc'[t] \in {"unmasking", "releasing"}
    BY <2>1, <2>3, <2>4 DEF LockHeld
  <2> QED BY <2>1, <2>2, <2>5, <2>6 DEF LockHeld
<1>9. MixerPort'
  <2> DEFINE p == mixer.in_port
  <2> SUFFICES ASSUME mixer.at \in {"read", "mix"}
               PROVE  p \in Streams /\ Index(p)' # Unassigned /\ pc'[p] \notin Detached
    BY DEF StreamEffect, MixerPort, Detached
  <2>1. p \in Streams /\ Index(p) # Unassigned /\ pc[p] \notin Detached /\ lock = Mixer
    BY DEF MixerInv, MixerPort, LockHeld
  <2>2. CASE p = s
    BY <2>1, <2>2 DEF StreamEffect
  <2>3. CASE p # s
    BY <1>1, <2>1, <2>3 DEF StreamEffect
  <2> QED BY <2>2, <2>3
<1>10. DeviceIdle'
  <2>1. DeviceIdle
    BY DEF MixerInv
  <2> QED BY <2>1 DEF StreamEffect, DeviceIdle
<1>11. ASSUME NEW t \in Streams \ {s}
       PROVE  Placed(t)' /\ Registered(t)' /\ LocalsFresh(t)' /\ DataKept(t)'
  <2>1. /\ pc'[t] = pc[t] /\ local'[t] = local[t] /\ inputPortID'[t] = inputPortID[t]
        /\ port'[t] = port[t] /\ written'[t] = written[t] /\ mixed'[t] = mixed[t]
        /\ t \in alive' <=> t \in alive
    BY DEF StreamEffect
  <2>2. Placed(t) /\ Registered(t) /\ LocalsFresh(t) /\ DataKept(t)
    BY DEF MixerInv
  <2>3. Placed(t)'
    BY <2>1, <2>2 DEF Placed, Opening, Closing, Ports, Unassigned
  <2>4. Registered(t)'
    <3>1. CASE Index(t) = Unassigned
      BY <1>1, <3>1 DEF Registered
    <3>2. CASE Index(t) # Unassigned
      <4>1. Index(t)' = Index(t) /\ Index(t) \in Ports \ {Index(s), Index(s)'}
        BY <1>1, <1>2, <1>4, <1>5, <3>2 DEF Distinct
      <4>2. /\ in_ports'[Index(t)] = in_ports[Index(t)]
            /\ Index(t) \in inportsMasks' <=> Index(t) \in inportsMasks
            /\ Index(t) \in inportsAvailMasks' <=> Index(t) \in inportsAvailMasks
        BY <4>1 DEF StreamEffect
      <4> QED BY <2>1, <2>2, <3>2, <4>1, <4>2 DEF Registered, Detached
    <3> QED BY <3>1, <3>2
  <2>5. LocalsFresh(t)'
    <3>1. pc[t] \in Opening \cup Closing => UNCHANGED <<inportsMasks, inportsAvailMasks>>
      BY DEF StreamEffect, MixerInv, OneAtATime
    <3> QED BY <2>1, <2>2, <3>1 DEF LocalsFresh, Opening, Closing, FirstBit
  <2>6. DataKept(t)'
    BY <2>1, <2>2 DEF DataKept, Opening, Unit
  <2> QED BY <2>3, <2>4, <2>5, <2>6
<1> QED BY <1>5, <1>6, <1>7, <1>8, <1>9, <1>10, <1>11 DEF MixerInv

\* The local variables of a thread, as TypeOK has them.
Locals == [index : 0..NInports \cup {Unassigned}, mask : SUBSET Ports,
           in_port : Streams \cup {NULL}, todo : 0..MaxUnits]

\* What every step needs to know of the state before it.
LEMMA Before ==
  ASSUME MixerInv, NEW s \in Streams
  PROVE  /\ in_ports \in [Ports -> Streams \cup {NULL}]
         /\ inportsMasks \subseteq Ports /\ inportsAvailMasks \subseteq Ports
         /\ alive \subseteq Streams
         /\ port \in [Streams -> PortRecords]
         /\ inputPortID \in [Streams -> Ports \cup {Unassigned}]
         /\ pc \in [Streams -> PCs]
         /\ local \in [Streams -> Locals]
         /\ written \in [Streams -> 0..MaxUnits]
         /\ mixed \in [Streams -> Seq(Units)]
         /\ Placed(s) /\ Registered(s) /\ LocalsFresh(s) /\ DataKept(s)
         /\ NothingFreedIsUsed /\ LockHeld /\ FreeIndices
         /\ Unassigned \notin Ports
         /\ Ports \subseteq 0..NInports
         /\ NoLocals \in Locals
BY SubMixerAssumption DEF MixerInv, TypeOK, Locals, Ports, Unassigned, NoLocals

\* A thread's local variables change by field.
LEMMA LocalsLemma ==
  ASSUME NEW l \in Locals
  PROVE  /\ \A i \in 0..NInports \cup {Unassigned} : [l EXCEPT !.index = i] \in Locals
         /\ \A m \in SUBSET Ports : [l EXCEPT !.mask = m] \in Locals
         /\ \A p \in Streams \cup {NULL} : [l EXCEPT !.in_port = p] \in Locals
         /\ \A n \in 0..MaxUnits : [l EXCEPT !.todo = n] \in Locals
BY DEF Locals

\* adev_open_output_stream() has read the available indices.
LEMMA OpenStreamInv ==
  ASSUME Framework = Streams, MixerInv, NEW s \in Streams, OpenStream(s)
  PROVE  MixerInv'
<1> USE Before
<1>1. FirstBit(inportsAvailMasks) \in 0..NInports
  BY FirstBitLemma
<1>2. /\ pc'[s] = "claiming"
      /\ local'[s].index = FirstBit(inportsAvailMasks)
      /\ local'[s].mask = inportsAvailMasks
      /\ port'[s] = NewPort /\ written'[s] = 0 /\ mixed'[s] = <<>>
      /\ s \in alive'
  BY DEF OpenStream, Locals
<1>3. TypeOK'
  <2>1. local' \in [Streams -> Locals]
    <3>1. [local[s] EXCEPT !.index = FirstBit(inportsAvailMasks)] \in Locals
      BY <1>1, LocalsLemma
    <3>2. [[local[s] EXCEPT !.index = FirstBit(inportsAvailMasks)]
            EXCEPT !.mask = inportsAvailMasks] \in Locals
      BY <3>1, LocalsLemma
    <3> QED BY <3>2 DEF OpenStream
  <2>2. NewPort \in PortRecords
    BY EmptySeq DEF NewPort, PortRecords
  <2>3. port' \in [Streams -> PortRecords] /\ mixed' \in [Streams -> Seq(Units)]
    BY <2>2, EmptySeq DEF OpenStream
  <2>4. written' \in [Streams -> 0..MaxUnits]
    BY SubMixerAssumption DEF OpenStream
  <2>5. pc' \in [Streams -> PCs] /\ alive' \subseteq Streams
    BY DEF OpenStream, PCs, Opening
  <2> QED BY <2>1, <2>3, <2>4, <2>5 DEF MixerInv, TypeOK, Locals, OpenStream, slots
<1>4. Index(s) = Unassigned /\ Index(s)' = Unassigned
  BY <1>2 DEF OpenStream, Index, Placed
<1>5. StreamEffect(s)
  BY <1>2, <1>4 DEF OpenStream, StreamEffect, slots, Opening, Closing, Detached, Locals
<1>6. Placed(s)' /\ Registered(s)'
  BY <1>2, <1>4 DEF OpenStream, Placed, Registered, Opening, Closing
<1>7. LocalsFresh(s)'
  BY <1>2 DEF OpenStream, LocalsFresh, slots, FirstBit
<1>8. DataKept(s)'
  <2>1. <<>> = [k \in 1..0 |-> Unit(s, k)]
    OBVIOUS
  <2> QED BY <1>2, <2>1, SubMixerAssumption DEF DataKept, NewPort, Opening, Unit
<1> QED BY <1>3, <1>5, <1>6, <1>7, <1>8, StreamEffectInv DEF OpenStream, NothingFreedIsUsed

\* Until the init takes the first of them, nobody else does.
LEMMA ClaimIndexInv ==
  ASSUME Framework = Streams, MixerInv, NEW s \in Streams, ClaimIndex(s)
  PROVE  MixerInv'
<1> USE Before
<1> DEFINE i == local[s].index
<1>1. /\ pc[s] = "claiming" /\ i = FirstBit(inportsAvailMasks)
      /\ inportsAvailMasks' = inportsAvailMasks \ {i}
      /\ Index(s) = Unassigned /\ inputPortID[s] = Unassigned
  BY DEF ClaimIndex, LocalsFresh, Placed, Index, Opening
<1>2. i \in Ports => i \in inportsAvailMasks
  BY <1>1, FirstBitLemma
<1>3. TypeOK'
  <2>1. local' \in [Streams -> Locals]
    BY DEF ClaimIndex
  <2>2. pc' \in [Streams -> PCs] /\ alive' \subseteq Streams /\ inportsAvailMasks' \subseteq Ports
    BY <1>1 DEF ClaimIndex, PCs, Opening
  <2> QED BY <2>1, <2>2 DEF MixerInv, TypeOK, Locals, ClaimIndex, data
<1>4. CASE i \in Ports
  <2>1. /\ pc'[s] = "registering" /\ local' = local /\ alive' = alive
        /\ Index(s)' = i
    BY <1>4 DEF ClaimIndex, Index
  <2>2. Free(i)
    <3>1. ASSUME NEW t \in Streams PROVE Index(t) # i
      BY <1>2, <1>4, <3>1 DEF MixerInv, Registered
    <3> QED BY <1>4, <3>1 DEF FreeIndices
  <2>3. StreamEffect(s)
    BY <1>1, <1>2, <1>4, <2>1 DEF ClaimIndex, StreamEffect, Opening, Closing, Detached, data
  <2>4. Placed(s)' /\ Registered(s)'
    BY <1>1, <1>4, <2>1, <2>2 DEF ClaimIndex, Placed, Registered, Opening, Closing, Free, Detached
  <2>5. LocalsFresh(s)' /\ DataKept(s)'
    BY <1>1, <2>1 DEF ClaimIndex, LocalsFresh, DataKept, Opening, data, Unit
  <2> QED
    BY <1>3, <2>3, <2>4, <2>5, StreamEffectInv DEF ClaimIndex, NothingFreedIsUsed
<1>5. CASE i \notin Ports
  <2>1. /\ pc'[s] = "open" /\ local'[s] = NoLocals /\ alive' = alive \ {s}
        /\ Index(s)' = Unassigned /\ inputPortID' = inputPortID
    BY <1>1, <1>5 DEF ClaimIndex, Index
  <2>2. \A t \in Streams \ {s} : pc'[t] = pc[t] /\ local'[t] = local[t]
    BY <1>5 DEF ClaimIndex
  <2>3. StreamEffect(s)
    BY <1>1, <1>5, <2>1, <2>2 DEF ClaimIndex, StreamEffect, Opening, Closing, Detached, data
  <2>4. Placed(s)' /\ Registered(s)'
    BY <1>1, <2>1 DEF Placed, Registered, Opening, Closing
  <2>5. LocalsFresh(s)' /\ DataKept(s)'
    BY <2>1 DEF LocalsFresh, DataKept
  <2> QED
    BY <1>3, <2>3, <2>4, <2>5, StreamEffectInv DEF ClaimIndex, NothingFreedIsUsed
<1> QED BY <1>4, <1>5

\* The port goes into in_ports, where nothing was.
LEMMA RegisterPortInv ==
  ASSUME Framework = Streams, MixerInv, NEW s \in Streams, RegisterPort(s)
  PROVE  MixerInv' /\ in_ports[local[s].index] = NULL
<1> USE Before
<1> DEFINE i == local[s].index
<1>1. pc[s] = "registering" /\ Index(s) = i /\ i \in Ports /\ i # Unassigned
  BY DEF RegisterPort, Index, Placed
<1>2. in_ports[i] = NULL /\ s \in alive /\ i \notin inportsMasks /\ i \notin inportsAvailMasks
  BY <1>1 DEF Registered, Detached, Placed, Opening
<1>3. /\ pc'[s] = "masking" /\ in_ports'[i] = s /\ alive' = alive /\ fault' = fault
      /\ local'[s].index = i /\ local'[s].mask = inportsMasks
      /\ port'[s] = [port[s] EXCEPT !.ID = i]
  <2>1. pc'[s] = "masking" /\ in_ports'[i] = s /\ port'[s] = [port[s] EXCEPT !.ID = i]
    BY <1>1 DEF RegisterPort
  <2>2. alive' = alive /\ fault' = fault
    BY <1>2, SubMixerAssumption DEF RegisterPort
  <2>3. local'[s].index = i /\ local'[s].mask = inportsMasks
    BY DEF RegisterPort, Locals
  <2> QED BY <2>1, <2>2, <2>3
<1>4. /\ port'[s].ID = i /\ port'[s].ring = port[s].ring /\ port'[s].data = port[s].data
      /\ port'[s].data_valid = port[s].data_valid
  BY <1>1, <1>3 DEF PortRecords
<1>5. TypeOK'
  <2>1. local' \in [Streams -> Locals]
    BY LocalsLemma DEF RegisterPort
  <2>2. port' \in [Streams -> PortRecords]
    BY <1>1 DEF RegisterPort, PortRecords
  <2>3. pc' \in [Streams -> PCs] /\ in_ports' \in [Ports -> Streams \cup {NULL}]
    BY <1>1 DEF RegisterPort, PCs, Opening
  <2> QED BY <1>3, <2>1, <2>2, <2>3 DEF MixerInv, TypeOK, Locals, RegisterPort
<1>6. Index(s)' = i
  BY <1>3 DEF Index
<1>7. StreamEffect(s)
  BY <1>1, <1>3, <1>6 DEF RegisterPort, StreamEffect, Opening, Closing, Detached
<1>8. Placed(s)' /\ Registered(s)'
  BY <1>1, <1>2, <1>3, <1>4, <1>6
  DEF RegisterPort, Placed, Registered, Opening, Closing, Detached
<1>9. LocalsFresh(s)' /\ DataKept(s)'
  BY <1>1, <1>2, <1>3, <1>4 DEF RegisterPort, LocalsFresh, DataKept, Opening, Unit
<1>10. NothingFreedIsUsed'
  BY <1>3 DEF NothingFreedIsUsed
<1> QED BY <1>2, <1>5, <1>7, <1>8, <1>9, <1>10, StreamEffectInv

\* The open ends: the index is in inportsMasks as well.
LEMMA SetMaskInv ==
  ASSUME Framework = Streams, MixerInv, NEW s \in Streams, SetMask(s)
  PROVE  MixerInv'
<1> USE Before
<1> DEFINE i == local[s].index
<1>1. pc[s] = "masking" /\ Index(s) = i /\ i \in Ports /\ i # Unassigned
  BY DEF SetMask, Index, Placed
<1>2. in_ports[i] = s /\ s \in alive /\ i \notin inportsAvailMasks /\ port[s].ID = i
  BY <1>1 DEF Registered, Detached, Placed, Opening
<1>3. /\ pc'[s] = "open" /\ local'[s] = NoLocals /\ inputPortID'[s] = i
      /\ inportsMasks' = inportsMasks \cup {i} /\ Index(s)' = i
  BY <1>1 DEF SetMask, LocalsFresh, Index
<1>4. TypeOK'
  <2>1. local' \in [Streams -> Locals]
    BY DEF SetMask
  <2>2. /\ pc' \in [Streams -> PCs] /\ inputPortID' \in [Streams -> Ports \cup {Unassigned}]
        /\ inportsMasks' \subseteq Ports
    BY <1>1, <1>3 DEF SetMask, PCs
  <2> QED BY <2>1, <2>2 DEF MixerInv, TypeOK, Locals, SetMask, data
<1>5. StreamEffect(s)
  BY <1>1, <1>3 DEF SetMask, StreamEffect, Opening, Closing, Detached, data
<1>6. Placed(s)' /\ Registered(s)'
  BY <1>1, <1>2, <1>3 DEF SetMask, Placed, Registered, Opening, Closing, Detached, data
<1>7. LocalsFresh(s)' /\ DataKept(s)'
  BY <1>1, <1>2, <1>3 DEF SetMask, LocalsFresh, DataKept, Opening, Unit, data
<1> QED BY <1>4, <1>5, <1>6, <1>7, StreamEffectInv DEF SetMask, NothingFreedIsUsed

\* A write begins.
LEMMA StartWriteInv ==
  ASSUME Framework = Streams, MixerInv, NEW s \in Streams, StartWrite(s)
  PROVE  MixerInv'
<1> USE Before
<1>1. PICK n \in WriteLens :
        /\ pc[s] = "open" /\ written[s] + n <= MaxUnits
        /\ local' = [local EXCEPT ![s].todo = n]
        /\ pc' = [pc EXCEPT ![s] = "writing"]
        /\ UNCHANGED <<life, slots, alive, data, inputPortID, lock, mixer, fault>>
  BY DEF StartWrite
<1>2. n \in 0..MaxUnits
  BY <1>1, SubMixerAssumption
<1>3. local'[s].todo = n /\ pc'[s] = "writing"
  BY <1>1 DEF Locals
<1>4. TypeOK'
  <2>1. local' \in [Streams -> Locals]
    BY <1>1, <1>2, LocalsLemma
  <2>2. pc' \in [Streams -> PCs]
    BY <1>1 DEF PCs
  <2> QED BY <1>1, <2>1, <2>2 DEF MixerInv, TypeOK, Locals, slots, data
<1>5. Index(s)' = Index(s) /\ Index(s) = inputPortID[s]
  BY <1>1, <1>3 DEF Index
<1>6. StreamEffect(s)
  BY <1>1, <1>3, <1>5 DEF StreamEffect, Opening, Closing, Detached, slots, data
<1>7. Placed(s)' /\ Registered(s)'
  BY <1>1, <1>3, <1>5 DEF Placed, Registered, Opening, Closing, Detached, slots, data
<1>8. LocalsFresh(s)' /\ DataKept(s)'
  BY <1>1, <1>3 DEF LocalsFresh, DataKept, Opening, Unit, slots, data
<1> QED BY <1>1, <1>4, <1>6, <1>7, <1>8, StreamEffectInv DEF NothingFreedIsUsed

\* The write reads its port from in_ports.
LEMMA FetchPortInv ==
  ASSUME Framework = Streams, MixerInv, NEW s \in Streams, FetchPort(s)
  PROVE  MixerInv'
<1> USE Before
<1> DEFINE i == inputPortID[s]
<1>1. pc[s] = "writing" /\ Index(s) = i
  BY DEF FetchPort, Index
<1>2. NothingFreedIsUsed'
  BY DEF FetchPort, NothingFreedIsUsed
<1>3. CASE i \in Ports
  <2>1. in_ports[i] = s /\ s # NULL
    BY <1>1, <1>3, SubMixerAssumption DEF Registered, Detached
  <2>2. /\ local' = [local EXCEPT ![s] = [local[s] EXCEPT !.in_port = s]]
        /\ pc' = [pc EXCEPT ![s] = "filling"]
    BY <1>3, <2>1 DEF FetchPort
  <2>3. local'[s].in_port = s /\ local'[s].todo = local[s].todo /\ pc'[s] = "filling"
    BY <2>2 DEF Locals
  <2>4. TypeOK'
    <3>1. local' \in [Streams -> Locals]
      BY <2>2, LocalsLemma
    <3>2. pc' \in [Streams -> PCs]
      BY <2>2 DEF PCs
    <3>3. fault' = fault
      BY <1>3 DEF FetchPort
    <3> QED BY <3>1, <3>2, <3>3 DEF MixerInv, TypeOK, Locals, slots, data, FetchPort
  <2>5. Index(s)' = i
    BY <2>3 DEF Index, FetchPort
  <2>6. StreamEffect(s)
    BY <1>1, <2>2, <2>3, <2>5
    DEF FetchPort, StreamEffect, Opening, Closing, Detached, slots, data
  <2>7. Placed(s)' /\ Registered(s)'
    BY <1>1, <1>3, <2>3, <2>5
    DEF FetchPort, Placed, Registered, Opening, Closing, Detached, slots, data
  <2>8. LocalsFresh(s)' /\ DataKept(s)'
    BY <1>1, <2>3 DEF FetchPort, LocalsFresh, DataKept, Opening, Unit, slots, data
  <2> QED BY <1>2, <2>4, <2>6, <2>7, <2>8, StreamEffectInv
<1>4. CASE i \notin Ports
  <2>1. local' = [local EXCEPT ![s] = NoLocals] /\ pc' = [pc EXCEPT ![s] = "open"]
    BY <1>4 DEF FetchPort
  <2>2. i = Unassigned /\ Index(s)' = Unassigned /\ pc'[s] = "open"
    BY <1>4, <2>1 DEF FetchPort, Index
  <2>3. TypeOK'
    <3>1. local' \in [Streams -> Locals] /\ pc' \in [Streams -> PCs]
      BY <2>1 DEF PCs
    <3>2. fault' = "index"
      BY <1>4 DEF FetchPort
    <3> QED BY <3>1, <3>2 DEF MixerInv, TypeOK, Locals, slots, data, FetchPort
  <2>4. StreamEffect(s)
    BY <1>1, <2>1, <2>2 DEF FetchPort, StreamEffect, Opening, Closing, Detached, slots, data
  <2>5. Placed(s)' /\ Registered(s)'
    BY <1>1, <2>2 DEF FetchPort, Placed, Registered, Opening, Closing
  <2>6. LocalsFresh(s)' /\ DataKept(s)'
    BY <1>1, <2>2 DEF FetchPort, Placed, LocalsFresh, DataKept, Opening, Closing
  <2> QED BY <1>2, <2>3, <2>4, <2>5, <2>6, StreamEffectInv
<1> QED BY <1>3, <1>4

\* The units after the first w ones continue them.
LEMMA NextUnits ==
  ASSUME NEW s \in Streams, NEW w \in Nat, NEW n \in Nat, w + n <= MaxUnits
  PROVE  /\ [k \in 1..n |-> Unit(s, w + k)] \in Seq(Units)
         /\ Len([k \in 1..n |-> Unit(s, w + k)]) = n
         /\ [k \in 1..w |-> Unit(s, k)] \o [k \in 1..n |-> Unit(s, w + k)]
              = [k \in 1..(w + n) |-> Unit(s, k)]
<1> DEFINE a == [k \in 1..w |-> Unit(s, k)]
           b == [k \in 1..n |-> Unit(s, w + k)]
           c == [k \in 1..(w + n) |-> Unit(s, k)]
<1>1. \A k \in 1..MaxUnits : Unit(s, k) \in Units
  BY DEF Unit, Units
<1>2. a \in Seq(Units) /\ Len(a) = w
  <2>1. \A k \in 1..w : Unit(s, k) \in Units
    BY <1>1, SubMixerAssumption
  <2> QED BY <2>1
<1>3. b \in Seq(Units) /\ Len(b) = n
  <2>1. \A k \in 1..n : Unit(s, w + k) \in Units
    BY <1>1, SubMixerAssumption
  <2> QED BY <2>1
<1>4. c \in Seq(Units) /\ Len(c) = w + n
  <2>1. \A k \in 1..(w + n) : Unit(s, k) \in Units
    BY <1>1, SubMixerAssumption
  <2> QED BY <2>1
<1>5. a \o b \in Seq(Units) /\ Len(a \o b) = w + n
  BY <1>2, <1>3, ConcatProperties
<1>6. \A k \in 1..(w + n) : (a \o b)[k] = c[k]
  BY <1>2, <1>3, ConcatProperties DEF Unit
<1>7. a \o b = c
  BY <1>4, <1>5, <1>6, SeqEqual
<1> QED BY <1>3, <1>7

\* Appending is associative.
LEMMA Associative == \A S : \A x, y, z \in Seq(S) : (x \o y) \o z = x \o (y \o z)
BY ConcatAssociative

\* The same of four sequences.
LEMMA Regroup ==
  \A a, b, c, d \in Seq(Units) : a \o b \o (c \o d) = (a \o b \o c) \o d
<1> TAKE a, b, c, d \in Seq(Units)
<1>1. a \o b \in Seq(Units)
  BY ConcatProperties
<1> QED BY <1>1, Associative

\* A stream whose thread is filling its ring has a port, and some room there or none.
LEMMA FillRingFacts ==
  ASSUME MixerInv, NEW s \in Streams, FillRing(s)
  PROVE  LET n == Least(local[s].todo, Cap - Len(port[s].ring))
             left == local[s].todo - n
             new == [k \in 1..n |-> Unit(s, written[s] + k)]
         IN  /\ pc[s] = "filling" /\ s \in alive /\ inputPortID[s] \in Ports
             /\ n \in 0..MaxUnits /\ left \in 0..MaxUnits /\ n <= Cap - Len(port[s].ring)
             /\ written[s] + n + left <= MaxUnits
             /\ new \in Seq(Units) /\ Len(new) = n
             /\ port' = [port EXCEPT ![s].ring = port[s].ring \o new]
             /\ written' = [written EXCEPT ![s] = written[s] + n]
             /\ fault' = fault
             /\ local' = [local EXCEPT ![s] = [NoLocals EXCEPT !.todo = left]]
             /\ pc' = [pc EXCEPT ![s] = IF left = 0 THEN "open" ELSE "writing"]
<1> USE Before
<1> DEFINE n == Least(local[s].todo, Cap - Len(port[s].ring))
           left == local[s].todo - n
           new == [k \in 1..n |-> Unit(s, written[s] + k)]
<1>1. pc[s] = "filling" /\ inputPortID[s] # Unassigned /\ s \in alive /\ local[s].in_port = s
  BY DEF FillRing, Placed, LocalsFresh
<1>2. written[s] \in Nat /\ local[s].todo \in Nat /\ written[s] + local[s].todo <= MaxUnits
  BY <1>1, SubMixerAssumption DEF LocalsFresh, Locals
<1>3. Len(port[s].ring) \in Nat /\ Len(port[s].ring) <= Cap /\ MaxUnits \in Nat /\ Cap \in Nat
  <2>1. port[s].ring \in Seq(Units)
    BY DEF PortRecords
  <2>2. Len(port[s].ring) <= Cap
    BY <1>1 DEF DataKept
  <2> QED BY <2>1, <2>2, LenProperties, SubMixerAssumption
<1>4. n \in Nat /\ left \in Nat /\ n + left = local[s].todo /\ n <= Cap - Len(port[s].ring)
  BY <1>2, <1>3 DEF Least
<1>5. n \in 0..MaxUnits /\ left \in 0..MaxUnits /\ written[s] + n + left <= MaxUnits
  BY <1>2, <1>3, <1>4
<1> HIDE DEF n, left
<1>6. new \in Seq(Units) /\ Len(new) = n
  <2>1. n \in Nat /\ written[s] + n <= MaxUnits
    BY <1>2, <1>3, <1>4, <1>5
  <2> QED BY <1>2, <2>1, NextUnits
<1> HIDE DEF new
<1>7. /\ port' = [port EXCEPT ![s].ring = port[s].ring \o new]
      /\ written' = [written EXCEPT ![s] = written[s] + n]
      /\ fault' = fault
  BY <1>1 DEF FillRing, n, new
<1>8. /\ local' = [local EXCEPT ![s] = [NoLocals EXCEPT !.todo = left]]
      /\ pc' = [pc EXCEPT ![s] = IF left = 0 THEN "open" ELSE "writing"]
  BY <1>1 DEF FillRing, n, left
<1> QED BY <1>1, <1>4, <1>5, <1>6, <1>7, <1>8 DEF n, left, new

\* The write puts units in the ring.
LEMMA FillRingInv ==
  ASSUME Framework = Streams, MixerInv, NEW s \in Streams, FillRing(s)
  PROVE  MixerInv'
<1> DEFINE ring == port[s].ring
           n == Least(local[s].todo, Cap - Len(ring))
           left == local[s].todo - n
           new == [k \in 1..n |-> Unit(s, written[s] + k)]
<1>1. /\ pc[s] = "filling" /\ s \in alive /\ inputPortID[s] \in Ports
      /\ n \in 0..MaxUnits /\ left \in 0..MaxUnits /\ n <= Cap - Len(ring)
      /\ written[s] + n + left <= MaxUnits
      /\ new \in Seq(Units) /\ Len(new) = n
      /\ fault' = fault
  BY FillRingFacts
<1>2. /\ port' = [port EXCEPT ![s].ring = ring \o new]
      /\ written' = [written EXCEPT ![s] = written[s] + n]
      /\ local' = [local EXCEPT ![s] = [NoLocals EXCEPT !.todo = left]]
      /\ pc' = [pc EXCEPT ![s] = IF left = 0 THEN "open" ELSE "writing"]
  BY FillRingFacts
<1> HIDE DEF n, left
<1>3. [k \in 1..written[s] |-> Unit(s, k)] \o new = [k \in 1..(written[s] + n) |-> Unit(s, k)]
  <2>1. written[s] \in Nat
    BY Before
  <2>2. n \in Nat /\ written[s] + n <= MaxUnits
    BY <1>1, <2>1, SubMixerAssumption
  <2> QED BY <2>1, <2>2, NextUnits
<1> HIDE DEF new
<1>4. ring \in Seq(Units) /\ port[s].data \in Seq(Units) /\ mixed[s] \in Seq(Units)
  BY Before DEF PortRecords
<1>5. /\ port'[s].ring = ring \o new /\ port'[s].data = port[s].data
      /\ port'[s].data_valid = port[s].data_valid /\ port'[s].ID = port[s].ID
      /\ written'[s] = written[s] + n /\ local'[s].todo = left
      /\ pc'[s] \in {"open", "writing"}
  BY Before, <1>2 DEF PortRecords, NoLocals
<1>6. ring \o new \in Seq(Units) /\ Len(ring \o new) = Len(ring) + n
  BY Before, <1>1, <1>4, ConcatProperties
<1>7. TypeOK'
  <2>1. [NoLocals EXCEPT !.todo = left] \in Locals
    BY Before, <1>1, LocalsLemma
  <2>2. local' \in [Streams -> Locals] /\ pc' \in [Streams -> PCs]
    BY Before, <1>2, <2>1 DEF PCs
  <2>3. port' \in [Streams -> PortRecords]
    BY Before, <1>2, <1>6 DEF PortRecords
  <2>4. written' \in [Streams -> 0..MaxUnits]
    <3>1. written[s] + n \in 0..MaxUnits
      BY Before, <1>1, SubMixerAssumption
    <3> QED BY Before, <1>2, <3>1
  <2> QED BY Before, <1>1, <2>2, <2>3, <2>4 DEF MixerInv, TypeOK, Locals, slots, FillRing
<1>8. Index(s)' = Index(s) /\ Index(s) = inputPortID[s]
  BY Before, <1>1, <1>5 DEF Index, FillRing
<1>9. StreamEffect(s)
  BY Before, <1>1, <1>2, <1>5, <1>8
  DEF FillRing, StreamEffect, Opening, Closing, Detached, slots
<1>10. Placed(s)' /\ Registered(s)'
  BY Before, <1>1, <1>5, <1>8
  DEF FillRing, Placed, Registered, Opening, Closing, Detached, slots
<1>11. LocalsFresh(s)'
  BY Before, <1>1, <1>5 DEF LocalsFresh
<1>12. DataKept(s)'
  <2>1. mixed'[s] = mixed[s]
    BY Before DEF FillRing
  <2>2. mixed[s] \o port[s].data \o ring = [k \in 1..written[s] |-> Unit(s, k)]
    BY Before, <1>1 DEF DataKept
  <2>3. mixed[s] \o port[s].data \o (ring \o new) = (mixed[s] \o port[s].data \o ring) \o new
    <3>1. PICK m \in Seq(Units) : m = mixed[s]
      BY <1>4
    <3>2. PICK d \in Seq(Units) : d = port[s].data
      BY <1>4
    <3>3. PICK r \in Seq(Units) : r = ring
      BY <1>4
    <3>4. PICK u \in Seq(Units) : u = new
      BY <1>1
    <3>5. m \o d \o (r \o u) = (m \o d \o r) \o u
      BY Regroup
    <3> QED BY <3>1, <3>2, <3>3, <3>4, <3>5, Zenon
  <2>4. Len(ring) + n <= Cap
    BY Before, <1>1, <1>4, SubMixerAssumption
  <2>5. Len(port[s].data) = IF port[s].data_valid THEN ChunkLen ELSE 0
    BY Before, <1>1 DEF DataKept
  <2>6. mixed'[s] \o port'[s].data \o port'[s].ring = [k \in 1..written'[s] |-> Unit(s, k)]
    BY Before, <1>3, <1>5, <2>1, <2>2, <2>3
  <2>7. Len(port'[s].ring) <= Cap
    BY Before, <1>5, <1>6, <2>4
  <2> QED BY Before, <1>5, <2>5, <2>6, <2>7 DEF DataKept, Opening, Unit
<1> QED BY Before, <1>1, <1>7, <1>9, <1>10, <1>11, <1>12, StreamEffectInv DEF NothingFreedIsUsed

\* A stream that is open has its own port in in_ports, or none.
LEMMA CloseStreamInv ==
  ASSUME Framework = Streams, MixerInv, NEW s \in Streams, CloseStream(s)
  PROVE  MixerInv'
<1> USE Before
<1>1. pc[s] = "open" /\ Index(s) = inputPortID[s]
  BY DEF CloseStream, Index
<1>2. fault' = fault
  BY DEF CloseStream
<1>3. CASE inputPortID[s] = Unassigned
  <2>1. /\ local' = [local EXCEPT ![s].in_port = NULL]
        /\ inputPortID' = [inputPortID EXCEPT ![s] = Unassigned]
        /\ pc' = [pc EXCEPT ![s] = "closed"]
    BY <1>3 DEF CloseStream
  <2>2. inputPortID'[s] = Unassigned /\ pc'[s] = "closed" /\ Index(s)' = Unassigned
    BY <2>1 DEF Index
  <2>3. TypeOK'
    <3>1. local' \in [Streams -> Locals]
      BY <2>1, LocalsLemma
    <3>2. pc' \in [Streams -> PCs] /\ inputPortID' \in [Streams -> Ports \cup {Unassigned}]
      BY <2>1 DEF PCs
    <3> QED BY <3>1, <3>2 DEF MixerInv, TypeOK, Locals, slots, data, CloseStream
  <2>4. StreamEffect(s)
    BY <1>1, <1>3, <2>1, <2>2
    DEF CloseStream, StreamEffect, Opening, Closing, Detached, slots, data
  <2>5. Placed(s)' /\ Registered(s)'
    BY <1>1, <1>3, <2>2 DEF CloseStream, Placed, Registered, Opening, Closing
  <2>6. LocalsFresh(s)' /\ DataKept(s)'
    BY <1>1, <1>3, <2>2 DEF CloseStream, Placed, LocalsFresh, DataKept, Opening, Closing
  <2> QED BY <1>2, <2>3, <2>4, <2>5, <2>6, StreamEffectInv DEF NothingFreedIsUsed
<1>4. CASE inputPortID[s] # Unassigned
  <2>1. in_ports[inputPortID[s]] = s /\ s # NULL
    BY <1>1, <1>4, SubMixerAssumption DEF Registered, Detached
  <2>2. /\ local' = [local EXCEPT ![s].in_port = s]
        /\ inputPortID' = [inputPortID EXCEPT ![s] = inputPortID[s]]
        /\ pc' = [pc EXCEPT ![s] = "deleting"]
    BY <1>4, <2>1 DEF CloseStream
  <2>3. /\ inputPortID'[s] = inputPortID[s] /\ pc'[s] = "deleting" /\ Index(s)' = Index(s)
        /\ local'[s].in_port = s
    BY <1>1, <2>2 DEF Index, Locals
  <2>4. TypeOK'
    <3>1. local' \in [Streams -> Locals]
      BY <2>2, LocalsLemma
    <3>2. pc' \in [Streams -> PCs] /\ inputPortID' \in [Streams -> Ports \cup {Unassigned}]
      BY <2>2 DEF PCs, Closing
    <3> QED BY <3>1, <3>2 DEF MixerInv, TypeOK, Locals, slots, data, CloseStream
  <2>5. StreamEffect(s)
    BY <1>1, <2>2, <2>3
    DEF CloseStream, StreamEffect, Opening, Closing, Detached, slots, data
  <2>6. Placed(s)' /\ Registered(s)'
    BY <1>1, <1>4, <2>3
    DEF CloseStream, Placed, Registered, Opening, Closing, Detached, slots, data
  <2>7. LocalsFresh(s)' /\ DataKept(s)'
    BY <1>1, <1>4, <2>3
    DEF CloseStream, Placed, LocalsFresh, DataKept, Opening, Closing, Unit, slots, data
  <2> QED BY <1>2, <2>4, <2>5, <2>6, <2>7, StreamEffectInv DEF NothingFreedIsUsed
<1> QED BY <1>3, <1>4

\* The close frees the port, under the lock.
LEMMA FreePortInv ==
  ASSUME Framework = Streams, MixerInv, NEW s \in Streams, FreePort(s)
  PROVE  MixerInv' /\ alive' = alive \ {s}
<1> USE Before
<1> DEFINE i == inputPortID[s]
<1>1. pc[s] = "deleting" /\ Index(s) = i /\ i # Unassigned /\ i \in Ports
  BY DEF FreePort, Index, Placed, Closing
<1>2. local[s].in_port = s /\ s \in alive
  BY <1>1 DEF LocalsFresh, Placed
<1>3. /\ i \notin inportsAvailMasks /\ i \in inportsMasks
  BY <1>1 DEF Registered
<1>4. /\ fault' = fault /\ alive' = alive \ {s} /\ lock = None /\ lock' = s
      /\ in_ports' = [in_ports EXCEPT ![i] = NULL]
  BY <1>2 DEF FreePort
<1>5. /\ local' = [local EXCEPT ![s] = [NoLocals EXCEPT !.mask = inportsMasks]]
      /\ pc' = [pc EXCEPT ![s] = "unmasking"]
  BY DEF FreePort
<1>6. local'[s].mask = inportsMasks /\ pc'[s] = "unmasking" /\ Index(s)' = i
  BY <1>5 DEF FreePort, Index, NoLocals
<1>7. TypeOK'
  <2>1. local' \in [Streams -> Locals]
    BY <1>5, LocalsLemma
  <2>2. pc' \in [Streams -> PCs] /\ in_ports' \in [Ports -> Streams \cup {NULL}]
    BY <1>4, <1>5 DEF PCs, Closing
  <2> QED BY <1>4, <2>1, <2>2 DEF MixerInv, TypeOK, Locals, data, FreePort
<1>8. StreamEffect(s)
  <2>1. Mixer # None
    BY SubMixerAssumption
  <2> QED BY <1>1, <1>4, <1>5, <1>6, <2>1
          DEF FreePort, StreamEffect, Opening, Closing, Detached, data
<1>9. Placed(s)' /\ Registered(s)'
  BY <1>1, <1>3, <1>4, <1>6 DEF FreePort, Placed, Registered, Opening, Closing, Detached
<1>10. LocalsFresh(s)' /\ DataKept(s)'
  BY <1>4, <1>6 DEF FreePort, LocalsFresh, DataKept
<1> QED BY <1>4, <1>7, <1>8, <1>9, <1>10, StreamEffectInv DEF NothingFreedIsUsed

\* The close takes the index from inportsMasks.
LEMMA ClearMaskInv ==
  ASSUME Framework = Streams, MixerInv, NEW s \in Streams, ClearMask(s)
  PROVE  MixerInv'
<1> USE Before
<1> DEFINE i == inputPortID[s]
<1>1. pc[s] = "unmasking" /\ Index(s) = i /\ i # Unassigned /\ i \in Ports /\ s \notin alive
  BY DEF ClearMask, Index, Placed, Closing, Opening
<1>2. i \notin inportsAvailMasks /\ in_ports[i] = NULL /\ lock = s
  BY <1>1 DEF Registered, Detached, LockHeld
<1>3. /\ inportsMasks' = inportsMasks \ {i}
      /\ local' = [local EXCEPT ![s].mask = inportsAvailMasks]
      /\ pc' = [pc EXCEPT ![s] = "releasing"]
  BY <1>1 DEF ClearMask, LocalsFresh
<1>4. local'[s].mask = inportsAvailMasks /\ pc'[s] = "releasing" /\ Index(s)' = i
  BY <1>3 DEF ClearMask, Index, Locals
<1>5. TypeOK'
  <2>1. local' \in [Streams -> Locals]
    BY <1>3, LocalsLemma
  <2>2. pc' \in [Streams -> PCs]
    BY <1>3 DEF PCs, Closing
  <2> QED BY <1>3, <2>1, <2>2 DEF MixerInv, TypeOK, Locals, data, ClearMask
<1>6. StreamEffect(s)
  BY <1>1, <1>2, <1>3, <1>4 DEF ClearMask, StreamEffect, Opening, Closing, Detached, data
<1>7. Placed(s)' /\ Registered(s)'
  BY <1>1, <1>2, <1>3, <1>4
  DEF ClearMask, Placed, Registered, Opening, Closing, Detached
<1>8. LocalsFresh(s)' /\ DataKept(s)'
  BY <1>1, <1>4 DEF ClearMask, LocalsFresh, DataKept
<1> QED BY <1>5, <1>6, <1>7, <1>8, StreamEffectInv DEF ClearMask, NothingFreedIsUsed

\* The index is available again.
LEMMA ReleaseIndexInv ==
  ASSUME Framework = Streams, MixerInv, NEW s \in Streams, ReleaseIndex(s)
  PROVE  MixerInv'
<1> USE Before
<1> DEFINE i == inputPortID[s]
<1>1. pc[s] = "releasing" /\ Index(s) = i /\ i # Unassigned /\ i \in Ports /\ s \notin alive
  BY DEF ReleaseIndex, Index, Placed, Closing, Opening
<1>2. i \notin inportsMasks /\ in_ports[i] = NULL /\ lock = s /\ lock # Mixer
  BY <1>1, SubMixerAssumption DEF Registered, Detached, LockHeld
<1>3. /\ inportsAvailMasks' = inportsAvailMasks \cup {i}
      /\ inputPortID' = [inputPortID EXCEPT ![s] = Unassigned]
      /\ local' = [local EXCEPT ![s] = NoLocals]
      /\ pc' = [pc EXCEPT ![s] = "closed"]
      /\ lock' = None
  BY <1>1 DEF ReleaseIndex, LocalsFresh
<1>4. inputPortID'[s] = Unassigned /\ pc'[s] = "closed" /\ Index(s)' = Unassigned
  BY <1>3 DEF Index
<1>5. TypeOK'
  <2>1. local' \in [Streams -> Locals] /\ pc' \in [Streams -> PCs]
    BY <1>3 DEF PCs
  <2>2. inputPortID' \in [Streams -> Ports \cup {Unassigned}] /\ inportsAvailMasks' \subseteq Ports
    BY <1>1, <1>3
  <2> QED BY <1>3, <2>1, <2>2 DEF MixerInv, TypeOK, Locals, data, ReleaseIndex
<1>6. StreamEffect(s)
  <2>1. \A j \in Ports : j = Index(s) /\ j # Index(s)' => Free(j)'
    <3>1. \A j \in Ports : j = Index(s) => j \in inportsAvailMasks' /\ j \notin inportsMasks'
                                             /\ in_ports'[j] = NULL
      BY <1>1, <1>2, <1>3 DEF ReleaseIndex
    <3> QED BY <3>1 DEF Free
  <2> QED BY <1>1, <1>2, <1>3, <1>4, <2>1
          DEF ReleaseIndex, StreamEffect, Opening, Closing, Detached, data
<1>7. Placed(s)' /\ Registered(s)'
  BY <1>1, <1>4 DEF ReleaseIndex, Placed, Registered, Opening, Closing
<1>8. LocalsFresh(s)' /\ DataKept(s)'
  BY <1>1, <1>4 DEF ReleaseIndex, LocalsFresh, DataKept
<1> QED BY <1>5, <1>6, <1>7, <1>8, StreamEffectInv DEF ReleaseIndex, NothingFreedIsUsed

----------------------------------------------------------------------------
(* The steps of the mixer thread and of the device. *)

\* They leave the streams and the tables alone.
LEMMA MixerEffectInv ==
  ASSUME MixerInv,
         UNCHANGED <<slots, alive, inputPortID, pc, local, written>>,
         \A s \in Streams : port'[s].ID = port[s].ID,
         TypeOK', NothingFreedIsUsed', LockHeld', MixerPort', DeviceIdle',
         \A s \in Streams : DataKept(s)'
  PROVE  MixerInv'
<1>1. \A s \in Streams : Index(s)' = Index(s)
  BY DEF Index
<1>2. OneAtATime' /\ Distinct'
  BY <1>1 DEF MixerInv, OneAtATime, Distinct
<1>3. FreeIndices'
  BY <1>1 DEF MixerInv, FreeIndices, Free, slots
<1>4. ASSUME NEW s \in Streams
      PROVE  Placed(s)' /\ Registered(s)' /\ LocalsFresh(s)'
  <2>1. Placed(s) /\ Registered(s) /\ LocalsFresh(s)
    BY DEF MixerInv
  <2>2. Placed(s)'
    BY <2>1 DEF Placed, Ports, Unassigned
  <2>3. Registered(s)'
    BY <1>1, <2>1 DEF Registered, Detached, slots
  <2>4. LocalsFresh(s)'
    BY <2>1 DEF LocalsFresh, FirstBit, slots
  <2> QED BY <2>2, <2>3, <2>4
<1> QED BY <1>2, <1>3, <1>4 DEF MixerInv

\* And most of them the ports.
LEMMA MixerMovesInv ==
  ASSUME MixerInv,
         UNCHANGED <<slots, alive, inputPortID, pc, local, data, fault>>,
         mixer' \in [at : MixerPCs, masks : SUBSET Ports, in_port : Streams \cup {NULL}],
         life' \in [device : {"open", "exiting", "joining", "closed"},
                    mixing_enable : BOOLEAN, exit_thread : BOOLEAN],
         lock' \in Streams \cup {None, Mixer},
         LockHeld', MixerPort', DeviceIdle'
  PROVE  MixerInv'
<1>1. TypeOK'
  BY DEF MixerInv, TypeOK, slots, data
<1>2. \A s \in Streams : DataKept(s)'
  BY DEF MixerInv, DataKept, Unit, data
<1>3. NothingFreedIsUsed' /\ port' = port /\ written' = written
  BY DEF MixerInv, NothingFreedIsUsed, data
<1> QED BY <1>1, <1>2, <1>3, MixerEffectInv

\* What the steps of the mixer thread start from.
LEMMA MixerBefore ==
  ASSUME MixerInv
  PROVE  /\ mixer \in [at : MixerPCs, masks : SUBSET Ports, in_port : Streams \cup {NULL}]
         /\ life \in [device : {"open", "exiting", "joining", "closed"},
                      mixing_enable : BOOLEAN, exit_thread : BOOLEAN]
         /\ lock \in Streams \cup {None, Mixer}
         /\ in_ports \in [Ports -> Streams \cup {NULL}]
         /\ inportsMasks \subseteq Ports
         /\ LockHeld /\ MixerPort /\ DeviceIdle
         /\ None # Mixer /\ None \notin Streams /\ Mixer \notin Streams
BY SubMixerAssumption DEF MixerInv, TypeOK

\* The thread begins and ends.
LEMMA BeginEndInv ==
  ASSUME MixerInv, BeginThread \/ ClearExit \/ EndThread
  PROVE  MixerInv'
<1>1. /\ UNCHANGED <<slots, alive, inputPortID, pc, local, data, fault, lock>>
      /\ mixer' \in [at : MixerPCs, masks : SUBSET Ports, in_port : Streams \cup {NULL}]
      /\ mixer.at \in {"begin", "begun", "idle"}
      /\ mixer'.at \in {"begun", "idle", "ended"}
  BY MixerBefore DEF BeginThread, ClearExit, EndThread, MixerPCs
<1>2. /\ life' \in [device : {"open", "exiting", "joining", "closed"},
                    mixing_enable : BOOLEAN, exit_thread : BOOLEAN]
      /\ life'.device = life.device
  BY MixerBefore DEF BeginThread, ClearExit, EndThread
<1>3. LockHeld'
  BY <1>1, MixerBefore DEF LockHeld
<1>4. MixerPort' /\ DeviceIdle'
  BY <1>1, <1>2, MixerBefore DEF MixerPort, DeviceIdle
<1> QED BY <1>1, <1>2, <1>3, <1>4, MixerBefore, MixerMovesInv

\* It takes the lock and gives it back.
LEMMA LockUnlockInv ==
  ASSUME MixerInv,
         \/ MixerLock("idle", "reading") \/ MixerLock("waiting", "mixing")
         \/ MixerUnlock("reading", "waiting") \/ MixerUnlock("mixing", "idle")
  PROVE  MixerInv'
<1>1. /\ UNCHANGED <<slots, alive, inputPortID, pc, local, data, fault, life>>
      /\ mixer' \in [at : MixerPCs, masks : SUBSET Ports, in_port : Streams \cup {NULL}]
      /\ mixer.at \in {"idle", "waiting", "reading", "mixing"}
  BY MixerBefore DEF MixerLock, MixerUnlock, MixerPCs
<1>2. \/ mixer'.at \in {"reading", "mixing"} /\ lock = None /\ lock' = Mixer
      \/ mixer'.at \in {"waiting", "idle"} /\ lock = Mixer /\ lock' = None
  BY MixerBefore DEF MixerLock, MixerUnlock, LockHeld
<1>3. LockHeld'
  BY <1>1, <1>2, MixerBefore DEF LockHeld
<1>4. MixerPort' /\ DeviceIdle'
  BY <1>1, <1>2, MixerBefore DEF MixerPort, DeviceIdle
<1>5. lock' \in Streams \cup {None, Mixer}
  BY <1>2
<1> QED BY <1>1, <1>3, <1>4, <1>5, MixerBefore, MixerMovesInv

\* It reads the next port from in_ports.
LEMMA FetchInv ==
  ASSUME MixerInv, MixerFetch("reading", "read") \/ MixerFetch("mixing", "mix")
  PROVE  MixerInv'
<1> DEFINE i == FirstBit(mixer.masks)
<1>1. mixer.masks \subseteq Ports /\ mixer.masks # {}
  BY MixerBefore DEF MixerFetch
<1>2. i \in Ports
  BY <1>1, FirstBitLemma
<1> HIDE DEF i
<1>3. /\ UNCHANGED <<slots, alive, inputPortID, pc, local, data, fault, life, lock>>
      /\ mixer.at \in {"reading", "mixing"}
      /\ mixer'.at \in {"reading", "mixing", "read", "mix"}
      /\ mixer'.at \in {"read", "mix"} => in_ports[i] # NULL
      /\ mixer'.masks = mixer.masks \ {i}
      /\ mixer'.in_port = in_ports[i]
  BY DEF MixerFetch, i
<1>4. mixer' \in [at : MixerPCs, masks : SUBSET Ports, in_port : Streams \cup {NULL}]
  <2>1. \A at, masks, p :
          /\ at \in MixerPCs /\ masks \subseteq Ports /\ p \in Streams \cup {NULL}
          => [at |-> at, masks |-> masks, in_port |-> p]
               \in [at : MixerPCs, masks : SUBSET Ports, in_port : Streams \cup {NULL}]
    OBVIOUS
  <2>2. mixer' = [at |-> mixer'.at, masks |-> mixer'.masks, in_port |-> mixer'.in_port]
    BY DEF MixerFetch
  <2>3. in_ports[i] \in Streams \cup {NULL}
    BY <1>2, MixerBefore
  <2> QED BY <1>1, <1>3, <2>1, <2>2, <2>3 DEF MixerPCs
<1>5. LockHeld'
  BY <1>3, MixerBefore DEF LockHeld
<1>6. DeviceIdle'
  BY <1>3, MixerBefore DEF DeviceIdle
<1>7. MixerPort'
  <2>1. CASE mixer'.at \in {"read", "mix"}
    <3>1. PICK p \in Streams : p = in_ports[i] /\ Index(p) = i /\ pc[p] \notin Detached
      BY <1>2, <1>3, <2>1, TableLemma
    <3>2. pc'[p] = pc[p] /\ Index(p)' = Index(p) /\ i # Unassigned
      BY <1>2, <1>3, SubMixerAssumption DEF Index, Ports, Unassigned, slots
    <3> QED BY <1>3, <2>1, <3>1, <3>2 DEF MixerPort, Index, Detached
  <2>2. CASE mixer'.at \notin {"read", "mix"}
    BY <2>2 DEF MixerPort
  <2> QED BY <2>1, <2>2
<1> QED BY <1>3, <1>4, <1>5, <1>6, <1>7, MixerBefore, MixerMovesInv

\* The port that the mixer thread has fetched is still there, and it finds it
\* again by the port's ID.
LEMMA FetchedPort ==
  ASSUME MixerInv, mixer.at \in {"read", "mix"}
  PROVE  /\ mixer.in_port \in Streams
         /\ mixer.in_port \in alive
         /\ port[mixer.in_port].ID \in Ports
         /\ in_ports[port[mixer.in_port].ID] = mixer.in_port
         /\ mixer.in_port # NULL
<1> DEFINE p == mixer.in_port
<1>1. p \in Streams /\ Index(p) # Unassigned /\ pc[p] \notin Detached
  BY MixerBefore DEF MixerPort
<1>2. Index(p) \in Ports
  BY <1>1, IndexLemma
<1>3. in_ports[Index(p)] = p /\ port[p].ID = Index(p) /\ p # NULL
  BY <1>1, Before, SubMixerAssumption DEF Registered
<1> QED BY <1>1, <1>2, <1>3, TableLemma

\* A ring read from its start is cut in two.
LEMMA ReadRing ==
  ASSUME NEW ring \in Seq(Units), NEW n \in Nat, n <= Len(ring)
  PROVE  /\ SubSeq(ring, 1, n) \in Seq(Units) /\ Len(SubSeq(ring, 1, n)) = n
         /\ SubSeq(ring, n + 1, Len(ring)) \in Seq(Units)
         /\ Len(SubSeq(ring, n + 1, Len(ring))) = Len(ring) - n
         /\ SubSeq(ring, 1, n) \o SubSeq(ring, n + 1, Len(ring)) = ring
<1>1. Len(ring) \in Nat /\ \A k \in 1..Len(ring) : ring[k] \in Units
  BY LenProperties, ElementOfSeq
<1>2. SubSeq(ring, 1, n) \in Seq(Units) /\ Len(SubSeq(ring, 1, n)) = n
  BY <1>1, SubSeqProperties
<1>3. /\ SubSeq(ring, n + 1, Len(ring)) \in Seq(Units)
      /\ Len(SubSeq(ring, n + 1, Len(ring))) = Len(ring) - n
  BY <1>1, SubSeqProperties
<1>4. SubSeq(ring, 1, n) \o SubSeq(ring, n + 1, Len(ring)) = SubSeq(ring, 1, Len(ring))
  <2>1. \A m \in 1..(Len(ring) + 1) : \A k \in (m - 1)..Len(ring) : \A l \in k..Len(ring) :
          SubSeq(ring, m, k) \o SubSeq(ring, k + 1, l) = SubSeq(ring, m, l)
    BY ConcatAdjacentSubSeq
  <2>2. 1 \in 1..(Len(ring) + 1) /\ n \in (1 - 1)..Len(ring) /\ Len(ring) \in n..Len(ring)
    BY <1>1
  <2> HIDE <1>1, <1>2, <1>3
  <2> QED BY <2>1, <2>2
<1>5. SubSeq(ring, 1, Len(ring)) = ring
  BY SubSeqFull
<1> QED BY <1>2, <1>3, <1>4, <1>5

\* What the mixer thread does to the port it reads.
LEMMA MixerReadFacts ==
  ASSUME MixerInv, MixerRead
  PROVE  LET p == mixer.in_port
             ring == port[p].ring
         IN  /\ UNCHANGED <<life, slots, alive, written, mixed, inputPortID, pc, local, lock, fault>>
             /\ mixer.at = "read" /\ p \in Streams /\ p \in alive
             /\ mixer' = [mixer EXCEPT !.at = "reading", !.in_port = NULL]
             /\ \/ port' = port
                \/ /\ ~port[p].data_valid /\ Len(ring) >= ChunkLen
                   /\ port' = [port EXCEPT ![p] =
                         [ring |-> SubSeq(ring, ChunkLen + 1, Len(ring)),
                          data |-> SubSeq(ring, 1, ChunkLen),
                          data_valid |-> TRUE, first_read |-> FALSE, ID |-> port[p].ID]]
<1> DEFINE p == mixer.in_port
           ring == port[p].ring
<1>1. mixer.at = "read"
  BY DEF MixerRead
<1>2. /\ p \in Streams /\ p \in alive /\ p # NULL
      /\ in_ports[port[p].ID] = p
  BY <1>1, FetchedPort
<1>3. ReadChunk(p)
  BY <1>2 DEF MixerRead
<1>4. CASE ~Ready(p)
  BY <1>1, <1>2, <1>3, <1>4 DEF ReadChunk, MixerRead
<1>5. CASE Ready(p)
  <2>1. ~port[p].data_valid /\ Len(ring) >= ChunkLen
    BY <1>5 DEF Ready
  <2>2. Len(ring) \in Nat /\ port \in [Streams -> PortRecords]
    <3>1. port \in [Streams -> PortRecords]
      BY DEF MixerInv, TypeOK
    <3>2. ring \in Seq(Units)
      BY <1>2, <3>1 DEF PortRecords
    <3> QED BY <3>1, <3>2, LenProperties
  <2>3. Least(ChunkLen, Len(ring)) = ChunkLen
    BY <2>1, <2>2, SubMixerAssumption DEF Least
  <2> DEFINE begun == [port EXCEPT ![p].first_read = FALSE]
             head == SubSeq(ring, 1, ChunkLen)
             rest == SubSeq(ring, ChunkLen + 1, Len(ring))
  <2>4. /\ fault' = fault
        /\ port' = [[begun EXCEPT ![p].ring = SubSeq(@, ChunkLen + 1, Len(@))]
                     EXCEPT ![p].data = head, ![p].data_valid = TRUE]
    BY <1>2, <1>3, <1>5, <2>3 DEF ReadChunk
  <2>5. begun \in [Streams -> PortRecords] /\ begun[p].ring = ring
    BY <1>2, <2>2 DEF PortRecords
  <2>6. port' = [port EXCEPT ![p] = [ring |-> rest, data |-> head, data_valid |-> TRUE,
                                     first_read |-> FALSE, ID |-> port[p].ID]]
    <3> HIDE DEF head
    <3>1. port' = [[begun EXCEPT ![p].ring = rest]
                     EXCEPT ![p].data = head, ![p].data_valid = TRUE]
      BY <1>2, <2>4, <2>5
    <3> HIDE DEF rest
    <3>2. \A t \in Streams \ {p} : port'[t] = port[t]
      BY <1>2, <2>2, <3>1
    <3>3. port'[p] = [ring |-> rest, data |-> head, data_valid |-> TRUE,
                      first_read |-> FALSE, ID |-> port[p].ID]
      BY <1>2, <2>2, <3>1 DEF PortRecords
    <3>4. DOMAIN port' = Streams /\ port' = [t \in Streams |-> port'[t]]
      BY <1>2, <2>2, <3>1
    <3> QED BY <1>2, <2>2, <3>2, <3>3, <3>4
  <2> QED BY <1>1, <1>2, <2>1, <2>4, <2>6 DEF MixerRead
<1> QED BY <1>4, <1>5

\* The mixer reads a chunk from the port's ring.
LEMMA MixerReadInv ==
  ASSUME MixerInv, MixerRead
  PROVE  MixerInv'
<1> DEFINE p == mixer.in_port
           ring == port[p].ring
           rest == SubSeq(ring, ChunkLen + 1, Len(ring))
           head == SubSeq(ring, 1, ChunkLen)
<1>1. /\ UNCHANGED <<life, slots, alive, written, mixed, inputPortID, pc, local, lock, fault>>
      /\ mixer.at = "read"
      /\ mixer' = [mixer EXCEPT !.at = "reading", !.in_port = NULL]
  BY MixerReadFacts
<1>2. /\ mixer' \in [at : MixerPCs, masks : SUBSET Ports, in_port : Streams \cup {NULL}]
      /\ mixer'.at = "reading"
  BY <1>1, MixerBefore DEF MixerPCs
<1>3. LockHeld'
  BY <1>1, <1>2, MixerBefore DEF LockHeld
<1>4. MixerPort' /\ DeviceIdle'
  BY <1>1, <1>2, MixerBefore DEF MixerPort, DeviceIdle
<1>5. CASE port' = port
  <2>1. UNCHANGED data
    BY <1>1, <1>5 DEF data
  <2> QED BY <1>1, <1>2, <1>3, <1>4, <2>1, MixerBefore, MixerMovesInv
<1>6. CASE port' # port
  <2>1. PICK q \in Streams : q = p
    BY MixerReadFacts
  <2>2. port[q] \in PortRecords /\ mixed[q] \in Seq(Units) /\ DataKept(q)
    BY Before
  <2>3. q \in alive /\ ~port[q].data_valid /\ Len(port[q].ring) >= ChunkLen
    BY <1>6, <2>1, MixerReadFacts
  <2>4. PICK r \in Seq(Units) : r = port[q].ring
    BY <2>2 DEF PortRecords
  <2>5. PICK m \in Seq(Units) : m = mixed[q]
    BY <2>2
  <2>6. ChunkLen \in Nat \ {0} /\ ChunkLen <= Len(r)
    BY <2>3, <2>4, SubMixerAssumption
  <2>7. PICK h \in Seq(Units) : h = SubSeq(r, 1, ChunkLen)
    BY <2>6, ReadRing
  <2>8. PICK l \in Seq(Units) : l = SubSeq(r, ChunkLen + 1, Len(r))
    BY <2>6, ReadRing
  <2>9. Len(h) = ChunkLen /\ Len(l) = Len(r) - ChunkLen /\ h \o l = r
    BY <2>6, <2>7, <2>8, ReadRing
  <2>10. port' = [port EXCEPT ![q] = [ring |-> l, data |-> h, data_valid |-> TRUE,
                                      first_read |-> FALSE, ID |-> port[q].ID]]
    BY <1>6, <2>1, <2>4, <2>7, <2>8, MixerReadFacts
  <2>11. port \in [Streams -> PortRecords]
    BY Before
  <2>12. TypeOK'
    <3>1. port' \in [Streams -> PortRecords]
      BY <2>2, <2>10, <2>11 DEF PortRecords
    <3> QED BY <1>1, <1>2, <3>1 DEF MixerInv, TypeOK, slots
  <2>13. \A s \in Streams : port'[s].ID = port[s].ID
    BY <2>10, <2>11
  <2>14. m \o h \o l = m \o r
    <3>1. (m \o h) \o l = m \o (h \o l)
      BY Associative
    <3> QED BY <3>1, <2>9
  <2>15. m \o r = [k \in 1..written[q] |-> Unit(q, k)]
    <3>1. port[q].data = <<>>
      BY <2>2, <2>3, EmptySeq DEF DataKept, PortRecords
    <3>2. m \o <<>> = m
      BY ConcatEmptySeq
    <3>3. m \o <<>> \o r = [k \in 1..written[q] |-> Unit(q, k)]
      BY <2>2, <2>3, <2>4, <2>5, <3>1 DEF DataKept
    <3> QED BY <3>2, <3>3
  <2>16. pc[q] \notin Opening
    <3>1. pc[q] \in Opening => r = <<>>
      BY <2>2, <2>3, <2>4 DEF DataKept
    <3> QED BY <2>6, <3>1, EmptySeq
  <2>17. ASSUME NEW s \in Streams PROVE DataKept(s)'
    <3>1. CASE s = q
      <4>1. port'[q].ring = l /\ port'[q].data = h /\ port'[q].data_valid
        BY <2>10, <2>11
      <4>2. Len(l) <= Cap
        BY <2>2, <2>3, <2>4, <2>6, <2>9, SubMixerAssumption DEF DataKept
      <4>3. mixed'[q] \o port'[q].data \o port'[q].ring = [k \in 1..written'[q] |-> Unit(q, k)]
        BY <1>1, <2>5, <2>14, <2>15, <4>1
      <4> QED BY <1>1, <2>9, <2>16, <3>1, <4>1, <4>2, <4>3 DEF DataKept, Unit
    <3>2. CASE s # q
      <4>1. DataKept(s) /\ port'[s] = port[s]
        BY <2>10, <2>11, <3>2, Before
      <4> QED BY <1>1, <4>1 DEF DataKept, Unit
    <3> QED BY <3>1, <3>2
  <2>18. NothingFreedIsUsed'
    BY <1>1 DEF MixerInv, NothingFreedIsUsed
  <2> QED BY <1>1, <1>3, <1>4, <2>12, <2>13, <2>17, <2>18, MixerEffectInv
<1> QED BY <1>5, <1>6

\* The mixer mixes the chunk.
LEMMA MixerMixInv ==
  ASSUME MixerInv, MixerMix
  PROVE  MixerInv'
<1> DEFINE p == mixer.in_port
<1>1. mixer.at = "mix" /\ p \in Streams /\ p \in alive
  BY FetchedPort DEF MixerMix
<1>2. /\ UNCHANGED <<life, slots, alive, written, inputPortID, pc, local, lock, fault>>
      /\ mixer' = [mixer EXCEPT !.at = "mixing", !.in_port = NULL]
  BY <1>1 DEF MixerMix
<1>3. /\ mixer' \in [at : MixerPCs, masks : SUBSET Ports, in_port : Streams \cup {NULL}]
      /\ mixer'.at = "mixing"
  BY <1>2, MixerBefore DEF MixerPCs
<1>4. LockHeld'
  BY <1>1, <1>2, <1>3, MixerBefore DEF LockHeld
<1>5. MixerPort' /\ DeviceIdle'
  BY <1>1, <1>2, <1>3, MixerBefore DEF MixerPort, DeviceIdle
<1>6. CASE ~port[p].data_valid
  <2>1. UNCHANGED data
    BY <1>2, <1>6 DEF data, MixerMix
  <2> QED BY <1>2, <1>3, <1>4, <1>5, <2>1, MixerBefore, MixerMovesInv
<1>7. CASE port[p].data_valid
  <2>1. PICK q \in Streams : q = p
    BY <1>1
  <2>2. port[q] \in PortRecords /\ mixed \in [Streams -> Seq(Units)] /\ DataKept(q)
    BY Before
  <2>3. port \in [Streams -> PortRecords]
    BY Before
  <2>4. PICK d \in Seq(Units) : d = port[q].data
    BY <2>2 DEF PortRecords
  <2>5. PICK m \in Seq(Units) : m = mixed[q]
    BY <2>2
  <2>6. /\ mixed' = [mixed EXCEPT ![q] = m \o d]
        /\ port' = [port EXCEPT ![q].data_valid = FALSE, ![q].data = <<>>]
    BY <1>1, <1>7, <2>1, <2>4, <2>5 DEF MixerMix
  <2>7. /\ port'[q].data = <<>> /\ port'[q].data_valid = FALSE /\ port'[q].ID = port[q].ID
        /\ port'[q].ring = port[q].ring /\ port'[q].first_read = port[q].first_read
        /\ \A s \in Streams \ {q} : port'[s] = port[s]
    BY <2>3, <2>6 DEF PortRecords
  <2>8. m \o d \in Seq(Units) /\ (m \o d) \o <<>> = m \o d
    BY ConcatProperties, ConcatEmptySeq
  <2>9. TypeOK'
    <3>1. port' \in [Streams -> PortRecords]
      BY <2>3, <2>6, EmptySeq DEF PortRecords
    <3>2. mixed' \in [Streams -> Seq(Units)]
      BY <2>2, <2>6, <2>8
    <3> QED BY <1>2, <1>3, <3>1, <3>2 DEF MixerInv, TypeOK, slots
  <2>10. \A s \in Streams : port'[s].ID = port[s].ID
    BY <2>7
  <2>11. ASSUME NEW s \in Streams PROVE DataKept(s)'
    <3>1. CASE s = q
      <4>1. mixed'[q] = m \o d
        BY <2>2, <2>6
      <4>2. m \o d \o port[q].ring = [k \in 1..written[q] |-> Unit(q, k)]
        BY <1>1, <2>1, <2>2, <2>4, <2>5 DEF DataKept
      <4>3. mixed'[q] \o port'[q].data \o port'[q].ring = [k \in 1..written'[q] |-> Unit(q, k)]
        BY <1>2, <2>7, <2>8, <4>1, <4>2
      <4> QED BY <1>1, <1>2, <1>7, <2>1, <2>2, <2>7, <3>1, <4>3, EmptySeq DEF DataKept, Unit
    <3>2. CASE s # q
      <4>1. DataKept(s) /\ port'[s] = port[s] /\ mixed'[s] = mixed[s]
        BY <2>2, <2>6, <2>7, <3>2, Before
      <4> QED BY <1>2, <4>1 DEF DataKept, Unit
    <3> QED BY <3>1, <3>2
  <2>12. NothingFreedIsUsed'
    BY <1>2 DEF MixerInv, NothingFreedIsUsed
  <2> QED BY <1>2, <1>4, <1>5, <2>9, <2>10, <2>11, <2>12, MixerEffectInv
<1> QED BY <1>6, <1>7

\* adev_close() and the next adev_open().
LEMMA DeviceStepInv ==
  ASSUME MixerInv, DeviceStep
  PROVE  MixerInv'
<1>1. CASE CloseDevice \/ RequestExit \/ JoinMixer
  <2>1. UNCHANGED <<slots, alive, data, inputPortID, pc, local, lock, mixer, fault>>
    BY <1>1 DEF CloseDevice, RequestExit, JoinMixer
  <2>2. life' \in [device : {"open", "exiting", "joining", "closed"},
                   mixing_enable : BOOLEAN, exit_thread : BOOLEAN]
    BY <1>1, MixerBefore DEF CloseDevice, RequestExit, JoinMixer
  <2>3. DeviceIdle'
    BY <1>1, MixerBefore DEF CloseDevice, RequestExit, JoinMixer, DeviceIdle
  <2>4. LockHeld' /\ MixerPort'
    BY <2>1, MixerBefore DEF LockHeld, MixerPort, Index, Unassigned
  <2> QED BY <2>1, <2>2, <2>3, <2>4, MixerBefore, MixerMovesInv
<1>2. CASE OpenDevice
  <2>1. \A s \in Streams : pc[s] = "closed" /\ Placed(s) /\ Index(s) = Unassigned
    BY <1>2, Before DEF OpenDevice, MixerInv, DeviceIdle, Placed, Index
  <2>2. /\ UNCHANGED <<alive, data, inputPortID, pc, local, fault>>
        /\ \A s \in Streams : pc'[s] = "closed" /\ Index(s)' = Unassigned
    BY <1>2, <2>1 DEF OpenDevice, Index, Unassigned
  <2>3. TypeOK'
    BY <1>2 DEF OpenDevice, NewMixer, MixerInv, TypeOK, MixerPCs, data
  <2>4. OneAtATime' /\ Distinct'
    BY <2>2 DEF OneAtATime, Distinct, Opening, Closing, Unassigned
  <2>5. FreeIndices'
    BY <1>2 DEF OpenDevice, FreeIndices, Free, Ports
  <2>6. LockHeld'
    BY <1>2, <2>2, MixerBefore DEF OpenDevice, NewMixer, LockHeld
  <2>7. MixerPort' /\ DeviceIdle'
    BY <1>2 DEF OpenDevice, NewMixer, MixerPort, DeviceIdle
  <2>8. ASSUME NEW s \in Streams
        PROVE  Placed(s)' /\ Registered(s)' /\ LocalsFresh(s)' /\ DataKept(s)'
    <3>1. Placed(s)'
      BY <2>1, <2>2 DEF Placed, Ports, Unassigned
    <3>2. Registered(s)' /\ LocalsFresh(s)'
      BY <2>2 DEF Registered, LocalsFresh, Unassigned
    <3>3. DataKept(s)'
      BY <2>2, Before DEF DataKept, Unit, data
    <3> QED BY <3>1, <3>2, <3>3
  <2>9. NothingFreedIsUsed'
    BY <2>2 DEF MixerInv, NothingFreedIsUsed
  <2> QED BY <2>3, <2>4, <2>5, <2>6, <2>7, <2>8, <2>9 DEF MixerInv
<1> QED BY <1>1, <1>2 DEF DeviceStep

----------------------------------------------------------------------------
(* The theorems. *)

\* The invariant holds when the mixer has been created.
LEMMA MixerInit == Init => MixerInv
<1> SUFFICES ASSUME Init PROVE MixerInv
  OBVIOUS
<1>1. TypeOK
  <2>1. NewPort \in PortRecords /\ <<>> \in Seq(Units)
    BY EmptySeq DEF NewPort, PortRecords
  <2>2. NoLocals \in Locals
    BY SubMixerAssumption DEF NoLocals, Locals
  <2>3. 0 \in 0..MaxUnits
    BY SubMixerAssumption
  <2> QED BY <2>1, <2>2, <2>3 DEF Init, TypeOK, Locals, PCs, MixerPCs, NewMixer
<1>2. \A s \in Streams : pc[s] = "closed" /\ Index(s) = Unassigned
  BY DEF Init, Index
<1>3. OneAtATime /\ Distinct
  BY <1>2 DEF OneAtATime, Distinct, Opening, Closing
<1>4. FreeIndices
  BY DEF Init, FreeIndices, Free
<1>5. LockHeld
  BY <1>2, SubMixerAssumption DEF Init, NewMixer, LockHeld
<1>6. MixerPort /\ DeviceIdle /\ NothingFreedIsUsed
  BY DEF Init, NewMixer, MixerPort, DeviceIdle, NothingFreedIsUsed
<1>7. ASSUME NEW s \in Streams
      PROVE  Placed(s) /\ Registered(s) /\ LocalsFresh(s) /\ DataKept(s)
  BY <1>2 DEF Init, Placed, Registered, LocalsFresh, DataKept, Opening, Closing
<1> QED BY <1>1, <1>3, <1>4, <1>5, <1>6, <1>7 DEF MixerInv

\* No step of a stream, of the mixer thread or of the device breaks the
\* invariant.
LEMMA MixerStepInv ==
  ASSUME Framework = Streams
  PROVE  MixerInv /\ [Next]_vars => MixerInv'
<1> SUFFICES ASSUME MixerInv, [Next]_vars PROVE MixerInv'
  OBVIOUS
<1>1. ASSUME NEW s \in Streams, StreamStep(s) PROVE MixerInv'
  BY <1>1, OpenStreamInv, ClaimIndexInv, RegisterPortInv, SetMaskInv, StartWriteInv,
     FetchPortInv, FillRingInv, CloseStreamInv, FreePortInv, ClearMaskInv, ReleaseIndexInv
  DEF StreamStep
<1>2. CASE MixerStep
  BY <1>2, BeginEndInv, LockUnlockInv, FetchInv, MixerReadInv, MixerMixInv DEF MixerStep
<1>3. CASE DeviceStep
  BY <1>3, DeviceStepInv
<1>4. CASE UNCHANGED vars
  <2>1. UNCHANGED <<slots, alive, inputPortID, pc, local, data, fault, mixer, life, lock>>
    BY <1>4 DEF vars, slots, data
  <2>2. LockHeld' /\ MixerPort' /\ DeviceIdle'
    BY <2>1, MixerBefore DEF LockHeld, MixerPort, DeviceIdle, Index, Unassigned
  <2> QED BY <2>1, <2>2, MixerBefore, MixerMovesInv
<1> QED BY <1>1, <1>2, <1>3, <1>4 DEF Next

LEMMA MixerInvariant ==
  ASSUME Framework = Streams
  PROVE  Spec => []MixerInv
<1>1. Init => MixerInv
  BY MixerInit
<1>2. MixerInv /\ [Next]_vars => MixerInv'
  BY MixerStepInv
<1> QED BY <1>1, <1>2, PTL DEF Spec

\* Type correctness: every port number is an index of in_ports, every mask a
\* set of indices, and every chunk and ring holds units of its streams.
THEOREM MixerTypeOK ==
  ASSUME Framework = Streams
  PROVE  Spec => []TypeOK
<1>1. MixerInv => TypeOK
  BY DEF MixerInv
<1> QED BY <1>1, MixerInvariant, PTL

\* No thread uses a port that was freed: the mixer thread, which keeps the
\* pointer it fetched while streams are opened, closed and written without its
\* lock, finds the port it fetched (amlAudioMixer.c:170, 198-204, 263, 752).
THEOREM MixerUsesNothingFreed ==
  ASSUME Framework = Streams
  PROVE  Spec => []NothingFreedIsUsed
<1>1. MixerInv => NothingFreedIsUsed
  BY DEF MixerInv
<1> QED BY <1>1, MixerInvariant, PTL

\* in_ports and the two masks agree: a stream that plays is alone at its index,
\* and no index is lost, although init writes the three without the lock.
THEOREM MixerTablesAgree ==
  ASSUME Framework = Streams
  PROVE  Spec => []TablesAgree
<1>1. MixerInv => TablesAgree
  <2> SUFFICES ASSUME MixerInv PROVE TablesAgree
    OBVIOUS
  <2>1. ASSUME NEW s \in Streams, Plays(s)
        PROVE  /\ in_ports[inputPortID[s]] = s
               /\ inputPortID[s] \in inportsMasks
               /\ inputPortID[s] \notin inportsAvailMasks
    BY <2>1, Before DEF Plays, Registered, Index, Detached
  <2>2. ASSUME \A s \in Streams : pc[s] \notin Opening \cup Closing, NEW i \in Ports
        PROVE  /\ (i \in inportsAvailMasks) <=> (in_ports[i] = NULL)
               /\ (i \in inportsMasks) <=> (in_ports[i] # NULL)
    <3>1. CASE \A s \in Streams : Index(s) # i
      BY <3>1 DEF MixerInv, FreeIndices, Free
    <3>2. CASE \E s \in Streams : Index(s) = i
      <4>1. PICK s \in Streams : Index(s) = i
        BY <3>2
      <4>2. i # Unassigned /\ s # NULL
        BY SubMixerAssumption DEF Ports, Unassigned
      <4>3. pc[s] \notin Detached \cup {"masking", "releasing"}
        BY <2>2, <4>1 DEF Opening, Closing, Detached
      <4> QED BY <4>1, <4>2, <4>3, Before DEF Registered, Detached
    <3> QED BY <3>1, <3>2
  <2> QED BY <2>1, <2>2 DEF TablesAgree
<1> QED BY <1>1, MixerInvariant, PTL

\* What a stream wrote is mixed once, in order and unmixed with another's: the
\* mix, the chunk that waits and the ring are its units.
THEOREM MixerStreamIntact ==
  ASSUME Framework = Streams
  PROVE  Spec => []StreamIntact
<1>1. MixerInv => StreamIntact
  <2> SUFFICES ASSUME MixerInv, NEW s \in Streams, Plays(s)
               PROVE  mixed[s] \o port[s].data \o port[s].ring
                        = [k \in 1..written[s] |-> Unit(s, k)]
    BY DEF StreamIntact
  <2>1. s \in alive
    BY Before DEF Plays, Placed
  <2> QED BY <2>1, Before DEF DataKept
<1> QED BY <1>1, MixerInvariant, PTL

----------------------------------------------------------------------------
(* The sub mixer implements PortChannels. *)

HeldBy == [s \in Streams |-> IF Holds(s) THEN inputPortID[s] ELSE Unassigned]
QueueOf == [s \in Streams |-> IF Holds(s) THEN port[s].data \o port[s].ring ELSE <<>>]
SentBy == [s \in Streams |-> IF Holds(s) THEN written[s] ELSE 0]

\* A step that leaves the streams that hold a port what they have is none of
\* the channels.
LEMMA ChannelsUnchanged ==
  ASSUME NEW Same, Same \subseteq Streams,
         \A s \in Same :
           /\ Holds(s)' <=> Holds(s)
           /\ Holds(s) => /\ inputPortID'[s] = inputPortID[s] /\ written'[s] = written[s]
                          /\ port'[s].data = port[s].data /\ port'[s].ring = port[s].ring
  PROVE  \A s \in Same : /\ HeldBy'[s] = HeldBy[s]
                         /\ QueueOf'[s] = QueueOf[s]
                         /\ SentBy'[s] = SentBy[s]
BY DEF HeldBy, QueueOf, SentBy, Unassigned

LEMMA ChannelsStutter ==
  ASSUME \A s \in Streams :
           /\ Holds(s)' <=> Holds(s)
           /\ Holds(s) => /\ inputPortID'[s] = inputPortID[s] /\ written'[s] = written[s]
                          /\ port'[s].data = port[s].data /\ port'[s].ring = port[s].ring
  PROVE  [Channels!Next]_(Channels!vars)
<1>1. \A s \in Streams : HeldBy'[s] = HeldBy[s] /\ QueueOf'[s] = QueueOf[s]
                         /\ SentBy'[s] = SentBy[s]
  BY ChannelsUnchanged
<1>2. HeldBy' = HeldBy /\ QueueOf' = QueueOf /\ SentBy' = SentBy
  BY <1>1 DEF HeldBy, QueueOf, SentBy
<1> QED BY <1>2 DEF Channels!vars, HeldBy, QueueOf, SentBy

\* Opening a stream gives it a port when its init ends, and a close begins by
\* taking no notice of the port; the calls between leave the channels alone.
LEMMA QuietStreamStep ==
  ASSUME Framework = Streams, MixerInv, NEW s \in Streams,
         \/ OpenStream(s) \/ ClaimIndex(s) \/ RegisterPort(s) \/ StartWrite(s)
         \/ FetchPort(s) \/ CloseStream(s) \/ ClearMask(s) \/ ReleaseIndex(s)
  PROVE  [Channels!Next]_(Channels!vars)
<1>0. Placed(s) /\ Registered(s) /\ inputPortID[s] \in Ports \cup {Unassigned} /\ Unassigned \notin Ports
  BY Before
<1>1. CASE OpenStream(s)
  BY <1>0, <1>1, Before, ChannelsStutter DEF OpenStream, Holds, Placed
<1>2. CASE ClaimIndex(s)
  BY <1>0, <1>2, Before, ChannelsStutter DEF ClaimIndex, Holds, Placed, Opening, data
<1>3. CASE RegisterPort(s)
  <2>1. alive' = alive
    <3>1. in_ports[local[s].index] = NULL
      BY <1>3, RegisterPortInv
    <3>2. NULL \notin alive
      BY SubMixerAssumption DEF MixerInv, TypeOK
    <3> QED BY <1>3, <3>1, <3>2 DEF RegisterPort
  <2>2. inputPortID[s] = Unassigned /\ inputPortID' = inputPortID /\ written' = written
    BY <1>0, <1>3 DEF RegisterPort, Placed, Opening
  <2>3. \A t \in Streams \ {s} : port'[t] = port[t]
    BY <1>3, Before DEF RegisterPort
  <2> QED BY <2>1, <2>2, <2>3, ChannelsStutter DEF Holds, Unassigned
<1>4. CASE StartWrite(s)
  BY <1>4, ChannelsStutter DEF StartWrite, Holds, data, Unassigned
<1>5. CASE FetchPort(s)
  BY <1>5, ChannelsStutter DEF FetchPort, Holds, data, Unassigned
<1>6. CASE CloseStream(s)
  <2>1. inputPortID' = [inputPortID EXCEPT ![s] = inputPortID[s]]
    BY <1>0, <1>6, SubMixerAssumption DEF CloseStream, Registered, Index, Detached
  <2>2. inputPortID' = inputPortID
    BY <2>1, Before
  <2> QED BY <1>6, <2>2, ChannelsStutter DEF CloseStream, Holds, data, Unassigned
<1>7. CASE ClearMask(s)
  BY <1>7, ChannelsStutter DEF ClearMask, Holds, data, Unassigned
<1>8. CASE ReleaseIndex(s)
  <2>1. s \notin alive
    BY <1>0, <1>8 DEF ReleaseIndex, Placed, Opening
  <2>2. \A t \in Streams \ {s} : inputPortID'[t] = inputPortID[t]
    BY <1>8, Before DEF ReleaseIndex
  <2> QED BY <1>8, <2>1, <2>2, ChannelsStutter DEF ReleaseIndex, Holds, data, Unassigned
<1> QED BY <1>1, <1>2, <1>3, <1>4, <1>5, <1>6, <1>7, <1>8

LEMMA SetMaskRefines ==
  ASSUME Framework = Streams, MixerInv, NEW s \in Streams, SetMask(s)
  PROVE  Channels!Acquire(s)
<1> DEFINE i == local[s].index
<1>1. /\ pc[s] = "masking" /\ i \in Ports /\ Index(s) = i /\ i # Unassigned
      /\ inputPortID[s] = Unassigned /\ s \in alive
      /\ port[s].ring = <<>> /\ Len(port[s].data) = 0 /\ written[s] = 0
  BY Before DEF SetMask, Placed, Opening, Index, DataKept
<1>2. port[s].data = <<>>
  <2>1. port[s].data \in Seq(Units)
    BY Before DEF PortRecords
  <2> QED BY <1>1, <2>1, EmptySeq
<1>3. /\ alive' = alive /\ port' = port /\ written' = written
      /\ inputPortID' = [inputPortID EXCEPT ![s] = i]
  BY DEF SetMask, data
<1>4. inputPortID \in [Streams -> Ports \cup {Unassigned}]
  BY Before
<1>5. ~Holds(s) /\ Holds(s)'
  BY <1>1, <1>3, <1>4 DEF Holds, Unassigned
<1>6. \A t \in Streams \ {s} : HeldBy'[t] = HeldBy[t] /\ QueueOf'[t] = QueueOf[t]
                               /\ SentBy'[t] = SentBy[t]
  BY <1>3, <1>4, ChannelsUnchanged DEF Holds, Unassigned
<1>7. HeldBy[s] = Unassigned /\ HeldBy' = [HeldBy EXCEPT ![s] = i]
  <2>1. HeldBy[s] = Unassigned /\ HeldBy'[s] = i
    BY <1>1, <1>3, <1>4, <1>5 DEF HeldBy
  <2> QED BY <1>6, <2>1 DEF HeldBy
<1>8. \A t \in Streams : HeldBy[t] # i
  <2> SUFFICES ASSUME NEW t \in Streams, HeldBy[t] = i PROVE FALSE
    OBVIOUS
  <2>1. t # s /\ inputPortID[t] = i /\ t \in alive
    BY <1>1, <1>7 DEF HeldBy, Holds
  <2>2. Index(t) = i
    BY <1>1, <2>1, Before DEF Placed, Index, Opening
  <2> QED BY <1>1, <2>1, <2>2 DEF MixerInv, Distinct
<1>9. QueueOf' = QueueOf /\ SentBy' = SentBy
  <2>1. QueueOf[s] = <<>> /\ SentBy[s] = 0
    BY <1>5 DEF QueueOf, SentBy
  <2>2. <<>> \o <<>> = <<>>
    OBVIOUS
  <2>3. QueueOf'[s] = <<>> /\ SentBy'[s] = 0
    BY <1>1, <1>2, <1>3, <1>5, <2>2 DEF QueueOf, SentBy
  <2> QED BY <1>6, <2>1, <2>3 DEF QueueOf, SentBy
<1> QED BY <1>1, <1>7, <1>8, <1>9
        DEF Channels!Acquire, Channels!Ports, Channels!Unassigned, Ports, Unassigned,
            HeldBy, QueueOf, SentBy

LEMMA FreePortRefines ==
  ASSUME Framework = Streams, MixerInv, NEW s \in Streams, FreePort(s)
  PROVE  Channels!Release(s)
<1>1. /\ alive' = alive \ {s}
      /\ UNCHANGED <<port, written, inputPortID>>
  BY FreePortInv DEF FreePort, data
<1>2. Holds(s) /\ ~Holds(s)'
  BY <1>1, Before DEF FreePort, Holds, Placed, Closing
<1>3. \A t \in Streams \ {s} : HeldBy'[t] = HeldBy[t] /\ QueueOf'[t] = QueueOf[t]
                               /\ SentBy'[t] = SentBy[t]
  BY <1>1, ChannelsUnchanged DEF Holds, Unassigned
<1>4. HeldBy[s] # Unassigned /\ HeldBy'[s] = Unassigned /\ QueueOf'[s] = <<>> /\ SentBy'[s] = 0
  BY <1>2 DEF HeldBy, QueueOf, SentBy, Holds, Unassigned
<1>5. /\ HeldBy' = [HeldBy EXCEPT ![s] = Unassigned]
      /\ QueueOf' = [QueueOf EXCEPT ![s] = <<>>]
      /\ SentBy' = [SentBy EXCEPT ![s] = 0]
  BY <1>3, <1>4 DEF HeldBy, QueueOf, SentBy
<1> QED BY <1>4, <1>5 DEF Channels!Release, Channels!Unassigned, Unassigned, HeldBy, QueueOf, SentBy

LEMMA FillRingRefines ==
  ASSUME Framework = Streams, MixerInv, NEW s \in Streams, FillRing(s)
  PROVE  [Channels!Next]_(Channels!vars)
<1> DEFINE num == Least(local[s].todo, Cap - Len(port[s].ring))
<1>1. PICK n \in Nat : n = num
  <2>1. num \in 0..MaxUnits
    BY FillRingFacts
  <2> HIDE DEF num
  <2> QED BY <2>1, SubMixerAssumption
<1>2. /\ s \in alive /\ inputPortID[s] \in Ports
      /\ [k \in 1..n |-> Unit(s, written[s] + k)] \in Seq(Units)
      /\ port' = [port EXCEPT ![s].ring =
                    port[s].ring \o [k \in 1..n |-> Unit(s, written[s] + k)]]
      /\ written' = [written EXCEPT ![s] = written[s] + n]
      /\ n <= Cap - Len(port[s].ring)
      /\ alive' = alive /\ inputPortID' = inputPortID
  BY <1>1, FillRingFacts DEF FillRing
<1>3. /\ port \in [Streams -> PortRecords] /\ written \in [Streams -> 0..MaxUnits]
      /\ DataKept(s) /\ Unassigned \notin Ports
  BY Before
<1>4. Holds(s) /\ Holds(s)'
  BY <1>2, <1>3 DEF Holds, Unassigned
<1>5. PICK d \in Seq(Units) : d = port[s].data
  BY <1>3 DEF PortRecords
<1>6. PICK r \in Seq(Units) : r = port[s].ring
  BY <1>3 DEF PortRecords
<1>7. PICK u \in Seq(Units) : u = [k \in 1..n |-> Unit(s, written[s] + k)]
  BY <1>2
<1>8. port'[s].data = d /\ port'[s].ring = r \o u /\ written'[s] = written[s] + n
  BY <1>2, <1>3, <1>5, <1>6, <1>7 DEF PortRecords
<1>9. \A t \in Streams \ {s} : HeldBy'[t] = HeldBy[t] /\ QueueOf'[t] = QueueOf[t]
                               /\ SentBy'[t] = SentBy[t]
  BY <1>2, <1>3, ChannelsUnchanged DEF Holds, Unassigned
<1>10. QueueOf[s] = d \o r /\ QueueOf'[s] = (d \o r) \o u
  <2>1. d \o (r \o u) = (d \o r) \o u
    BY Associative
  <2>2. QueueOf[s] = d \o r /\ QueueOf'[s] = d \o (r \o u)
    BY <1>4, <1>5, <1>6, <1>8 DEF QueueOf
  <2> QED BY <2>1, <2>2
<1>11. HeldBy[s] # Unassigned /\ HeldBy' = HeldBy
  BY <1>2, <1>3, <1>4, <1>9 DEF HeldBy
<1>12. SentBy[s] = written[s] /\ SentBy'[s] = written[s] + n
  BY <1>4, <1>8 DEF SentBy
<1>13. CASE n = 0
  <2>1. u = <<>>
    BY <1>7, <1>13
  <2>2. (d \o r) \o <<>> = d \o r
    <3>1. d \o r \in Seq(Units)
      BY ConcatProperties
    <3> QED BY <3>1, ConcatEmptySeq
  <2>3. QueueOf'[s] = QueueOf[s] /\ SentBy'[s] = SentBy[s]
    BY <1>3, <1>10, <1>12, <1>13, <2>1, <2>2
  <2>4. QueueOf' = QueueOf /\ SentBy' = SentBy
    BY <1>9, <2>3 DEF QueueOf, SentBy
  <2> QED BY <1>11, <2>4 DEF Channels!vars, HeldBy, QueueOf, SentBy
<1>14. CASE n # 0
  <2>1. n \in 1..(Cap + ChunkLen - Len(QueueOf[s]))
    <3>1. Len(d \o r) = Len(d) + Len(r) /\ Len(d) \in Nat /\ Len(r) \in Nat
      BY ConcatProperties, LenProperties
    <3>2. Len(d) <= ChunkLen
      BY <1>2, <1>3, <1>5, SubMixerAssumption DEF DataKept
    <3>3. n <= Cap - Len(r) /\ Len(QueueOf[s]) = Len(d) + Len(r)
      BY <1>2, <1>6, <1>10, <3>1
    <3> QED BY <1>14, <3>1, <3>2, <3>3, SubMixerAssumption
  <2>2. QueueOf' = [QueueOf EXCEPT ![s] = @ \o [k \in 1..n |-> <<s, SentBy[s] + k>>]]
    <3>1. QueueOf'[s] = QueueOf[s] \o [k \in 1..n |-> <<s, SentBy[s] + k>>]
      BY <1>7, <1>10, <1>12 DEF Unit
    <3> QED BY <1>9, <3>1 DEF QueueOf
  <2>3. SentBy' = [SentBy EXCEPT ![s] = @ + n]
    BY <1>9, <1>12 DEF SentBy
  <2>4. Channels!Put(s)
    BY <1>11, <2>1, <2>2, <2>3
    DEF Channels!Put, Channels!Unassigned, Unassigned, HeldBy, QueueOf, SentBy
  <2> QED BY <2>4 DEF Channels!Next
<1> QED BY <1>13, <1>14

\* A read moves units from the ring to the chunk, which leaves the channel alone.
LEMMA MixerReadRefines ==
  ASSUME MixerInv, MixerRead
  PROVE  [Channels!Next]_(Channels!vars)
<1>1. UNCHANGED <<alive, written, inputPortID>>
  BY MixerReadFacts
<1>2. CASE port' = port
  BY <1>1, <1>2, ChannelsStutter DEF Holds, Unassigned
<1>3. CASE port' # port
  <2>1. PICK q \in Streams : q = mixer.in_port
    BY MixerReadFacts
  <2>2. port \in [Streams -> PortRecords] /\ DataKept(q)
    BY Before
  <2>3. q \in alive /\ ~port[q].data_valid /\ Len(port[q].ring) >= ChunkLen
    BY <1>3, <2>1, MixerReadFacts
  <2>4. PICK r \in Seq(Units) : r = port[q].ring
    BY <2>2 DEF PortRecords
  <2>5. ChunkLen \in Nat /\ ChunkLen <= Len(r)
    BY <2>3, <2>4, SubMixerAssumption
  <2>6. SubSeq(r, 1, ChunkLen) \o SubSeq(r, ChunkLen + 1, Len(r)) = r
    BY <2>5, ReadRing
  <2>7. port' = [port EXCEPT ![q] = [ring |-> SubSeq(r, ChunkLen + 1, Len(r)),
                                     data |-> SubSeq(r, 1, ChunkLen), data_valid |-> TRUE,
                                     first_read |-> FALSE, ID |-> port[q].ID]]
    BY <1>3, <2>1, <2>4, MixerReadFacts
  <2>8. port[q].data = <<>>
    BY <2>2, <2>3, EmptySeq DEF DataKept, PortRecords
  <2>9. port'[q].data \o port'[q].ring = port[q].data \o port[q].ring
    <3>1. <<>> \o r = r
      BY ConcatEmptySeq
    <3>2. port'[q].data = SubSeq(r, 1, ChunkLen) /\ port'[q].ring = SubSeq(r, ChunkLen + 1, Len(r))
      BY <2>2, <2>7
    <3> QED BY <2>4, <2>6, <2>8, <3>1, <3>2
  <2>10. \A t \in Streams \ {q} : port'[t] = port[t]
    BY <2>2, <2>7
  <2>11. \A t \in Streams : HeldBy'[t] = HeldBy[t] /\ QueueOf'[t] = QueueOf[t]
                            /\ SentBy'[t] = SentBy[t]
    BY <1>1, <2>9, <2>10 DEF HeldBy, QueueOf, SentBy, Holds, Unassigned
  <2>12. HeldBy' = HeldBy /\ QueueOf' = QueueOf /\ SentBy' = SentBy
    BY <2>11 DEF HeldBy, QueueOf, SentBy
  <2> QED BY <2>12 DEF Channels!vars, HeldBy, QueueOf, SentBy
<1> QED BY <1>2, <1>3

LEMMA MixerMixRefines ==
  ASSUME MixerInv, MixerMix
  PROVE  [Channels!Next]_(Channels!vars)
<1>1. /\ mixer.at = "mix" /\ mixer.in_port \in Streams /\ mixer.in_port \in alive
      /\ UNCHANGED <<alive, written, inputPortID>>
  BY FetchedPort DEF MixerMix
<1>2. PICK q \in Streams : q = mixer.in_port
  BY <1>1
<1>3. CASE ~port[q].data_valid
  BY <1>1, <1>2, <1>3, ChannelsStutter DEF MixerMix, Holds, Unassigned
<1>4. CASE port[q].data_valid
  <2>1. port' = [port EXCEPT ![q].data_valid = FALSE, ![q].data = <<>>]
    BY <1>1, <1>2, <1>4 DEF MixerMix
  <2>2. port \in [Streams -> PortRecords] /\ DataKept(q)
    BY Before
  <2>3. PICK r \in Seq(Units) : r = port[q].ring
    BY <2>2 DEF PortRecords
  <2>4. PICK d \in Seq(Units) : d = port[q].data
    BY <2>2 DEF PortRecords
  <2>5. port'[q].data = <<>> /\ port'[q].ring = r /\ \A t \in Streams \ {q} : port'[t] = port[t]
    BY <2>1, <2>2, <2>3 DEF PortRecords
  <2>6. \A t \in Streams \ {q} : HeldBy'[t] = HeldBy[t] /\ QueueOf'[t] = QueueOf[t]
                                 /\ SentBy'[t] = SentBy[t]
    BY <1>1, <2>5, ChannelsUnchanged DEF Holds, Unassigned
  <2>7. HeldBy' = HeldBy /\ SentBy' = SentBy
    BY <1>1 DEF HeldBy, SentBy, Holds, Unassigned
  <2>8. CASE ~Holds(q)
    <3>1. QueueOf'[q] = QueueOf[q]
      BY <1>1, <2>8 DEF QueueOf, Holds, Unassigned
    <3>2. QueueOf' = QueueOf
      BY <2>6, <3>1 DEF QueueOf
    <3> QED BY <2>7, <3>2 DEF Channels!vars, HeldBy, QueueOf, SentBy
  <2>9. CASE Holds(q)
    <3>1. Holds(q)' /\ HeldBy[q] # Unassigned
      BY <1>1, <2>9 DEF Holds, HeldBy, Unassigned
    <3>2. QueueOf[q] = d \o r
      BY <2>3, <2>4, <2>9 DEF QueueOf
    <3>3. QueueOf'[q] = r
      <4>1. <<>> \o r = r
        BY ConcatEmptySeq
      <4> QED BY <2>5, <3>1, <4>1 DEF QueueOf
    <3>4. Len(d) = ChunkLen
      BY <1>1, <1>2, <1>4, <2>2, <2>4 DEF DataKept
    <3>5. Len(d \o r) = Len(d) + Len(r) /\ Len(d) \in Nat /\ Len(r) \in Nat /\ d \o r \in Seq(Units)
      BY ConcatProperties, LenProperties
    <3>6. SubSeq(d \o r, Len(d) + 1, Len(d \o r)) = r
      <4> DEFINE t == SubSeq(d \o r, Len(d) + 1, Len(d \o r))
      <4>1. \A k \in (Len(d) + 1)..Len(d \o r) : (d \o r)[k] \in Units
        BY <3>5, ElementOfSeq
      <4>2. /\ t \in Seq(Units) /\ Len(t) = Len(r)
            /\ \A k \in 1..Len(r) : t[k] = (d \o r)[Len(d) + k]
        BY <3>5, <4>1, SubSeqProperties
      <4>3. \A k \in 1..Len(r) : (d \o r)[Len(d) + k] = r[k]
        BY <3>5, ConcatProperties
      <4> HIDE DEF t
      <4>4. t = r
        BY <4>2, <4>3, SeqEqual
      <4> QED BY <4>4 DEF t
    <3>7. QueueOf' = [QueueOf EXCEPT ![q] = SubSeq(@, ChunkLen + 1, Len(@))]
      <4>1. QueueOf'[q] = SubSeq(QueueOf[q], ChunkLen + 1, Len(QueueOf[q]))
        BY <3>2, <3>3, <3>4, <3>6
      <4> QED BY <2>6, <4>1 DEF QueueOf
    <3>8. Len(QueueOf[q]) >= ChunkLen
      BY <3>2, <3>4, <3>5
    <3>9. Channels!Mix(q)
      BY <2>7, <3>1, <3>7, <3>8
      DEF Channels!Mix, Channels!Unassigned, Unassigned, HeldBy, QueueOf, SentBy
    <3> QED BY <3>9 DEF Channels!Next
  <2> QED BY <2>8, <2>9
<1> QED BY <1>3, <1>4

LEMMA QuietMixerStep ==
  ASSUME \/ BeginThread \/ ClearExit \/ EndThread \/ DeviceStep
         \/ MixerLock("idle", "reading") \/ MixerLock("waiting", "mixing")
         \/ MixerFetch("reading", "read") \/ MixerFetch("mixing", "mix")
         \/ MixerUnlock("reading", "waiting") \/ MixerUnlock("mixing", "idle")
         \/ UNCHANGED vars
  PROVE  [Channels!Next]_(Channels!vars)
<1>1. UNCHANGED <<alive, data, inputPortID>>
  BY DEF BeginThread, ClearExit, EndThread, MixerLock, MixerFetch, MixerUnlock, vars, data,
         DeviceStep, CloseDevice, RequestExit, JoinMixer, OpenDevice
<1> QED BY <1>1, ChannelsStutter DEF Holds, data, Unassigned

\* The unlocked steps of many threads on the masks, the indices and the rings
\* amount to one private, lossless, ordered channel for each stream.
THEOREM MixerRefinesChannels ==
  ASSUME Framework = Streams
  PROVE  Spec => ChannelsSpec
<1>1. Init => Channels!Init
  BY DEF Init, Channels!Init, Channels!Unassigned, Unassigned, Holds
<1>2. MixerInv /\ [Next]_vars => [Channels!Next]_(Channels!vars)
  <2> SUFFICES ASSUME MixerInv, [Next]_vars PROVE [Channels!Next]_(Channels!vars)
    OBVIOUS
  <2>1. ASSUME NEW s \in Streams, StreamStep(s) PROVE [Channels!Next]_(Channels!vars)
    <3>1. CASE SetMask(s)
      BY <3>1, SetMaskRefines DEF Channels!Next
    <3>2. CASE FreePort(s)
      BY <3>2, FreePortRefines DEF Channels!Next
    <3> QED BY <2>1, <3>1, <3>2, FillRingRefines, QuietStreamStep DEF StreamStep
  <2>2. CASE MixerStep
    BY <2>2, QuietMixerStep, MixerReadRefines, MixerMixRefines DEF MixerStep
  <2>3. CASE DeviceStep \/ UNCHANGED vars
    BY <2>3, QuietMixerStep
  <2> QED BY <2>1, <2>2, <2>3 DEF Next
<1> QED BY <1>1, <1>2, MixerInvariant, PTL DEF Spec, ChannelsSpec, Channels!Spec
============================================================================
