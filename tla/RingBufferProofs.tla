-------------------------- MODULE RingBufferProofs --------------------------
(***************************************************************************)
(* Theorems about RingBuffer for every ring size, every chunk length and   *)
(* every content: the pointers stay inside the allocation, and the ring    *)
(* implements the bounded FIFO of BoundedFifo.                             *)
(***************************************************************************)
EXTENDS RingBuffer, TLAPS

RingInv == TypeOK /\ InBounds

\* The size a resize is on its way to is one it was asked for.
ResizeArgument == resizing # "no" => newSize \in Sizes

----------------------------------------------------------------------------
(* The pointer arithmetic. *)

\* What may be read is at most the ring, what may be written is the rest.
LEMMA SpaceLemma ==
  ASSUME RingInv
  PROVE  /\ get_read_space \in Nat
         /\ get_write_space \in Nat
         /\ live => get_read_space + get_write_space = size
         /\ ~live => get_read_space = 0
BY DEF RingInv, TypeOK, InBounds, get_read_space, get_write_space

\* A pointer moved by at most the size of the ring stays in the ring.
LEMMA PointerLemma ==
  ASSUME RingInv, live, NEW p \in 0..(size - 1), NEW n \in 0..size
  PROVE  update_pointer(p, n) \in 0..(size - 1)
BY DEF RingInv, TypeOK, InBounds, update_pointer

\* A read of at most the readable bytes returns that many bytes.
LEMMA ReadLemma ==
  ASSUME RingInv, live, NEW n \in 0..get_read_space
  PROVE  read_from_buffer(n) \in [1..n -> Bytes]
<1>1. get_read_space \in 0..size
  BY SpaceLemma DEF RingInv, TypeOK
<1>2. rd \in 0..(size - 1) /\ size \in Nat /\ mem \in [0..(size - 1) -> Bytes]
  BY DEF RingInv, TypeOK, InBounds, Cap
<1>3. ASSUME NEW i \in 1..n
      PROVE  mem[update_pointer(rd, i - 1)] \in Bytes
  <2>1. i - 1 \in 0..size
    BY <1>1, <1>2
  <2>2. update_pointer(rd, i - 1) \in 0..(size - 1)
    BY <1>2, <2>1, PointerLemma
  <2>3. QED BY <1>2, <2>2
<1>4. QED BY <1>3 DEF read_from_buffer

\* A count clipped to the room is a count that fits it.
LEMMA LeastLemma ==
  ASSUME NEW a \in Nat, NEW b \in Nat
  PROVE  /\ Least(a, b) \in Nat
         /\ Least(a, b) <= a
         /\ Least(a, b) <= b
BY DEF Least

----------------------------------------------------------------------------
(* The invariant. *)

\* What a memset leaves is a buffer of bytes.
LEMMA ZeroedLemma ==
  ASSUME NEW n \in Nat
  PROVE  Zeroed(n) \in [0..(n - 1) -> Bytes]
BY RingAssumption DEF Zeroed

\* What a call returns has the type of io when its count and data have.
LEMMA ReturnsLemma ==
  ASSUME NEW op \in {"write", "read", "seek", "rspace", "wspace"},
         NEW n \in Int, NEW data \in Seq(Bytes), Returns(op, n, data)
  PROVE  io' \in [op : {"none", "write", "read", "seek", "rspace", "wspace"},
                  n : Int, data : Seq(Bytes)]
BY DEF Returns

\* A ring starts without storage.
LEMMA RingInit == Init => RingInv
<1> SUFFICES ASSUME Init PROVE RingInv
  OBVIOUS
<1>1. mem \in [0..(Cap - 1) -> Bytes]
  BY ZeroedLemma DEF Init, Cap
<1>2. io \in [op : {"none", "write", "read", "seek", "rspace", "wspace"},
              n : Int, data : Seq(Bytes)]
  BY DEF Init
<1>3. QED
  BY <1>1, <1>2 DEF Init, RingInv, TypeOK, InBounds

\* Allocation and release leave a consistent ring, whatever it held before.
LEMMA InitBufferInv ==
  ASSUME RingInv, ~live, NEW n \in Nat \ {0}, NEW ok \in BOOLEAN,
         InitBuffer(n, ok), resizing' = "no", newSize' \in Nat,
         UNCHANGED <<io, fault>>
  PROVE  RingInv'
<1>1. mem' \in [0..(Cap' - 1) -> Bytes]
  BY ZeroedLemma DEF InitBuffer, RingInv, TypeOK, Cap
<1>2. CASE ok
  <2>1. live' /\ rd' = 0 /\ wr' = 0 /\ lastIsWrite' = 0 /\ size' = n
    BY <1>2 DEF InitBuffer
  <2>2. QED
    BY <1>1, <2>1 DEF RingInv, TypeOK, InBounds
<1>3. CASE ~ok
  <2>1. live' = FALSE /\ UNCHANGED <<rd, wr, lastIsWrite>> /\ size' = n
    BY <1>3 DEF InitBuffer
  <2>2. rd' = 0 /\ wr' = 0 /\ lastIsWrite' = 0
    BY <2>1 DEF RingInv, InBounds
  <2>3. QED
    BY <1>1, <2>1, <2>2 DEF RingInv, TypeOK, InBounds
<1>4. QED BY <1>2, <1>3

\* ring_buffer_release, on its own or as the first part of a resize, leaves a
\* ring without storage that satisfies the invariant.
LEMMA ReleaseBufferInv ==
  ASSUME RingInv, ReleaseBuffer, UNCHANGED <<io, fault>>, newSize' \in Nat,
         \/ resizing' = "no"
         \/ resizing' = "released" /\ newSize' > 0
  PROVE  RingInv'
<1>1. mem' \in [0..(Cap' - 1) -> Bytes]
  BY ZeroedLemma DEF ReleaseBuffer, Cap
<1>2. QED
  BY <1>1 DEF ReleaseBuffer, RingInv, TypeOK, InBounds

\* A write copies only inside the allocation and moves wr by what it copied.
LEMMA WriteInv ==
  ASSUME RingInv, NEW data \in Chunks, ring_buffer_write(data)
  PROVE  RingInv'
<1> DEFINE n == IF NoBuffer THEN 0 ELSE Least(Len(data), get_write_space)
<1>1. data \in Seq(Bytes) /\ Len(data) \in Nat
  BY RingAssumption
<1>2. n \in Nat /\ n <= Len(data) /\ (~NoBuffer => n <= get_write_space)
  BY <1>1, SpaceLemma, LeastLemma
<1>3. NoBuffer => ~live
  BY DEF RingInv, InBounds, NoBuffer
<1>4. mem' \in [0..(Cap - 1) -> Bytes]
  <2>1. mem \in [0..(Cap - 1) -> Bytes]
    BY DEF RingInv, TypeOK
  <2>2. ASSUME NEW i \in DOMAIN mem, Ahead(wr, i) < n
        PROVE  data[Ahead(wr, i) + 1] \in Bytes
    <3>1. i \in 0..(Cap - 1) /\ i \in Int /\ live
      BY <2>1 DEF RingInv, TypeOK, Cap
    <3>2. Ahead(wr, i) \in Nat
      BY <3>1 DEF RingInv, TypeOK, InBounds, Ahead, Cap
    <3>3. Ahead(wr, i) + 1 \in 1..Len(data)
      BY <1>1, <1>2, <2>2, <3>2
    <3>4. QED BY <1>1, <3>3
  <2>3. mem' = [i \in DOMAIN mem |->
                  IF Ahead(wr, i) < n THEN data[Ahead(wr, i) + 1] ELSE mem[i]]
    BY DEF ring_buffer_write, write_to_buffer
  <2>4. QED BY <2>1, <2>2, <2>3
<1>5. live => wr' \in 0..(size - 1)
  <2>1. live => n \in 0..size /\ wr \in 0..(size - 1)
    BY <1>2, <1>3, SpaceLemma DEF RingInv, TypeOK, InBounds, NoBuffer
  <2>2. QED
    BY <2>1, PointerLemma DEF ring_buffer_write, NoBuffer, RingInv, InBounds
<1>6. ~live => wr' = wr /\ lastIsWrite' = lastIsWrite
  BY DEF ring_buffer_write, NoBuffer
<1>7. UNCHANGED <<live, rd, size, resizing, newSize, fault>>
  BY DEF ring_buffer_write
<1>8. lastIsWrite' \in {0, 1}
  BY DEF ring_buffer_write, RingInv, TypeOK
<1>9. io' \in [op : {"none", "write", "read", "seek", "rspace", "wspace"},
               n : Int, data : Seq(Bytes)]
  <2>1. io' = [op |-> "write", n |-> n, data |-> <<>>]
    BY DEF ring_buffer_write, Returns
  <2>2. QED BY <1>2, <2>1
<1>10. wr' \in Nat
  BY <1>5, <1>6 DEF RingInv, TypeOK, InBounds
<1>11. QED
  BY <1>4, <1>5, <1>6, <1>7, <1>8, <1>9, <1>10 DEF RingInv, TypeOK, InBounds, Cap

\* A read or a seek moves rd by at most the readable bytes.
LEMMA AdvanceInv ==
  ASSUME RingInv, NEW n \in Nat,
         ~NoBuffer => n <= get_read_space /\ rd' = update_pointer(rd, n),
         NoBuffer => n = 0 /\ rd' = rd,
         n > 0 => lastIsWrite' = 0,
         n = 0 => lastIsWrite' = lastIsWrite,
         io' \in [op : {"none", "write", "read", "seek", "rspace", "wspace"},
                  n : Int, data : Seq(Bytes)],
         UNCHANGED <<live, mem, wr, size, resizing, newSize, fault>>,
         lastIsWrite' \in {0, 1}
  PROVE  RingInv'
<1>1. live => ~NoBuffer
  BY DEF RingInv, InBounds, NoBuffer, TypeOK
<1>2. live => rd' \in 0..(size - 1)
  <2>1. live => n \in 0..size /\ rd \in 0..(size - 1)
    BY <1>1, SpaceLemma DEF RingInv, TypeOK, InBounds
  <2>2. QED BY <1>1, <2>1, PointerLemma
<1>3. ~live => rd' = rd /\ lastIsWrite' = lastIsWrite
  BY DEF NoBuffer
<1>4. rd' \in Nat
  BY <1>2, <1>3 DEF RingInv, TypeOK
<1>5. mem' \in [0..(Cap' - 1) -> Bytes]
  BY DEF RingInv, TypeOK, Cap
<1>6. QED
  BY <1>2, <1>3, <1>4, <1>5 DEF RingInv, TypeOK, InBounds

\* A read moves only the read pointer, by at most what there is to read.
LEMMA ReadInv ==
  ASSUME RingInv, NEW k \in Counts, ring_buffer_read(k)
  PROVE  RingInv'
<1> DEFINE n == IF NoBuffer THEN 0 ELSE Least(k, get_read_space)
<1>1. k \in Nat
  BY RingAssumption
<1>2. n \in Nat /\ (~NoBuffer => n <= get_read_space)
  BY <1>1, SpaceLemma, LeastLemma
<1>3. read_from_buffer(n) \in Seq(Bytes)
  <2>1. CASE NoBuffer
    <3>1. read_from_buffer(0) = <<>>
      BY DEF read_from_buffer
    <3>2. n = 0
      BY <2>1
    <3> HIDE DEF n
    <3>3. <<>> \in Seq(Bytes)
      OBVIOUS
    <3>4. QED BY <3>1, <3>2, <3>3, Zenon
  <2>2. CASE ~NoBuffer
    <3> HIDE DEF n
    <3>1. live /\ n \in 0..get_read_space
      BY <1>2, <2>2, SpaceLemma DEF NoBuffer
    <3>2. read_from_buffer(n) \in [1..n -> Bytes]
      BY <3>1, ReadLemma
    <3>3. QED BY <1>2, <3>2
  <2>3. QED BY <2>1, <2>2
<1>4. Returns("read", n, read_from_buffer(n))
  BY DEF ring_buffer_read
<1> HIDE DEF n
<1>5. io' \in [op : {"none", "write", "read", "seek", "rspace", "wspace"},
               n : Int, data : Seq(Bytes)]
  BY <1>2, <1>3, <1>4, ReturnsLemma
<1>6. /\ rd' = (IF NoBuffer THEN rd ELSE update_pointer(rd, n))
      /\ lastIsWrite' = (IF n > 0 THEN 0 ELSE lastIsWrite)
      /\ UNCHANGED <<live, mem, wr, size, resizing, newSize, fault>>
  BY DEF ring_buffer_read, n
<1>7. /\ lastIsWrite' \in {0, 1}
      /\ n > 0 => lastIsWrite' = 0
      /\ n = 0 => lastIsWrite' = lastIsWrite
  BY <1>2, <1>6 DEF RingInv, TypeOK
<1>8. NoBuffer => n = 0
  BY DEF n
<1>9. QED
  BY <1>2, <1>5, <1>6, <1>7, <1>8, AdvanceInv

\* A seek moves the read pointer as a read does.
LEMMA SeekInv ==
  ASSUME RingInv, NEW k \in Drops, ring_buffer_seek(k)
  PROVE  RingInv'
<1> DEFINE n == IF NoBuffer THEN 0 ELSE Least(k, get_read_space)
<1>1. k \in Nat
  BY RingAssumption
<1>2. n \in Nat /\ (~NoBuffer => n <= get_read_space)
  BY <1>1, SpaceLemma, LeastLemma
<1>3. Returns("seek", n, <<>>) /\ <<>> \in Seq(Bytes)
  BY DEF ring_buffer_seek
<1> HIDE DEF n
<1>4. io' \in [op : {"none", "write", "read", "seek", "rspace", "wspace"},
               n : Int, data : Seq(Bytes)]
  BY <1>2, <1>3 DEF Returns
<1>5. /\ rd' = (IF NoBuffer THEN rd ELSE update_pointer(rd, n))
      /\ lastIsWrite' = (IF n > 0 THEN 0 ELSE lastIsWrite)
      /\ UNCHANGED <<live, mem, wr, size, resizing, newSize, fault>>
  BY DEF ring_buffer_seek, n
<1>6. /\ lastIsWrite' \in {0, 1}
      /\ n > 0 => lastIsWrite' = 0
      /\ n = 0 => lastIsWrite' = lastIsWrite
  BY <1>2, <1>5 DEF RingInv, TypeOK
<1>7. NoBuffer => n = 0
  BY DEF n
<1>8. QED
  BY <1>2, <1>4, <1>5, <1>6, <1>7, AdvanceInv

\* A memset over the size of the ring keeps its bytes bytes, or is a fault.
LEMMA MemsetLemma ==
  ASSUME RingInv, NEW n \in Nat, Memset(n), UNCHANGED live, size' = n
  PROVE  mem' \in [0..(Cap' - 1) -> Bytes] /\ fault' \in BOOLEAN
BY ZeroedLemma DEF Memset, RingInv, TypeOK, Cap

\* A reset puts both pointers back to the start.
LEMMA ResetInv ==
  ASSUME RingInv, ring_buffer_reset
  PROVE  RingInv'
<1>1. mem' \in [0..(Cap' - 1) -> Bytes] /\ fault' \in BOOLEAN
  BY MemsetLemma DEF ring_buffer_reset, RingInv, TypeOK
<1>2. QED
  BY <1>1 DEF ring_buffer_reset, RingInv, TypeOK, InBounds

\* A clear overwrites the bytes and leaves the pointers.
LEMMA ClearInv ==
  ASSUME RingInv, ring_buffer_clear
  PROVE  RingInv'
<1>1. mem' \in [0..(Cap' - 1) -> Bytes] /\ fault' \in BOOLEAN
  BY MemsetLemma DEF ring_buffer_clear, RingInv, TypeOK
<1>2. QED
  BY <1>1 DEF ring_buffer_clear, RingInv, TypeOK, InBounds

\* A resize that does not grow keeps both pointers inside the smaller size.
LEMMA ShrinkInv ==
  ASSUME RingInv, NEW n \in Sizes, ResizeShrink(n)
  PROVE  RingInv'
<1>1. n \in Nat \ {0}
  BY RingAssumption
<1>2. mem' \in [0..(Cap' - 1) -> Bytes] /\ fault' \in BOOLEAN
  BY <1>1, MemsetLemma DEF ResizeShrink
<1>3. QED
  BY <1>1, <1>2 DEF ResizeShrink, RingInv, TypeOK, InBounds

\* Every call, and every step of a resize, preserves the invariant.
LEMMA RingStep == RingInv /\ [Next]_vars => RingInv'
<1> SUFFICES ASSUME RingInv, [Next]_vars PROVE RingInv'
  OBVIOUS
<1>1. ASSUME NEW data \in Chunks, ring_buffer_write(data) PROVE RingInv'
  BY <1>1, WriteInv
<1>2. ASSUME NEW k \in Counts, ring_buffer_read(k) PROVE RingInv'
  BY <1>2, ReadInv
<1>3. ASSUME NEW k \in Drops, ring_buffer_seek(k) PROVE RingInv'
  BY <1>3, SeekInv
<1>4. ASSUME NEW n \in Sizes, NEW ok \in BOOLEAN, ring_buffer_init(n, ok) PROVE RingInv'
  <2>1. n \in Nat \ {0}
    BY RingAssumption
  <2>2. resizing' = "no" /\ newSize' \in Nat
    BY <1>4 DEF ring_buffer_init, RingInv, TypeOK
  <2>3. QED BY <1>4, <2>1, <2>2, InitBufferInv DEF ring_buffer_init
<1>5. CASE ring_buffer_release
  BY <1>5, ReleaseBufferInv DEF ring_buffer_release, RingInv, TypeOK
<1>6. CASE ring_buffer_reset
  BY <1>6, ResetInv
<1>7. CASE ring_buffer_clear
  BY <1>7, ClearInv
<1>8. ASSUME NEW n \in Sizes, ResizeRelease(n) PROVE RingInv'
  BY <1>8, RingAssumption, ReleaseBufferInv DEF ResizeRelease
<1>9. CASE ResizeStoreSize
  BY <1>9 DEF ResizeStoreSize, RingInv, TypeOK, InBounds, Cap
<1>10. ASSUME NEW ok \in BOOLEAN, ResizeInit(ok) PROVE RingInv'
  <2>1. ~live /\ newSize \in Nat \ {0} /\ InitBuffer(newSize, ok)
    BY <1>10 DEF ResizeInit, RingInv, TypeOK, InBounds
  <2>2. resizing' = "no" /\ newSize' = 0 /\ UNCHANGED <<io, fault>>
    BY <1>10 DEF ResizeInit
  <2>3. QED BY <2>1, <2>2, InitBufferInv
<1>11. ASSUME NEW n \in Sizes, ResizeShrink(n) PROVE RingInv'
  BY <1>11, ShrinkInv
<1>12. CASE get_buffer_read_space
  <2>1. io' \in [op : {"none", "write", "read", "seek", "rspace", "wspace"},
                 n : Int, data : Seq(Bytes)]
    BY <1>12, SpaceLemma DEF get_buffer_read_space, Returns
  <2>2. QED
    BY <1>12, <2>1 DEF get_buffer_read_space, RingInv, TypeOK, InBounds, Cap
<1>13. CASE get_buffer_write_space
  <2>1. io' \in [op : {"none", "write", "read", "seek", "rspace", "wspace"},
                 n : Int, data : Seq(Bytes)]
    BY <1>13, SpaceLemma DEF get_buffer_write_space, Returns
  <2>2. QED
    BY <1>13, <2>1 DEF get_buffer_write_space, RingInv, TypeOK, InBounds, Cap
<1>14. CASE UNCHANGED vars
  BY <1>14 DEF vars, RingInv, TypeOK, InBounds, Cap
<1>15. QED
  BY <1>1, <1>2, <1>3, <1>4, <1>5, <1>6, <1>7, <1>8, <1>9, <1>10, <1>11, <1>12,
     <1>13, <1>14 DEF Next, Call

\* The invariant of every behaviour of the ring.
LEMMA RingInvariant == Spec => []RingInv
BY RingInit, RingStep, PTL DEF Spec

\* The argument of a resize under way is one of the sizes.
LEMMA ResizeInvariant == Spec => []ResizeArgument
<1>1. Init => ResizeArgument
  BY DEF Init, ResizeArgument
<1>2. ResizeArgument /\ [Next]_vars => ResizeArgument'
  BY DEF ResizeArgument, Next, Call, vars, ring_buffer_write, ring_buffer_read,
     ring_buffer_seek, ring_buffer_init, ring_buffer_release, ring_buffer_reset,
     ring_buffer_clear, ResizeRelease, ResizeStoreSize, ResizeInit, ResizeShrink,
     get_buffer_read_space, get_buffer_write_space
<1>3. QED
  BY <1>1, <1>2, PTL DEF Spec

\* Every field keeps its type, for every ring size, chunk and byte value.
THEOREM RingTypeOK == Spec => []TypeOK
<1>1. RingInv => TypeOK
  BY DEF RingInv
<1>2. QED BY <1>1, RingInvariant, PTL

\* Both pointers address the allocation after every call and during a resize.
THEOREM RingInBounds == Spec => []InBounds
<1>1. RingInv => InBounds
  BY DEF RingInv
<1>2. QED BY <1>1, RingInvariant, PTL

----------------------------------------------------------------------------
(* The refinement: a ring with storage is the queue of its readable bytes. *)

Queue == IF live THEN Contents ELSE <<>>

QueueFacts ==
  /\ Queue \in Seq(Bytes)
  /\ Len(Queue) = IF live THEN get_read_space ELSE 0
  /\ live => /\ Cap - Len(Queue) = get_write_space
             /\ \A i \in 1..get_read_space : Queue[i] = mem[update_pointer(rd, i - 1)]

\* The queue of a ring: its length, the room it leaves, and its elements.
LEMMA QueueLemma == RingInv => QueueFacts
<1> SUFFICES ASSUME RingInv PROVE QueueFacts
  OBVIOUS
<1> USE DEF QueueFacts
<1>1. CASE live
  <2>1. get_read_space \in Nat /\ get_read_space \in 0..get_read_space
    BY SpaceLemma
  <2>2. Contents \in [1..get_read_space -> Bytes]
    BY <1>1, <2>1, ReadLemma DEF Contents
  <2>3. Contents \in Seq(Bytes) /\ Len(Contents) = get_read_space
    BY <2>1, <2>2
  <2>4. \A i \in 1..get_read_space : Contents[i] = mem[update_pointer(rd, i - 1)]
    BY DEF Contents, read_from_buffer
  <2>5. Cap - get_read_space = get_write_space
    BY <1>1, SpaceLemma DEF Cap, RingInv, TypeOK
  <2>6. QED BY <1>1, <2>3, <2>4, <2>5 DEF Queue
<1>2. CASE ~live
  <2>1. <<>> \in Seq(Bytes) /\ Len(<<>>) = 0
    OBVIOUS
  <2>2. QED BY <1>2, <2>1 DEF Queue
<1>3. QED BY <1>1, <1>2

\* A sequence is determined by its length and its elements.
LEMMA SeqEqual ==
  ASSUME NEW S, NEW s \in Seq(S), NEW t \in Seq(S), Len(s) = Len(t),
         \A i \in 1..Len(s) : s[i] = t[i]
  PROVE  s = t
OBVIOUS

\* The length and the elements of a concatenation.
LEMMA ConcatLemma ==
  ASSUME NEW S, NEW s \in Seq(S), NEW t \in Seq(S)
  PROVE  /\ s \o t \in Seq(S)
         /\ Len(s \o t) = Len(s) + Len(t)
         /\ \A i \in 1..Len(s) : (s \o t)[i] = s[i]
         /\ \A i \in 1..Len(t) : (s \o t)[Len(s) + i] = t[i]
OBVIOUS

\* A write appends the bytes it accepts, as many as there is room for.
LEMMA WriteRefines ==
  ASSUME RingInv, RingInv', NEW data \in Chunks, ring_buffer_write(data)
  PROVE  Fifo!Put(data)
<1> DEFINE n == IF NoBuffer THEN 0 ELSE Least(Len(data), get_write_space)
<1>1. data \in Seq(Bytes) /\ Len(data) \in Nat
  BY RingAssumption
<1>2. n \in Nat /\ n <= Len(data) /\ (~NoBuffer => n <= get_write_space)
  BY <1>1, SpaceLemma, LeastLemma
<1>3. NoBuffer <=> ~live
  BY DEF RingInv, InBounds, NoBuffer, TypeOK
<1>4. n = Fifo!Least(Len(data), Cap - Len(Queue))
  BY <1>1, <1>3, QueueLemma, SpaceLemma DEF QueueFacts, Fifo!Least, Least, Cap
<1>5. UNCHANGED Cap
  BY DEF ring_buffer_write, Cap
<1>6. io' = [op |-> "write", n |-> n, data |-> <<>>]
  BY DEF ring_buffer_write, Returns
<1>7. /\ mem' = write_to_buffer(data, n)
      /\ live => wr' = update_pointer(wr, n)
      /\ n > 0 => lastIsWrite' = 1
      /\ n = 0 => lastIsWrite' = lastIsWrite
      /\ UNCHANGED <<live, rd, size>>
  BY <1>3, <1>2 DEF ring_buffer_write
<1> HIDE DEF n
<1>8. Queue' = Queue \o SubSeq(data, 1, n)
  <2>1. CASE ~live
    <3>1. n = 0
      BY <2>1, <1>3 DEF n
    <3>2. Queue = <<>> /\ Queue' = <<>>
      BY <2>1, <1>7 DEF Queue
    <3>3. SubSeq(data, 1, 0) = <<>>
      BY <1>1
    <3>4. QED BY <3>1, <3>2, <3>3
  <2>2. CASE live
    <3>1. live' /\ size' = size /\ size \in Nat /\ rd' = rd
          /\ rd \in 0..(size - 1) /\ wr \in 0..(size - 1)
      BY <2>2, <1>7 DEF RingInv, TypeOK, InBounds
    <3>2. n <= get_write_space
      BY <2>2, <1>2, <1>3
    <3>3. get_read_space' = get_read_space + n
      <4>1. wr' = IF wr + n >= size THEN wr + n - size ELSE wr + n
        BY <1>7, <2>2 DEF update_pointer
      <4>2. lastIsWrite \in {0, 1} /\ n \in Nat
        BY <1>2 DEF RingInv, TypeOK
      <4>3. CASE n = 0
        BY <4>1, <4>2, <4>3, <1>7, <3>1 DEF get_read_space
      <4>4. CASE n > 0
        <5>1. lastIsWrite' = 1
          BY <4>4, <1>7
        <5>2. get_write_space > 0
          BY <4>2, <4>4, <3>1, <3>2 DEF get_write_space
        <5>3. wr = rd => lastIsWrite = 0
          BY <5>2, <4>2, <3>1 DEF get_write_space
        <5>4. CASE wr > rd
          BY <5>1, <5>4, <4>1, <4>2, <4>4, <3>1, <3>2 DEF get_read_space, get_write_space
        <5>5. CASE wr < rd
          BY <5>1, <5>5, <4>1, <4>2, <4>4, <3>1, <3>2 DEF get_read_space, get_write_space
        <5>6. CASE wr = rd
          BY <5>1, <5>3, <5>6, <4>1, <4>2, <4>4, <3>1, <3>2 DEF get_read_space, get_write_space
        <5>7. QED BY <5>4, <5>5, <5>6, <3>1
      <4>5. QED BY <4>2, <4>3, <4>4
    <3>4. SubSeq(data, 1, n) \in Seq(Bytes) /\ Len(SubSeq(data, 1, n)) = n
          /\ \A i \in 1..n : SubSeq(data, 1, n)[i] = data[i]
      BY <1>1, <1>2
    <3>5. /\ Queue \in Seq(Bytes) /\ Len(Queue) = get_read_space
          /\ \A i \in 1..get_read_space : Queue[i] = mem[update_pointer(rd, i - 1)]
      BY <2>2, QueueLemma DEF QueueFacts
    <3>6. /\ Queue' \in Seq(Bytes) /\ Len(Queue') = get_read_space'
          /\ \A i \in 1..get_read_space' :
                 Queue'[i] = mem'[update_pointer(rd, i - 1)]
      <4>1. QueueFacts'
        BY QueueLemma, PTL
      <4>2. QED BY <4>1, <3>1 DEF QueueFacts, update_pointer
    <3>7. /\ Queue \o SubSeq(data, 1, n) \in Seq(Bytes)
          /\ Len(Queue \o SubSeq(data, 1, n)) = get_read_space + n
          /\ \A i \in 1..get_read_space : (Queue \o SubSeq(data, 1, n))[i] = Queue[i]
          /\ \A i \in 1..n : (Queue \o SubSeq(data, 1, n))[get_read_space + i] = data[i]
      <4> DEFINE new == SubSeq(data, 1, n)
      <4>1. new \in Seq(Bytes) /\ Len(new) = n /\ \A i \in 1..n : new[i] = data[i]
        BY <3>4
      <4> HIDE DEF new
      <4>2. /\ Queue \o new \in Seq(Bytes)
            /\ Len(Queue \o new) = get_read_space + n
            /\ \A i \in 1..get_read_space : (Queue \o new)[i] = Queue[i]
            /\ \A i \in 1..n : (Queue \o new)[get_read_space + i] = new[i]
        <5>1. /\ Queue \o new \in Seq(Bytes)
              /\ Len(Queue \o new) = Len(Queue) + Len(new)
              /\ \A i \in 1..Len(Queue) : (Queue \o new)[i] = Queue[i]
              /\ \A i \in 1..Len(new) : (Queue \o new)[Len(Queue) + i] = new[i]
          <6>1. Queue \in Seq(Bytes) /\ new \in Seq(Bytes)
            BY <3>5, <4>1
          <6> HIDE DEF Queue
          <6>2. QED BY <6>1, ConcatLemma
        <5>2. Len(Queue) = get_read_space /\ Len(new) = n
          BY <3>5, <4>1
        <5>3. QED BY <5>1, <5>2, Zenon
      <4>3. QED BY <4>1, <4>2 DEF new
    <3>8. ASSUME NEW i \in 1..(get_read_space + n)
          PROVE  mem'[update_pointer(rd, i - 1)] =
                   IF i <= get_read_space THEN mem[update_pointer(rd, i - 1)]
                                          ELSE data[i - get_read_space]
      <4> DEFINE a == update_pointer(rd, i - 1)
      <4>1. a \in 0..(size - 1)
        <5>1. get_read_space + n <= size /\ get_read_space \in Nat
          BY <3>1, <3>2, <1>2, <2>2, SpaceLemma
        <5>2. i - 1 \in 0..size
          BY <5>1, <1>2, <3>1
        <5>3. QED BY <2>2, <3>1, <5>2, PointerLemma
      <4>2. DOMAIN mem = 0..(size - 1)
        BY <2>2 DEF RingInv, TypeOK, Cap
      <4>3. mem'[a] = IF Ahead(wr, a) < n THEN data[Ahead(wr, a) + 1] ELSE mem[a]
        BY <1>7, <4>1, <4>2 DEF write_to_buffer
      <4>4. i <= get_read_space => ~(Ahead(wr, a) < n)
        BY <1>2, <2>2, <3>1, <3>2 DEF Ahead, update_pointer, get_read_space, get_write_space
      <4>5. i > get_read_space => Ahead(wr, a) = i - get_read_space - 1
        BY <1>2, <2>2, <3>1, <3>2 DEF Ahead, update_pointer, get_read_space, get_write_space
      <4>6. get_read_space \in Nat
        BY SpaceLemma
      <4> HIDE DEF a
      <4>7. CASE i <= get_read_space
        BY <4>3, <4>4, <4>7 DEF a
      <4>8. CASE i > get_read_space
        <5>1. Ahead(wr, a) < n /\ Ahead(wr, a) + 1 = i - get_read_space
          BY <4>5, <4>6, <4>8, <1>2
        <5>2. QED BY <5>1, <4>3, <4>6, <4>8 DEF a
      <4>9. QED BY <4>6, <4>7, <4>8
    <3>9. QED
      <4> DEFINE r == get_read_space
                 t == Queue \o SubSeq(data, 1, n)
      <4>1. r \in Nat
        BY SpaceLemma
      <4>2. /\ t \in Seq(Bytes) /\ Len(t) = r + n
            /\ \A i \in 1..r : t[i] = mem[update_pointer(rd, i - 1)]
            /\ \A i \in 1..n : t[r + i] = data[i]
        BY <3>5, <3>7
      <4>3. /\ Queue' \in Seq(Bytes) /\ Len(Queue') = r + n
            /\ \A i \in 1..(r + n) :
                 Queue'[i] = IF i <= r THEN mem[update_pointer(rd, i - 1)] ELSE data[i - r]
        BY <3>3, <3>6, <3>8
      <4> HIDE DEF r, t
      <4>4. ASSUME NEW i \in 1..(r + n)
            PROVE  Queue'[i] = t[i]
        <5>1. CASE i <= r
          BY <4>1, <4>2, <4>3, <5>1, <1>2
        <5>2. CASE i > r
          <6>1. i - r \in 1..n /\ r + (i - r) = i
            BY <5>2, <4>1, <1>2
          <6>2. t[i] = data[i - r]
            BY <6>1, <4>2
          <6>3. QED BY <6>2, <5>2, <4>1, <4>3, <1>2
        <5>3. QED BY <5>1, <5>2, <4>1, <1>2
      <4>5. Queue' = t
        BY <4>2, <4>3, <4>4, SeqEqual
      <4>6. QED BY <4>5 DEF t
  <2>3. QED BY <2>1, <2>2
<1>9. QED
  BY <1>4, <1>5, <1>6, <1>8 DEF Fifo!Put, Queue, Fifo!Least

\* Moving rd by n readable bytes drops the first n elements of the queue.
LEMMA AdvanceRefines ==
  ASSUME RingInv, RingInv', NEW n \in Nat,
         live => n <= get_read_space /\ rd' = update_pointer(rd, n),
         ~live => n = 0,
         n > 0 => lastIsWrite' = 0,
         n = 0 => lastIsWrite' = lastIsWrite,
         UNCHANGED <<live, mem, wr, size>>
  PROVE  /\ n <= Len(Queue)
         /\ Queue' = SubSeq(Queue, n + 1, Len(Queue))
         /\ live => read_from_buffer(n) = SubSeq(Queue, 1, n)
<1>1. CASE ~live
  <2>1. Queue = <<>> /\ Queue' = <<>> /\ n = 0
    BY <1>1 DEF Queue
  <2>2. SubSeq(<<>>, 1, 0) = <<>> /\ Len(<<>>) = 0
    OBVIOUS
  <2>3. QED BY <1>1, <2>1, <2>2
<1>2. CASE live
  <2>1. live' /\ size' = size /\ size \in Nat /\ wr' = wr
        /\ rd \in 0..(size - 1) /\ wr \in 0..(size - 1)
        /\ lastIsWrite \in {0, 1}
    BY <1>2 DEF RingInv, TypeOK, InBounds
  <2>2. get_read_space \in 0..size
    BY <1>2, <2>1, SpaceLemma
  <2>3. rd' = IF rd + n >= size THEN rd + n - size ELSE rd + n
    BY <1>2 DEF update_pointer
  <2>4. get_read_space' = get_read_space - n
    <3>1. CASE n = 0
      BY <2>1, <2>3, <3>1 DEF get_read_space
    <3>2. CASE n > 0
      <4>1. lastIsWrite' = 0 /\ n <= get_read_space
        BY <1>2, <3>2
      <4>2. wr = rd => lastIsWrite = 1
        BY <2>1, <3>2, <4>1 DEF get_read_space
      <4>3. CASE wr > rd
        BY <2>1, <2>3, <3>2, <4>1, <4>3 DEF get_read_space
      <4>4. CASE wr < rd
        BY <2>1, <2>3, <3>2, <4>1, <4>4 DEF get_read_space
      <4>5. CASE wr = rd
        BY <2>1, <2>3, <3>2, <4>1, <4>2, <4>5 DEF get_read_space
      <4>6. QED BY <2>1, <4>3, <4>4, <4>5
    <3>3. QED BY <3>1, <3>2
  <2>5. /\ Queue \in Seq(Bytes) /\ Len(Queue) = get_read_space
        /\ \A i \in 1..get_read_space : Queue[i] = mem[update_pointer(rd, i - 1)]
    BY <1>2, QueueLemma DEF QueueFacts
  <2>6. /\ Queue' \in Seq(Bytes) /\ Len(Queue') = get_read_space - n
        /\ \A i \in 1..(get_read_space - n) :
             Queue'[i] = mem[IF rd' + (i - 1) >= size THEN rd' + (i - 1) - size
                                                      ELSE rd' + (i - 1)]
    <3>1. QueueFacts'
      BY QueueLemma, PTL
    <3>2. QED BY <2>1, <2>4, <3>1 DEF QueueFacts, update_pointer
  <2>7. read_from_buffer(n) \in [1..n -> Bytes]
    BY <1>2, <2>2, ReadLemma
  <2> DEFINE r == get_read_space
             s == Queue
             t == Queue'
             u == SubSeq(Queue, n + 1, Len(Queue))
             v == SubSeq(Queue, 1, n)
             b == read_from_buffer(n)
  <2>8. r \in 0..size /\ n <= r
    BY <1>2, <2>2
  <2>9. /\ u \in Seq(Bytes) /\ Len(u) = r - n
        /\ \A i \in 1..(r - n) : u[i] = s[n + i]
    BY <2>5, <2>8
  <2>10. /\ v \in Seq(Bytes) /\ Len(v) = n
         /\ \A i \in 1..n : v[i] = s[i]
    BY <2>5, <2>8
  <2>11. /\ b \in Seq(Bytes) /\ Len(b) = n
         /\ \A i \in 1..n : b[i] = mem[update_pointer(rd, i - 1)]
    BY <2>7 DEF read_from_buffer
  <2>12. \A i \in 1..r : s[i] = mem[update_pointer(rd, i - 1)]
    BY <2>5
  <2>13. \A i \in 1..(r - n) : t[i] = mem[IF rd' + (i - 1) >= size
                                         THEN rd' + (i - 1) - size ELSE rd' + (i - 1)]
    BY <2>6
  <2>14. t \in Seq(Bytes) /\ Len(t) = r - n
    BY <2>6
  <2> HIDE DEF r, s, t, u, v, b
  <2>15. t = u
    <3>1. ASSUME NEW i \in 1..(r - n) PROVE t[i] = u[i]
      <4>1. n + i \in 1..r
        BY <2>1, <2>8
      <4>2. s[n + i] = mem[update_pointer(rd, n + i - 1)]
        BY <2>12, <4>1
      <4>3. update_pointer(rd, n + i - 1) =
              IF rd' + (i - 1) >= size THEN rd' + (i - 1) - size ELSE rd' + (i - 1)
        BY <2>1, <2>3, <2>8, <4>1 DEF update_pointer
      <4>4. QED BY <2>9, <2>13, <4>2, <4>3
    <3>2. QED BY <2>9, <2>14, <3>1, SeqEqual
  <2>16. b = v
    <3>1. ASSUME NEW i \in 1..n PROVE b[i] = v[i]
      <4>1. i \in 1..r
        BY <2>1, <2>8
      <4>2. QED BY <2>10, <2>11, <2>12, <4>1
    <3>2. QED BY <2>10, <2>11, <3>1, SeqEqual
  <2>17. QED BY <2>5, <2>8, <2>15, <2>16 DEF r, s, t, u, v, b
<1>3. QED BY <1>1, <1>2

\* The count a read or a seek is clipped to, on both sides of the mapping.
LEMMA ClipLemma ==
  ASSUME RingInv, NEW k \in Nat, NEW n,
         n = IF NoBuffer THEN 0 ELSE Least(k, get_read_space)
  PROVE  /\ n \in Nat
         /\ live => ~NoBuffer /\ n <= get_read_space
         /\ ~live => NoBuffer /\ n = 0
         /\ n = Fifo!Least(k, Len(Queue))
<1>1. NoBuffer <=> ~live
  BY DEF RingInv, InBounds, NoBuffer, TypeOK
<1>2. Len(Queue) = IF live THEN get_read_space ELSE 0
  BY QueueLemma DEF QueueFacts
<1>3. CASE live
  BY <1>1, <1>2, <1>3, SpaceLemma DEF Least, Fifo!Least
<1>4. CASE ~live
  BY <1>1, <1>2, <1>4 DEF Fifo!Least
<1>5. QED BY <1>3, <1>4

\* A read takes the oldest bytes off the FIFO.
LEMMA ReadRefines ==
  ASSUME RingInv, RingInv', NEW k \in Counts, ring_buffer_read(k)
  PROVE  Fifo!Take(k)
<1> DEFINE n == IF NoBuffer THEN 0 ELSE Least(k, get_read_space)
<1>1. k \in Nat
  BY RingAssumption
<1>2. /\ rd' = IF NoBuffer THEN rd ELSE update_pointer(rd, n)
      /\ lastIsWrite' = IF n > 0 THEN 0 ELSE lastIsWrite
      /\ io' = [op |-> "read", n |-> n, data |-> read_from_buffer(n)]
      /\ UNCHANGED <<live, mem, wr, size, resizing, newSize, fault>>
  BY DEF ring_buffer_read, Returns
<1>3. n = IF NoBuffer THEN 0 ELSE Least(k, get_read_space)
  OBVIOUS
<1> HIDE DEF n
<1>4. /\ n \in Nat
      /\ live => ~NoBuffer /\ n <= get_read_space
      /\ ~live => NoBuffer /\ n = 0
      /\ n = Fifo!Least(k, Len(Queue))
  BY <1>1, <1>3, ClipLemma
<1>5. /\ Queue' = SubSeq(Queue, n + 1, Len(Queue))
      /\ live => read_from_buffer(n) = SubSeq(Queue, 1, n)
  BY <1>2, <1>4, AdvanceRefines
<1>6. ~live => read_from_buffer(n) = SubSeq(Queue, 1, n)
  <2>1. read_from_buffer(0) = <<>> /\ SubSeq(<<>>, 1, 0) = <<>>
    BY DEF read_from_buffer
  <2>2. QED BY <2>1, <1>4 DEF Queue
<1>7. UNCHANGED Cap
  BY <1>2 DEF Cap
<1>8. QED
  BY <1>2, <1>4, <1>5, <1>6, <1>7 DEF Fifo!Take, Queue

\* A seek drops the oldest bytes of the FIFO.
LEMMA SeekRefines ==
  ASSUME RingInv, RingInv', NEW k \in Drops, ring_buffer_seek(k)
  PROVE  Fifo!Drop(k)
<1> DEFINE n == IF NoBuffer THEN 0 ELSE Least(k, get_read_space)
<1>1. k \in Nat
  BY RingAssumption
<1>2. /\ rd' = IF NoBuffer THEN rd ELSE update_pointer(rd, n)
      /\ lastIsWrite' = IF n > 0 THEN 0 ELSE lastIsWrite
      /\ io' = [op |-> "seek", n |-> n, data |-> <<>>]
      /\ UNCHANGED <<live, mem, wr, size, resizing, newSize, fault>>
  BY DEF ring_buffer_seek, Returns
<1>3. n = IF NoBuffer THEN 0 ELSE Least(k, get_read_space)
  OBVIOUS
<1> HIDE DEF n
<1>4. /\ n \in Nat
      /\ live => ~NoBuffer /\ n <= get_read_space
      /\ ~live => NoBuffer /\ n = 0
      /\ n = Fifo!Least(k, Len(Queue))
  BY <1>1, <1>3, ClipLemma
<1>5. Queue' = SubSeq(Queue, n + 1, Len(Queue))
  BY <1>2, <1>4, AdvanceRefines
<1>6. UNCHANGED Cap
  BY <1>2 DEF Cap
<1>7. QED
  BY <1>2, <1>4, <1>5, <1>6 DEF Fifo!Drop, Queue

\* The readable bytes of a ring that was zeroed are silence.
LEMMA ZeroedQueue ==
  RingInv /\ live /\ mem = Zeroed(size) => Queue = Fifo!Silence(get_read_space)
<1> SUFFICES ASSUME RingInv, live, mem = Zeroed(size)
             PROVE  Queue = Fifo!Silence(get_read_space)
  OBVIOUS
<1>1. size \in Nat /\ get_read_space \in 0..size /\ rd \in 0..(size - 1)
  BY SpaceLemma DEF RingInv, TypeOK, InBounds
<1>2. ASSUME NEW i \in 1..get_read_space
      PROVE  mem[update_pointer(rd, i - 1)] = Zero
  <2>1. i - 1 \in 0..size
    BY <1>1
  <2>2. update_pointer(rd, i - 1) \in 0..(size - 1)
    BY <1>1, <2>1, PointerLemma
  <2>3. QED BY <2>2 DEF Zeroed
<1>3. Queue = [i \in 1..get_read_space |-> mem[update_pointer(rd, i - 1)]]
  BY DEF Queue, Contents, read_from_buffer
<1>4. QED BY <1>2, <1>3 DEF Fifo!Silence

\* A ring whose pointers were set to its start is empty or full.
LEMMA RestartedQueue == rd = 0 /\ wr = 0 /\ lastIsWrite = 0 => Queue = <<>>
<1> SUFFICES ASSUME rd = 0, wr = 0, lastIsWrite = 0 PROVE Queue = <<>>
  OBVIOUS
<1>1. get_read_space = 0
  BY DEF get_read_space
<1>2. read_from_buffer(0) = <<>>
  BY DEF read_from_buffer
<1>3. QED BY <1>1, <1>2 DEF Queue, Contents

\* A reset empties the FIFO.
LEMMA ResetRefines == RingInv /\ ring_buffer_reset => Fifo!Empty
<1> SUFFICES ASSUME ring_buffer_reset PROVE Fifo!Empty
  OBVIOUS
<1>1. (rd = 0 /\ wr = 0 /\ lastIsWrite = 0 => Queue = <<>>)'
  BY RestartedQueue, PTL
<1>3. rd' = 0 /\ wr' = 0 /\ lastIsWrite' = 0
  BY DEF ring_buffer_reset
<1>4. Queue' = <<>>
  BY <1>1, <1>3
<1>5. UNCHANGED <<Cap, io>>
  BY DEF ring_buffer_reset, Cap
<1>6. QED
  BY <1>4, <1>5 DEF Fifo!Empty, Queue

\* A clear keeps the length of the FIFO and zeroes what is in it.
LEMMA ClearRefines ==
  ASSUME RingInv, RingInv', ring_buffer_clear
  PROVE  Fifo!Clear
<1>1. UNCHANGED <<live, rd, wr, size, lastIsWrite, io, Cap>>
  BY DEF ring_buffer_clear, Cap
<1>2. get_read_space' = get_read_space
  BY <1>1 DEF get_read_space
<1>3. Queue' = Fifo!Silence(Len(Queue))
  <2>1. CASE live
    <3>1. mem' = Zeroed(size')
      BY <1>1, <2>1 DEF ring_buffer_clear, Memset
    <3>3. (RingInv /\ live /\ mem = Zeroed(size) => Queue = Fifo!Silence(get_read_space))'
      BY ZeroedQueue, PTL
    <3>4. Queue' = Fifo!Silence(get_read_space')
      BY <1>1, <2>1, <3>1, <3>3
    <3>5. Len(Queue) = get_read_space
      BY <2>1, QueueLemma DEF QueueFacts
    <3>6. QED BY <1>2, <3>4, <3>5
  <2>2. CASE ~live
    <3>1. Queue = <<>> /\ Queue' = <<>>
      BY <1>1, <2>2 DEF Queue
    <3>2. Fifo!Silence(0) = <<>> /\ Len(<<>>) = 0
      BY DEF Fifo!Silence
    <3>3. QED BY <3>1, <3>2
  <2>3. QED BY <2>1, <2>2
<1>4. QED
  BY <1>1, <1>3 DEF Fifo!Clear, Queue

\* A resize that does not grow leaves the FIFO empty, or full of zeros.
LEMMA ShrinkRefines ==
  ASSUME RingInv, RingInv', NEW n \in Sizes, ResizeShrink(n)
  PROVE  [Fifo!Shrink(n)]_(Fifo!vars)
<1>1. n \in Nat \ {0} /\ n <= size /\ size' = n /\ rd' = 0 /\ wr' = 0
      /\ UNCHANGED <<live, lastIsWrite, io>>
  BY RingAssumption DEF ResizeShrink
<1>2. CASE live
  <2>1. mem' = Zeroed(size') /\ live'
    BY <1>1, <1>2 DEF ResizeShrink, Memset
  <2>3. (RingInv /\ live /\ mem = Zeroed(size) => Queue = Fifo!Silence(get_read_space))'
    BY ZeroedQueue, PTL
  <2>4. Queue' = Fifo!Silence(get_read_space')
    BY <2>1, <2>3
  <2>5. get_read_space' \in {0, n}
    BY <1>1 DEF get_read_space
  <2>6. Fifo!Silence(0) = <<>>
    BY DEF Fifo!Silence
  <2>7. Queue' \in {<<>>, Fifo!Silence(n)}
    BY <2>4, <2>5, <2>6
  <2>8. Cap = size /\ Cap' = n
    BY <1>1, <1>2 DEF Cap
  <2>9. QED
    BY <1>1, <2>7, <2>8 DEF Fifo!Shrink, Queue
<1>3. CASE ~live
  <2>1. Queue' = Queue /\ Cap' = Cap
    BY <1>1, <1>3 DEF Queue, Cap
  <2>2. QED
    BY <1>1, <2>1 DEF Fifo!vars, Queue
<1>4. QED BY <1>2, <1>3

\* An allocation that succeeds gives an empty queue, one that fails nothing.
LEMMA InitBufferRefines ==
  ASSUME RingInv, ~live, NEW n \in Sizes, NEW ok \in BOOLEAN,
         InitBuffer(n, ok), UNCHANGED io
  PROVE  [Fifo!Alloc(n)]_(Fifo!vars)
<1>1. Cap = 0 /\ Queue = <<>>
  BY DEF Cap, Queue
<1>2. CASE ok
  <2>2. (rd = 0 /\ wr = 0 /\ lastIsWrite = 0 => Queue = <<>>)'
    BY RestartedQueue, PTL
  <2>3. Queue' = <<>>
    BY <1>2, <2>2 DEF InitBuffer
  <2>4. Cap' = n
    BY <1>2 DEF InitBuffer, Cap
  <2>5. QED
    BY <1>1, <2>3, <2>4 DEF Fifo!Alloc, Queue
<1>3. CASE ~ok
  <2>1. Queue' = <<>> /\ Cap' = 0
    BY <1>3 DEF InitBuffer, Queue, Cap
  <2>2. QED
    BY <1>1, <2>1 DEF Fifo!vars, Queue
<1>4. QED BY <1>2, <1>3

\* A release frees the FIFO.
LEMMA ReleaseBufferRefines ==
  ASSUME ReleaseBuffer, UNCHANGED io
  PROVE  Fifo!Free
<1>1. Queue' = <<>> /\ Cap' = 0
  BY DEF ReleaseBuffer, Queue, Cap
<1>2. QED BY <1>1 DEF Fifo!Free, Queue

\* The room and the level a user is told are those of the queue.
LEMMA LevelRefines ==
  ASSUME RingInv
  PROVE  /\ get_buffer_read_space => Fifo!ReadLevel
         /\ get_buffer_write_space => Fifo!WriteLevel
<1>1. NoBuffer <=> Cap = 0
  BY DEF RingInv, InBounds, NoBuffer, TypeOK, Cap
<1>2. live <=> Cap # 0
  BY DEF RingInv, InBounds, TypeOK, Cap
<1>3. live => Len(Queue) = get_read_space /\ Cap - Len(Queue) = get_write_space
  BY QueueLemma DEF QueueFacts
<1>4. ASSUME UNCHANGED <<live, mem, rd, wr, size, lastIsWrite, resizing, newSize, fault>>
      PROVE  UNCHANGED <<Queue, Cap>>
  BY <1>4 DEF Queue, Cap, Contents, get_read_space, read_from_buffer, update_pointer
<1>5. ASSUME get_buffer_read_space PROVE Fifo!ReadLevel
  <2>1. UNCHANGED <<Queue, Cap>>
    BY <1>4, <1>5 DEF get_buffer_read_space
  <2>2. io' = [op |-> "rspace", n |-> IF Cap = 0 THEN -1 ELSE Len(Queue), data |-> <<>>]
    BY <1>1, <1>2, <1>3, <1>5 DEF get_buffer_read_space, Returns
  <2>3. QED BY <2>1, <2>2 DEF Fifo!ReadLevel, Queue
<1>6. ASSUME get_buffer_write_space PROVE Fifo!WriteLevel
  <2>1. UNCHANGED <<Queue, Cap>>
    BY <1>4, <1>6 DEF get_buffer_write_space
  <2>2. io' = [op |-> "wspace", n |-> IF Cap = 0 THEN -1 ELSE Cap - Len(Queue), data |-> <<>>]
    BY <1>1, <1>2, <1>3, <1>6 DEF get_buffer_write_space, Returns
  <2>3. QED BY <2>1, <2>2 DEF Fifo!WriteLevel, Queue
<1>7. QED BY <1>5, <1>6

\* Every step of the ring is a step of the queue, or leaves the queue alone.
LEMMA StepRefines ==
  RingInv /\ RingInv' /\ ResizeArgument /\ [Next]_vars => [Fifo!Next]_(Fifo!vars)
<1> SUFFICES ASSUME RingInv, RingInv', ResizeArgument, [Next]_vars
             PROVE  [Fifo!Next]_(Fifo!vars)
  OBVIOUS
<1> USE DEF Fifo!Next
<1>1. ASSUME NEW data \in Chunks, ring_buffer_write(data) PROVE [Fifo!Next]_(Fifo!vars)
  BY <1>1, WriteRefines
<1>2. ASSUME NEW k \in Counts, ring_buffer_read(k) PROVE [Fifo!Next]_(Fifo!vars)
  BY <1>2, ReadRefines
<1>3. ASSUME NEW k \in Drops, ring_buffer_seek(k) PROVE [Fifo!Next]_(Fifo!vars)
  BY <1>3, SeekRefines
<1>4. ASSUME NEW n \in Sizes, NEW ok \in BOOLEAN, ring_buffer_init(n, ok)
      PROVE  [Fifo!Next]_(Fifo!vars)
  BY <1>4, InitBufferRefines DEF ring_buffer_init
<1>5. CASE ring_buffer_release
  BY <1>5, ReleaseBufferRefines DEF ring_buffer_release
<1>6. CASE ring_buffer_reset
  BY <1>6, ResetRefines
<1>7. CASE ring_buffer_clear
  BY <1>7, ClearRefines
<1>8. ASSUME NEW n \in Sizes, ResizeRelease(n) PROVE [Fifo!Next]_(Fifo!vars)
  BY <1>8, ReleaseBufferRefines DEF ResizeRelease
<1>9. CASE ResizeStoreSize
  <2>1. ~live /\ ~live' /\ UNCHANGED io
    BY <1>9 DEF ResizeStoreSize, RingInv, InBounds
  <2>2. QED BY <2>1 DEF Fifo!vars, Cap
<1>10. ASSUME NEW ok \in BOOLEAN, ResizeInit(ok) PROVE [Fifo!Next]_(Fifo!vars)
  <2>1. ~live /\ InitBuffer(newSize, ok) /\ UNCHANGED io
    BY <1>10 DEF ResizeInit, RingInv, InBounds
  <2>2. newSize \in Sizes
    BY <1>10 DEF ResizeInit, ResizeArgument
  <2>3. QED BY <2>1, <2>2, InitBufferRefines
<1>11. ASSUME NEW n \in Sizes, ResizeShrink(n) PROVE [Fifo!Next]_(Fifo!vars)
  BY <1>11, ShrinkRefines
<1>12. CASE get_buffer_read_space
  BY <1>12, LevelRefines
<1>13. CASE get_buffer_write_space
  BY <1>13, LevelRefines
<1>14. CASE UNCHANGED vars
  BY <1>14 DEF vars, Fifo!vars, Cap, Contents, get_read_space, read_from_buffer,
               update_pointer
<1>15. QED
  BY <1>1, <1>2, <1>3, <1>4, <1>5, <1>6, <1>7, <1>8, <1>9, <1>10, <1>11, <1>12,
     <1>13, <1>14 DEF Next, Call

\* struct ring_buffer is a bounded FIFO of bytes: what is read is what was
\* written, in that order, once, and never more than the capacity is held,
\* whichever seeks, resets and resizes come in between.
THEOREM RingRefinesFifo == Spec => FifoSpec
<1>1. Init => Fifo!Init
  BY DEF Init, Fifo!Init, Fifo!Idle, Cap
<1>2. RingInv /\ RingInv' /\ ResizeArgument /\ [Next]_vars => [Fifo!Next]_(Fifo!vars)
  BY StepRefines
<1>3. QED
  BY <1>1, <1>2, RingInvariant, ResizeInvariant, PTL DEF Spec, FifoSpec, Fifo!Spec
============================================================================
