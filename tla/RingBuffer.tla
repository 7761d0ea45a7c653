----------------------------- MODULE RingBuffer -----------------------------
(***************************************************************************)
(* struct ring_buffer of utils/aml_ringbuffer.c.  Every call locks the     *)
(* ring from its first to its last access and is one action here, except   *)
(* ring_buffer_reset_size, which grows the ring in three separate critical *)
(* sections between which other threads call in.                           *)
(*                                                                         *)
(* Pointers are offsets from start_addr.  Two inputs no caller in the      *)
(* repository passes are left out: the cover argument, which is always     *)
(* UNCOVER_WRITE, and negative byte counts to ring_buffer_seek.            *)
(***************************************************************************)
EXTENDS Integers, Sequences

CONSTANTS Bytes,     \* the values a byte can take
          Zero,      \* the byte memset() writes
          Chunks,    \* the sequences of bytes a writer may pass
          Counts,    \* the byte counts a reader may ask for
          Drops,     \* the arguments of ring_buffer_seek
          Sizes      \* the sizes of ring_buffer_init and ring_buffer_reset_size

ASSUME RingAssumption ==
  /\ Zero \in Bytes
  /\ Chunks \subseteq Seq(Bytes)
  /\ Counts \subseteq Nat
  /\ Drops \subseteq Nat
  /\ Sizes \subseteq Nat \ {0}

VARIABLES
  live,         \* start_addr # NULL
  mem,          \* the bytes at start_addr
  rd, wr,       \* the read and the write pointer
  size,         \* size
  lastIsWrite,  \* last_is_write, which tells a full ring from an empty one
  resizing,     \* where ring_buffer_reset_size is: "no", "released" or "sized"
  newSize,      \* its argument
  io,           \* the last call that returned something, and what it returned
  fault         \* a memset through a NULL start_addr has ended the process

vars == <<live, mem, rd, wr, size, lastIsWrite, resizing, newSize, io, fault>>

Least(a, b) == IF a <= b THEN a ELSE b

----------------------------------------------------------------------------
(* The pointer arithmetic. *)

get_write_space ==
  IF wr > rd THEN size + rd - wr
  ELSE IF wr < rd THEN rd - wr
  ELSE IF lastIsWrite = 1 THEN 0 ELSE size

get_read_space ==
  IF wr > rd THEN wr - rd
  ELSE IF wr < rd THEN size + wr - rd
  ELSE IF lastIsWrite = 1 THEN size ELSE 0

\* Mutation: a pointer that reaches the end exactly is not wrapped.
update_pointer_Late(p, n) == IF p + n > size THEN p + n - size ELSE p + n

update_pointer(p, n) == IF p + n >= size THEN p + n - size ELSE p + n

\* The distance from pointer p forward to offset i.
Ahead(p, i) == IF i >= p THEN i - p ELSE i + size - p

write_to_buffer(data, n) ==
  [i \in DOMAIN mem |-> IF Ahead(wr, i) < n THEN data[Ahead(wr, i) + 1] ELSE mem[i]]

read_from_buffer(n) == [i \in 1..n |-> mem[update_pointer(rd, i - 1)]]

Zeroed(n) == [i \in 0..(n - 1) |-> Zero]

\* The check every call but reset and clear starts with.
NoBuffer == ~live \/ size = 0

Returns(op, n, data) == io' = [op |-> op, n |-> n, data |-> data]

----------------------------------------------------------------------------
(* The calls. *)

ring_buffer_write(data) ==
  LET n == IF NoBuffer THEN 0 ELSE Least(Len(data), get_write_space)
  IN  /\ mem' = write_to_buffer(data, n)
      /\ wr' = IF NoBuffer THEN wr ELSE update_pointer(wr, n)
      /\ lastIsWrite' = IF n > 0 THEN 1 ELSE lastIsWrite
      /\ Returns("write", n, <<>>)
      /\ UNCHANGED <<live, rd, size, resizing, newSize, fault>>

\* Mutation: a read leaves last_is_write, as ring_buffer_reset_size does.
ring_buffer_read_KeepsFlag(k) ==
  LET n == IF NoBuffer THEN 0 ELSE Least(k, get_read_space)
  IN  /\ rd' = IF NoBuffer THEN rd ELSE update_pointer(rd, n)
      /\ Returns("read", n, read_from_buffer(n))
      /\ UNCHANGED <<live, mem, wr, size, lastIsWrite, resizing, newSize, fault>>

ring_buffer_read(k) ==
  LET n == IF NoBuffer THEN 0 ELSE Least(k, get_read_space)
  IN  /\ rd' = IF NoBuffer THEN rd ELSE update_pointer(rd, n)
      /\ lastIsWrite' = IF n > 0 THEN 0 ELSE lastIsWrite
      /\ Returns("read", n, read_from_buffer(n))
      /\ UNCHANGED <<live, mem, wr, size, resizing, newSize, fault>>

ring_buffer_seek(k) ==
  LET n == IF NoBuffer THEN 0 ELSE Least(k, get_read_space)
  IN  /\ rd' = IF NoBuffer THEN rd ELSE update_pointer(rd, n)
      /\ lastIsWrite' = IF n > 0 THEN 0 ELSE lastIsWrite
      /\ Returns("seek", n, <<>>)
      /\ UNCHANGED <<live, mem, wr, size, resizing, newSize, fault>>

\* Mutation: the storage is allocated with the size the ring had before.
InitBuffer_OldSize(n, ok) ==
  /\ size' = n
  /\ live' = ok
  /\ IF ok
     THEN mem' = Zeroed(size) /\ rd' = 0 /\ wr' = 0 /\ lastIsWrite' = 0
     ELSE UNCHANGED <<mem, rd, wr, lastIsWrite>>

\* malloc may fail, with the size already stored.
InitBuffer(n, ok) ==
  /\ size' = n
  /\ live' = ok
  /\ IF ok
     THEN mem' = Zeroed(n) /\ rd' = 0 /\ wr' = 0 /\ lastIsWrite' = 0
     ELSE UNCHANGED <<mem, rd, wr, lastIsWrite>>

ReleaseBuffer ==
  /\ live' = FALSE
  /\ mem' = Zeroed(0)
  /\ rd' = 0 /\ wr' = 0 /\ size' = 0 /\ lastIsWrite' = 0

\* Rings are initialized before the threads that share them start and
\* released after these have been joined: no resize is under way.
ring_buffer_init(n, ok) ==
  /\ resizing = "no" /\ ~live
  /\ InitBuffer(n, ok)
  /\ UNCHANGED <<resizing, newSize, io, fault>>

ring_buffer_release ==
  /\ resizing = "no"
  /\ ReleaseBuffer
  /\ UNCHANGED <<resizing, newSize, io, fault>>

\* memset(start_addr, 0, n): zeroes the ring, or dies on a NULL pointer.
Memset(n) ==
  IF live \/ n = 0
  THEN mem' = (IF live THEN Zeroed(n) ELSE mem) /\ UNCHANGED fault
  ELSE fault' = TRUE /\ UNCHANGED mem

ring_buffer_reset ==
  /\ Memset(size)
  /\ rd' = 0 /\ wr' = 0 /\ lastIsWrite' = 0
  /\ UNCHANGED <<live, size, resizing, newSize, io>>

ring_buffer_clear ==
  /\ Memset(size)
  /\ UNCHANGED <<live, rd, wr, size, lastIsWrite, resizing, newSize, io>>

\* One thread resizes a ring.  A larger size releases the ring, stores the
\* size without the lock, and initializes the ring again.
ResizeRelease(n) ==
  /\ resizing = "no" /\ n > size
  /\ resizing' = "released" /\ newSize' = n
  /\ ReleaseBuffer
  /\ UNCHANGED <<io, fault>>

ResizeStoreSize ==
  /\ resizing = "released"
  /\ resizing' = "sized"
  /\ size' = newSize
  /\ UNCHANGED <<live, mem, rd, wr, lastIsWrite, newSize, io, fault>>

ResizeInit(ok) ==
  /\ resizing = "sized"
  /\ resizing' = "no" /\ newSize' = 0
  /\ InitBuffer(newSize, ok)
  /\ UNCHANGED <<io, fault>>

\* Any other size is set in one critical section, which leaves last_is_write.
ResizeShrink(n) ==
  /\ resizing = "no" /\ n <= size
  /\ size' = n
  /\ Memset(n)
  /\ rd' = 0 /\ wr' = 0
  /\ UNCHANGED <<live, lastIsWrite, resizing, newSize, io>>

get_buffer_read_space ==
  /\ Returns("rspace", IF NoBuffer THEN -1 ELSE get_read_space, <<>>)
  /\ UNCHANGED <<live, mem, rd, wr, size, lastIsWrite, resizing, newSize, fault>>

get_buffer_write_space ==
  /\ Returns("wspace", IF NoBuffer THEN -1 ELSE get_write_space, <<>>)
  /\ UNCHANGED <<live, mem, rd, wr, size, lastIsWrite, resizing, newSize, fault>>

----------------------------------------------------------------------------
Init ==
  /\ live = FALSE /\ mem = Zeroed(0)
  /\ rd = 0 /\ wr = 0 /\ size = 0 /\ lastIsWrite = 0
  /\ resizing = "no" /\ newSize = 0
  /\ io = [op |-> "none", n |-> 0, data |-> <<>>]
  /\ fault = FALSE

Call ==
  \/ \E data \in Chunks : ring_buffer_write(data)
  \/ \E k \in Counts : ring_buffer_read(k)
  \/ \E k \in Drops : ring_buffer_seek(k)
  \/ \E n \in Sizes, ok \in BOOLEAN : ring_buffer_init(n, ok)
  \/ ring_buffer_release
  \/ ring_buffer_reset
  \/ ring_buffer_clear
  \/ \E n \in Sizes : ResizeRelease(n)
  \/ ResizeStoreSize
  \/ \E ok \in BOOLEAN : ResizeInit(ok)
  \/ \E n \in Sizes : ResizeShrink(n)
  \/ get_buffer_read_space
  \/ get_buffer_write_space

Next == ~fault /\ Call

Spec == Init /\ [][Next]_vars

----------------------------------------------------------------------------
(* Properties. *)

Cap == IF live THEN size ELSE 0

\* The readable bytes, in the order in which reads return them.
Contents == read_from_buffer(get_read_space)

\* Every field has its type and both pointers stay inside the allocation.
TypeOK ==
  /\ live \in BOOLEAN /\ lastIsWrite \in {0, 1} /\ fault \in BOOLEAN
  /\ size \in Nat /\ newSize \in Nat
  /\ mem \in [0..(Cap - 1) -> Bytes]
  /\ rd \in Nat /\ wr \in Nat
  /\ resizing \in {"no", "released", "sized"}
  /\ io \in [op : {"none", "write", "read", "seek", "rspace", "wspace"},
             n : Int, data : Seq(Bytes)]

\* Whatever sequence of writes, reads, seeks, resets and resizes came before,
\* each pointer addresses a byte of the allocation (the copies that start
\* there wrap at its end), and a ring without storage holds nothing.
InBounds ==
  /\ live => size > 0 /\ rd < size /\ wr < size
  /\ ~live => rd = 0 /\ wr = 0 /\ lastIsWrite = 0
  /\ resizing = "released" => ~live /\ size = 0 /\ newSize > 0
  /\ resizing = "sized" => ~live /\ size = newSize /\ newSize > 0

\* The ring is a bounded FIFO of bytes.
Fifo == INSTANCE BoundedFifo WITH q <- IF live THEN Contents ELSE <<>>,
                                  cap <- Cap
FifoSpec == Fifo!Spec

\* ring_buffer_reset_size, "reset ring buffer and change the size": the ring
\* it leaves holds no data.
ResizeEmpties ==
  [][size' # size /\ live' => get_read_space' = 0]_vars
============================================================================
