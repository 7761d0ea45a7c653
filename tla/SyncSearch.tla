----------------------------- MODULE SyncSearch -----------------------------
(***************************************************************************)
(* find_61937_sync_word_position_in_ringbuffer() of aml_ringbuffer.c: what *)
(* the ring holds may be in two parts, with a sync word at the end of its  *)
(* storage and at its start.  Bytes of the storage are mem[0] .. mem[size  *)
(* - 1]; rd, wr and lastIsWrite as in RingBuffer.                          *)
(***************************************************************************)
EXTENDS Integers, Sequences

\* The sync word in its two byte orders, as numbers for the four bytes.
SyncWord == {<<1, 2, 3, 4>>, <<2, 1, 4, 3>>}

Earliest(S) == IF S = {} THEN -1 ELSE CHOOSE i \in S : \A j \in S : i <= j

\* find_61937_sync_word(): the position of the first one in a buffer.
find_61937_sync_word(buffer) ==
  Earliest({i \in 0..(Len(buffer) - 4) : SubSeq(buffer, i + 1, i + 4) \in SyncWord})

\* The n bytes at mem[from].
Part(mem, from, n) == [i \in 1..n |-> mem[from + i - 1]]

Space(size, rd, wr, lastIsWrite) ==
  IF wr # rd THEN (wr - rd + size) % size ELSE IF lastIsWrite THEN size ELSE 0

\* First the part up to the end of the storage, then the part at its start, then
\* the words that begin 3, 2 and 1 bytes before the end.
Search(mem, size, rd, wr, lastIsWrite) ==
  LET first == size - rd
      in_first == find_61937_sync_word(Part(mem, rd, first))
      in_second == find_61937_sync_word(Part(mem, 0, wr))
      split == {k \in 1..3 : /\ first >= k /\ wr >= 4 - k
                             /\ Part(mem, size - k, k) \o Part(mem, 0, 4 - k) \in SyncWord}
  IN  IF Space(size, rd, wr, lastIsWrite) < 4 THEN -1
      ELSE IF rd < wr THEN find_61937_sync_word(Part(mem, rd, wr - rd))
      ELSE IF in_first # -1 THEN in_first
      ELSE IF in_second # -1 THEN first + in_second
      ELSE Earliest({first - k : k \in split})

\* What the ring holds, in the order it is read.
Content(mem, size, rd, wr, lastIsWrite) ==
  [i \in 1..Space(size, rd, wr, lastIsWrite) |-> mem[(rd + i - 1) % size]]

\* Wherever the content lies in the storage, the search finds a sync word if and
\* only if there is one, and gives the bytes before it.  (It need not be the
\* first: a word in the second part is found before one that is split.)
FindsASyncWord(size) ==
  \A mem \in [0..(size - 1) -> 0..4], rd, wr \in 0..(size - 1), lastIsWrite \in BOOLEAN :
    LET content == Content(mem, size, rd, wr, lastIsWrite)
        p == Search(mem, size, rd, wr, lastIsWrite)
    IN  IF p = -1 THEN find_61937_sync_word(content) = -1
        ELSE SubSeq(content, p + 1, p + 4) \in SyncWord
=============================================================================
