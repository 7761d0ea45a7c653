---------------------------- MODULE MCRingBuffer ----------------------------
(* Rings of 3 and 4 bytes: writes of up to 3 bytes wrap, fill the ring      *)
(* exactly and overflow it; 4 and 3 make a resize grow and shrink.          *)
EXTENDS RingBuffer

MCBytes  == 0..2
MCChunks == {<<1>>, <<1, 2>>, <<2, 1, 1>>}
MCCounts == 1..4
MCDrops  == 1..2
MCSizes  == {3, 4}
=============================================================================
