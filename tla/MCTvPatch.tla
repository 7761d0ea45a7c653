----------------------------- MODULE MCTvPatch -----------------------------
(* A frame is two periods; the ring holds two of them, and more for HBR.   *)
EXTENDS TvPatch, SyncSearch

MCWriteBytes == [f \in Formats |-> IF f = "pcm" THEN 1 ELSE 2]
MCRingSize == [AUDS |-> 2, HBR |-> 3]

\* SearchFinds takes any sync word there is.
ASSUME FindsASyncWord(5)
=============================================================================
