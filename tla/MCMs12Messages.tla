--------------------------- MODULE MCMs12Messages ---------------------------
(* A PCM stream and a raw one with synchronisation, so that a take-over     *)
(* happens each way.                                                        *)
EXTENDS Ms12Messages
CONSTANTS pcm, raw
MCStreams == {pcm, raw}
MCRaw     == {raw}
=============================================================================
