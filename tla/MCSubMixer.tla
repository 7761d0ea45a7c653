----------------------------- MODULE MCSubMixer -----------------------------
(* Two ports.  The ring holds two chunks of two units, so a chunk can be    *)
(* ready and still below the start threshold of three units, a write can    *)
(* block on a full ring, and a last odd unit stays behind.                  *)
EXTENDS SubMixer

CONSTANTS a, b

MCStreams   == {a, b}
MCFramework == {a}
MCWriteLens == {1, 3}
=============================================================================
