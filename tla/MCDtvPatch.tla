----------------------------- MODULE MCDtvPatch -----------------------------
(* One path, or two, for picture in picture and for a change of channel.    *)
EXTENDS DtvPatch

MCOnePath  == {0}
MCTwoPaths == {0, 1}
=============================================================================
