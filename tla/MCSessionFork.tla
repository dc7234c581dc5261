--------------------------- MODULE MCSessionFork ----------------------------
(* An instance of SessionFork for TLC.                                      *)
EXTENDS SessionFork, TLC

CONSTANTS x, y, z   \* model values for ids
MCIds == {x, y, z}
IdSymmetry == Permutations(MCIds)
=============================================================================
