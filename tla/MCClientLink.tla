---------------------------- MODULE MCClientLink ----------------------------
(* Instances of ClientLink for TLC.                                          *)
EXTENDS ClientLink, TLC

CONSTANTS l1, l2   \* model values for leases
TwoLeases == {l1, l2}
Symmetric == Permutations(Slots)
=============================================================================
