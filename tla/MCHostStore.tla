---------------------------- MODULE MCHostStore -----------------------------
(* Instances of HostStore for TLC.                                          *)
EXTENDS HostStore, TLC

CONSTANTS p1, p2, s1, s2, s3   \* model values for processes and session ids
TwoProcesses == {p1, p2}
ThreeIds == {s1, s2, s3}
Symmetric == Permutations(TwoProcesses) \union Permutations(ThreeIds)
=============================================================================
