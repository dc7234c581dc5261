--------------------------- MODULE MCLiveSessions ---------------------------
(* Instances of LiveSessions for TLC.                                       *)
EXTENDS LiveSessions, TLC

CONSTANTS c1, c2, t1, t2   \* model values for connections and commands
TwoConns == {c1, c2}
TwoTasks == {t1, t2}
Symmetric == Permutations(TwoConns) \union Permutations(TwoTasks)
=============================================================================
