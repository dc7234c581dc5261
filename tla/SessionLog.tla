----------------------------- MODULE SessionLog -----------------------------
(***************************************************************************)
(* What a session storage promises: a log that only grows, one mutation at *)
(* a time, each one consistent with the whole history before it.  The      *)
(* conditions are stated on the log itself, not on the maps SessionState   *)
(* keeps: a lane's leaf is what the last mutation of that lane says.       *)
(***************************************************************************)
EXTENDS SessionState

VARIABLE history

Positions(kinds) == {i \in DOMAIN history : history[i].kind \in kinds}
UsedIds == {history[i].id : i \in Positions({"entry", "record"})}
Entries == {history[i].id : i \in Positions({"entry"})}

LaneExists(lane) == lane = Main \/ \E i \in Positions({"lane"}) : history[i].lane = lane

LeafOf(lane) ==
  LET moves == {i \in Positions({"entry", "lane"}) : history[i].lane = lane}
      last == CHOOSE i \in moves : \A j \in moves : j <= i
  IN IF moves = {} THEN Null
     ELSE IF history[last].kind = "entry" THEN history[last].id ELSE history[last].leafId

\* The operations of the lane that started and have not finished since.
OpenOperations(lane) ==
  {i \in Positions({"record"}) :
     /\ history[i].lane = lane /\ history[i].type = "operation_started"
     /\ \A j \in Positions({"record"}) :
          ~(/\ j > i /\ history[j].lane = lane /\ history[j].type = "operation_finished"
            /\ history[j].runId = history[i].id)}

Acceptable(m) ==
  \/ /\ m.kind = "entry"
     /\ m.id \notin UsedIds /\ LaneExists(m.lane) /\ m.parentId = LeafOf(m.lane)
  \/ /\ m.kind = "record"
     /\ m.id \notin UsedIds /\ LaneExists(m.lane)
     /\ m.type = "operation_started" => OpenOperations(m.lane) = {}
  \/ m.kind = "lane" /\ m.leafId \in Entries \cup {Null}
  \/ m.kind = "label" /\ m.targetId \in Entries
  \/ m.kind = "name"

Extend(m) == history' = Append(history, m) /\ Acceptable(m)

LogInit == history = <<>>
LogNext == \E m \in MutationsAt({Len(history) + 1}) : Extend(m)
LogSpec == LogInit /\ [][LogNext]_history
=============================================================================
