---------------------------- MODULE SessionState ----------------------------
(***************************************************************************)
(* SessionState (packages/agent/src/harness/session/state.ts): what a      *)
(* session is, as a record with one field per map of the class, and what   *)
(* one mutation checks and changes.                                        *)
(* Timestamps, payloads and token counts are left out.                     *)
(***************************************************************************)
EXTENDS Naturals, FiniteSets, Sequences

CONSTANTS
  Ids,       \* ids of entries and records
  Lanes,     \* names of lanes
  Labels     \* texts of labels and names

Null == "null"   \* a lane or an entry without parent, a missing text
Main == "main"

ASSUME SessionAssumption ==
  /\ Main \in Lanes
  /\ Null \notin Ids /\ Null \notin Lanes /\ Null \notin Labels

EntryTypes == {"message", "custom"}
RecordTypes == {"operation_started", "operation_finished", "usage"}

\* SessionMutation, one constructor per kind.  A forked entry has no lane.
EntryMutation(seq, id, parent, lane, type) ==
  [kind |-> "entry", seq |-> seq, id |-> id, parentId |-> parent, lane |-> lane, type |-> type]
RecordMutation(seq, id, lane, type, runId) ==
  [kind |-> "record", seq |-> seq, id |-> id, lane |-> lane, type |-> type, runId |-> runId]
LaneMutation(seq, lane, leaf) == [kind |-> "lane", seq |-> seq, lane |-> lane, leafId |-> leaf]
NameMutation(seq, name) == [kind |-> "name", seq |-> seq, name |-> name]
LabelMutation(seq, target, label) ==
  [kind |-> "label", seq |-> seq, targetId |-> target, label |-> label]

MutationsAt(seqs) ==
  [kind : {"entry"}, seq : seqs, id : Ids, parentId : Ids \cup {Null},
   lane : Lanes \cup {Null}, type : EntryTypes]
  \cup [kind : {"record"}, seq : seqs, id : Ids, lane : Lanes, type : RecordTypes,
        runId : Ids \cup {Null}]
  \cup [kind : {"lane"}, seq : seqs, lane : Lanes, leafId : Ids \cup {Null}]
  \cup [kind : {"name"}, seq : seqs, name : Labels \cup {Null}]
  \cup [kind : {"label"}, seq : seqs, targetId : Ids, label : Labels \cup {Null}]

-----------------------------------------------------------------------------

EmptyState ==
  [sequence |-> 0,
   usedIds |-> {},
   entries |-> <<>>,                                  \* entries in order
   lanes |-> [lane \in {Main} |-> Null],              \* leaf of each lane
   openOperations |-> [lane \in Lanes |-> {}],        \* openOperationsByLane
   name |-> Null,
   labels |-> [id \in {} |-> Null]]

EntryIds(st) == {st.entries[i].id : i \in DOMAIN st.entries}
HasLane(st, lane) == lane \in DOMAIN st.lanes

\* validateTarget
IsTarget(st, target) == target = Null \/ target \in EntryIds(st)

\* The checks of applyMutation.
ValidMutation(st, m) ==
  /\ m.seq = st.sequence + 1
  /\ CASE m.kind = "entry" ->
            /\ m.id \notin st.usedIds
            /\ m.lane # Null => HasLane(st, m.lane) /\ m.parentId = st.lanes[m.lane]
            /\ IsTarget(st, m.parentId)
       [] m.kind = "record" -> HasLane(st, m.lane) /\ m.id \notin st.usedIds
       [] m.kind = "lane" -> IsTarget(st, m.leafId)
       [] m.kind = "name" -> TRUE
       [] m.kind = "label" -> m.targetId \in EntryIds(st)

SetKey(f, key, value) == [k \in DOMAIN f \cup {key} |-> IF k = key THEN value ELSE f[k]]
DeleteKey(f, key) == [k \in DOMAIN f \ {key} |-> f[k]]

\* The updates of applyMutation.  operation_finished closes its runId in its
\* own lane only; a lane mutation creates the lane or moves it.
ApplyEntry(st, m) ==
  [st EXCEPT !.sequence = m.seq,
             !.usedIds = st.usedIds \cup {m.id},
             !.entries = Append(st.entries, m),
             !.lanes = IF m.lane = Null THEN st.lanes ELSE SetKey(st.lanes, m.lane, m.id)]

OpenAfter(open, m) ==
  CASE m.type = "operation_started" -> open \cup {m.id}
    [] m.type = "operation_finished" -> open \ {m.runId}
    [] OTHER -> open

ApplyRecord(st, m) ==
  [st EXCEPT !.sequence = m.seq,
             !.usedIds = st.usedIds \cup {m.id},
             !.openOperations = [st.openOperations EXCEPT ![m.lane] = OpenAfter(@, m)]]

ApplyMutation(st, m) ==
  CASE m.kind = "entry" -> ApplyEntry(st, m)
    [] m.kind = "record" -> ApplyRecord(st, m)
    [] m.kind = "lane" -> [st EXCEPT !.sequence = m.seq, !.lanes = SetKey(st.lanes, m.lane, m.leafId)]
    [] m.kind = "name" -> [st EXCEPT !.sequence = m.seq, !.name = m.name]
    [] m.kind = "label" ->
         [st EXCEPT !.sequence = m.seq,
                    !.labels = IF m.label = Null THEN DeleteKey(st.labels, m.targetId)
                               ELSE SetKey(st.labels, m.targetId, m.label)]

Mutations == MutationsAt(Nat)

States ==
  [sequence : Nat, usedIds : SUBSET Ids, entries : Seq(Mutations),
   lanes : UNION {[S -> Ids \cup {Null}] : S \in SUBSET Lanes},
   openOperations : [Lanes -> SUBSET Ids], name : Labels \cup {Null},
   labels : UNION {[S -> Labels] : S \in SUBSET Ids}]
=============================================================================
