---------------------------- MODULE SessionFork ----------------------------
(***************************************************************************)
(* Forking a session: createForkMutations (state.ts) and the publication   *)
(* of the fork (storage.ts, fork and publishFileAtomically).  The source   *)
(* goes on, and may crash, while the fork is written.                      *)
(***************************************************************************)
EXTENDS JsonlStorage

VARIABLES
  plan,   \* the mutations of the fork being written, or of the last one written
  temp,   \* the temporary file: Absent or its lines
  dest    \* the fork's file: Absent or its lines

forkVars == <<plan, temp, dest>>
Absent == <<Garbage>>

ForkInit == Init /\ plan = <<>> /\ temp = Absent /\ dest = Absent

-----------------------------------------------------------------------------

EntryOf(st, id) == st.entries[CHOOSE i \in DOMAIN st.entries : st.entries[i].id = id]

\* Bug variant: a branch takes its siblings along.
BranchAndSiblings(st, id) == st.entries

\* walkToRoot, oldest first: the entries from the root to id.
BranchTo(st, id) ==
  LET path[n \in 0 .. Len(st.entries)] ==   \* the n-th ancestor
        IF n = 0 THEN id
        ELSE IF path[n - 1] = Null THEN Null ELSE EntryOf(st, path[n - 1]).parentId
      ids == {n \in 0 .. Len(st.entries) : path[n] # Null}
  IN [i \in 1 .. Cardinality(ids) |-> EntryOf(st, path[Cardinality(ids) - i])]

\* ForkOptions that createForkMutations accepts.
ForkOptions(st) ==
  {[scope |-> "tree"]}
  \cup (IF st.lanes[Main] = Null \/ EntryOf(st, st.lanes[Main]).type = "message"
        THEN {[scope |-> "branch", target |-> st.lanes[Main]]} ELSE {})
  \cup UNION {{[scope |-> "branch", target |-> m.id], [scope |-> "branch", target |-> m.parentId]} :
                m \in {st.entries[i] : i \in {j \in DOMAIN st.entries : st.entries[j].type = "message"}}}

\* Bug variant: only the main lane is copied.
MainLaneOnly(st) == <<Main>>

\* The lanes of the fork, in the order of the source's map; any order will do.
LaneOrder(st) == CHOOSE order \in [1 .. Cardinality(DOMAIN st.lanes) -> DOMAIN st.lanes] :
                   \A lane \in DOMAIN st.lanes : \E i \in DOMAIN order : order[i] = lane

\* Positions, the first one first.
Ascending(S) == CHOOSE order \in [1 .. Cardinality(S) -> S] :
                  \A i, j \in DOMAIN order : i < j => order[i] < order[j]

\* Each copy gets the next sequence number of the fork.
Renumber(mutations) == [i \in DOMAIN mutations |-> [mutations[i] EXCEPT !.seq = i]]

\* copiedEntries and forkLanes.
Copied(st, options) ==
  IF options.scope = "tree" THEN st.entries
  ELSE IF options.target = Null THEN <<>> ELSE BranchTo(st, options.target)

ForkLanes(st, options) ==
  LET order == LaneOrder(st)
  IN IF options.scope = "tree"
     THEN [i \in DOMAIN order |-> LaneMutation(0, order[i], st.lanes[order[i]])]
     ELSE <<LaneMutation(0, Main, options.target)>>

ForkName(st) == IF st.name = Null THEN <<>> ELSE <<NameMutation(0, st.name)>>

ForkLabels(st, copied) ==
  LET at == Ascending({i \in DOMAIN copied : copied[i].id \in DOMAIN st.labels})
  IN [i \in DOMAIN at |-> LabelMutation(0, copied[at[i]].id, st.labels[copied[at[i]].id])]

\* Entries first, then lanes, the name, and the labels of the copied entries.
CreateForkMutations(st, options) ==
  LET copied == Copied(st, options)
  IN Renumber([i \in DOMAIN copied |-> [copied[i] EXCEPT !.lane = Null]]
              \o ForkLanes(st, options) \o ForkName(st) \o ForkLabels(st, copied))

-----------------------------------------------------------------------------

\* JsonlSessionRepo.fork loads the source anew; with no append in flight that
\* is the state of the open storage.
CanFork == phase = "open" /\ inflight = <<>> /\ temp = Absent /\ dest = Absent

\* The temporary file is created with its header.
Fork(options) ==
  /\ CanFork
  /\ plan' = CreateForkMutations(state, options)
  /\ temp' = <<>>
  /\ UNCHANGED <<dest, vars>>

ForkWrite ==
  /\ temp # Absent /\ Len(temp) < Len(plan)
  /\ temp' = Append(temp, plan[Len(temp) + 1])
  /\ UNCHANGED <<plan, dest, vars>>

\* Bug variant: the fork is written in place.
ForkPublishEarly ==
  /\ temp # Absent
  /\ dest' = temp /\ temp' = Absent
  /\ UNCHANGED <<plan, vars>>

ForkPublish ==
  /\ temp # Absent /\ Len(temp) = Len(plan)
  /\ dest' = temp /\ temp' = Absent
  /\ UNCHANGED <<plan, vars>>

\* publishFileAtomically removes the temporary file when a step fails.
ForkFails ==
  /\ temp # Absent
  /\ temp' = Absent
  /\ UNCHANGED <<plan, dest, vars>>

\* The rest of the system.  A crash abandons the temporary file: list ignores
\* it, and the next fork has a path of its own.
SourceStep ==
  /\ Next
  /\ IF crashes' = crashes THEN UNCHANGED forkVars ELSE temp' = Absent /\ UNCHANGED <<plan, dest>>

ForkNext ==
  \/ CanFork /\ \E options \in ForkOptions(state) : Fork(options)
  \/ ForkWrite \/ ForkPublish \/ ForkFails
  \/ SourceStep

ForkSpec == ForkInit /\ [][ForkNext]_<<vars, forkVars>>

-----------------------------------------------------------------------------
(* Properties.                                                             *)

ApplyIfValid(r, m) ==
  IF r.ok /\ ValidMutation(r.st, m) THEN [ok |-> TRUE, st |-> ApplyMutation(r.st, m)]
  ELSE [ok |-> FALSE, st |-> r.st]
Replay(lines) ==
  LET after[n \in 0 .. Len(lines)] == IF n = 0 THEN [ok |-> TRUE, st |-> EmptyState]
                                      ELSE ApplyIfValid(after[n - 1], lines[n])
  IN after[Len(lines)]

\* A fork appears under its path only when it is complete, whatever happens to
\* the process while it is written.
ForkIsAtomic == dest # Absent => dest = plan

Content(m) == <<m.id, m.parentId, m.type>>

\* A tree fork loads (its parents come before their children, its lanes and
\* labels point into it, its numbers are consecutive) and holds the same
\* entries, lanes, name and labels as its source.
TreeForkIsCopy ==
  CanFork =>
    LET load == Replay(CreateForkMutations(state, [scope |-> "tree"]))
        copy == load.st
    IN /\ load.ok
       /\ Len(copy.entries) = Len(state.entries)
       /\ \A i \in DOMAIN state.entries : Content(copy.entries[i]) = Content(state.entries[i])
       /\ copy.lanes = state.lanes /\ copy.name = state.name /\ copy.labels = state.labels

\* A branch fork loads and holds the path from its target to the root and nothing else:
\* the entries are closed under parents, all but the target are a parent of one
\* of them, and only their labels are kept.
BranchForkIsPath ==
  CanFork =>
    \A options \in {o \in ForkOptions(state) : o.scope = "branch"} :
      LET load == Replay(CreateForkMutations(state, options))
          copy == load.st
          ids == EntryIds(copy)
          ParentOf(id) == EntryOf(state, id).parentId
      IN /\ load.ok
         /\ copy.lanes = [lane \in {Main} |-> options.target]
         /\ options.target \in ids \cup {Null}
         /\ \A id \in ids : ParentOf(id) \in ids \cup {Null}
         /\ \A id \in ids \ {options.target} : \E child \in ids : ParentOf(child) = id
         /\ \A id \in DOMAIN copy.labels : copy.labels[id] = state.labels[id]
         /\ DOMAIN copy.labels = DOMAIN state.labels \cap ids

-----------------------------------------------------------------------------
Abstract == INSTANCE SessionLog WITH history <- promised

\* The storage implements the append-only log: what its callers have seen grows
\* by one acceptable mutation at a time, through crashes, repairs and forks.
ImplementsSessionLog == Abstract!LogSpec
=============================================================================
