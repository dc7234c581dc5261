------------------------ MODULE SessionReplayProofs -------------------------
(***************************************************************************)
(* Facts that the proofs about the storage and about forks share: what one *)
(* mutation makes of a SessionState, what a state says of the lines it is  *)
(* the replay of, which files load, and the paths of entries to the root.  *)
(* An argument over the lines of a file or the steps of a path is by       *)
(* Induction, from the well-ordering of the naturals.                      *)
(***************************************************************************)
EXTENDS SessionFork, Integers, TLAPS

-----------------------------------------------------------------------------
(* One mutation takes a SessionState to a SessionState.                    *)

\* The leaf of every lane is an entry: what AppendEntry takes as parent exists.
LeavesExist(st) == \A lane \in DOMAIN st.lanes : IsTarget(st, st.lanes[lane])

\* At most one operation is open on a lane.
OneOpen(st) == \A lane \in Lanes : \A a, b \in st.openOperations[lane] : a = b

\* What an operation of the storage may append in a state.
Accepted(st, m) ==
  /\ ValidMutation(st, m)
  /\ m.kind = "record" /\ m.type = "operation_started" => st.openOperations[m.lane] = {}

\* One mutation takes a SessionState to a SessionState.
LEMMA ApplyType ==
  ASSUME NEW st \in States, NEW m \in Mutations
  PROVE  ApplyMutation(st, m) \in States
<1> DEFINE Leaves == UNION {[S -> Ids \cup {Null}] : S \in SUBSET Lanes}
           Texts == UNION {[S -> Labels] : S \in SUBSET Ids}
<1>1. ASSUME NEW f \in Leaves, NEW lane \in Lanes, NEW leaf \in Ids \cup {Null}
      PROVE  SetKey(f, lane, leaf) \in Leaves
  <2>1. PICK S \in SUBSET Lanes : f \in [S -> Ids \cup {Null}]
    OBVIOUS
  <2>2. SetKey(f, lane, leaf) \in [S \cup {lane} -> Ids \cup {Null}]
    BY <2>1 DEF SetKey
  <2> QED BY <2>2
<1>2. ASSUME NEW f \in Texts, NEW id \in Ids, NEW text \in Labels
      PROVE  SetKey(f, id, text) \in Texts
  <2>1. PICK S \in SUBSET Ids : f \in [S -> Labels]
    OBVIOUS
  <2>2. SetKey(f, id, text) \in [S \cup {id} -> Labels]
    BY <2>1 DEF SetKey
  <2> QED BY <2>2
<1>3. ASSUME NEW f \in Texts, NEW id \in Ids
      PROVE  DeleteKey(f, id) \in Texts
  <2>1. PICK S \in SUBSET Ids : f \in [S -> Labels]
    OBVIOUS
  <2>2. DeleteKey(f, id) \in [S \ {id} -> Labels]
    BY <2>1 DEF DeleteKey
  <2> QED BY <2>2
<1>4. States = [sequence : Nat, usedIds : SUBSET Ids, entries : Seq(Mutations), lanes : Leaves,
                openOperations : [Lanes -> SUBSET Ids], name : Labels \cup {Null}, labels : Texts]
  BY DEF States
<1> HIDE DEF Leaves, Texts
<1>5. CASE m.kind = "entry"
  <2>1. /\ m.seq \in Nat /\ m.id \in Ids /\ m.lane \in Lanes \cup {Null}
        /\ m.lane = Null \/ m.lane \in Lanes
    BY <1>5 DEF Mutations, MutationsAt
  <2>2. Append(st.entries, m) \in Seq(Mutations)
    BY <1>4
  <2>3. (IF m.lane = Null THEN st.lanes ELSE SetKey(st.lanes, m.lane, m.id)) \in Leaves
    BY <2>1, <1>1, <1>4
  <2> QED BY <1>4, <1>5, <2>1, <2>2, <2>3, Zenon DEF ApplyMutation, ApplyEntry
<1>6. CASE m.kind = "record"
  <2>1. m.seq \in Nat /\ m.id \in Ids /\ m.lane \in Lanes
    BY <1>6 DEF Mutations, MutationsAt
  <2>2. OpenAfter(st.openOperations[m.lane], m) \in SUBSET Ids
    BY <1>4, <2>1 DEF OpenAfter
  <2> QED BY <1>4, <1>6, <2>1, <2>2, Zenon DEF ApplyMutation, ApplyRecord
<1>7. CASE m.kind = "lane"
  <2>1. m.seq \in Nat /\ m.lane \in Lanes /\ m.leafId \in Ids \cup {Null}
    BY <1>7 DEF Mutations, MutationsAt
  <2> QED BY <1>1, <1>4, <1>7, <2>1, Zenon DEF ApplyMutation
<1>8. CASE m.kind = "name"
  <2>1. m.seq \in Nat /\ m.name \in Labels \cup {Null}
    BY <1>8 DEF Mutations, MutationsAt
  <2> QED BY <1>4, <1>8, <2>1, Zenon DEF ApplyMutation
<1>9. CASE m.kind = "label"
  <2>1. m.seq \in Nat /\ m.targetId \in Ids /\ m.label \in Labels \cup {Null}
    BY <1>9 DEF Mutations, MutationsAt
  <2>2. (IF m.label = Null THEN DeleteKey(st.labels, m.targetId)
         ELSE SetKey(st.labels, m.targetId, m.label)) \in Texts
    BY <1>2, <1>3, <1>4, <2>1
  <2> QED BY <1>4, <1>9, <2>1, <2>2, Zenon DEF ApplyMutation
<1> QED BY <1>5, <1>6, <1>7, <1>8, <1>9 DEF Mutations, MutationsAt

\* ... whose leaves exist, if the mutation is valid.
LEMMA ApplyLeaves ==
  ASSUME NEW st \in States, NEW m \in Mutations, LeavesExist(st), ValidMutation(st, m)
  PROVE  LeavesExist(ApplyMutation(st, m))
<1> DEFINE st2 == ApplyMutation(st, m)
<1>1. st.entries \in Seq(Mutations)
  BY DEF States
<1>2. CASE m.kind = "entry"
  <2>1. /\ st2.entries = Append(st.entries, m)
        /\ st2.lanes = IF m.lane = Null THEN st.lanes ELSE SetKey(st.lanes, m.lane, m.id)
    BY <1>2, Zenon DEF ApplyMutation, ApplyEntry, States
  <2>2. EntryIds(st) \subseteq EntryIds(st2) /\ m.id \in EntryIds(st2)
    <3> DEFINE n == Len(st.entries) + 1
               all == Append(st.entries, m)
    <3>1. n \in DOMAIN all /\ all[n] = m
      BY <1>1
    <3>2. \A i \in DOMAIN st.entries : i \in DOMAIN all /\ all[i] = st.entries[i]
      BY <1>1
    <3>3. st2.entries = all
      BY <2>1
    <3> HIDE DEF n, all, st2
    <3> QED BY <3>1, <3>2, <3>3, Zenon DEF EntryIds
  <2> QED BY <2>1, <2>2 DEF LeavesExist, IsTarget, SetKey
<1>3. CASE m.kind = "lane"
  <2>1. st2.entries = st.entries /\ st2.lanes = SetKey(st.lanes, m.lane, m.leafId)
    BY <1>3, Zenon DEF ApplyMutation, States
  <2>2. IsTarget(st, m.leafId)
    BY <1>3 DEF ValidMutation
  <2> QED BY <2>1, <2>2 DEF LeavesExist, IsTarget, EntryIds, SetKey
<1>4. CASE m.kind \in {"record", "name", "label"}
  <2>1. st2.entries = st.entries /\ st2.lanes = st.lanes
    BY <1>4 DEF ApplyMutation, ApplyRecord, States
  <2> QED BY <2>1 DEF LeavesExist, IsTarget, EntryIds
<1> QED BY <1>2, <1>3, <1>4 DEF Mutations, MutationsAt

\* ... and with one open operation per lane, if the storage accepted it.
LEMMA ApplyOneOpen ==
  ASSUME NEW st \in States, NEW m \in Mutations, OneOpen(st), Accepted(st, m)
  PROVE  OneOpen(ApplyMutation(st, m))
<1> DEFINE st2 == ApplyMutation(st, m)
<1>1. CASE m.kind = "record"
  <2>1. st2.openOperations = [st.openOperations EXCEPT ![m.lane] = OpenAfter(@, m)]
    BY <1>1, Zenon DEF ApplyMutation, ApplyRecord, States
  <2>2. m.lane \in Lanes /\ st.openOperations \in [Lanes -> SUBSET Ids]
    BY <1>1 DEF Mutations, MutationsAt, States
  <2>3. \A a, b \in OpenAfter(st.openOperations[m.lane], m) : a = b
    BY <1>1, <2>2 DEF OpenAfter, OneOpen, Accepted
  <2> QED BY <2>1, <2>2, <2>3 DEF OneOpen
<1>2. CASE m.kind \in {"entry", "lane", "name", "label"}
  <2>1. st2.openOperations = st.openOperations
    BY <1>2 DEF ApplyMutation, ApplyEntry, States
  <2> QED BY <2>1 DEF OneOpen
<1> QED BY <1>1, <1>2 DEF Mutations, MutationsAt

\* The state of a new SessionState is well formed.
LEMMA EmptyStateOK == EmptyState \in States /\ LeavesExist(EmptyState) /\ OneOpen(EmptyState)
<1>1. EmptyState.lanes \in [{Main} -> Ids \cup {Null}] /\ {Main} \in SUBSET Lanes
  BY SessionAssumption DEF EmptyState
<1>2. EmptyState.labels \in [{} -> Labels] /\ {} \in SUBSET Ids
  BY DEF EmptyState
<1>3. <<>> \in Seq(Mutations)
  OBVIOUS
<1>4. EmptyState \in States
  BY <1>1, <1>2, <1>3, Zenon DEF EmptyState, States
<1> QED BY <1>4 DEF EmptyState, LeavesExist, IsTarget, OneOpen

-----------------------------------------------------------------------------
(* Induction: the least number that is a counterexample.                   *)

\* What the arguments by induction rest on; SessionForkProofs proves it from the
\* theorem library, which is left out here to keep these modules small.
WellOrdered == \A S \in SUBSET Nat : S # {} => \E m \in S : \A n \in S : m <= n

LEMMA LeastOf ==
  ASSUME WellOrdered, NEW S \in SUBSET Nat, S # {}
  PROVE  \E m \in S : \A n \in S : m <= n
BY Zenon DEF WellOrdered

\* A set of numbers with 0 and, with each number below a bound, the next one.
LEMMA Induction ==
  ASSUME WellOrdered, NEW N \in Nat, NEW S, 0 \in S, \A n \in 0 .. N : n \in S /\ n < N => n + 1 \in S
  PROVE  \A n \in 0 .. N : n \in S
<1> DEFINE Bad == {n \in 0 .. N : n \notin S}
<1> SUFFICES ASSUME Bad # {} PROVE FALSE
  OBVIOUS
<1>1. PICK m \in Bad : \A n \in Bad : m <= n
  <2>1. Bad \in SUBSET Nat
    OBVIOUS
  <2> HIDE DEF Bad
  <2> QED BY <2>1, LeastOf
<1>2. m \in 0 .. N /\ m # 0
  BY <1>1
<1>3. m - 1 \in 0 .. N /\ m - 1 < N /\ (m - 1) + 1 = m
  BY <1>2
<1>4. m - 1 \notin S
  BY <1>1, <1>3
<1>5. m - 1 \in Bad /\ ~(m <= m - 1)
  BY <1>2, <1>3, <1>4
<1> QED BY <1>1, <1>5

-----------------------------------------------------------------------------
(* What a SessionState says of the log it is the replay of.                *)

At(lines, n, kinds) == {i \in 1 .. n : lines[i].kind \in kinds}
Moves(lines, n, lane) == {i \in At(lines, n, {"entry", "lane"}) : lines[i].lane = lane}
Leaf(m) == IF m.kind = "entry" THEN m.id ELSE m.leafId
Finishes(m, s) ==
  m.kind = "record" /\ m.lane = s.lane /\ m.type = "operation_finished" /\ m.runId = s.id

IdsAgree(st, lines, n) ==
  /\ st.usedIds = {lines[i].id : i \in At(lines, n, {"entry", "record"})}
  /\ EntryIds(st) = {lines[i].id : i \in At(lines, n, {"entry"})}
LanesAgree(st, lines, n) ==
  /\ \A lane \in Lanes : lane \in DOMAIN st.lanes <=>
       lane = Main \/ \E i \in At(lines, n, {"lane"}) : lines[i].lane = lane
  /\ \A lane \in DOMAIN st.lanes :
       \/ Moves(lines, n, lane) = {} /\ st.lanes[lane] = Null
       \/ \E i \in Moves(lines, n, lane) :
            (\A j \in Moves(lines, n, lane) : j <= i) /\ st.lanes[lane] = Leaf(lines[i])
OpenAgree(st, lines, n) ==
  \A i \in At(lines, n, {"record"}) :
    \/ lines[i].type # "operation_started"
    \/ lines[i].id \in st.openOperations[lines[i].lane]
    \/ \E j \in (i + 1) .. n : Finishes(lines[j], lines[i])

\* st is what the first n lines leave.
Agrees(st, lines, n) ==
  /\ st.sequence = n
  /\ IdsAgree(st, lines, n) /\ LanesAgree(st, lines, n) /\ OpenAgree(st, lines, n)

LEMMA KindFacts ==
  ASSUME NEW m \in Mutations
  PROVE  /\ m.kind \in {"entry", "record", "lane", "name", "label"} /\ m.seq \in Nat
         /\ m.kind = "entry" => /\ m.id \in Ids /\ m.parentId \in Ids \cup {Null}
                                /\ m.lane \in Lanes \cup {Null} /\ m.type \in EntryTypes
         /\ m.kind = "record" => /\ m.id \in Ids /\ m.lane \in Lanes /\ m.type \in RecordTypes
                                 /\ m.runId \in Ids \cup {Null}
         /\ m.kind = "lane" => m.lane \in Lanes /\ m.leafId \in Ids \cup {Null}
         /\ m.kind = "name" => m.name \in Labels \cup {Null}
         /\ m.kind = "label" => m.targetId \in Ids /\ m.label \in Labels \cup {Null}
  BY DEF Mutations, MutationsAt

\* What the mutation m makes of each map.
LEMMA ApplyFields ==
  ASSUME NEW st \in States, NEW m \in Mutations
  PROVE  LET s == ApplyMutation(st, m) IN
         /\ s.sequence = m.seq
         /\ s.usedIds = IF m.kind \in {"entry", "record"} THEN st.usedIds \cup {m.id} ELSE st.usedIds
         /\ s.entries = IF m.kind = "entry" THEN Append(st.entries, m) ELSE st.entries
         /\ s.lanes = IF m.kind = "entry" /\ m.lane # Null THEN SetKey(st.lanes, m.lane, m.id)
                      ELSE IF m.kind = "lane" THEN SetKey(st.lanes, m.lane, m.leafId) ELSE st.lanes
         /\ s.openOperations = IF m.kind = "record"
                               THEN [st.openOperations EXCEPT ![m.lane] = OpenAfter(@, m)]
                               ELSE st.openOperations
         /\ s.name = IF m.kind = "name" THEN m.name ELSE st.name
         /\ s.labels = IF m.kind # "label" THEN st.labels
                       ELSE IF m.label = Null THEN DeleteKey(st.labels, m.targetId)
                       ELSE SetKey(st.labels, m.targetId, m.label)
<1>1. st = [sequence |-> st.sequence, usedIds |-> st.usedIds, entries |-> st.entries,
            lanes |-> st.lanes, openOperations |-> st.openOperations, name |-> st.name,
            labels |-> st.labels]
  BY DEF States
<1>2. CASE m.kind = "entry"
  BY <1>1, <1>2, Zenon DEF ApplyMutation, ApplyEntry
<1>3. CASE m.kind = "record"
  BY <1>1, <1>3, Zenon DEF ApplyMutation, ApplyRecord
<1>4. CASE m.kind = "lane"
  BY <1>1, <1>4, Zenon DEF ApplyMutation
<1>5. CASE m.kind = "name"
  BY <1>1, <1>5, Zenon DEF ApplyMutation
<1>6. CASE m.kind = "label"
  BY <1>1, <1>6, Zenon DEF ApplyMutation
<1> QED BY <1>2, <1>3, <1>4, <1>5, <1>6, KindFacts

\* One more line is one more position.
LEMMA AtNext ==
  ASSUME NEW lines, NEW n \in Nat, NEW kinds
  PROVE  At(lines, n + 1, kinds) = At(lines, n, kinds)
                                     \cup (IF lines[n + 1].kind \in kinds THEN {n + 1} ELSE {})
<1>1. 1 .. (n + 1) = (1 .. n) \cup {n + 1}
  OBVIOUS
<1> QED BY <1>1 DEF At

LEMMA AppendedIds ==
  ASSUME NEW st \in States, NEW m \in Mutations
  PROVE  LET s == ApplyMutation(st, m) IN
         EntryIds(s) = IF m.kind = "entry" THEN EntryIds(st) \cup {m.id} ELSE EntryIds(st)
<1> DEFINE s == ApplyMutation(st, m)
           e == st.entries
           k == Len(e)
<1>1. e \in Seq(Mutations) /\ s.entries = IF m.kind = "entry" THEN Append(e, m) ELSE e
  BY ApplyFields, Zenon DEF States
<1>2. /\ DOMAIN Append(e, m) = (1 .. k) \cup {k + 1} /\ DOMAIN e = 1 .. k
      /\ Append(e, m)[k + 1] = m /\ \A i \in 1 .. k : Append(e, m)[i] = e[i]
  BY <1>1
<1>3. EntryIds(st) = {e[i].id : i \in DOMAIN e} /\ EntryIds(s) = {s.entries[i].id : i \in DOMAIN s.entries}
  BY DEF EntryIds
<1> HIDE DEF e, k, s
<1>4. {Append(e, m)[i].id : i \in DOMAIN Append(e, m)} = {e[i].id : i \in DOMAIN e} \cup {m.id}
  BY <1>2
<1>5. CASE m.kind = "entry"
  <2>1. s.entries = Append(e, m)
    BY <1>1, <1>5
  <2>2. EntryIds(s) = {Append(e, m)[i].id : i \in DOMAIN Append(e, m)}
    BY <1>3, <2>1
  <2> QED BY <1>3, <1>4, <1>5, <2>2, Zenon DEF s
<1>6. CASE m.kind # "entry"
  <2>1. s.entries = e
    BY <1>1, <1>6
  <2>2. EntryIds(s) = {e[i].id : i \in DOMAIN e}
    BY <1>3, <2>1
  <2> QED BY <1>3, <1>6, <2>2, Zenon DEF s
<1> QED BY <1>5, <1>6

LEMMA IdsStep ==
  ASSUME NEW lines \in Seq(Mutations), NEW n \in Nat, n < Len(lines), NEW st \in States,
         IdsAgree(st, lines, n)
  PROVE  IdsAgree(ApplyMutation(st, lines[n + 1]), lines, n + 1)
<1> DEFINE m == lines[n + 1]
           s == ApplyMutation(st, m)
<1>1. m \in Mutations /\ n + 1 \in 1 .. Len(lines)
  OBVIOUS
<1>2. s.usedIds = IF m.kind \in {"entry", "record"} THEN st.usedIds \cup {m.id} ELSE st.usedIds
  BY <1>1, ApplyFields, Zenon
<1>3. \A kinds : At(lines, n + 1, kinds)
                   = At(lines, n, kinds) \cup (IF m.kind \in kinds THEN {n + 1} ELSE {})
  BY AtNext
<1>4. EntryIds(s) = IF m.kind = "entry" THEN EntryIds(st) \cup {m.id} ELSE EntryIds(st)
  BY <1>1, AppendedIds, Zenon
<1>5. {lines[i].id : i \in At(lines, n + 1, {"entry", "record"})}
        = {lines[i].id : i \in At(lines, n, {"entry", "record"})}
            \cup (IF m.kind \in {"entry", "record"} THEN {m.id} ELSE {})
  BY <1>3
<1>6. {lines[i].id : i \in At(lines, n + 1, {"entry"})}
        = {lines[i].id : i \in At(lines, n, {"entry"})}
            \cup (IF m.kind \in {"entry"} THEN {m.id} ELSE {})
  BY <1>3
<1> HIDE DEF m, s
<1> QED BY <1>2, <1>4, <1>5, <1>6, Zenon DEF IdsAgree, m, s

LEMMA LanesStep ==
  ASSUME NEW lines \in Seq(Mutations), NEW n \in Nat, n < Len(lines), NEW st \in States,
         ValidMutation(st, lines[n + 1]), LanesAgree(st, lines, n)
  PROVE  LanesAgree(ApplyMutation(st, lines[n + 1]), lines, n + 1)
<1> DEFINE m == lines[n + 1]
           s == ApplyMutation(st, m)
<1>1. m \in Mutations /\ Null \notin Lanes
  BY SessionAssumption
<1>2. s.lanes = IF m.kind = "entry" /\ m.lane # Null THEN SetKey(st.lanes, m.lane, m.id)
                ELSE IF m.kind = "lane" THEN SetKey(st.lanes, m.lane, m.leafId) ELSE st.lanes
  BY <1>1, ApplyFields, Zenon
<1>3. \A kinds : At(lines, n + 1, kinds)
                   = At(lines, n, kinds) \cup (IF m.kind \in kinds THEN {n + 1} ELSE {})
  BY AtNext
<1>4. \A lane : Moves(lines, n + 1, lane) =
        Moves(lines, n, lane) \cup (IF m.kind \in {"entry", "lane"} /\ m.lane = lane THEN {n + 1} ELSE {})
  BY <1>3 DEF Moves
<1>5. \A lane : \A j \in Moves(lines, n, lane) : j \in Nat /\ j <= n
  BY DEF Moves, At
<1>6. DOMAIN st.lanes \subseteq Lanes
  BY DEF States
<1>k. /\ m.kind = "entry" => m.lane \in Lanes \cup {Null}
      /\ m.kind = "lane" => m.lane \in Lanes
  BY <1>1, KindFacts
<1>v. m.kind = "entry" /\ m.lane # Null => m.lane \in DOMAIN st.lanes
  BY DEF ValidMutation, HasLane
<1> DEFINE moves == m.kind = "lane" \/ (m.kind = "entry" /\ m.lane # Null)
<1>7. s.lanes = IF moves THEN SetKey(st.lanes, m.lane, Leaf(m)) ELSE st.lanes
  BY <1>2 DEF Leaf
<1> HIDE DEF s
<1>8. /\ \A lane \in Lanes : lane \in DOMAIN st.lanes <=>
           lane = Main \/ \E i \in At(lines, n, {"lane"}) : lines[i].lane = lane
      /\ \A lane \in DOMAIN st.lanes :
           \/ Moves(lines, n, lane) = {} /\ st.lanes[lane] = Null
           \/ \E i \in Moves(lines, n, lane) :
                (\A j \in Moves(lines, n, lane) : j <= i) /\ st.lanes[lane] = Leaf(lines[i])
  BY DEF LanesAgree
<1>9. ASSUME NEW lane \in Lanes
      PROVE  lane \in DOMAIN s.lanes <=>
               lane = Main \/ \E i \in At(lines, n + 1, {"lane"}) : lines[i].lane = lane
  <2>1. At(lines, n + 1, {"lane"}) = At(lines, n, {"lane"}) \cup (IF m.kind = "lane" THEN {n + 1} ELSE {})
    BY <1>3
  <2>2. lane \in DOMAIN s.lanes <=> lane \in DOMAIN st.lanes \/ (moves /\ lane = m.lane)
    BY <1>7 DEF SetKey
  <2> QED BY <2>1, <2>2, <1>8, <1>v
<1>10. ASSUME NEW lane \in DOMAIN s.lanes
       PROVE  \/ Moves(lines, n + 1, lane) = {} /\ s.lanes[lane] = Null
              \/ \E i \in Moves(lines, n + 1, lane) :
                   (\A j \in Moves(lines, n + 1, lane) : j <= i) /\ s.lanes[lane] = Leaf(lines[i])
  <2>1. CASE moves /\ lane = m.lane
    <3>1. s.lanes[lane] = Leaf(m)
      BY <1>7, <2>1 DEF SetKey
    <3>2. n + 1 \in Moves(lines, n + 1, lane) /\ \A j \in Moves(lines, n + 1, lane) : j <= n + 1
      BY <1>4, <1>5, <2>1
    <3> QED BY <3>1, <3>2
  <2>2. CASE ~(moves /\ lane = m.lane)
    <3>1. lane \in DOMAIN st.lanes /\ s.lanes[lane] = st.lanes[lane]
      BY <1>7, <2>2 DEF SetKey
    <3>2. lane \in Lanes /\ Moves(lines, n + 1, lane) = Moves(lines, n, lane)
      BY <1>4, <1>6, <1>1, <2>2, <3>1, Zenon
    <3> QED BY <3>1, <3>2, <1>8
  <2> QED BY <2>1, <2>2
<1> QED BY <1>9, <1>10 DEF LanesAgree, s

LEMMA OpenStep ==
  ASSUME NEW lines \in Seq(Mutations), NEW n \in Nat, n < Len(lines), NEW st \in States,
         OpenAgree(st, lines, n)
  PROVE  OpenAgree(ApplyMutation(st, lines[n + 1]), lines, n + 1)
<1> DEFINE m == lines[n + 1]
           s == ApplyMutation(st, m)
<1>1. m \in Mutations
  OBVIOUS
<1>2. s.openOperations = IF m.kind = "record"
                         THEN [st.openOperations EXCEPT ![m.lane] = OpenAfter(@, m)]
                         ELSE st.openOperations
  BY <1>1, ApplyFields, Zenon
<1>3. st.openOperations \in [Lanes -> SUBSET Ids]
  BY DEF States
<1> SUFFICES ASSUME NEW i \in At(lines, n + 1, {"record"}), lines[i].type = "operation_started",
                    ~ \E j \in (i + 1) .. (n + 1) : Finishes(lines[j], lines[i])
             PROVE  lines[i].id \in s.openOperations[lines[i].lane]
  BY DEF OpenAgree
<1>4. i \in 1 .. (n + 1) /\ lines[i].kind = "record" /\ lines[i] \in Mutations
  BY DEF At
<1>5. lines[i].lane \in Lanes /\ (m.kind = "record" => m.lane \in Lanes)
  BY <1>1, <1>4, KindFacts
<1> DEFINE lane == lines[i].lane
<1>6. CASE i = n + 1
  <2>1. s.openOperations[lane] = st.openOperations[lane] \cup {m.id}
    BY <1>2, <1>3, <1>4, <1>5, <1>6, ZenonT(30) DEF OpenAfter
  <2> QED BY <2>1, <1>6
<1>7. CASE i # n + 1
  <2>1. i \in 1 .. n /\ n + 1 \in (i + 1) .. (n + 1) /\ \A j \in (i + 1) .. n : j \in (i + 1) .. (n + 1)
    BY <1>4, <1>7
  <2>2. i \in At(lines, n, {"record"})
    BY <2>1, <1>4 DEF At
  <2>3. lines[i].id \in st.openOperations[lane]
    BY <2>1, <2>2 DEF OpenAgree
  <2>4. ~Finishes(m, lines[i])
    BY <2>1
  <2>5. m.kind = "record" /\ m.lane = lane =>
          s.openOperations[lane] = OpenAfter(st.openOperations[lane], m)
    BY <1>2, <1>3, <1>5
  <2>6. ~(m.kind = "record" /\ m.lane = lane) => s.openOperations[lane] = st.openOperations[lane]
    BY <1>2, <1>3, <1>5
  <2> HIDE DEF m, s, lane
  <2>7. m.kind = "record" /\ m.lane = lane => lines[i].id \in OpenAfter(st.openOperations[lane], m)
    BY <2>3, <2>4 DEF OpenAfter, Finishes, lane
  <2> QED BY <2>3, <2>5, <2>6, <2>7 DEF lane, s, m
<1> QED BY <1>6, <1>7

-----------------------------------------------------------------------------
(* What a file that loads says of the state it loads as.                   *)

Loading == [ok |-> TRUE, st |-> EmptyState]

\* A replay has a state after each line.
LEMMA ReplaySteps ==
  ASSUME WellOrdered, NEW lines, Len(lines) \in Nat
  PROVE  \E r : /\ r[0] = Loading /\ Replay(lines) = r[Len(lines)]
                /\ \A n \in 1 .. Len(lines) : r[n] = ApplyIfValid(r[n - 1], lines[n])
<1> DEFINE N == Len(lines)
           Run(f, k) == f = [n \in 0 .. k |-> IF n = 0 THEN Loading ELSE ApplyIfValid(f[n - 1], lines[n])]
           S == {k \in 0 .. N : \E f : Run(f, k)}
<1>1. 0 \in S
  <2> DEFINE f == [n \in 0 .. 0 |-> Loading]
  <2>1. Run(f, 0)
    BY DEF Loading
  <2>2. 0 \in 0 .. N
    OBVIOUS
  <2> HIDE DEF Run, f, N
  <2> QED BY <2>1, <2>2
<1>2. ASSUME NEW k \in 0 .. N, k \in S, k < N PROVE k + 1 \in S
  <2>1. PICK f : Run(f, k)
    BY <1>2
  <2> DEFINE g == [n \in 0 .. (k + 1) |-> IF n = k + 1 THEN ApplyIfValid(f[k], lines[k + 1]) ELSE f[n]]
             G == [n \in 0 .. (k + 1) |-> IF n = 0 THEN Loading ELSE ApplyIfValid(g[n - 1], lines[n])]
  <2>2. ASSUME NEW n \in 0 .. (k + 1) PROVE g[n] = G[n]
    <3>1. CASE n = 0
      BY <2>1, <2>2, <3>1
    <3>2. CASE n # 0 /\ n # k + 1
      <4>1. n \in 0 .. k /\ n - 1 \in 0 .. (k + 1) /\ n - 1 # k + 1
        BY <2>2, <3>2
      <4>2. g[n - 1] = f[n - 1] /\ g[n] = f[n]
        BY <3>2, <4>1
      <4>3. f[n] = ApplyIfValid(f[n - 1], lines[n])
        BY <2>1, <3>2, <4>1
      <4> QED BY <3>2, <4>1, <4>2, <4>3
    <3>3. CASE n = k + 1
      <4>1. n - 1 = k /\ k \in 0 .. (k + 1) /\ k # k + 1 /\ n # 0
        BY <3>3
      <4>2. g[k] = f[k] /\ g[n] = ApplyIfValid(f[k], lines[k + 1])
        BY <3>3, <4>1
      <4> QED BY <3>3, <4>1, <4>2
    <3> QED BY <3>1, <3>2, <3>3, Zenon
  <2>3. g = G
    BY <2>2
  <2>4. Run(g, k + 1)
    BY <2>3
  <2> HIDE DEF Run, g, G
  <2> QED BY <1>2, <2>4
<1>3. N \in S
  <2> HIDE DEF S, N
  <2>1. N \in Nat /\ N \in 0 .. N
    BY DEF N
  <2> QED BY <1>1, <1>2, <2>1, Induction, Zenon
<1> DEFINE r == CHOOSE f : Run(f, N)
<1>4. Run(r, N)
  BY <1>3, Zenon
<1>5. Replay(lines) = r[N]
  BY DEF Replay, Loading
<1> HIDE DEF r
<1>6. r[0] = Loading /\ \A n \in 1 .. N : r[n] = ApplyIfValid(r[n - 1], lines[n])
  BY <1>4
<1> QED BY <1>5, <1>6

\* Lines that load: numbered from one, entries first, no reference forward.
Earlier(lines, n, id) == id = Null \/ \E j \in 1 .. (n - 1) : lines[j].kind = "entry" /\ lines[j].id = id
Loadable(lines, size) ==
  \A n \in DOMAIN lines :
    LET m == lines[n] IN
    /\ m \in Mutations /\ m.seq = n /\ m.kind # "record"
    /\ m.kind = "entry" <=> n <= size
    /\ m.kind = "entry" =>
         /\ m.lane = Null /\ Earlier(lines, n, m.parentId)
         /\ \A j \in 1 .. (n - 1) : lines[j].kind = "entry" => lines[j].id # m.id
    /\ m.kind = "lane" => Earlier(lines, n, m.leafId)
    /\ m.kind = "label" => Earlier(lines, n, m.targetId) /\ m.label # Null

\* What the first n of them leave.
EntriesAgree(st, lines, n, size) ==
  /\ Len(st.entries) = IF n <= size THEN n ELSE size
  /\ \A i \in 1 .. Len(st.entries) : st.entries[i] = lines[i]
FactsAgree(st, lines, n) ==
  /\ \/ st.name = Null /\ At(lines, n, {"name"}) = {}
     \/ \E i \in At(lines, n, {"name"}) : st.name = lines[i].name
  /\ DOMAIN st.labels = {lines[i].targetId : i \in At(lines, n, {"label"})}
  /\ \A id \in DOMAIN st.labels :
       \E i \in At(lines, n, {"label"}) : lines[i].targetId = id /\ st.labels[id] = lines[i].label
Loaded(st, lines, n, size) ==
  /\ st \in States /\ st.sequence = n
  /\ IdsAgree(st, lines, n) /\ LanesAgree(st, lines, n)
  /\ EntriesAgree(st, lines, n, size) /\ FactsAgree(st, lines, n)

LEMMA LoadsNext ==
  ASSUME NEW lines \in Seq(Mutations), NEW size \in Nat, size <= Len(lines), Loadable(lines, size),
         NEW n \in Nat, n < Len(lines), NEW st, Loaded(st, lines, n, size)
  PROVE  ValidMutation(st, lines[n + 1])
<1> DEFINE m == lines[n + 1]
<1>1. n + 1 \in DOMAIN lines /\ m \in Mutations /\ 1 .. ((n + 1) - 1) = 1 .. n
  OBVIOUS
<1>2. /\ m.seq = n + 1 /\ m.kind # "record"
      /\ m.kind = "entry" =>
           /\ m.lane = Null /\ Earlier(lines, n + 1, m.parentId)
           /\ \A j \in 1 .. ((n + 1) - 1) : lines[j].kind = "entry" => lines[j].id # m.id
      /\ m.kind = "lane" => Earlier(lines, n + 1, m.leafId)
      /\ m.kind = "label" => Earlier(lines, n + 1, m.targetId) /\ m.label # Null
  BY <1>1, Zenon DEF Loadable
<1>3. \A id : Earlier(lines, n + 1, id) => IsTarget(st, id)
  BY <1>1, Zenon DEF Earlier, IsTarget, Loaded, IdsAgree, At
<1>4. m.kind = "entry" => m.id \notin st.usedIds
  <2>1. \A j \in 1 .. n : lines[j].kind # "record"
    BY DEF Loadable
  <2> QED BY <1>1, <1>2, <2>1, ZenonT(30) DEF Loaded, IdsAgree, At
<1>5. m.kind = "label" => m.targetId \in EntryIds(st)
  <2>1. m.kind = "label" => m.targetId # Null
    BY <1>1, KindFacts, SessionAssumption, ZenonT(30)
  <2> QED BY <1>2, <1>3, <2>1, Zenon DEF IsTarget
<1>6. m.kind \in {"entry", "record", "lane", "name", "label"}
  BY <1>1, KindFacts
<1>7. st.sequence = n
  BY DEF Loaded
<1> HIDE DEF m
<1> QED BY <1>2, <1>3, <1>4, <1>5, <1>6, <1>7, Zenon DEF ValidMutation, m

LEMMA LoadsStep ==
  ASSUME NEW lines \in Seq(Mutations), NEW size \in Nat, size <= Len(lines), Loadable(lines, size),
         NEW n \in Nat, n < Len(lines), NEW st, Loaded(st, lines, n, size)
  PROVE  Loaded(ApplyMutation(st, lines[n + 1]), lines, n + 1, size)
<1> DEFINE m == lines[n + 1]
           s == ApplyMutation(st, m)
           e == st.entries
<1>1. /\ n + 1 \in DOMAIN lines /\ m \in Mutations /\ st \in States /\ ValidMutation(st, m)
      /\ m.seq = n + 1 /\ (m.kind = "entry" <=> n + 1 <= size) /\ (m.kind = "label" => m.label # Null)
  BY LoadsNext, SMTT(30) DEF Loaded, Loadable
<1>2. s \in States /\ s.sequence = n + 1 /\ IdsAgree(s, lines, n + 1) /\ LanesAgree(s, lines, n + 1)
  BY <1>1, ApplyType, ApplyFields, IdsStep, LanesStep, Zenon DEF Loaded
<1>3. /\ s.entries = IF m.kind = "entry" THEN Append(e, m) ELSE e
      /\ s.name = IF m.kind = "name" THEN m.name ELSE st.name
      /\ s.labels = IF m.kind # "label" THEN st.labels
                    ELSE IF m.label = Null THEN DeleteKey(st.labels, m.targetId)
                    ELSE SetKey(st.labels, m.targetId, m.label)
  BY <1>1, ApplyFields, Zenon
<1>4. EntriesAgree(s, lines, n + 1, size)
  <2>1. /\ e \in Seq(Mutations) /\ Len(e) = IF n <= size THEN n ELSE size
        /\ \A i \in 1 .. Len(e) : e[i] = lines[i]
    BY <1>1, Zenon DEF States, Loaded, EntriesAgree
  <2>2. CASE m.kind = "entry"
    <3>1. Len(e) = n /\ n + 1 <= size /\ s.entries = Append(e, m)
      BY <1>1, <1>3, <2>1, <2>2, SMTT(30)
    <3>2. Len(Append(e, m)) = n + 1 /\ Append(e, m)[n + 1] = m /\ \A i \in 1 .. n : Append(e, m)[i] = e[i]
      BY <2>1, <3>1
    <3>3. \A i \in 1 .. (n + 1) : Append(e, m)[i] = lines[i]
      BY <2>1, <3>1, <3>2
    <3> HIDE DEF m, s, e
    <3> QED BY <3>1, <3>2, <3>3, Zenon DEF EntriesAgree
  <2>3. CASE m.kind # "entry"
    <3>1. s.entries = e /\ ~(n + 1 <= size)
      BY <1>1, <1>3, <2>3, Zenon
    <3>2. Len(e) = size
      BY <2>1, <3>1
    <3> HIDE DEF m, s, e
    <3> QED BY <2>1, <3>1, <3>2 DEF EntriesAgree
  <2> QED BY <2>2, <2>3, Zenon
<1>5. \A kinds : At(lines, n + 1, kinds)
                   = At(lines, n, kinds) \cup (IF m.kind \in kinds THEN {n + 1} ELSE {})
  BY AtNext
<1>6. FactsAgree(st, lines, n)
  BY DEF Loaded
<1>7. \/ s.name = Null /\ At(lines, n + 1, {"name"}) = {}
      \/ \E i \in At(lines, n + 1, {"name"}) : s.name = lines[i].name
  <2> HIDE DEF s
  <2>1. CASE m.kind = "name"
    <3>1. n + 1 \in At(lines, n + 1, {"name"})
      BY <1>5, <2>1
    <3> QED BY <1>3, <2>1, <3>1, ZenonT(30)
  <2>2. CASE m.kind # "name"
    <3>1. At(lines, n + 1, {"name"}) = At(lines, n, {"name"})
      BY <1>5, <2>2, ZenonT(30)
    <3> QED BY <1>3, <1>6, <2>2, <3>1, Zenon DEF FactsAgree
  <2> QED BY <2>1, <2>2
<1>8. /\ DOMAIN s.labels = {lines[i].targetId : i \in At(lines, n + 1, {"label"})}
      /\ \A id \in DOMAIN s.labels :
           \E i \in At(lines, n + 1, {"label"}) : lines[i].targetId = id /\ s.labels[id] = lines[i].label
  <2> HIDE DEF s
  <2>0. /\ DOMAIN st.labels = {lines[i].targetId : i \in At(lines, n, {"label"})}
        /\ \A id \in DOMAIN st.labels :
             \E i \in At(lines, n, {"label"}) : lines[i].targetId = id /\ st.labels[id] = lines[i].label
    BY <1>6 DEF FactsAgree
  <2>1. CASE m.kind = "label"
    <3>1. /\ s.labels = SetKey(st.labels, m.targetId, m.label)
          /\ At(lines, n + 1, {"label"}) = At(lines, n, {"label"}) \cup {n + 1}
      BY <1>1, <1>3, <1>5, <2>1, Zenon
    <3>2. DOMAIN s.labels = DOMAIN st.labels \cup {m.targetId}
      BY <3>1, Zenon DEF SetKey
    <3>3. ASSUME NEW id \in DOMAIN s.labels
          PROVE  \E i \in At(lines, n + 1, {"label"}) :
                   lines[i].targetId = id /\ s.labels[id] = lines[i].label
      <4>1. s.labels[id] = IF id = m.targetId THEN m.label ELSE st.labels[id]
        BY <3>1, <3>3, Zenon DEF SetKey
      <4> QED BY <2>0, <3>1, <3>2, <4>1, SMTT(30)
    <3> QED BY <2>0, <3>1, <3>2, <3>3, SMTT(30)
  <2>2. CASE m.kind # "label"
    <3>1. s.labels = st.labels /\ At(lines, n + 1, {"label"}) = At(lines, n, {"label"})
      BY <1>3, <1>5, <2>2, Zenon
    <3> QED BY <2>0, <3>1
  <2> QED BY <2>1, <2>2
<1>9. FactsAgree(s, lines, n + 1)
  <2> HIDE DEF s
  <2> QED BY <1>7, <1>8, Zenon DEF FactsAgree
<1> QED BY <1>2, <1>4, <1>9 DEF Loaded

\* Loadable lines load, and leave what they say.
LEMMA Loads ==
  ASSUME WellOrdered, NEW lines \in Seq(Mutations), NEW size \in Nat, size <= Len(lines), Loadable(lines, size)
  PROVE  Replay(lines).ok /\ Loaded(Replay(lines).st, lines, Len(lines), size)
<1> DEFINE N == Len(lines)
<1>0. N \in Nat
  OBVIOUS
<1>1. PICK r : /\ r[0] = Loading /\ Replay(lines) = r[N]
               /\ \A n \in 1 .. N : r[n] = ApplyIfValid(r[n - 1], lines[n])
  BY <1>0, ReplaySteps, Zenon
<1> DEFINE S == {n \in 0 .. N : r[n].ok /\ Loaded(r[n].st, lines, n, size)}
<1>2. Loaded(EmptyState, lines, 0, size)
  <2>1. \A kinds : At(lines, 0, kinds) = {}
    BY DEF At
  <2>2. \A lane : Moves(lines, 0, lane) = {}
    BY <2>1 DEF Moves
  <2>3. /\ EmptyState.usedIds = {} /\ EmptyState.entries = <<>> /\ EmptyState.sequence = 0
        /\ EmptyState.lanes = [lane \in {Main} |-> Null] /\ EmptyState.name = Null
        /\ DOMAIN EmptyState.labels = {}
    BY Zenon DEF EmptyState
  <2>4. EntryIds(EmptyState) = {}
    BY <2>3 DEF EntryIds
  <2>5. IdsAgree(EmptyState, lines, 0)
    BY <2>1, <2>3, <2>4 DEF IdsAgree
  <2>6. LanesAgree(EmptyState, lines, 0)
    BY <2>1, <2>2, <2>3, ZenonT(30) DEF LanesAgree
  <2>7. EntriesAgree(EmptyState, lines, 0, size)
    BY <2>3 DEF EntriesAgree
  <2>8. FactsAgree(EmptyState, lines, 0)
    BY <2>1, <2>3 DEF FactsAgree
  <2> QED BY <2>3, <2>5, <2>6, <2>7, <2>8, EmptyStateOK, Zenon DEF Loaded
<1>3. 0 \in S
  BY <1>0, <1>1, <1>2 DEF Loading
<1>4. ASSUME NEW n \in 0 .. N, n \in S, n < N PROVE n + 1 \in S
  <2>1. n \in Nat /\ n + 1 \in 1 .. N /\ (n + 1) - 1 = n /\ n + 1 \in 0 .. N
    BY <1>0, <1>4
  <2> DEFINE st == r[n].st
  <2>2. r[n].ok /\ Loaded(st, lines, n, size) /\ r[n + 1] = ApplyIfValid(r[n], lines[n + 1])
    BY <1>1, <1>4, <2>1
  <2>3. ValidMutation(st, lines[n + 1]) /\ Loaded(ApplyMutation(st, lines[n + 1]), lines, n + 1, size)
    BY <1>4, <2>1, <2>2, LoadsNext, LoadsStep
  <2>4. r[n + 1] = [ok |-> TRUE, st |-> ApplyMutation(st, lines[n + 1])]
    BY <2>2, <2>3, Zenon DEF ApplyIfValid
  <2> QED BY <2>1, <2>3, <2>4, SMTT(30)
<1> HIDE DEF S
<1>5. N \in S
  <2> HIDE DEF N
  <2>1. N \in 0 .. N
    BY <1>0
  <2> QED BY <1>0, <1>3, <1>4, <2>1, Induction, Zenon
<1> QED BY <1>1, <1>5 DEF S

-----------------------------------------------------------------------------
(* The lines of a file that is put together from parts.                    *)

LEMMA Joined ==
  ASSUME NEW a \in Seq(Mutations), NEW b \in Seq(Mutations)
  PROVE  /\ a \o b \in Seq(Mutations) /\ Len(a \o b) = Len(a) + Len(b)
         /\ \A i \in 1 .. Len(a) : (a \o b)[i] = a[i]
         /\ \A i \in 1 .. Len(b) : (a \o b)[Len(a) + i] = b[i]
<1>1. a \o b \in Seq(Mutations) /\ Len(a \o b) = Len(a) + Len(b)
  OBVIOUS
<1>2. \A i \in 1 .. Len(a) : (a \o b)[i] = a[i]
  OBVIOUS
<1>3. \A i \in 1 .. Len(b) : (a \o b)[Len(a) + i] = b[i]
  OBVIOUS
<1> QED BY <1>1, <1>2, <1>3

\* s is a, b, c and d in this order.
InOrder(s, a, b, c, d) ==
  LET p == Len(a)  q == p + Len(b)  r == q + Len(c)
  IN /\ s \in Seq(Mutations) /\ Len(s) = r + Len(d)
     /\ \A i \in 1 .. Len(a) : s[i] = a[i]
     /\ \A i \in 1 .. Len(b) : s[p + i] = b[i]
     /\ \A i \in 1 .. Len(c) : s[q + i] = c[i]
     /\ \A i \in 1 .. Len(d) : s[r + i] = d[i]

LEMMA JoinedInOrder ==
  ASSUME NEW a \in Seq(Mutations), NEW b \in Seq(Mutations), NEW c \in Seq(Mutations), NEW d \in Seq(Mutations)
  PROVE  InOrder(a \o b \o c \o d, a, b, c, d)
<1> DEFINE x == a \o b
           y == x \o c
           z == y \o d
           p == Len(a)
           q == Len(x)
           r == Len(y)
<1>0. Len(a) \in Nat /\ Len(b) \in Nat /\ Len(c) \in Nat /\ Len(d) \in Nat
  OBVIOUS
<1>1. /\ x \in Seq(Mutations) /\ q = p + Len(b)
      /\ \A i \in 1 .. Len(a) : x[i] = a[i]
      /\ \A i \in 1 .. Len(b) : x[p + i] = b[i]
  BY Joined
<1> HIDE DEF x
<1>2. /\ y \in Seq(Mutations) /\ r = q + Len(c)
      /\ \A i \in 1 .. q : y[i] = x[i]
      /\ \A i \in 1 .. Len(c) : y[q + i] = c[i]
  BY <1>1, Joined, Zenon
<1> HIDE DEF y
<1>3. /\ z \in Seq(Mutations) /\ Len(z) = r + Len(d)
      /\ \A i \in 1 .. r : z[i] = y[i]
      /\ \A i \in 1 .. Len(d) : z[r + i] = d[i]
  BY <1>2, Joined, Zenon
<1> HIDE DEF z, p, q, r
<1>4. p \in Nat /\ p = Len(a)
  BY DEF p
<1>5. \A i \in 1 .. Len(a) : i \in 1 .. q /\ i \in 1 .. r
  BY <1>0, <1>1, <1>2, <1>4
<1>6. \A i \in 1 .. Len(b) : p + i \in 1 .. q /\ p + i \in 1 .. r
  BY <1>0, <1>1, <1>2, <1>4
<1>7. \A i \in 1 .. Len(c) : q + i \in 1 .. r
  BY <1>0, <1>1, <1>2, <1>4
<1>8. /\ \A i \in 1 .. Len(a) : z[i] = a[i]
      /\ \A i \in 1 .. Len(b) : z[p + i] = b[i]
      /\ \A i \in 1 .. Len(c) : z[q + i] = c[i]
  BY <1>1, <1>2, <1>3, <1>5, <1>6, <1>7, Zenon
<1> QED BY <1>1, <1>2, <1>3, <1>4, <1>8, ZenonT(30) DEF InOrder, x, y, z

\* Every position of s lies in one of the four.
LEMMA Placed ==
  ASSUME NEW a \in Seq(Mutations), NEW b \in Seq(Mutations), NEW c \in Seq(Mutations), NEW d \in Seq(Mutations),
         NEW s, InOrder(s, a, b, c, d), NEW n \in 1 .. Len(s)
  PROVE  \/ n <= Len(a) /\ n \in 1 .. Len(a) /\ s[n] = a[n]
         \/ n > Len(a) /\ \E i \in 1 .. Len(b) : s[n] = b[i]
         \/ n > Len(a) /\ \E i \in 1 .. Len(c) : s[n] = c[i]
         \/ n > Len(a) /\ \E i \in 1 .. Len(d) : s[n] = d[i]
<1> DEFINE p == Len(a)
           lb == Len(b)
           lc == Len(c)
           ld == Len(d)
           q == p + lb
           r == q + lc
<1>1. /\ p \in Nat /\ lb \in Nat /\ lc \in Nat /\ ld \in Nat /\ Len(s) = r + ld /\ n \in Int /\ n >= 1 /\ n <= r + ld
  BY SMTT(30) DEF InOrder
<1>2. /\ \A i \in 1 .. p : s[i] = a[i]
      /\ \A i \in 1 .. lb : s[p + i] = b[i]
      /\ \A i \in 1 .. lc : s[q + i] = c[i]
      /\ \A i \in 1 .. ld : s[r + i] = d[i]
  BY Zenon DEF InOrder
<1> HIDE DEF p, lb, lc, ld
<1>3. CASE n <= p
  BY <1>1, <1>2, <1>3, SMTT(30) DEF p
<1>4. CASE n > p /\ n <= q
  <2>1. n - p \in 1 .. lb /\ p + (n - p) = n
    BY <1>1, <1>4
  <2> QED BY <1>2, <1>4, <2>1, Zenon DEF p, lb
<1>5. CASE n > q /\ n <= r
  <2>1. n - q \in 1 .. lc /\ q + (n - q) = n /\ n > p
    BY <1>1, <1>5
  <2> QED BY <1>2, <2>1 DEF p, lc
<1>6. CASE n > r
  <2>1. n - r \in 1 .. ld /\ r + (n - r) = n /\ n > p
    BY <1>1, <1>6
  <2> QED BY <1>2, <2>1, Zenon DEF p, ld
<1> QED BY <1>1, <1>3, <1>4, <1>5, <1>6, SMTT(30)

\* A mutation but for its number.
Same(m, w) ==
  /\ m.kind = w.kind
  /\ m.kind = "entry" => m.id = w.id /\ m.parentId = w.parentId /\ m.lane = w.lane /\ m.type = w.type
  /\ m.kind = "lane" => m.lane = w.lane /\ m.leafId = w.leafId
  /\ m.kind = "name" => m.name = w.name
  /\ m.kind = "label" => m.targetId = w.targetId /\ m.label = w.label

LEMMA Renumbered ==
  ASSUME NEW m \in Mutations, NEW n \in Nat
  PROVE  LET r == [m EXCEPT !.seq = n] IN r \in Mutations /\ r.seq = n /\ Same(r, m)
<1> DEFINE r == [m EXCEPT !.seq = n]
<1>1. CASE m \in [kind : {"entry"}, seq : Nat, id : Ids, parentId : Ids \cup {Null},
                  lane : Lanes \cup {Null}, type : EntryTypes]
  <2>1. r = [kind |-> "entry", seq |-> n, id |-> m.id, parentId |-> m.parentId, lane |-> m.lane, type |-> m.type]
    BY <1>1
  <2> QED BY <1>1, <2>1 DEF Mutations, MutationsAt, Same
<1>2. CASE m \in [kind : {"record"}, seq : Nat, id : Ids, lane : Lanes, type : RecordTypes,
                  runId : Ids \cup {Null}]
  <2>1. r = [kind |-> "record", seq |-> n, id |-> m.id, lane |-> m.lane, type |-> m.type, runId |-> m.runId]
    BY <1>2
  <2> QED BY <1>2, <2>1 DEF Mutations, MutationsAt, Same
<1>3. CASE m \in [kind : {"lane"}, seq : Nat, lane : Lanes, leafId : Ids \cup {Null}]
  <2>1. r = [kind |-> "lane", seq |-> n, lane |-> m.lane, leafId |-> m.leafId]
    BY <1>3
  <2> QED BY <1>3, <2>1 DEF Mutations, MutationsAt, Same
<1>4. CASE m \in [kind : {"name"}, seq : Nat, name : Labels \cup {Null}]
  <2>1. r = [kind |-> "name", seq |-> n, name |-> m.name]
    BY <1>4
  <2> QED BY <1>4, <2>1 DEF Mutations, MutationsAt, Same
<1>5. CASE m \in [kind : {"label"}, seq : Nat, targetId : Ids, label : Labels \cup {Null}]
  <2>1. r = [kind |-> "label", seq |-> n, targetId |-> m.targetId, label |-> m.label]
    BY <1>5
  <2> QED BY <1>5, <2>1 DEF Mutations, MutationsAt, Same
<1> QED BY <1>1, <1>2, <1>3, <1>4, <1>5 DEF Mutations, MutationsAt

LEMMA RenumberFacts ==
  ASSUME NEW s \in Seq(Mutations)
  PROVE  /\ Renumber(s) \in Seq(Mutations) /\ Len(Renumber(s)) = Len(s)
         /\ \A n \in 1 .. Len(s) : Renumber(s)[n].seq = n /\ Same(Renumber(s)[n], s[n])
<1> DEFINE t == Renumber(s)
<1>1. DOMAIN s = 1 .. Len(s) /\ Len(s) \in Nat /\ \A n \in 1 .. Len(s) : s[n] \in Mutations /\ n \in Nat
  OBVIOUS
<1>2. t = [n \in 1 .. Len(s) |-> [s[n] EXCEPT !.seq = n]]
  BY <1>1 DEF Renumber
<1>3. \A n \in 1 .. Len(s) : t[n] \in Mutations /\ t[n].seq = n /\ Same(t[n], s[n])
  <2> SUFFICES ASSUME NEW n \in 1 .. Len(s) PROVE t[n] \in Mutations /\ t[n].seq = n /\ Same(t[n], s[n])
    OBVIOUS
  <2>1. t[n] = [s[n] EXCEPT !.seq = n] /\ s[n] \in Mutations /\ n \in Nat
    BY <1>1, <1>2
  <2> QED BY <2>1, Renumbered
<1>4. t \in Seq(Mutations) /\ Len(t) = Len(s)
  <2>1. t \in [1 .. Len(s) -> Mutations]
    BY <1>2, <1>3
  <2> HIDE DEF t
  <2> QED BY <1>1, <2>1
<1> QED BY <1>3, <1>4

-----------------------------------------------------------------------------
(* The state a fork starts from, and the paths of its entries.             *)

\* Entries have ids of their own and come after their parents.
Rooted(entries) ==
  \A i \in DOMAIN entries :
    /\ entries[i].kind = "entry"
    /\ \A j \in 1 .. (i - 1) : entries[j].id # entries[i].id
    /\ entries[i].parentId # Null => \E j \in 1 .. (i - 1) : entries[j].id = entries[i].parentId

Sane(st) ==
  /\ Rooted(st.entries) /\ EntryIds(st) \subseteq st.usedIds /\ LeavesExist(st)
  /\ IsFiniteSet(DOMAIN st.lanes) /\ Main \in DOMAIN st.lanes
  /\ DOMAIN st.labels \subseteq EntryIds(st)

Pos(st, id) == CHOOSE i \in DOMAIN st.entries : st.entries[i].id = id

\* An entry is found by its id, and its parent lies before it.
LEMMA Found ==
  ASSUME NEW st \in States, Sane(st), NEW id \in EntryIds(st)
  PROVE  /\ Pos(st, id) \in 1 .. Len(st.entries) /\ EntryOf(st, id) = st.entries[Pos(st, id)]
         /\ EntryOf(st, id) \in Mutations /\ EntryOf(st, id).kind = "entry" /\ EntryOf(st, id).id = id
         /\ EntryOf(st, id).parentId # Null =>
              /\ EntryOf(st, id).parentId \in EntryIds(st)
              /\ Pos(st, EntryOf(st, id).parentId) < Pos(st, id)
<1> DEFINE e == st.entries
           p == Pos(st, id)
           u == e[p].parentId
           q == Pos(st, u)
<1>1. e \in Seq(Mutations) /\ DOMAIN e = 1 .. Len(e) /\ Len(e) \in Nat /\ EntryIds(st) = {e[i].id : i \in 1 .. Len(e)}
  BY DEF States, EntryIds
<1>2. p \in 1 .. Len(e) /\ e[p].id = id
  BY <1>1 DEF Pos
<1>3. EntryOf(st, id) = e[p]
  BY DEF EntryOf, Pos
<1> HIDE DEF p
<1>4. /\ e[p].kind = "entry" /\ e[p] \in Mutations
      /\ u # Null => \E j \in 1 .. (p - 1) : e[j].id = u
  BY <1>1, <1>2, SMTT(30) DEF Sane, Rooted
<1>5. ASSUME u # Null PROVE u \in EntryIds(st) /\ q < p
  <2>1. PICK j \in 1 .. (p - 1) : e[j].id = u
    BY <1>4, <1>5
  <2>2. j \in 1 .. Len(e) /\ j < p
    BY <1>1, <1>2
  <2>3. q \in 1 .. Len(e) /\ e[q].id = u
    BY <1>1, <2>1, <2>2, Zenon DEF Pos
  <2> HIDE DEF q
  <2>4. ~(j < q)
    <3> SUFFICES ASSUME j < q PROVE FALSE
      OBVIOUS
    <3>1. j \in 1 .. (q - 1)
      BY <2>2, <2>3
    <3> QED BY <1>1, <2>1, <2>3, <3>1, Zenon DEF Sane, Rooted
  <2> QED BY <1>1, <1>2, <2>1, <2>2, <2>3, <2>4
<1> HIDE DEF u
<1> QED BY <1>2, <1>3, <1>4, <1>5, Zenon DEF p, q, u

\* The ids from an entry to the root, then null.
Climbs(f, st, id, len) ==
  /\ f[0] = id
  /\ \A n \in 1 .. len : f[n] = IF f[n - 1] = Null THEN Null ELSE EntryOf(st, f[n - 1]).parentId

Traced(f, st, id) ==
  LET ids == {n \in 0 .. Len(st.entries) : f[n] # Null} IN
  /\ Climbs(f, st, id, Len(st.entries))
  /\ BranchTo(st, id) = [i \in 1 .. Cardinality(ids) |-> EntryOf(st, f[Cardinality(ids) - i])]

LEMMA PathExists ==
  ASSUME WellOrdered, NEW st, NEW id, Len(st.entries) \in Nat
  PROVE  \E f : Traced(f, st, id)
<1> DEFINE N == Len(st.entries)
           Up(x) == IF x = Null THEN Null ELSE EntryOf(st, x).parentId
           Run(f, k) == f = [n \in 0 .. k |-> IF n = 0 THEN id ELSE Up(f[n - 1])]
           S == {k \in 0 .. N : \E f : Run(f, k)}
<1>1. 0 \in S
  <2> DEFINE f == [n \in 0 .. 0 |-> id]
  <2>1. Run(f, 0)
    OBVIOUS
  <2>2. 0 \in 0 .. N
    OBVIOUS
  <2> HIDE DEF Run, f, N
  <2> QED BY <2>1, <2>2
<1>2. ASSUME NEW k \in 0 .. N, k \in S, k < N PROVE k + 1 \in S
  <2>1. PICK f : Run(f, k)
    BY <1>2, ZenonT(30)
  <2> HIDE DEF Up
  <2> DEFINE g == [n \in 0 .. (k + 1) |-> IF n = k + 1 THEN Up(f[k]) ELSE f[n]]
             G == [n \in 0 .. (k + 1) |-> IF n = 0 THEN id ELSE Up(g[n - 1])]
  <2>2. ASSUME NEW n \in 0 .. (k + 1) PROVE g[n] = G[n]
    <3>1. CASE n = 0
      BY <2>1, <2>2, <3>1
    <3>2. CASE n # 0 /\ n # k + 1
      <4>1. n \in 0 .. k /\ n - 1 \in 0 .. (k + 1) /\ n - 1 # k + 1
        BY <2>2, <3>2
      <4>2. g[n - 1] = f[n - 1] /\ g[n] = f[n]
        BY <3>2, <4>1
      <4>3. f[n] = Up(f[n - 1])
        BY <2>1, <3>2, <4>1
      <4> QED BY <3>2, <4>1, <4>2, <4>3
    <3>3. CASE n = k + 1
      <4>1. n - 1 = k /\ k \in 0 .. (k + 1) /\ k # k + 1 /\ n # 0
        BY <3>3
      <4>2. g[k] = f[k] /\ g[n] = Up(f[k])
        BY <3>3, <4>1
      <4> QED BY <3>3, <4>1, <4>2
    <3> QED BY <3>1, <3>2, <3>3
  <2>3. g = G
    BY <2>2
  <2>4. Run(g, k + 1)
    BY <2>3
  <2> HIDE DEF Run, g, G
  <2> QED BY <1>2, <2>4
<1>3. N \in S
  <2> HIDE DEF S, N
  <2>1. N \in Nat /\ N \in 0 .. N
    BY DEF N
  <2> QED BY <1>1, <1>2, <2>1, Induction, Zenon
<1> DEFINE r == CHOOSE f : Run(f, N)
<1>4. Run(r, N)
  BY <1>3, Zenon
<1>5. LET ids == {n \in 0 .. N : r[n] # Null} IN
      BranchTo(st, id) = [i \in 1 .. Cardinality(ids) |-> EntryOf(st, r[Cardinality(ids) - i])]
  BY DEF BranchTo
<1> HIDE DEF r
<1>6. Climbs(r, st, id, N)
  BY <1>4 DEF Climbs
<1> QED BY <1>5, <1>6, Zenon DEF Traced
=============================================================================
