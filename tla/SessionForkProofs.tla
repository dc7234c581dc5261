------------------------- MODULE SessionForkProofs --------------------------
(***************************************************************************)
(* Proofs about SessionFork: the storage, with its forks, implements the   *)
(* append-only log; a fork appears whole or not at all; and what           *)
(* createForkMutations writes loads as the copy or the path it stands for. *)
(*                                                                         *)
(* The inductive argument is over time: the state of an open storage is    *)
(* one that a fork can start from (Sane), and a fork in progress writes a  *)
(* plan made from such a state (Writing).  What a step of the storage does *)
(* is in JsonlStorageProofs, what the plan holds in ForkCopyProofs.        *)
(***************************************************************************)
EXTENDS JsonlStorageProofs, ForkCopyProofs, FiniteSetTheorems

-----------------------------------------------------------------------------
(* What the other modules take from the theorem library.                   *)

\* Every set of natural numbers has a least element.
LEMMA NaturalsWellOrdered == WellOrdered
<1> DEFINE Less == {p \in Nat \X Nat : p[1] < p[2]}
<1>1. IsWellFoundedOn(Less, Nat)
  BY NatLessThanWellFounded DEF OpToRel
<1> SUFFICES ASSUME NEW S \in SUBSET Nat, S # {}
             PROVE  \E m \in S : \A n \in S : m <= n
  BY Zenon DEF WellOrdered
<1> HIDE DEF Less
<1>2. PICK m \in S : \A n \in S : <<n, m>> \notin Less
  BY <1>1, WFMin, Zenon
<1>3. \A n \in S : ~(n < m)
  BY <1>2, Zenon DEF Less
<1> QED BY <1>3

\* Every finite set of positions can be listed in order.
LEMMA AscendingLists ==
  ASSUME NEW N \in Nat, NEW P \in SUBSET (1 .. N)
  PROVE  Lists(Ascending(P), P)
<1> DEFINE Sorts(f, T) == /\ f \in [1 .. Cardinality(T) -> T]
                          /\ \A i, j \in DOMAIN f : i < j => f[i] < f[j]
           S == {n \in 0 .. N : \E f : Sorts(f, P \cap (1 .. n))}
<1>a. \A p \in P : p \in 1 .. N /\ p \in Int /\ 1 <= p /\ p <= N
  OBVIOUS
<1>0. \A n \in 0 .. N : IsFiniteSet(P \cap (1 .. n)) /\ Cardinality(P \cap (1 .. n)) \in Nat
  <2> SUFFICES ASSUME NEW n \in 0 .. N
               PROVE  IsFiniteSet(P \cap (1 .. n)) /\ Cardinality(P \cap (1 .. n)) \in Nat
    OBVIOUS
  <2>1. IsFiniteSet(1 .. n)
    BY FS_Interval
  <2>2. P \cap (1 .. n) \in SUBSET (1 .. n)
    OBVIOUS
  <2>3. IsFiniteSet(P \cap (1 .. n))
    BY <2>1, <2>2, FS_Subset
  <2> QED BY <2>3, FS_CardinalityType
<1>1. 0 \in S
  <2>1. P \cap (1 .. 0) = {} /\ Cardinality({}) = 0 /\ 0 \in 0 .. N
    BY FS_EmptySet
  <2>2. Sorts(<<>>, {})
    BY <2>1
  <2> HIDE DEF Sorts
  <2> QED BY <2>1, <2>2
<1>2. ASSUME NEW n \in 0 .. N, n \in S, n < N PROVE n + 1 \in S
  <2> DEFINE T == P \cap (1 .. n)
             U == P \cap (1 .. (n + 1))
             c == Cardinality(T)
  <2>1. PICK f : Sorts(f, T)
    BY <1>2, Zenon
  <2>a. 1 .. (n + 1) = (1 .. n) \cup {n + 1} /\ n + 1 \in 0 .. N
    BY <1>2
  <2>b. U = IF n + 1 \in P THEN T \cup {n + 1} ELSE T
    BY <2>a
  <2>c. n + 1 \notin T /\ (\A p \in T : p \in Int /\ p < n + 1)
    OBVIOUS
  <2>d. IsFiniteSet(T) /\ c \in Nat
    BY <1>0
  <2>2. /\ U = IF n + 1 \in P THEN T \cup {n + 1} ELSE T
        /\ n + 1 \notin T /\ \A p \in T : p \in Int /\ p < n + 1
        /\ n + 1 \in 0 .. N /\ IsFiniteSet(T) /\ c \in Nat
    BY <2>a, <2>b, <2>c, <2>d
  <2>3. CASE n + 1 \notin P
    <3>1. U = T
      BY <2>2, <2>3
    <3> HIDE DEF Sorts, T, U
    <3>2. Sorts(f, U)
      BY <2>1, <3>1
    <3> QED BY <2>2, <3>2 DEF U
  <2>4. CASE n + 1 \in P
    <3> DEFINE g == [i \in 1 .. (c + 1) |-> IF i = c + 1 THEN n + 1 ELSE f[i]]
    <3>1. U = T \cup {n + 1}
      BY <2>2, <2>4
    <3>2. Cardinality(U) = c + 1
      <4> HIDE DEF T, U
      <4> QED BY <2>2, <3>1, FS_AddElement DEF c
    <3> HIDE DEF T, U
    <3>3. f \in [1 .. c -> T] /\ \A i, j \in 1 .. c : i < j => f[i] < f[j]
      BY <2>1
    <3> HIDE DEF c
    <3>4. g \in [1 .. (c + 1) -> U]
      BY <2>2, <3>1, <3>3
    <3>5. ASSUME NEW i \in 1 .. (c + 1), NEW j \in 1 .. (c + 1), i < j PROVE g[i] < g[j]
      <4>1. i \in 1 .. c /\ i # c + 1 /\ f[i] \in T /\ g[i] = f[i]
        BY <2>2, <3>3, <3>5
      <4>2. CASE j = c + 1
        BY <2>2, <4>1, <4>2
      <4>3. CASE j # c + 1
        <5>1. j \in 1 .. c /\ g[j] = f[j]
          BY <2>2, <4>3
        <5> QED BY <3>3, <3>5, <4>1, <5>1
      <4> QED BY <4>2, <4>3
    <3>6. DOMAIN g = 1 .. (c + 1)
      OBVIOUS
    <3> HIDE DEF g
    <3>7. Sorts(g, U)
      BY <3>2, <3>4, <3>5, <3>6
    <3> HIDE DEF Sorts
    <3> QED BY <2>2, <3>7 DEF U
  <2> QED BY <2>3, <2>4, Zenon
<1>3. P \cap (1 .. N) = P /\ N \in 0 .. N
  <2>1. P \cap (1 .. N) = P
    BY <1>a, Zenon
  <2> QED BY <2>1
<1>4. \E f : Sorts(f, P)
  <2> HIDE DEF Sorts
  <2>1. N \in S
    <3> HIDE DEF S
    <3> QED BY <1>1, <1>2, <1>3, Induction, NaturalsWellOrdered
  <2> QED BY <1>3, <2>1
<1> DEFINE a == Ascending(P)
<1>5. Sorts(a, P)
  BY <1>4, Zenon DEF Ascending
<1>6. IsFiniteSet(P) /\ Cardinality(P) \in Nat
  BY <1>0, <1>3
<1> HIDE DEF a
<1>7. a \in Surjection(1 .. Cardinality(P), P)
  <2> DEFINE D == 1 .. Cardinality(P)
  <2>1. IsFiniteSet(D) /\ Cardinality(D) = Cardinality(P)
    BY <1>6, FS_Interval
  <2>2. a \in Injection(D, P)
    <3>1. a \in [D -> P] /\ \A i, j \in D : i < j => a[i] < a[j]
      BY <1>5
    <3>2. \A p \in P : p \in Int
      BY <1>a
    <3>3. ASSUME NEW i \in D, NEW j \in D, i # j PROVE a[i] # a[j]
      <4>a. i \in Int /\ j \in Int /\ (i < j \/ j < i)
        BY <1>6, <3>3
      <4>b. a[i] \in P /\ a[j] \in P
        BY <3>1
      <4>1. i \in Int /\ j \in Int /\ a[i] \in Int /\ a[j] \in Int /\ (i < j \/ j < i)
        BY <3>2, <4>a, <4>b, Zenon
      <4> QED BY <3>1, <3>3, <4>1
    <3> QED BY <3>1, <3>3 DEF Injection, IsInjective
  <2> HIDE DEF D
  <2> QED BY <1>6, <2>1, <2>2, FS_Injection DEF D
<1> QED BY <1>5, <1>6, <1>7 DEF Surjection, Lists, a

LEMMA LaneOrderLists ==
  ASSUME NEW st, IsFiniteSet(DOMAIN st.lanes)
  PROVE  Lists(LaneOrder(st), DOMAIN st.lanes)
<1> DEFINE D == DOMAIN st.lanes
           Covers(f) == f \in [1 .. Cardinality(D) -> D] /\ \A lane \in D : \E i \in DOMAIN f : f[i] = lane
<1>1. Cardinality(D) \in Nat /\ ExistsBijection(1 .. Cardinality(D), D)
  BY FS_CardinalityType
<1>2. PICK f : f \in Bijection(1 .. Cardinality(D), D)
  BY <1>1 DEF ExistsBijection
<1>3. Covers(f)
  BY <1>2 DEF Bijection, Surjection, Injection
<1>4. LaneOrder(st) = CHOOSE g \in [1 .. Cardinality(D) -> D] :
                        \A lane \in D : \E i \in DOMAIN g : g[i] = lane
  BY DEF LaneOrder
<1>5. Covers(LaneOrder(st))
  BY <1>3, <1>4, Zenon
<1> QED BY <1>1, <1>5 DEF Lists

LEMMA SetsAreCounted == Counted
<1>1. ASSUME NEW d \in Nat PROVE Cardinality(0 .. (d - 1)) = d
  <2>1. CASE d = 0
    <3>1. 0 .. (d - 1) = {}
      BY <2>1
    <3> QED BY <2>1, <3>1, FS_EmptySet
  <2>2. CASE d # 0
    <3>1. 0 \in Int /\ d - 1 \in Int /\ ~(0 > d - 1) /\ ((d - 1) - 0) + 1 = d
      BY <2>2
    <3> QED BY <3>1, FS_Interval
  <2> QED BY <2>1, <2>2
<1> QED BY <1>1, AscendingLists, LaneOrderLists, Zenon DEF Counted

-----------------------------------------------------------------------------
(* The storage implements the log.                                         *)

ForkInv == SafeInv /\ ReplayInv /\ OwnLanes

LEMMA ForkInvariance == ForkSpec => []ForkInv
<1>1. ForkInit => ForkInv
  <2>1. Init => OwnLanes
    BY OwnedEmpty DEF Init, OwnLanes
  <2> QED BY <2>1, InitSafe, InitReplay DEF ForkInit, ForkInv
<1>2. ForkInv /\ [ForkNext]_<<vars, forkVars>> => ForkInv'
  <2>1. [ForkNext]_<<vars, forkVars>> => [Next]_vars
    BY DEF ForkNext, Fork, ForkWrite, ForkPublish, ForkFails, SourceStep
  <2> QED BY <2>1, NextSafe, NextReplay, NextOwn DEF ForkInv
<1> QED BY <1>1, <1>2, PTL DEF ForkSpec

\* As long as no file operation reports an error, what the callers of the
\* storage have seen is the log SessionLog describes: it grows by one mutation
\* at a time, each consistent with everything before it, through crashes and
\* repairs (appendMutation, load, storage.ts) and beside forks.
THEOREM StorageImplementsLog == ForkSpec /\ [](errors = 0) => ImplementsSessionLog
<1>1. ForkInit => Abstract!LogInit
  BY DEF ForkInit, Init, Abstract!LogInit
<1>2. /\ ForkInv /\ ForkInv' /\ errors = 0 /\ (errors = 0)' /\ [ForkNext]_<<vars, forkVars>>
      => [Abstract!LogNext]_promised
  <2>1. [ForkNext]_<<vars, forkVars>> => [Next]_vars
    BY DEF ForkNext, Fork, ForkWrite, ForkPublish, ForkFails, SourceStep
  <2> QED BY <2>1, StepImplementsLog, NaturalsWellOrdered DEF ForkInv
<1> QED BY <1>1, <1>2, ForkInvariance, PTL DEF ForkSpec, ImplementsSessionLog, Abstract!LogSpec

-----------------------------------------------------------------------------
(* The state a fork starts from.                                           *)

LEMMA ApplySane ==
  ASSUME NEW st \in States, NEW m \in Mutations, Sane(st), ValidMutation(st, m)
  PROVE  Sane(ApplyMutation(st, m))
<1> DEFINE s == ApplyMutation(st, m)
           e == st.entries
           k == Len(e)
<1>0. e \in Seq(Mutations) /\ k \in Nat /\ DOMAIN e = 1 .. k
  BY SMTT(30) DEF States
<1>1. /\ s.usedIds = IF m.kind \in {"entry", "record"} THEN st.usedIds \cup {m.id} ELSE st.usedIds
      /\ s.entries = IF m.kind = "entry" THEN Append(e, m) ELSE e
      /\ s.lanes = IF m.kind = "entry" /\ m.lane # Null THEN SetKey(st.lanes, m.lane, m.id)
                   ELSE IF m.kind = "lane" THEN SetKey(st.lanes, m.lane, m.leafId) ELSE st.lanes
      /\ s.labels = IF m.kind # "label" THEN st.labels
                    ELSE IF m.label = Null THEN DeleteKey(st.labels, m.targetId)
                    ELSE SetKey(st.labels, m.targetId, m.label)
  BY ApplyFields, Zenon
<1>2. EntryIds(s) = IF m.kind = "entry" THEN EntryIds(st) \cup {m.id} ELSE EntryIds(st)
  BY AppendedIds
<1>3. LeavesExist(s)
  BY ApplyLeaves DEF Sane
<1>4. Rooted(s.entries)
  <2>1. CASE m.kind # "entry"
    BY <1>1, <2>1, Zenon DEF Sane
  <2>2. CASE m.kind = "entry"
    <3>1. m.id \notin EntryIds(st) /\ m.parentId \in EntryIds(st) \cup {Null}
      BY <2>2 DEF Sane, ValidMutation, IsTarget
    <3>2. EntryIds(st) = {e[i].id : i \in 1 .. k}
      BY <1>0 DEF EntryIds
    <3>3. /\ \A j \in 1 .. k : e[j].id # m.id
          /\ m.parentId # Null => \E j \in 1 .. k : e[j].id = m.parentId
      BY <3>1, <3>2
    <3> DEFINE f == Append(e, m)
    <3>4. DOMAIN f = 1 .. (k + 1) /\ f[k + 1] = m /\ \A i \in 1 .. k : f[i] = e[i]
      BY <1>0
    <3>5. s.entries = f /\ Rooted(e)
      BY <1>1, <2>2, Zenon DEF Sane
    <3> HIDE DEF f, e, k, s
    <3>6. ASSUME NEW i \in DOMAIN f
          PROVE  /\ f[i].kind = "entry"
                 /\ \A j \in 1 .. (i - 1) : f[j].id # f[i].id
                 /\ f[i].parentId # Null => \E j \in 1 .. (i - 1) : f[j].id = f[i].parentId
      <4>1. CASE i = k + 1
        <5>1. 1 .. (i - 1) = 1 .. k /\ f[i] = m
          BY <1>0, <3>4, <4>1
        <5> QED BY <2>2, <3>3, <3>4, <5>1, Zenon
      <4>2. CASE i # k + 1
        <5>1. i \in 1 .. k /\ f[i] = e[i] /\ \A j \in 1 .. (i - 1) : j \in 1 .. k /\ f[j] = e[j]
          BY <1>0, <3>4, <4>2
        <5>2. i \in DOMAIN e
          BY <1>0, <5>1
        <5> QED BY <3>5, <5>1, <5>2 DEF Rooted
      <4> QED BY <4>1, <4>2
    <3> QED BY <3>5, <3>6 DEF Rooted
  <2> QED BY <2>1, <2>2
<1>5. EntryIds(s) \subseteq s.usedIds
  BY <1>1, <1>2, Zenon DEF Sane
<1>6. IsFiniteSet(DOMAIN s.lanes) /\ Main \in DOMAIN s.lanes
  <2>1. DOMAIN s.lanes = DOMAIN st.lanes \/ \E lane : DOMAIN s.lanes = DOMAIN st.lanes \cup {lane}
    BY <1>1, Zenon DEF SetKey
  <2> QED BY <2>1, FS_AddElement DEF Sane
<1>7. DOMAIN s.labels \subseteq EntryIds(s)
  <2>1. m.kind = "label" => m.targetId \in EntryIds(st)
    BY DEF ValidMutation
  <2>2. DOMAIN s.labels \subseteq DOMAIN st.labels \cup (IF m.kind = "label" THEN {m.targetId} ELSE {})
    BY <1>1, Zenon DEF SetKey, DeleteKey
  <2> QED BY <1>2, <2>1, <2>2 DEF Sane
<1> QED BY <1>3, <1>4, <1>5, <1>6, <1>7 DEF Sane

LEMMA EmptySane == Sane(EmptyState)
<1>1. /\ EmptyState.entries = <<>> /\ EmptyState.usedIds = {} /\ DOMAIN EmptyState.lanes = {Main}
      /\ DOMAIN EmptyState.labels = {}
  BY DEF EmptyState
<1>2. EntryIds(EmptyState) = {} /\ Rooted(EmptyState.entries)
  BY <1>1 DEF EntryIds, Rooted
<1> QED BY <1>1, <1>2, EmptyStateOK, FS_Singleton, Zenon DEF Sane

\* The state is replaced by what a valid mutation makes of it, or forgotten.
LEMMA StateStep ==
  ASSUME SafeInv, [Next]_vars
  PROVE  \/ state' = state \/ state' = EmptyState
         \/ \E m \in Mutations : ValidMutation(state, m) /\ state' = ApplyMutation(state, m)
<1>1. CASE Acknowledge
  <2>1. Head(inflight) \in Mutations /\ ValidMutation(state, Head(inflight))
    BY <1>1 DEF Acknowledge, SafeInv, TypeOK, InflightApplies
  <2> QED BY <1>1, <2>1 DEF Acknowledge, Apply
<1>2. CASE LoadLine
  <2>1. content[index] \in Lines
    BY <1>2 DEF LoadLine, SafeInv, TypeOK, index
  <2> QED BY <1>2, <2>1 DEF LoadLine, Applies, Apply, Lines
<1>3. Operation => state' = state
  BY OperationEnqueues DEF SafeInv, Enqueue, memory
<1>4. (\E extent \in Extents : WriteFails(extent) \/ Crash(extent)) =>
        state' = state \/ state' = EmptyState
  BY DEF WriteFails, Crash, memory, Forget
<1>5. CASE WriteAll \/ Load \/ RepairFails \/ LoadRefuses \/ LoadTornTail \/ StageRepair
  BY <1>5 DEF WriteAll, Load, RepairFails, LoadRefuses, LoadTornTail, StageRepair, memory, Forget
<1>6. CASE LoadComplete \/ PublishRepair \/ RepairNewline \/ UNCHANGED vars
  BY <1>6 DEF LoadComplete, PublishRepair, RepairNewline, Opened, memory, vars
<1> QED BY <1>1, <1>2, <1>3, <1>4, <1>5, <1>6 DEF Next, LoadStep

LEMMA NextSane == ASSUME SafeInv, Sane(state), [Next]_vars PROVE Sane(state')
<1>1. state \in States
  BY DEF SafeInv, TypeOK
<1> QED BY <1>1, StateStep, ApplySane, EmptySane

-----------------------------------------------------------------------------
(* The forks of a running system.                                          *)

\* What publishFileAtomically has done so far: the temporary file is the
\* beginning of the plan, the fork's file all of it.
Writing ==
  /\ plan \in Seq(Mutations)
  /\ temp # Absent => /\ temp \in Seq(Mutations) /\ Len(temp) <= Len(plan)
                      /\ \A i \in 1 .. Len(temp) : temp[i] = plan[i]
  /\ dest # Absent => dest = plan
SourceSane == Sane(state)
WritingInv == SafeInv /\ SourceSane /\ Writing

LEMMA ForkStepIsSourceStep == ASSUME [ForkNext]_<<vars, forkVars>> PROVE [Next]_vars
  BY DEF ForkNext, Fork, ForkWrite, ForkPublish, ForkFails, SourceStep

LEMMA NextWriting == ASSUME WritingInv, [ForkNext]_<<vars, forkVars>> PROVE Writing'
<1>1. ASSUME NEW options \in ForkOptions(state), Fork(options) PROVE Writing'
  <2>1. plan' \in Seq(Mutations)
    BY <1>1, PlanIsSequence, NaturalsWellOrdered, SetsAreCounted DEF Fork, WritingInv, SourceSane, SafeInv, TypeOK
  <2>2. temp' = <<>> /\ dest' = Absent
    BY <1>1 DEF Fork, CanFork
  <2> QED BY <2>1, <2>2 DEF Writing, Absent
<1>2. CASE ForkWrite
  <2> DEFINE n == Len(temp)
  <2>1. /\ plan' = plan /\ dest' = dest /\ plan \in Seq(Mutations) /\ temp \in Seq(Mutations)
        /\ n < Len(plan) /\ n \in Nat /\ Len(plan) \in Nat
        /\ \A i \in 1 .. n : temp[i] = plan[i]
        /\ temp' = Append(temp, plan[n + 1])
    BY <1>2 DEF ForkWrite, WritingInv, Writing
  <2>2. n + 1 \in 1 .. Len(plan) /\ plan[n + 1] \in Mutations
    BY <2>1
  <2>3. /\ temp' \in Seq(Mutations) /\ Len(temp') = n + 1 /\ temp'[n + 1] = plan[n + 1]
        /\ \A i \in 1 .. n : temp'[i] = temp[i]
    BY <2>1, <2>2
  <2>4. n + 1 <= Len(plan) /\ \A i \in 1 .. (n + 1) : i \in 1 .. n \/ i = n + 1
    BY <2>1
  <2> HIDE DEF n
  <2>5. \A i \in 1 .. (n + 1) : temp'[i] = plan[i]
    BY <2>1, <2>3, <2>4, ZenonT(30)
  <2>6. dest # Absent => dest = plan
    BY DEF WritingInv, Writing
  <2> QED BY <2>1, <2>3, <2>4, <2>5, <2>6 DEF Writing, Absent
<1>3. CASE ForkPublish
  <2>1. /\ plan' = plan /\ dest' = temp /\ temp' = Absent /\ plan \in Seq(Mutations) /\ temp \in Seq(Mutations)
        /\ Len(temp) = Len(plan) /\ \A i \in 1 .. Len(temp) : temp[i] = plan[i]
    BY <1>3 DEF ForkPublish, WritingInv, Writing
  <2>2. temp = plan
    BY <2>1
  <2> QED BY <2>1, <2>2 DEF Writing, Absent
<1>4. CASE ForkFails
  BY <1>4 DEF ForkFails, WritingInv, Writing, Absent
<1>5. CASE SourceStep
  <2>1. plan' = plan /\ dest' = dest /\ (temp' = temp \/ temp' = Absent)
    BY <1>5 DEF SourceStep, forkVars
  <2> QED BY <2>1 DEF WritingInv, Writing, Absent
<1>6. CASE UNCHANGED <<vars, forkVars>>
  BY <1>6 DEF WritingInv, Writing, forkVars, Absent
<1> QED BY <1>1, <1>2, <1>3, <1>4, <1>5, <1>6 DEF ForkNext

LEMMA WritingInvariance == ForkSpec => []WritingInv
<1>1. ForkInit => WritingInv
  <2>1. ForkInit => Writing
    BY DEF ForkInit, Writing, Absent
  <2>2. ForkInit => SourceSane
    BY EmptySane DEF ForkInit, Init, SourceSane
  <2> QED BY <2>1, <2>2, InitSafe DEF ForkInit, WritingInv
<1>2. WritingInv /\ [ForkNext]_<<vars, forkVars>> => WritingInv'
  <2> SUFFICES ASSUME WritingInv, [ForkNext]_<<vars, forkVars>> PROVE WritingInv'
    OBVIOUS
  <2>1. [Next]_vars
    BY ForkStepIsSourceStep
  <2>2. SafeInv'
    BY <2>1, NextSafe DEF WritingInv
  <2>3. SourceSane'
    BY <2>1, NextSane DEF WritingInv, SourceSane
  <2> QED BY <2>2, <2>3, NextWriting DEF WritingInv
<1> QED BY <1>1, <1>2, PTL DEF ForkSpec

\* A fork's file is never seen half written: publishFileAtomically renames a
\* complete temporary file, whatever crashes and failures come before.
THEOREM ForksAppearWhole == ForkSpec => []ForkIsAtomic
<1>1. WritingInv => ForkIsAtomic
  BY DEF WritingInv, Writing, ForkIsAtomic
<1> QED BY <1>1, WritingInvariance, PTL

\* createForkMutations with scope "tree": replaying its lines is accepted line
\* by line by applyMutation and yields the source's entries, lanes, name, labels.
THEOREM TreeForksAreCopies == ForkSpec => []TreeForkIsCopy
<1>1. WritingInv => TreeForkIsCopy
  <2>1. WritingInv => state \in States /\ Sane(state)
    BY DEF WritingInv, SourceSane, SafeInv, TypeOK
  <2> QED BY <2>1, TreeCopy, NaturalsWellOrdered, SetsAreCounted, Zenon DEF TreeForkIsCopy, Tree
<1> QED BY <1>1, WritingInvariance, PTL

\* createForkMutations with scope "branch": replaying its lines is accepted and
\* yields the path from the target to the root, with its labels, and nothing else.
THEOREM BranchForksArePaths == ForkSpec => []BranchForkIsPath
<1>1. WritingInv => BranchForkIsPath
  <2> SUFFICES ASSUME state \in States, Sane(state), NEW options \in ForkOptions(state),
                      options.scope = "branch"
               PROVE  BranchCopied(Replay(CreateForkMutations(state, options)), state, options.target)
    BY Zenon DEF WritingInv, SourceSane, SafeInv, TypeOK, BranchForkIsPath, BranchCopied
  <2>1. options.target \in EntryIds(state) \cup {Null}
    BY OptionFacts DEF Tree
  <2> QED BY <2>1, BranchCopy, NaturalsWellOrdered, SetsAreCounted
<1> QED BY <1>1, WritingInvariance, PTL
=============================================================================
