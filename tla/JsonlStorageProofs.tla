------------------------- MODULE JsonlStorageProofs -------------------------
(***************************************************************************)
(* Proofs about JsonlStorage, for every set of ids, lanes and labels and   *)
(* every bound.                                                            *)
(*                                                                         *)
(* The argument: as long as no file operation reported an error, what the  *)
(* callers were promised can be replayed from the empty state (a trail of  *)
(* states, one per line), and the file holds what was promised and at most *)
(* one more line: the append that was in flight, whole or torn.  A load    *)
(* walks along that trail, so it meets no line that does not apply.        *)
(*                                                                         *)
(* A caller that reads the log sees what SessionLog describes: the state   *)
(* each line is accepted in agrees with the lines before it (Agrees).      *)
(***************************************************************************)
EXTENDS SessionFork, SessionReplayProofs

-----------------------------------------------------------------------------
(* The inductive invariant.                                                *)

\* t is the sequence of states a replay of lines goes through.
Trail(t, lines) ==
  /\ t \in [1 .. Len(lines) + 1 -> States]
  /\ t[1] = EmptyState
  /\ \A i \in 1 .. Len(lines) :
       Accepted(t[i], lines[i]) /\ t[i + 1] = ApplyMutation(t[i], lines[i])
  /\ \A i \in 1 .. Len(lines) + 1 : OneOpen(t[i])

End(t) == t[Len(promised) + 1]

FileIsPromised == file = promised /\ terminated
Torn == file = Append(promised, Garbage)
OneMore(t, m) == m \in Mutations /\ Accepted(End(t), m) /\ file = Append(promised, m)

OpenOK(t) ==
  phase = "open" =>
    /\ log = promised /\ state = End(t)
    /\ inflight # <<>> => Accepted(state, Head(inflight))
    /\ IF written THEN inflight # <<>> /\ file = Append(promised, Head(inflight)) /\ terminated
       ELSE FileIsPromised

LoadingOK(t) ==
  phase = "loading" =>
    /\ content = file
    /\ Len(log) <= Len(file) /\ \A i \in 1 .. Len(log) : log[i] = file[i]
    /\ IF Len(log) <= Len(promised) THEN state = t[Len(log) + 1]
       ELSE \E m : OneMore(t, m) /\ state = ApplyMutation(End(t), m)

RepairOK(t) ==
  /\ phase \in {"stageRepair", "publishRepair"} =>
       Torn /\ content = file /\ log = promised /\ state = End(t)
  /\ phase = "repairNewline" =>
       log = file /\ \E m : OneMore(t, m) /\ state = ApplyMutation(End(t), m)

Recoverable(t) ==
  /\ phase # "refused"
  /\ phase # "open" => ~written /\ (FileIsPromised \/ Torn \/ \E m : OneMore(t, m))
  /\ OpenOK(t) /\ LoadingOK(t) /\ RepairOK(t)

\* load has not applied more lines than it read.
LoadInBounds ==
  phase \in {"loading", "stageRepair", "publishRepair"} => Len(log) <= Len(content)

SafeInv == TypeOK /\ LeavesExist(state) /\ InflightApplies /\ LoadInBounds
ReplayInv == errors = 0 => \E t : Trail(t, promised) /\ Recoverable(t)

-----------------------------------------------------------------------------
(* Sequences.                                                              *)

LEMMA ExceptSeq ==
  ASSUME NEW S, NEW s \in Seq(S), NEW i \in 1 .. Len(s), NEW x \in S
  PROVE  [s EXCEPT ![i] = x] \in Seq(S)
OBVIOUS

LEMMA SeqEqual ==
  ASSUME NEW S, NEW s \in Seq(S), NEW t \in Seq(S),
         Len(s) = Len(t), \A i \in 1 .. Len(s) : s[i] = t[i]
  PROVE  s = t
OBVIOUS

LEMMA SubSeqProperties ==
  ASSUME NEW S, NEW s \in Seq(S), NEW n \in 0 .. Len(s)
  PROVE  /\ SubSeq(s, 1, n) \in Seq(S) /\ Len(SubSeq(s, 1, n)) = n
         /\ \A i \in 1 .. n : SubSeq(s, 1, n)[i] = s[i]
OBVIOUS

LEMMA SubSeqFull ==
  ASSUME NEW S, NEW s \in Seq(S)
  PROVE  SubSeq(s, 1, Len(s)) = s
BY SeqEqual, SubSeqProperties

LEMMA AppendProperties ==
  ASSUME NEW S, NEW s \in Seq(S), NEW x \in S
  PROVE  /\ Append(s, x) \in Seq(S) /\ Len(Append(s, x)) = Len(s) + 1
         /\ \A i \in 1 .. Len(s) : Append(s, x)[i] = s[i]
         /\ Append(s, x)[Len(s) + 1] = x
OBVIOUS

-----------------------------------------------------------------------------
(* Trails.                                                                 *)

\* The trail of one line more.
LEMMA TrailExtends ==
  ASSUME NEW t, NEW lines \in Seq(Mutations), Trail(t, lines),
         NEW m \in Mutations, Accepted(t[Len(lines) + 1], m)
  PROVE  \E u : /\ Trail(u, Append(lines, m))
                /\ u[Len(lines) + 2] = ApplyMutation(t[Len(lines) + 1], m)
<1> DEFINE n == Len(lines) + 1
           next == ApplyMutation(t[n], m)
           u == [i \in 1 .. n + 1 |-> IF i = n + 1 THEN next ELSE t[i]]
<1>1. n \in Nat /\ n \in 1 .. n /\ Len(Append(lines, m)) = n
  OBVIOUS
<1>2. t[n] \in States /\ next \in States /\ OneOpen(next)
  BY <1>1, ApplyType, ApplyOneOpen DEF Trail
<1>3. u \in [1 .. n + 1 -> States] /\ u[1] = EmptyState
  BY <1>1, <1>2 DEF Trail
<1>4. ASSUME NEW i \in 1 .. n
      PROVE  /\ Accepted(u[i], Append(lines, m)[i])
             /\ u[i + 1] = ApplyMutation(u[i], Append(lines, m)[i])
  <2>1. CASE i = n
    BY <1>1, <2>1
  <2>2. CASE i # n
    <3>1. i \in 1 .. Len(lines) /\ Append(lines, m)[i] = lines[i] /\ u[i] = t[i] /\ u[i + 1] = t[i + 1]
      BY <1>1, <2>2
    <3> QED BY <3>1 DEF Trail
  <2> QED BY <2>1, <2>2
<1>5. ASSUME NEW i \in 1 .. n + 1
      PROVE  OneOpen(u[i])
  BY <1>1, <1>2 DEF Trail
<1>6. Trail(u, Append(lines, m))
  BY <1>1, <1>3, <1>4, <1>5 DEF Trail
<1>7. u[n + 1] = next
  BY <1>1
<1> QED BY <1>6, <1>7

-----------------------------------------------------------------------------
(* Type correctness, and operations that apply what they wrote.            *)

\* Every operation of the storage enqueues one mutation its state accepts.
LEMMA OperationEnqueues ==
  ASSUME TypeOK, LeavesExist(state), Operation
  PROVE  \E m \in Mutations : Accepted(state, m) /\ Enqueue(m)
<1>0. /\ state.sequence \in Nat /\ NextSequence \in Nat
      /\ state.lanes \in [DOMAIN state.lanes -> Ids \cup {Null}]
      /\ state.openOperations \in [Lanes -> SUBSET Ids]
  BY DEF TypeOK, States, NextSequence
<1>1. ASSUME NEW lane \in Lanes, NEW at \in Ids \cup {Null}, CreateLane(lane, at) \/ MoveLane(lane, at)
      PROVE  \E m \in Mutations : Accepted(state, m) /\ Enqueue(m)
  <2> DEFINE m == LaneMutation(NextSequence, lane, at)
  <2>1. m \in Mutations
    BY <1>0 DEF LaneMutation, Mutations, MutationsAt
  <2>2. Accepted(state, m)
    BY <1>1 DEF LaneMutation, CreateLane, MoveLane, Accepted, ValidMutation, NextSequence
  <2> QED BY <1>1, <2>1, <2>2 DEF CreateLane, MoveLane
<1>2. ASSUME NEW id \in Ids, NEW lane \in Lanes, NEW type \in EntryTypes, AppendEntry(id, lane, type)
      PROVE  \E m \in Mutations : Accepted(state, m) /\ Enqueue(m)
  <2> DEFINE m == EntryMutation(NextSequence, id, state.lanes[lane], lane, type)
  <2>1. m \in Mutations
    BY <1>0, <1>2 DEF EntryMutation, Mutations, MutationsAt, AppendEntry, HasLane
  <2>2. Accepted(state, m)
    BY <1>2 DEF EntryMutation, AppendEntry, HasLane, Accepted, ValidMutation, LeavesExist, NextSequence
  <2> QED BY <1>2, <2>1, <2>2 DEF AppendEntry
<1>3. ASSUME NEW id \in Ids, NEW lane \in Lanes, NEW type \in RecordTypes, NEW runId \in Ids \cup {Null},
             AppendRecord(id, lane, type, runId)
      PROVE  \E m \in Mutations : Accepted(state, m) /\ Enqueue(m)
  <2> DEFINE m == RecordMutation(NextSequence, id, lane, type, runId)
  <2>1. m \in Mutations
    BY <1>0 DEF RecordMutation, Mutations, MutationsAt
  <2>2. Accepted(state, m)
    BY <1>3 DEF RecordMutation, AppendRecord, Accepted, ValidMutation, NextSequence
  <2> QED BY <1>3, <2>1, <2>2 DEF AppendRecord
<1>4. ASSUME NEW text \in Labels \cup {Null}, SetName(text)
      PROVE  \E m \in Mutations : Accepted(state, m) /\ Enqueue(m)
  <2> DEFINE m == NameMutation(NextSequence, text)
  <2>1. m \in Mutations
    BY <1>0 DEF NameMutation, Mutations, MutationsAt
  <2>2. Accepted(state, m)
    BY DEF NameMutation, Accepted, ValidMutation, NextSequence
  <2> QED BY <1>4, <2>1, <2>2 DEF SetName
<1>5. ASSUME NEW text \in Labels \cup {Null}, NEW id \in Ids, SetLabel(id, text)
      PROVE  \E m \in Mutations : Accepted(state, m) /\ Enqueue(m)
  <2> DEFINE m == LabelMutation(NextSequence, id, text)
  <2>1. m \in Mutations
    BY <1>0 DEF LabelMutation, Mutations, MutationsAt
  <2>2. id \in EntryIds(state)
    BY <1>5, SessionAssumption DEF SetLabel, IsTarget
  <2>3. Accepted(state, m)
    BY <2>2 DEF LabelMutation, Accepted, ValidMutation, NextSequence
  <2> QED BY <1>5, <2>1, <2>3 DEF SetLabel
<1> QED BY <1>1, <1>2, <1>3, <1>4, <1>5 DEF Operation, RecordTypes

\* An append of any extent leaves a file of lines.
LEMMA FileWithType ==
  ASSUME TypeOK, NEW m \in Mutations, NEW extent \in Extents
  PROVE  FileWith(m, extent) \in Seq(Lines) /\ TerminatedWith(extent) \in BOOLEAN
<1>1. Garbage \in Lines /\ m \in Lines /\ file \in Seq(Lines)
  BY DEF Lines, TypeOK
<1>2. [file EXCEPT ![Len(file)] = Garbage] \in Seq(Lines)
  <2>1. CASE Len(file) \in 1 .. Len(file)
    BY <1>1, <2>1, ExceptSeq
  <2>2. CASE Len(file) \notin 1 .. Len(file)
    <3>1. [file EXCEPT ![Len(file)] = Garbage] = file
      BY <1>1, <2>2
    <3> QED BY <1>1, <3>1, Zenon
  <2> QED BY <2>1, <2>2
<1>3. Append(file, IF extent = "part" THEN Garbage ELSE m) \in Seq(Lines)
  BY <1>1
<1>4. FileWith(m, extent) \in Seq(Lines)
  BY <1>1, <1>2, <1>3 DEF FileWith
<1> QED BY <1>4, Zenon DEF TerminatedWith, TypeOK

\* A new session satisfies the first invariant ...
LEMMA InitSafe == Init => SafeInv
<1> SUFFICES ASSUME Init PROVE SafeInv
  OBVIOUS
<1>1. <<>> \in Seq(Lines) /\ <<>> \in Seq(Mutations) /\ Len(<<>>) = 0
  OBVIOUS
<1>2. TypeOK
  <2>1. file \in Seq(Lines) /\ log \in Seq(Mutations) /\ content \in Seq(Lines)
    BY <1>1 DEF Init
  <2>2. promised \in Seq(Mutations) /\ inflight \in Seq(Mutations) /\ Len(inflight) <= 1
    BY <1>1 DEF Init
  <2>3. terminated \in BOOLEAN /\ written \in BOOLEAN
    BY Zenon DEF Init
  <2>4. errors \in 0 .. MaxErrors /\ crashes \in 0 .. MaxCrashes
    BY StorageAssumption DEF Init
  <2>5. state \in States /\ phase \in Phases
    BY EmptyStateOK DEF Init, Phases
  <2> QED BY <2>1, <2>2, <2>3, <2>4, <2>5 DEF Init, TypeOK
<1> QED BY <1>2, EmptyStateOK DEF Init, SafeInv, InflightApplies, LoadInBounds

\* ... and every step of the storage, of the disk or a crash keeps it.
LEMMA NextSafe == SafeInv /\ [Next]_vars => SafeInv'
<1> SUFFICES ASSUME SafeInv, [Next]_vars PROVE SafeInv'
  OBVIOUS
<1> USE DEF SafeInv
<1>0. Mutations \subseteq Lines
  BY DEF Lines
<1>1. CASE Operation
  <2>1. PICK m \in Mutations : Accepted(state, m) /\ Enqueue(m)
    BY <1>1, OperationEnqueues
  <2>2. inflight' = <<m>> /\ Head(inflight') = m
    BY <2>1 DEF Enqueue
  <2> QED BY <2>1, <2>2 DEF TypeOK, Enqueue, InflightApplies, LoadInBounds, Accepted, disk, memory, counters
<1>2. CASE WriteAll
  <2>1. Head(inflight) \in Mutations /\ "all" \in Extents
    BY <1>2 DEF WriteAll, TypeOK, Extents
  <2> QED BY <1>2, <2>1, FileWithType DEF WriteAll, TypeOK, InflightApplies, LoadInBounds, memory, counters
<1>3. CASE Acknowledge
  <2>1. Head(inflight) \in Mutations /\ Tail(inflight) = <<>>
    BY <1>3 DEF Acknowledge, TypeOK
  <2>2. state' \in States /\ LeavesExist(state')
    BY <1>3, <2>1, ApplyType, ApplyLeaves DEF Acknowledge, Apply, TypeOK, InflightApplies, LoadInBounds
  <2>3. log' \in Seq(Mutations) /\ promised' \in Seq(Mutations) /\ inflight' = <<>>
    BY <1>3, <2>1 DEF Acknowledge, Apply, TypeOK
  <2>4. written' \in BOOLEAN
    BY <1>3, Zenon DEF Acknowledge
  <2>5. TypeOK'
    BY <1>3, <2>2, <2>3, <2>4 DEF Acknowledge, TypeOK, disk, counters
  <2>6. phase' = "open"
    BY <1>3 DEF Acknowledge, TypeOK
  <2> QED BY <2>2, <2>3, <2>5, <2>6 DEF InflightApplies, LoadInBounds
<1>4. ASSUME NEW extent \in Extents, WriteFails(extent) PROVE SafeInv'
  <2>1. Head(inflight) \in Mutations /\ Tail(inflight) = <<>>
    BY <1>4 DEF WriteFails, TypeOK
  <2>2. file' \in Seq(Lines) /\ terminated' \in BOOLEAN /\ inflight' = <<>>
    BY <1>4, <2>1, FileWithType DEF WriteFails
  <2>3. TypeOK'
    BY <1>4, <2>2, StorageAssumption DEF WriteFails, TypeOK, memory
  <2> QED BY <1>4, <2>2, <2>3 DEF WriteFails, InflightApplies, LoadInBounds, memory
<1>5. ASSUME NEW extent \in Extents, Crash(extent) PROVE SafeInv'
  <2>1. inflight # <<>> => Head(inflight) \in Mutations
    BY DEF TypeOK
  <2>2. file' \in Seq(Lines) /\ terminated' \in BOOLEAN
    BY <1>5, <2>1, FileWithType DEF Crash, TypeOK, disk
  <2>3. written' \in BOOLEAN
    BY <1>5, Zenon DEF Crash
  <2>4. TypeOK'
    BY <1>5, <2>2, <2>3, EmptyStateOK, StorageAssumption DEF Crash, Forget, TypeOK, Phases
  <2> QED BY <1>5, <2>4, EmptyStateOK DEF Crash, Forget, InflightApplies, LoadInBounds
<1>6. CASE Load
  BY <1>6, EmptyStateOK DEF Load, Forget, TypeOK, InflightApplies, LoadInBounds, Phases, disk, counters
<1>7. CASE LoadLine
  <2>1. content[index] \in Mutations /\ inflight = <<>>
    BY <1>7 DEF LoadLine, Applies, TypeOK, Lines, index
  <2>2. state' \in States /\ LeavesExist(state') /\ log' \in Seq(Mutations)
    BY <1>7, <2>1, ApplyType, ApplyLeaves DEF LoadLine, Applies, Apply, TypeOK
  <2> QED BY <1>7, <2>1, <2>2 DEF LoadLine, TypeOK, InflightApplies, LoadInBounds, Apply, index, disk, counters
<1>8. CASE LoadRefuses
  BY <1>8, EmptyStateOK DEF LoadRefuses, Forget, TypeOK, InflightApplies, LoadInBounds, Phases, disk, counters
<1>9. CASE LoadTornTail \/ StageRepair
  BY <1>9 DEF LoadTornTail, StageRepair, TypeOK, InflightApplies, LoadInBounds, Phases, disk, memory, counters
<1>10. CASE LoadComplete
  BY <1>10 DEF LoadComplete, Opened, TypeOK, InflightApplies, LoadInBounds, Phases, disk, memory, counters
<1>11. CASE PublishRepair
  <2>1. SubSeq(content, 1, index - 1) \in Seq(Lines)
    <3>1. content \in Seq(Lines) /\ index - 1 \in Nat /\ index - 1 <= Len(content)
      BY <1>11 DEF PublishRepair, TypeOK, index, LoadInBounds
    <3>2. index - 1 \in 0 .. Len(content)
      BY <3>1
    <3> QED BY <3>1, <3>2, SubSeqProperties
  <2> QED BY <1>11, <2>1 DEF PublishRepair, Opened, TypeOK, InflightApplies, LoadInBounds, Phases, memory, counters
<1>12. CASE RepairNewline
  BY <1>12 DEF RepairNewline, Opened, TypeOK, InflightApplies, LoadInBounds, Phases, memory, counters
<1>13. CASE RepairFails
  <2>1. terminated' \in BOOLEAN
    BY <1>13, Zenon DEF RepairFails, TypeOK
  <2>2. TypeOK'
    BY <1>13, <2>1, EmptyStateOK, StorageAssumption DEF RepairFails, Forget, TypeOK, Phases
  <2>3. LeavesExist(state')
    BY <1>13, EmptyStateOK DEF RepairFails, Forget
  <2> QED BY <1>13, <2>2, <2>3 DEF RepairFails, TypeOK, InflightApplies, LoadInBounds
<1>14. CASE UNCHANGED vars
  BY <1>14 DEF vars, disk, memory, counters, TypeOK, InflightApplies, LoadInBounds
<1> QED BY <1>1, <1>2, <1>3, <1>4, <1>5, <1>6, <1>7, <1>8, <1>9, <1>10, <1>11, <1>12, <1>13, <1>14
        DEF Next, LoadStep

\* In every behaviour the variables have their types and at most one operation,
\* on an open storage, is in flight (enqueue, storage.ts).
THEOREM TypeCorrect == Spec => []TypeOK
<1>1. SafeInv => TypeOK
  BY DEF SafeInv
<1> QED BY <1>1, InitSafe, NextSafe, PTL DEF Spec

\* applyMutation never rejects a mutation that has been written to the file,
\* even after appends that failed.
THEOREM WrittenApplies == Spec => []InflightApplies
<1>1. SafeInv => InflightApplies
  BY DEF SafeInv
<1> QED BY <1>1, InitSafe, NextSafe, PTL DEF Spec

-----------------------------------------------------------------------------
(* Recovery.                                                               *)

\* A new session can be replayed: its trail is the empty state alone.
LEMMA InitReplay == Init => ReplayInv
<1> SUFFICES ASSUME Init PROVE \E t : Trail(t, promised) /\ Recoverable(t)
  BY DEF ReplayInv
<1> DEFINE t == [i \in 1 .. 1 |-> EmptyState]
<1>1. promised = <<>> /\ Len(promised) = 0
  BY DEF Init
<1>2. Trail(t, promised)
  BY <1>1, EmptyStateOK DEF Trail
<1>3. End(t) = EmptyState
  BY <1>1 DEF End
<1>4. Recoverable(t)
  BY <1>3 DEF Init, Recoverable, OpenOK, LoadingOK, RepairOK, FileIsPromised
<1> QED BY <1>2, <1>4

\* Elements and length of the file with one line more.
LEMMA AppendLine ==
  ASSUME NEW lines \in Seq(Mutations), NEW m \in Lines
  PROVE  /\ lines \in Seq(Lines) /\ Len(lines) \in Nat
         /\ Append(lines, m) \in Seq(Lines)
         /\ Len(Append(lines, m)) = Len(lines) + 1
         /\ Append(lines, m)[Len(lines) + 1] = m
         /\ \A i \in 1 .. Len(lines) : Append(lines, m)[i] = lines[i]
         /\ SubSeq(Append(lines, m), 1, Len(lines)) = lines
<1>1. lines \in Seq(Lines)
  BY DEF Lines
<1>2. /\ Append(lines, m) \in Seq(Lines) /\ Len(Append(lines, m)) = Len(lines) + 1
      /\ Append(lines, m)[Len(lines) + 1] = m /\ Len(lines) \in Nat
      /\ \A i \in 1 .. Len(lines) : Append(lines, m)[i] = lines[i]
  BY <1>1, AppendProperties
<1> DEFINE front == SubSeq(Append(lines, m), 1, Len(lines))
<1>3. /\ front \in Seq(Lines) /\ Len(front) = Len(lines)
      /\ \A i \in 1 .. Len(lines) : front[i] = lines[i]
  BY <1>1, <1>2
<1>4. front = lines
  BY <1>1, <1>3, SeqEqual
<1> QED BY <1>1, <1>2, <1>4

\* A torn line is not the line of a mutation (parseMutation rejects it).
LEMMA GarbageIsNoMutation == Garbage \notin Mutations /\ Garbage \in Lines
  BY DEF Garbage, Mutations, MutationsAt, Lines

\* While it loads, the next line is the next of the trail, the extra line, or torn.
LEMMA NextLine ==
  ASSUME SafeInv, NEW t, Trail(t, promised), Recoverable(t), phase = "loading", index <= Len(content)
  PROVE  \/ /\ Len(log) < Len(promised) /\ content[index] = promised[index]
            /\ content[index] \in Mutations /\ Accepted(state, content[index])
            /\ ApplyMutation(state, content[index]) = t[index + 1]
         \/ /\ Len(log) = Len(promised) /\ state = End(t)
            /\ OneMore(t, content[index])
         \/ /\ Len(log) = Len(promised) /\ state = End(t) /\ log = promised
            /\ Torn /\ content[index] = Garbage /\ IsTornTail
<1>1. /\ content = file /\ log \in Seq(Mutations) /\ promised \in Seq(Mutations)
      /\ Len(log) \in Nat /\ Len(promised) \in Nat /\ index = Len(log) + 1 /\ Len(log) < Len(file)
      /\ \A i \in 1 .. Len(log) : log[i] = file[i]
  BY DEF SafeInv, TypeOK, Recoverable, LoadingOK, index
<1>2. CASE Len(log) < Len(promised)
  <2>1. file[index] = promised[index]
    <3>1. CASE FileIsPromised
      BY <3>1 DEF FileIsPromised
    <3>2. ASSUME NEW m \in Lines, file = Append(promised, m) PROVE file[index] = promised[index]
      BY <1>1, <1>2, <3>2, AppendLine
    <3> QED BY <3>1, <3>2, GarbageIsNoMutation DEF Recoverable, Torn, OneMore, Lines
  <2>2. state = t[index] /\ index \in 1 .. Len(promised)
    BY <1>1, <1>2 DEF Recoverable, LoadingOK
  <2> QED BY <1>1, <1>2, <2>1, <2>2 DEF Trail
<1>3. CASE Len(log) >= Len(promised)
  <2>1. ~FileIsPromised
    BY <1>1, <1>3 DEF FileIsPromised
  <2>2. PICK m \in Lines : file = Append(promised, m) /\ (m = Garbage \/ OneMore(t, m))
    BY <2>1, GarbageIsNoMutation DEF Recoverable, Torn, OneMore, Lines
  <2>3. Len(log) = Len(promised) /\ file[index] = m /\ Len(file) = index
    BY <1>1, <1>3, <2>2, AppendLine
  <2>4. state = End(t)
    BY <1>1, <2>3 DEF Recoverable, LoadingOK, End
  <2>5. log = promised
    <3>1. \A i \in 1 .. Len(log) : log[i] = promised[i]
      BY <1>1, <2>2, <2>3, AppendLine
    <3> QED BY <1>1, <2>3, <3>1, SeqEqual
  <2> QED BY <1>1, <2>2, <2>3, <2>4, <2>5 DEF Torn, IsTornTail
<1> QED BY <1>1, <1>2, <1>3

\* A storage that opens on Append(promised, m) has the trail of one line more.
LEMMA OpensOneMore ==
  ASSUME SafeInv, NEW t, Trail(t, promised), NEW m, OneMore(t, m),
         log = file, state = ApplyMutation(End(t), m), inflight = <<>>, ~written,
         Opened, file' = file, terminated'
  PROVE  \E u : Trail(u, promised') /\ Recoverable(u)'
<1>1. promised \in Seq(Mutations) /\ m \in Mutations /\ m \in Lines /\ Accepted(t[Len(promised) + 1], m)
  BY DEF SafeInv, TypeOK, OneMore, End, Lines
<1>2. PICK u : /\ Trail(u, Append(promised, m))
               /\ u[Len(promised) + 2] = ApplyMutation(t[Len(promised) + 1], m)
  BY <1>1, TrailExtends
<1>3. promised' = Append(promised, m) /\ log' = promised' /\ file' = promised'
      /\ state' = state /\ phase' = "open" /\ inflight' = <<>> /\ ~written'
  BY DEF Opened, OneMore, memory
<1>4. Len(promised') + 1 = Len(promised) + 2
  BY <1>1, <1>3, AppendLine
<1>5. state' = u[Len(promised') + 1]
  BY <1>2, <1>3, <1>4 DEF End
<1>6. Recoverable(u)'
  BY <1>3, <1>5 DEF Recoverable, OpenOK, LoadingOK, RepairOK, FileIsPromised, End
<1> QED BY <1>2, <1>3, <1>6

\* Every step keeps what was promised replayable and the file recoverable.
LEMMA NextReplay == SafeInv /\ ReplayInv /\ [Next]_vars => ReplayInv'
<1> SUFFICES ASSUME SafeInv, ReplayInv, [Next]_vars, errors' = 0
             PROVE  \E t : Trail(t, promised') /\ Recoverable(t)'
  BY DEF ReplayInv
<1>0. errors = 0
  <2>1. errors' = errors \/ errors' = errors + 1
    <3>1. CASE Operation
      BY <3>1, OperationEnqueues DEF SafeInv, Enqueue, counters
    <3>2. CASE Load \/ LoadStep
      BY <3>2 DEF counters, Load, LoadStep, LoadLine, LoadRefuses, LoadTornTail, LoadComplete,
                  StageRepair, PublishRepair, RepairNewline, Opened
    <3>3. CASE WriteAll \/ Acknowledge \/ RepairFails \/ UNCHANGED vars
      BY <3>3 DEF counters, vars, WriteAll, Acknowledge, RepairFails
    <3>4. ASSUME NEW extent \in Extents, WriteFails(extent) \/ Crash(extent)
          PROVE  errors' = errors \/ errors' = errors + 1
      BY <3>4 DEF WriteFails, Crash
    <3> QED BY <3>1, <3>2, <3>3, <3>4 DEF Next
  <2> QED BY <2>1 DEF SafeInv, TypeOK
<1>1. PICK t : Trail(t, promised) /\ Recoverable(t)
  BY <1>0 DEF ReplayInv
<1>2. /\ promised \in Seq(Mutations) /\ log \in Seq(Mutations) /\ Len(inflight) <= 1
      /\ inflight \in Seq(Mutations) /\ file \in Seq(Lines) /\ content \in Seq(Lines)
      /\ inflight # <<>> => phase = "open"
  BY DEF SafeInv, TypeOK
<1>3. CASE Operation
  <2>1. PICK m \in Mutations : Accepted(state, m) /\ Enqueue(m)
    BY <1>3, OperationEnqueues DEF SafeInv
  <2>2. /\ phase = "open" /\ inflight = <<>> /\ inflight' = <<m>> /\ Head(inflight') = m
        /\ UNCHANGED <<file, terminated, phase, log, state, promised, written>>
    BY <2>1 DEF Enqueue, disk, memory
  <2>3. Recoverable(t)'
    BY <1>1, <2>1, <2>2 DEF Recoverable, OpenOK, LoadingOK, RepairOK, FileIsPromised, End
  <2> QED BY <1>1, <2>2, <2>3
<1>4. CASE WriteAll
  <2>1. /\ phase = "open" /\ ~written /\ file = promised /\ terminated
        /\ UNCHANGED <<phase, log, state, promised, inflight>> /\ written' /\ inflight # <<>>
    BY <1>1, <1>2, <1>4 DEF WriteAll, memory, Recoverable, OpenOK, FileIsPromised
  <2>2. file' = Append(promised, Head(inflight)) /\ terminated'
    <3>1. file' = FileWith(Head(inflight), "all") /\ terminated' = TerminatedWith("all")
      BY <1>4 DEF WriteAll
    <3>2. TerminatedWith("all") = TRUE
      BY DEF TerminatedWith
    <3>3. FileWith(Head(inflight), "all") = Append(promised, Head(inflight))
      BY <2>1 DEF FileWith
    <3> QED BY <3>1, <3>2, <3>3, Zenon
  <2>3. Recoverable(t)'
    BY <1>1, <2>1, <2>2 DEF Recoverable, OpenOK, LoadingOK, RepairOK, FileIsPromised, End
  <2> QED BY <1>1, <2>1, <2>3
<1>5. CASE Acknowledge
  <2>0. PICK m : m = Head(inflight)
    OBVIOUS
  <2>1. m \in Mutations /\ m \in Lines /\ Tail(inflight) = <<>> /\ phase = "open" /\ written
    BY <1>2, <1>5, <2>0 DEF Acknowledge, Lines
  <2>2. /\ file = Append(promised, m) /\ terminated /\ log = promised /\ state = End(t)
        /\ Accepted(t[Len(promised) + 1], m)
    BY <1>1, <1>5, <2>0, <2>1 DEF Acknowledge, Recoverable, OpenOK, End
  <2>3. PICK u : /\ Trail(u, Append(promised, m))
                 /\ u[Len(promised) + 2] = ApplyMutation(t[Len(promised) + 1], m)
    BY <1>1, <1>2, <2>1, <2>2, TrailExtends
  <2>4. /\ promised' = Append(promised, m) /\ log' = promised' /\ file' = promised' /\ terminated'
        /\ state' = ApplyMutation(End(t), m) /\ phase' = "open" /\ inflight' = <<>> /\ ~written'
    BY <1>5, <2>0, <2>1, <2>2 DEF Acknowledge, Apply, disk
  <2>5. state' = u[Len(promised') + 1]
    BY <1>2, <2>1, <2>3, <2>4, AppendLine DEF End
  <2>6. Recoverable(u)'
    BY <2>4, <2>5 DEF Recoverable, OpenOK, LoadingOK, RepairOK, FileIsPromised, End
  <2> QED BY <2>3, <2>4, <2>6
<1>6. ASSUME NEW extent \in Extents, WriteFails(extent) PROVE FALSE
  BY <1>0, <1>6 DEF WriteFails
<1>7. ASSUME NEW extent \in Extents, Crash(extent)
      PROVE  \E u : Trail(u, promised') /\ Recoverable(u)'
  <2>1. phase' = "closed" /\ promised' = promised /\ ~written'
    BY <1>7 DEF Crash
  <2>2. (FileIsPromised \/ Torn \/ \E m : OneMore(t, m))'
    <3>1. CASE inflight # <<>> /\ ~written
      <4>0. PICK m : m = Head(inflight)
        OBVIOUS
      <4>1. /\ file = promised /\ terminated /\ m \in Mutations /\ Accepted(End(t), m)
            /\ file' = FileWith(m, extent) /\ terminated' = TerminatedWith(extent)
        BY <1>1, <1>2, <1>7, <3>1, <4>0 DEF Crash, Recoverable, OpenOK, FileIsPromised
      <4>2. CASE extent = "nothing"
        BY <2>1, <4>1, <4>2 DEF FileWith, TerminatedWith, FileIsPromised
      <4>3. CASE extent = "part"
        BY <2>1, <4>1, <4>3 DEF FileWith, Torn
      <4>4. CASE extent \in {"unterminated", "all"}
        <5>1. file' = Append(promised', m) /\ End(t)' = End(t)
          BY <2>1, <4>1, <4>4 DEF FileWith, End
        <5>2. OneMore(t, m)'
          BY <4>1, <5>1 DEF OneMore
        <5> QED BY <5>2
      <4> QED BY <4>2, <4>3, <4>4 DEF Extents
    <3>2. CASE ~(inflight # <<>> /\ ~written)
      <4>1. file' = file /\ terminated' = terminated
        BY <1>7, <3>2 DEF Crash, disk
      <4>2. FileIsPromised \/ Torn \/ \E m : OneMore(t, m)
        BY <1>1, <1>2, <3>2 DEF Recoverable, OpenOK, OneMore
      <4> QED BY <2>1, <4>1, <4>2 DEF FileIsPromised, Torn, OneMore, End
    <3> QED BY <3>1, <3>2
  <2>3. Recoverable(t)'
    BY <2>1, <2>2 DEF Recoverable, OpenOK, LoadingOK, RepairOK
  <2> QED BY <1>1, <2>1, <2>3
<1>8. CASE Load
  <2>1. /\ phase # "open" /\ ~written /\ phase' = "loading" /\ content' = file' /\ log' = <<>>
        /\ state' = t[1] /\ Len(log') = 0
        /\ UNCHANGED <<file, terminated, written, promised>>
    BY <1>1, <1>8 DEF Load, Forget, Trail, Recoverable, disk
  <2>2. Recoverable(t)'
    BY <1>1, <1>2, <2>1 DEF Recoverable, OpenOK, LoadingOK, RepairOK, FileIsPromised, Torn, OneMore, End
  <2> QED BY <1>1, <2>1, <2>2
<1>9. CASE LoadLine
  <2>0. PICK m : m = content[index]
    OBVIOUS
  <2>1. /\ phase = "loading" /\ ~written /\ content = file /\ index <= Len(content)
        /\ log' = Append(log, m) /\ state' = ApplyMutation(state, m) /\ m # Garbage
        /\ UNCHANGED <<file, terminated, phase, content, written, promised>>
        /\ \A i \in 1 .. Len(log) : log[i] = file[i]
    BY <1>1, <1>9, <2>0, Zenon DEF LoadLine, Applies, Apply, Recoverable, LoadingOK, disk
  <2>2. m \in Lines /\ m \in Mutations /\ index = Len(log) + 1 /\ Len(log) \in Nat
    BY <1>2, <2>0, <2>1 DEF index, Lines
  <2>3. /\ Len(log') = index /\ Len(log') <= Len(file)
        /\ \A i \in 1 .. Len(log') : log'[i] = file[i]
    <3>1. Len(log') = index /\ log'[index] = file[index] /\ \A i \in 1 .. Len(log) : log'[i] = log[i]
      BY <1>2, <2>0, <2>1, <2>2, AppendLine
    <3> QED BY <2>1, <2>2, <3>1
  <2>4. \/ index <= Len(promised) /\ state' = t[index + 1]
        \/ index > Len(promised) /\ OneMore(t, m) /\ state' = ApplyMutation(End(t), m)
    <3>1. \/ Len(log) < Len(promised) /\ ApplyMutation(state, m) = t[index + 1]
          \/ Len(log) = Len(promised) /\ state = End(t) /\ OneMore(t, m)
      BY <1>1, <2>0, <2>1, NextLine, Zenon
    <3>2. Len(promised) \in Nat
      BY <1>2
    <3>3. CASE Len(log) < Len(promised) /\ ApplyMutation(state, m) = t[index + 1]
      BY <2>1, <2>2, <3>2, <3>3
    <3>4. CASE Len(log) = Len(promised) /\ state = End(t) /\ OneMore(t, m)
      BY <2>1, <2>2, <3>2, <3>4
    <3> QED BY <3>1, <3>3, <3>4
  <2>5. LoadingOK(t)'
    <3>1. (index <= Len(promised)) = ~(index > Len(promised))
      BY <1>2, <2>2
    <3>2. OneMore(t, m) => OneMore(t, m)'
      BY <2>1, Zenon DEF OneMore, End
    <3>3. End(t)' = End(t)
      BY <2>1, Zenon DEF End
    <3>4. content' = file' /\ Len(log') <= Len(file') /\ \A i \in 1 .. Len(log') : log'[i] = file'[i]
      BY <2>1, <2>3
    <3>5. IF index <= Len(promised) THEN state' = t[index + 1]
          ELSE OneMore(t, m)' /\ state' = ApplyMutation(End(t)', m)
      BY <2>4, <3>1, <3>2, <3>3, Zenon
    <3>6. Len(log') = index /\ promised' = promised
      BY <2>1, <2>3
    <3>7. IF Len(log') <= Len(promised') THEN state' = t[Len(log') + 1]
          ELSE OneMore(t, m)' /\ state' = ApplyMutation(End(t)', m)
      BY <3>5, <3>6
    <3> QED BY <3>4, <3>7, Zenon DEF LoadingOK
  <2>6. Recoverable(t)'
    BY <1>1, <2>1, <2>5 DEF Recoverable, OpenOK, RepairOK, FileIsPromised, Torn, OneMore, End
  <2> QED BY <1>1, <2>1, <2>6, ZenonT(30)
<1>10. CASE LoadRefuses
  <2>1. Applies(content[index]) \/ IsTornTail
    BY <1>1, <1>10, NextLine, GarbageIsNoMutation, Zenon DEF LoadRefuses, Applies, Accepted, OneMore
  <2> QED BY <1>10, <2>1 DEF LoadRefuses
<1>11. CASE LoadTornTail
  <2>1. Torn /\ log = promised /\ state = End(t) /\ content = file /\ ~written
    BY <1>1, <1>11, NextLine, GarbageIsNoMutation, Zenon
       DEF LoadTornTail, IsTornTail, OneMore, Recoverable, LoadingOK
  <2>2. phase' = "stageRepair" /\ UNCHANGED <<file, terminated, log, state, content, written, promised>>
    BY <1>11 DEF LoadTornTail, disk, memory
  <2>3. Recoverable(t)'
    BY <2>1, <2>2 DEF Recoverable, OpenOK, LoadingOK, RepairOK, Torn, End
  <2> QED BY <1>1, <2>2, <2>3
<1>12. CASE StageRepair
  <2>1. /\ phase = "stageRepair" /\ phase' = "publishRepair"
        /\ UNCHANGED <<file, terminated, log, state, content, written, promised>>
    BY <1>12 DEF StageRepair, disk, memory
  <2>2. Recoverable(t)'
    BY <1>1, <2>1 DEF Recoverable, OpenOK, LoadingOK, RepairOK, Torn, End
  <2> QED BY <1>1, <2>1, <2>2
<1>13. CASE LoadComplete
  <2>1. /\ phase = "loading" /\ content = file /\ Len(log) = Len(file) /\ ~written /\ inflight = <<>>
        /\ Len(log) \in Nat /\ Len(promised) \in Nat
    BY <1>1, <1>2, <1>13 DEF LoadComplete, index, Recoverable, LoadingOK
  <2>2. log = file
    <3>1. log \in Seq(Lines) /\ \A i \in 1 .. Len(log) : log[i] = file[i]
      BY <1>1, <1>2, <2>1 DEF Recoverable, LoadingOK, Lines
    <3> QED BY <1>2, <2>1, <3>1, SeqEqual
  <2>3. CASE Len(log) <= Len(promised)
    <3>1. FileIsPromised
      <4>1. ASSUME NEW m \in Lines, file = Append(promised, m) PROVE FALSE
        BY <1>2, <2>1, <2>3, <4>1, AppendLine
      <4> QED BY <1>1, <2>1, <4>1, GarbageIsNoMutation DEF Recoverable, Torn, OneMore, Lines
    <3>2. state = End(t)
      BY <1>1, <2>1, <2>3, <3>1 DEF Recoverable, LoadingOK, FileIsPromised, End
    <3>3. /\ phase' = "open" /\ promised' = promised /\ log' = promised' /\ state' = state
          /\ file' = promised' /\ terminated' /\ inflight' = <<>> /\ ~written'
      BY <1>13, <2>1, <2>2, <3>1 DEF LoadComplete, Opened, FileIsPromised, disk, memory
    <3>4. Recoverable(t)'
      BY <3>2, <3>3 DEF Recoverable, OpenOK, LoadingOK, RepairOK, FileIsPromised, End
    <3> QED BY <1>1, <3>3, <3>4
  <2>4. CASE Len(log) > Len(promised)
    <3>1. PICK m : OneMore(t, m) /\ state = ApplyMutation(End(t), m)
      <4>1. LoadingOK(t)
        BY <1>1, Zenon DEF Recoverable
      <4>2. ~(Len(log) <= Len(promised))
        BY <2>1, <2>4
      <4> QED BY <2>1, <4>1, <4>2, Zenon DEF LoadingOK
    <3>2. CASE terminated
      <4>1. Opened /\ file' = file /\ terminated'
        BY <1>13, <3>2 DEF LoadComplete, disk
      <4> QED BY <1>1, <2>1, <2>2, <3>1, <4>1, OpensOneMore
    <3>3. CASE ~terminated
      <4>1. /\ phase' = "repairNewline"
            /\ UNCHANGED <<file, terminated, log, state, content, written, promised>>
        BY <1>13, <3>3 DEF LoadComplete, disk, memory
      <4>2. OneMore(t, m)' /\ state' = ApplyMutation(End(t)', m)
        BY <3>1, <4>1 DEF OneMore, End
      <4>3. Recoverable(t)'
        BY <2>1, <2>2, <4>1, <4>2 DEF Recoverable, OpenOK, LoadingOK, RepairOK
      <4> QED BY <1>1, <4>1, <4>3
    <3> QED BY <3>2, <3>3
  <2> QED BY <2>1, <2>3, <2>4
<1>14. CASE PublishRepair
  <2>1. /\ Torn /\ content = file /\ log = promised /\ state = End(t) /\ ~written /\ inflight = <<>>
    BY <1>1, <1>2, <1>14 DEF PublishRepair, Recoverable, RepairOK
  <2>2. index - 1 = Len(promised)
    BY <1>2, <2>1 DEF index
  <2>3. SubSeq(content, 1, index - 1) = promised
    BY <1>2, <2>1, <2>2, AppendLine, GarbageIsNoMutation DEF Torn
  <2>4. /\ phase' = "open" /\ promised' = promised /\ log' = promised' /\ state' = state
        /\ file' = promised' /\ terminated' /\ inflight' = <<>> /\ ~written'
    BY <1>14, <2>1, <2>3 DEF PublishRepair, Opened, memory
  <2>5. Recoverable(t)'
    BY <2>1, <2>4 DEF Recoverable, OpenOK, LoadingOK, RepairOK, FileIsPromised, End
  <2> QED BY <1>1, <2>4, <2>5
<1>15. CASE RepairNewline
  <2>1. PICK m : OneMore(t, m) /\ state = ApplyMutation(End(t), m)
    BY <1>1, <1>15 DEF RepairNewline, Recoverable, RepairOK
  <2>2. log = file /\ ~written /\ inflight = <<>> /\ Opened /\ file' = file /\ terminated'
    BY <1>1, <1>2, <1>15 DEF RepairNewline, Recoverable, RepairOK
  <2> QED BY <1>1, <2>1, <2>2, OpensOneMore
<1>16. CASE RepairFails
  BY <1>0, <1>16 DEF RepairFails
<1>17. CASE UNCHANGED vars
  <2>1. UNCHANGED <<file, terminated, phase, log, state, content, inflight, written, promised>>
    BY <1>17 DEF vars, disk, memory
  <2>2. Recoverable(t)'
    BY <1>1, <2>1 DEF Recoverable, OpenOK, LoadingOK, RepairOK, FileIsPromised, Torn, OneMore, End
  <2> QED BY <1>1, <2>1, <2>2
<1> QED
  BY <1>3, <1>4, <1>5, <1>6, <1>7, <1>8, <1>9, <1>10, <1>11, <1>12, <1>13, <1>14, <1>15, <1>16, <1>17
     DEF Next, LoadStep

\* Both invariants hold in every behaviour.
LEMMA Invariance == Spec => [](SafeInv /\ ReplayInv)
  BY InitSafe, NextSafe, InitReplay, NextReplay, PTL DEF Spec

\* However often and wherever the process stops, load never refuses the file as
\* long as no file operation reported an error (load, storage.ts).
THEOREM NeverRefusedHolds == Spec => []NeverRefused
<1>1. ReplayInv => NeverRefused
  BY DEF ReplayInv, Recoverable, NeverRefused
<1> QED BY <1>1, Invariance, PTL

\* Between operations the file is the log of the open storage (appendMutation,
\* load and its repairs).
THEOREM FileIsLogHolds == Spec => []FileIsLog
<1>1. SafeInv /\ ReplayInv => FileIsLog
  BY DEF ReplayInv, Recoverable, OpenOK, FileIsPromised, FileIsLog
<1> QED BY <1>1, Invariance, PTL

\* A lane has at most one open operation (appendRecord), also after any number
\* of crashes and loads without errors.
THEOREM OneOpenOperationHolds == Spec => [](errors = 0 => OneOpenOperation)
<1>1. SafeInv /\ ReplayInv => (errors = 0 => OneOpenOperation)
  <2> SUFFICES ASSUME SafeInv, ReplayInv, errors = 0, phase = "open" PROVE OneOpen(state)
    BY DEF OneOpenOperation, OneOpen
  <2>1. PICK t : Trail(t, promised) /\ Recoverable(t)
    BY DEF ReplayInv
  <2>2. state = t[Len(promised) + 1] /\ Len(promised) + 1 \in 1 .. Len(promised) + 1
    BY <2>1 DEF Recoverable, OpenOK, End, SafeInv, TypeOK
  <2> QED BY <2>1, <2>2 DEF Trail
<1> QED BY <1>1, Invariance, PTL

\* A load that succeeds opens on what was promised, or on one line more.
LEMMA OpensOnPromised ==
  ASSUME SafeInv, ReplayInv, [Next]_vars, errors = 0, phase # "open", phase' = "open"
  PROVE  /\ promised' = log /\ promised \in Seq(Mutations) /\ log \in Seq(Mutations)
         /\ log = promised \/ \E m \in Lines : log = Append(promised, m)
<1>1. PICK t : Trail(t, promised) /\ Recoverable(t)
  BY DEF ReplayInv
<1>2. LoadComplete \/ PublishRepair \/ RepairNewline
  <2>1. inflight = <<>>
    BY DEF SafeInv, TypeOK
  <2>2. ~Operation
    BY OperationEnqueues DEF SafeInv, Enqueue
  <2>3. ~WriteAll /\ ~Acknowledge /\ ~RepairFails /\ ~UNCHANGED vars
    BY <2>1 DEF WriteAll, Acknowledge, RepairFails, vars
  <2>4. ~Load /\ ~LoadLine /\ ~LoadRefuses /\ ~LoadTornTail /\ ~StageRepair
    BY DEF Load, LoadLine, LoadRefuses, LoadTornTail, StageRepair
  <2>5. \A extent \in Extents : ~WriteFails(extent) /\ ~Crash(extent)
    BY <2>1 DEF WriteFails, Crash
  <2> QED BY <2>2, <2>3, <2>4, <2>5 DEF Next, LoadStep
<1>3. promised' = log /\ promised \in Seq(Mutations) /\ log \in Seq(Mutations)
  BY <1>2 DEF LoadComplete, PublishRepair, RepairNewline, Opened, SafeInv, TypeOK
<1>4. log = promised \/ \E m \in Lines : log = Append(promised, m)
  <2>1. CASE LoadComplete
    <3>1. /\ content = file /\ Len(log) = Len(file) /\ file \in Seq(Lines)
          /\ log \in Seq(Lines) /\ \A i \in 1 .. Len(log) : log[i] = file[i]
      <4>1. phase = "loading" /\ LoadingOK(t) /\ index > Len(content)
        BY <1>1, <2>1, Zenon DEF LoadComplete, Recoverable
      <4>2. content = file /\ Len(log) <= Len(file) /\ \A i \in 1 .. Len(log) : log[i] = file[i]
        BY <4>1, Zenon DEF LoadingOK
      <4>3. file \in Seq(Lines) /\ log \in Seq(Lines)
        BY <1>3 DEF SafeInv, TypeOK, Lines
      <4>4. Len(log) = Len(file)
        BY <4>1, <4>2, <4>3 DEF index
      <4> QED BY <4>2, <4>3, <4>4, Zenon
    <3>2. log = file
      BY <3>1, SeqEqual
    <3> QED BY <1>1, <3>2, GarbageIsNoMutation DEF Recoverable, FileIsPromised, Torn, OneMore, Lines
  <2>2. CASE PublishRepair
    BY <1>1, <2>2 DEF PublishRepair, Recoverable, RepairOK
  <2>3. CASE RepairNewline
    BY <1>1, <2>3 DEF RepairNewline, Recoverable, RepairOK, OneMore, Lines
  <2> QED BY <1>2, <2>1, <2>2, <2>3
<1> QED BY <1>3, <1>4

\* A load that succeeds keeps everything that was acknowledged or seen, and adds
\* at most the mutation that was in flight.
THEOREM LoadKeepsPromisesHolds == Spec => LoadKeepsPromises
<1> DEFINE Keeps == errors = 0 /\ phase # "open" /\ phase' = "open" =>
                      /\ Len(promised') \in {Len(promised), Len(promised) + 1}
                      /\ SubSeq(promised', 1, Len(promised)) = promised
<1>1. SafeInv /\ ReplayInv /\ [Next]_vars => [Keeps]_vars
  <2> SUFFICES ASSUME SafeInv, ReplayInv, [Next]_vars, errors = 0, phase # "open", phase' = "open"
               PROVE  /\ Len(promised') \in {Len(promised), Len(promised) + 1}
                      /\ SubSeq(promised', 1, Len(promised)) = promised
    OBVIOUS
  <2>1. /\ promised' = log /\ promised \in Seq(Mutations) /\ log \in Seq(Mutations)
        /\ log = promised \/ \E m \in Lines : log = Append(promised, m)
    BY OpensOnPromised
  <2>2. CASE log = promised
    BY <2>1, <2>2, SubSeqFull
  <2>3. ASSUME NEW m \in Lines, log = Append(promised, m)
        PROVE  /\ Len(promised') \in {Len(promised), Len(promised) + 1}
               /\ SubSeq(promised', 1, Len(promised)) = promised
    BY <2>1, <2>3, AppendLine
  <2> QED BY <2>1, <2>2, <2>3
<1> QED BY <1>1, Invariance, PTL DEF Spec, LoadKeepsPromises

-----------------------------------------------------------------------------
(* The storage implements the log.                                         *)

\* A replay agrees with its lines all along.
LEMMA TrailAgrees ==
  ASSUME WellOrdered, NEW lines \in Seq(Mutations), NEW t, Trail(t, lines)
  PROVE  \A n \in 0 .. Len(lines) : Agrees(t[n + 1], lines, n)
<1> DEFINE S == {n \in 0 .. Len(lines) : Agrees(t[n + 1], lines, n)}
<1>1. Len(lines) \in Nat
  OBVIOUS
<1>2. t[1] = EmptyState
  BY DEF Trail
<1>3. Agrees(EmptyState, lines, 0)
  <2>1. \A kinds : At(lines, 0, kinds) = {}
    BY DEF At
  <2>2. \A lane : Moves(lines, 0, lane) = {}
    BY <2>1 DEF Moves
  <2>3. IdsAgree(EmptyState, lines, 0)
    <3>1. EmptyState.usedIds = {} /\ EmptyState.entries = <<>>
      BY DEF EmptyState
    <3>2. EntryIds(EmptyState) = {}
      BY <3>1 DEF EntryIds
    <3> QED BY <2>1, <3>1, <3>2 DEF IdsAgree
  <2>4. LanesAgree(EmptyState, lines, 0)
    BY <2>1, <2>2 DEF EmptyState, LanesAgree
  <2>5. OpenAgree(EmptyState, lines, 0)
    BY <2>1 DEF OpenAgree
  <2> QED BY <2>3, <2>4, <2>5, Zenon DEF EmptyState, Agrees
<1>4. 0 \in S
  BY <1>1, <1>2, <1>3
<1>5. ASSUME NEW n \in 0 .. Len(lines), n \in S, n < Len(lines) PROVE n + 1 \in S
  <2>1. n \in Nat /\ n + 1 \in 1 .. Len(lines) /\ n + 1 \in 1 .. Len(lines) + 1 /\ n + 1 \in 0 .. Len(lines)
    BY <1>1, <1>5
  <2> DEFINE m == lines[n + 1]
             st == t[n + 1]
  <2>2. /\ st \in States /\ Accepted(st, m) /\ t[(n + 1) + 1] = ApplyMutation(st, m)
        /\ m \in Mutations
    BY <2>1 DEF Trail
  <2>3. Agrees(st, lines, n)
    BY <1>5
  <2>4. ValidMutation(st, m) /\ m.seq = n + 1
    BY <2>2, <2>3, Zenon DEF Accepted, ValidMutation, Agrees
  <2>5. ApplyMutation(st, m).sequence = n + 1
    BY <2>2, <2>4, ApplyFields, Zenon
  <2>6. IdsAgree(ApplyMutation(st, m), lines, n + 1)
    BY <1>5, <2>1, <2>2, <2>3, IdsStep DEF Agrees
  <2>7. LanesAgree(ApplyMutation(st, m), lines, n + 1)
    BY <1>5, <2>1, <2>2, <2>3, <2>4, LanesStep DEF Agrees
  <2>8. OpenAgree(ApplyMutation(st, m), lines, n + 1)
    BY <1>5, <2>1, <2>2, <2>3, OpenStep DEF Agrees
  <2>9. Agrees(ApplyMutation(st, m), lines, n + 1)
    BY <2>5, <2>6, <2>7, <2>8 DEF Agrees
  <2> QED BY <2>1, <2>2, <2>9
<1> HIDE DEF S
<1>6. \A n \in 0 .. Len(lines) : n \in S
  BY <1>1, <1>4, <1>5, Induction, Zenon
<1> QED BY <1>6 DEF S

\* Only a fork writes entries without a lane; a session's own have one.
Own(m) == m.kind = "entry" => m.lane # Null
Owned(lines) == \A i \in DOMAIN lines : Own(lines[i])
OwnLanes == Owned(file) /\ Owned(log) /\ Owned(content) /\ Owned(inflight) /\ Owned(promised)

LEMMA OwnedEmpty == Owned(<<>>)
  BY DEF Owned

LEMMA OwnedAppend ==
  ASSUME NEW S, NEW lines \in Seq(S), Owned(lines), NEW m \in S, Own(m)
  PROVE  Owned(Append(lines, m))
<1>1. \A i \in DOMAIN Append(lines, m) : \/ i \in DOMAIN lines /\ Append(lines, m)[i] = lines[i]
                                         \/ Append(lines, m)[i] = m
  OBVIOUS
<1> QED BY <1>1 DEF Owned

LEMMA OwnedFile ==
  ASSUME TypeOK, Owned(file), NEW m \in Mutations, Own(m), NEW extent
  PROVE  Owned(FileWith(m, extent))
<1>1. file \in Seq(Lines) /\ m \in Lines /\ Garbage \in Lines /\ Own(Garbage)
  BY DEF TypeOK, Lines, Own, Garbage
<1>2. Owned(Append(file, Garbage)) /\ Owned(Append(file, m))
  BY <1>1, OwnedAppend
<1>3. Owned([file EXCEPT ![Len(file)] = Garbage])
  BY <1>1 DEF Owned
<1> QED BY <1>2, <1>3 DEF FileWith

LEMMA OperationOwn ==
  ASSUME Operation PROVE \E m : Enqueue(m) /\ Own(m)
<1>1. \A lane \in Lanes : lane # Null
  BY SessionAssumption
<1>2. ASSUME NEW seq, NEW id, NEW parent, NEW lane \in Lanes, NEW type
      PROVE  Own(EntryMutation(seq, id, parent, lane, type))
  BY <1>1 DEF EntryMutation, Own
<1>3. ASSUME NEW seq, NEW id, NEW lane, NEW type, NEW runId
      PROVE  /\ Own(RecordMutation(seq, id, lane, type, runId)) /\ Own(LaneMutation(seq, lane, id))
             /\ Own(NameMutation(seq, id)) /\ Own(LabelMutation(seq, id, type))
  BY DEF RecordMutation, LaneMutation, NameMutation, LabelMutation, Own
<1>4. ASSUME NEW lane \in Lanes, NEW at \in Ids \cup {Null}, CreateLane(lane, at) \/ MoveLane(lane, at)
      PROVE  \E m : Enqueue(m) /\ Own(m)
  BY <1>3, <1>4 DEF CreateLane, MoveLane
<1>5. ASSUME NEW id \in Ids, NEW lane \in Lanes, NEW type, AppendEntry(id, lane, type)
      PROVE  \E m : Enqueue(m) /\ Own(m)
  BY <1>2, <1>5 DEF AppendEntry
<1>6. ASSUME NEW id \in Ids, NEW lane \in Lanes, NEW type, NEW runId, AppendRecord(id, lane, type, runId)
      PROVE  \E m : Enqueue(m) /\ Own(m)
  BY <1>3, <1>6 DEF AppendRecord
<1>7. ASSUME NEW text, NEW id, SetName(text) \/ SetLabel(id, text)
      PROVE  \E m : Enqueue(m) /\ Own(m)
  BY <1>3, <1>7 DEF SetName, SetLabel
<1> QED BY <1>4, <1>5, <1>6, <1>7 DEF Operation

LEMMA NextOwn == ASSUME SafeInv, OwnLanes, [Next]_vars PROVE OwnLanes'
<1>0. /\ file \in Seq(Lines) /\ log \in Seq(Mutations) /\ content \in Seq(Lines)
      /\ inflight \in Seq(Mutations) /\ promised \in Seq(Mutations) /\ TypeOK
      /\ Owned(file) /\ Owned(log) /\ Owned(content) /\ Owned(inflight) /\ Owned(promised)
  BY DEF SafeInv, TypeOK, OwnLanes
<1>1. CASE Operation
  <2>1. PICK m : Enqueue(m) /\ Own(m)
    BY <1>1, OperationOwn
  <2>2. /\ inflight' = Append(inflight, m) /\ inflight = <<>>
        /\ UNCHANGED <<file, log, content, promised>>
    BY <2>1 DEF Enqueue, disk, memory
  <2>3. Owned(inflight')
    BY <2>1, <2>2 DEF Owned
  <2> QED BY <1>0, <2>2, <2>3 DEF OwnLanes
<1>2. ASSUME inflight # <<>>
      PROVE  /\ Head(inflight) \in Mutations /\ Own(Head(inflight)) /\ Owned(Tail(inflight))
             /\ Owned(Append(log, Head(inflight))) /\ Owned(Append(promised, Head(inflight)))
  <2>1. /\ Head(inflight) \in Mutations /\ Head(inflight) = inflight[1] /\ 1 \in DOMAIN inflight
        /\ \A i \in DOMAIN Tail(inflight) : i + 1 \in DOMAIN inflight /\ Tail(inflight)[i] = inflight[i + 1]
    BY <1>0, <1>2
  <2>2. Own(Head(inflight)) /\ Owned(Tail(inflight))
    BY <1>0, <2>1 DEF Owned
  <2> QED BY <1>0, <2>1, <2>2, OwnedAppend
<1>3. CASE WriteAll
  <2>1. inflight # <<>> /\ file' = FileWith(Head(inflight), "all")
        /\ UNCHANGED <<log, content, inflight, promised>>
    BY <1>3 DEF WriteAll, memory
  <2> QED BY <1>0, <1>2, <2>1, OwnedFile DEF OwnLanes
<1>4. CASE Acknowledge
  <2>1. /\ inflight # <<>> /\ log' = Append(log, Head(inflight)) /\ inflight' = Tail(inflight)
        /\ promised' = Append(promised, Head(inflight)) /\ UNCHANGED <<file, content>>
    BY <1>4 DEF Acknowledge, Apply, disk
  <2> QED BY <1>0, <1>2, <2>1 DEF OwnLanes
<1>5. ASSUME NEW extent \in Extents, WriteFails(extent) PROVE OwnLanes'
  <2>1. /\ inflight # <<>> /\ file' = FileWith(Head(inflight), extent) /\ inflight' = Tail(inflight)
        /\ UNCHANGED <<log, content, promised>>
    BY <1>5 DEF WriteFails, memory
  <2> QED BY <1>0, <1>2, <2>1, OwnedFile DEF OwnLanes
<1>6. ASSUME NEW extent \in Extents, Crash(extent) PROVE OwnLanes'
  <2>1. /\ file' = file \/ (inflight # <<>> /\ file' = FileWith(Head(inflight), extent))
        /\ log' = <<>> /\ content' = <<>> /\ inflight' = <<>> /\ promised' = promised
    BY <1>6 DEF Crash, Forget, disk
  <2> QED BY <1>0, <1>2, <2>1, OwnedFile, OwnedEmpty DEF OwnLanes
<1>7. CASE Load
  BY <1>0, <1>7, OwnedEmpty DEF Load, Forget, disk, OwnLanes
<1>8. CASE LoadLine
  <2>1. /\ index \in DOMAIN content /\ content[index] # Garbage /\ log' = Append(log, content[index])
        /\ UNCHANGED <<file, content, inflight, promised>>
    BY <1>0, <1>8 DEF LoadLine, Applies, Apply, disk, index
  <2>2. content[index] \in Mutations /\ Own(content[index])
    BY <1>0, <2>1 DEF Owned, Lines
  <2> QED BY <1>0, <2>1, <2>2, OwnedAppend DEF OwnLanes
<1>9. CASE LoadRefuses
  BY <1>0, <1>9, OwnedEmpty DEF LoadRefuses, Forget, disk, OwnLanes
<1>10. CASE LoadTornTail \/ StageRepair
  BY <1>0, <1>10 DEF LoadTornTail, StageRepair, disk, memory, OwnLanes
<1>11. CASE LoadComplete \/ RepairNewline
  BY <1>0, <1>11, OwnedEmpty DEF LoadComplete, RepairNewline, Opened, disk, memory, OwnLanes
<1>12. CASE PublishRepair
  <2>1. /\ file' = SubSeq(content, 1, Len(log)) /\ content' = <<>> /\ promised' = log
        /\ UNCHANGED <<log, inflight>> /\ Len(log) <= Len(content)
    BY <1>0, <1>12 DEF PublishRepair, Opened, memory, index, SafeInv, LoadInBounds
  <2>2. \A i \in DOMAIN SubSeq(content, 1, Len(log)) :
          i \in DOMAIN content /\ SubSeq(content, 1, Len(log))[i] = content[i]
    BY <1>0, <2>1
  <2>3. Owned(file')
    BY <1>0, <2>1, <2>2 DEF Owned
  <2> QED BY <1>0, <2>1, <2>3, OwnedEmpty DEF OwnLanes
<1>13. CASE RepairFails
  BY <1>0, <1>13, OwnedEmpty DEF RepairFails, Forget, OwnLanes
<1>14. CASE UNCHANGED vars
  BY <1>0, <1>14 DEF vars, disk, memory, OwnLanes
<1> QED BY <1>1, <1>3, <1>4, <1>5, <1>6, <1>7, <1>8, <1>9, <1>10, <1>11, <1>12, <1>13, <1>14
       DEF Next, LoadStep

\* What callers have seen stays, or grows by a line.
LEMMA PromisedGrows ==
  ASSUME SafeInv, ReplayInv, [Next]_vars, errors = 0
  PROVE  promised' = promised \/ \E m : promised' = Append(promised, m)
<1>1. CASE phase # "open" /\ phase' = "open"
  BY <1>1, OpensOnPromised
<1>2. CASE Acknowledge
  BY <1>2 DEF Acknowledge
<1>3. CASE LoadComplete \/ PublishRepair \/ RepairNewline
  BY <1>1, <1>3 DEF LoadComplete, PublishRepair, RepairNewline, Opened
<1>4. Operation => promised' = promised
  BY OperationEnqueues DEF SafeInv, Enqueue
<1>5. (\E extent \in Extents : WriteFails(extent) \/ Crash(extent)) => promised' = promised
  BY DEF WriteFails, Crash
<1>6. CASE WriteAll \/ Load \/ RepairFails \/ LoadLine \/ LoadRefuses \/ LoadTornTail \/ StageRepair
           \/ UNCHANGED vars
  BY <1>6 DEF WriteAll, Load, RepairFails, LoadLine, LoadRefuses, LoadTornTail, StageRepair, vars
<1> QED BY <1>2, <1>3, <1>4, <1>5, <1>6 DEF Next, LoadStep

\* What a replay accepts after the history is acceptable to the log.
LEMMA AcceptedIsAcceptable ==
  ASSUME promised \in Seq(Mutations), NEW lines, NEW st \in States, NEW m \in Mutations, Own(m),
         Agrees(st, lines, Len(promised)), Accepted(st, m),
         \A i \in 1 .. Len(promised) : lines[i] = promised[i]
  PROVE  m \in Abstract!MutationsAt({Len(promised) + 1}) /\ Abstract!Acceptable(m)
<1> DEFINE n == Len(promised)
<1>1. n \in Nat /\ DOMAIN promised = 1 .. n
  OBVIOUS
<1>2. ValidMutation(st, m) /\ m.seq = n + 1
  BY Zenon DEF Accepted, ValidMutation, Agrees
<1>3. m \in Abstract!MutationsAt({n + 1})
  <2>1. m \in MutationsAt({n + 1})
    BY <1>2 DEF Mutations, MutationsAt
  <2> QED BY <2>1 DEF MutationsAt, Abstract!MutationsAt, Null, Abstract!Null, EntryTypes,
                      Abstract!EntryTypes, RecordTypes, Abstract!RecordTypes
<1>4. \A kinds : Abstract!Positions(kinds) = At(lines, n, kinds)
  BY <1>1 DEF Abstract!Positions, At
<1>5. \A kinds : \A i \in At(lines, n, kinds) : promised[i] = lines[i] /\ i \in 1 .. n
  BY DEF At
<1> HIDE DEF n
<1>6. /\ Abstract!UsedIds = st.usedIds
      /\ Abstract!Entries = EntryIds(st)
  BY <1>4, <1>5 DEF Abstract!UsedIds, Abstract!Entries, Agrees, IdsAgree, n
<1>7. ASSUME NEW lane \in DOMAIN st.lanes
      PROVE  Abstract!LaneExists(lane) /\ Abstract!LeafOf(lane) = st.lanes[lane]
  <2>1. lane \in Lanes
    BY DEF States
  <2>2. Abstract!LaneExists(lane)
    BY <1>4, <1>5, <2>1 DEF Abstract!LaneExists, Abstract!Main, Main, Agrees, LanesAgree, n
  <2> DEFINE moves == {i \in Abstract!Positions({"entry", "lane"}) : promised[i].lane = lane}
             last == CHOOSE i \in moves : \A j \in moves : j <= i
  <2>3. moves = Moves(lines, n, lane)
    BY <1>4, <1>5 DEF Moves
  <2>4. \A i \in moves : i \in 1 .. n /\ promised[i] = lines[i]
    BY <1>4, <1>5
  <2>5. Abstract!LeafOf(lane) =
          IF moves = {} THEN Null
          ELSE IF promised[last].kind = "entry" THEN promised[last].id ELSE promised[last].leafId
    BY DEF Abstract!LeafOf, Abstract!Null, Null
  <2>6. \/ moves = {} /\ st.lanes[lane] = Null
        \/ \E i \in moves : (\A j \in moves : j <= i) /\ st.lanes[lane] = Leaf(lines[i])
    BY <2>3, Zenon DEF Agrees, LanesAgree, n
  <2> HIDE DEF moves
  <2>7. ASSUME NEW i \in moves, \A j \in moves : j <= i PROVE last = i
    BY <1>1, <2>4, <2>7
  <2> HIDE DEF last
  <2>8. CASE moves = {}
    BY <2>2, <2>5, <2>6, <2>8
  <2>9. ASSUME NEW i \in moves, \A j \in moves : j <= i, st.lanes[lane] = Leaf(lines[i])
        PROVE  Abstract!LeafOf(lane) = st.lanes[lane]
    BY <2>4, <2>5, <2>7, <2>9 DEF Leaf
  <2> QED BY <2>2, <2>6, <2>8, <2>9
<1>8. ASSUME NEW lane \in Lanes, st.openOperations[lane] = {}
      PROVE  Abstract!OpenOperations(lane) = {}
  <2> SUFFICES ASSUME NEW i \in Abstract!OpenOperations(lane) PROVE FALSE
    OBVIOUS
  <2>1. /\ i \in At(lines, n, {"record"}) /\ lines[i].lane = lane /\ i \in 1 .. n
        /\ lines[i].type = "operation_started"
        /\ \A j \in At(lines, n, {"record"}) : ~(j > i /\ Finishes(lines[j], lines[i]))
    BY <1>4, <1>5, Zenon DEF Abstract!OpenOperations, Finishes
  <2>2. PICK j \in (i + 1) .. n : Finishes(lines[j], lines[i])
    BY <1>8, <2>1, Zenon DEF Agrees, OpenAgree, n
  <2>3. j \in At(lines, n, {"record"}) /\ j > i
    BY <1>1, <2>1, <2>2 DEF At, Finishes
  <2> QED BY <2>1, <2>2, <2>3
<1>9. CASE m.kind = "entry"
  <2>1. m.id \notin st.usedIds /\ m.lane \in DOMAIN st.lanes /\ m.parentId = st.lanes[m.lane]
    BY <1>2, <1>9 DEF ValidMutation, HasLane, Own
  <2> QED BY <1>3, <1>6, <1>7, <1>9, <2>1 DEF Abstract!Acceptable, n
<1>10. CASE m.kind = "record"
  <2>1. /\ m.id \notin st.usedIds /\ m.lane \in DOMAIN st.lanes /\ m.lane \in Lanes
        /\ m.type = "operation_started" => st.openOperations[m.lane] = {}
    BY <1>2, <1>10, KindFacts DEF ValidMutation, HasLane, Accepted
  <2> QED BY <1>3, <1>6, <1>7, <1>8, <1>10, <2>1 DEF Abstract!Acceptable, n
<1>11. CASE m.kind = "lane"
  BY <1>2, <1>3, <1>6, <1>11 DEF Abstract!Acceptable, Abstract!Null, Null, ValidMutation, IsTarget, n
<1>12. CASE m.kind = "name"
  BY <1>3, <1>12 DEF Abstract!Acceptable, n
<1>13. CASE m.kind = "label"
  BY <1>2, <1>3, <1>6, <1>13 DEF Abstract!Acceptable, ValidMutation, n
<1> QED BY <1>9, <1>10, <1>11, <1>12, <1>13, KindFacts, ZenonT(30)

LEMMA StepImplementsLog ==
  ASSUME WellOrdered, SafeInv, ReplayInv, OwnLanes, SafeInv', ReplayInv', OwnLanes', [Next]_vars, errors = 0,
         errors' = 0
  PROVE  [Abstract!LogNext]_promised
<1> SUFFICES ASSUME promised' # promised PROVE Abstract!LogNext
  OBVIOUS
<1>1. PICK m : promised' = Append(promised, m)
  BY PromisedGrows
<1>2. promised \in Seq(Mutations) /\ promised' \in Seq(Mutations)
  BY DEF SafeInv, TypeOK
<1> DEFINE n == Len(promised)
           lines == promised'
<1>3. /\ n \in Nat /\ Len(lines) = n + 1 /\ lines[n + 1] = m /\ m \in Mutations
      /\ n + 1 \in DOMAIN lines /\ \A i \in 1 .. n : lines[i] = promised[i]
  BY <1>1, <1>2
<1>4. Own(m)
  BY <1>3 DEF OwnLanes, Owned
<1>5. PICK t : Trail(t, lines)
  BY DEF ReplayInv
<1> HIDE DEF lines
<1>6. t[n + 1] \in States /\ Accepted(t[n + 1], m) /\ Agrees(t[n + 1], lines, n)
  <2>1. n \in 0 .. Len(lines) /\ n + 1 \in 1 .. Len(lines) /\ n + 1 \in 1 .. (Len(lines) + 1)
    BY <1>3
  <2>2. lines \in Seq(Mutations)
    BY <1>2 DEF lines
  <2>3. Agrees(t[n + 1], lines, n)
    BY <1>5, <2>1, <2>2, TrailAgrees
  <2> QED BY <1>3, <1>5, <2>1, <2>3 DEF Trail
<1>7. m \in Abstract!MutationsAt({n + 1}) /\ Abstract!Acceptable(m)
  BY <1>2, <1>3, <1>4, <1>6, AcceptedIsAcceptable, Zenon
<1> QED BY <1>1, <1>7 DEF Abstract!LogNext, Abstract!Extend
=============================================================================
