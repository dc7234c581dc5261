---------------------------- MODULE JsonlStorage ----------------------------
(***************************************************************************)
(* JsonlSessionStorage (packages/agent/src/harness/session/jsonl/          *)
(* storage.ts): one session file, one storage object on it at a time,      *)
(* crashes of the process at any point, appends that fail, and load with   *)
(* its two repairs.                                                        *)
(*                                                                         *)
(* The file is its header and a sequence of physical lines.  A line that   *)
(* does not parse is Garbage: a strict prefix of an encoded mutation, or   *)
(* text glued to a line that had no newline yet.                           *)
(***************************************************************************)
EXTENDS SessionState

CONSTANTS
  MaxLog,      \* bound: mutations in the log
  MaxErrors,   \* bound: file operations that report an error
  MaxCrashes   \* bound: crashes

ASSUME StorageAssumption == MaxLog \in Nat /\ MaxErrors \in Nat /\ MaxCrashes \in Nat

VARIABLES
  file,        \* the lines after the header
  terminated,  \* the file ends with a newline
  phase,       \* of the storage object
  log,         \* the mutations applied to its SessionState
  state,       \* that SessionState
  content,     \* what load read
  inflight,    \* mutations whose appendFile has not settled
  written,     \* the append in flight has reached the disk
  promised,    \* history: what callers have seen acknowledged, or seen in a loaded session
  errors, crashes

disk == <<file, terminated>>
counters == <<errors, crashes>>
memory == <<log, state>>
vars == <<disk, phase, memory, content, inflight, written, promised, counters>>

Garbage == [kind |-> "garbage"]
Phases == {"closed", "loading", "stageRepair", "publishRepair", "repairNewline", "open", "refused"}
Extents == {"nothing", "part", "unterminated", "all"}

\* JsonlSessionStorage.create has written the header.
Init ==
  /\ file = <<>> /\ terminated = TRUE
  /\ phase = "open" /\ log = <<>> /\ state = EmptyState /\ content = <<>>
  /\ inflight = <<>> /\ written = FALSE
  /\ promised = <<>> /\ errors = 0 /\ crashes = 0

-----------------------------------------------------------------------------
(* appendFile.                                                             *)

\* The file after so much of the encoding of m has reached it.
FileWith(m, extent) ==
  IF extent = "nothing" THEN file
  ELSE IF terminated THEN Append(file, IF extent = "part" THEN Garbage ELSE m)
  ELSE [file EXCEPT ![Len(file)] = Garbage]

TerminatedWith(extent) == IF extent = "nothing" THEN terminated ELSE extent = "all"

Apply(m) == log' = Append(log, m) /\ state' = ApplyMutation(state, m)
Forget == log' = <<>> /\ state' = EmptyState

\* enqueue: an operation starts when the one before it has settled.
Enqueue(m) ==
  /\ phase = "open" /\ inflight = <<>>
  /\ Len(log) < MaxLog
  /\ inflight' = Append(inflight, m)
  /\ UNCHANGED <<disk, phase, memory, content, written, promised, counters>>

NextSequence == state.sequence + 1

CreateLane(lane, at) ==
  /\ ~HasLane(state, lane) /\ IsTarget(state, at)
  /\ Enqueue(LaneMutation(NextSequence, lane, at))

MoveLane(lane, to) ==
  /\ HasLane(state, lane) /\ IsTarget(state, to)
  /\ Enqueue(LaneMutation(NextSequence, lane, to))

AppendEntry(id, lane, type) ==
  /\ HasLane(state, lane) /\ id \notin state.usedIds
  /\ Enqueue(EntryMutation(NextSequence, id, state.lanes[lane], lane, type))

\* A lane has at most one open operation.
AppendRecord(id, lane, type, runId) ==
  /\ HasLane(state, lane) /\ id \notin state.usedIds
  /\ ~(type = "operation_started" /\ state.openOperations[lane] # {})
  /\ Enqueue(RecordMutation(NextSequence, id, lane, type, runId))

SetName(name) == Enqueue(NameMutation(NextSequence, name))

SetLabel(id, label) ==
  /\ IsTarget(state, id)
  /\ Enqueue(LabelMutation(NextSequence, id, label))

Operation ==
  \/ \E lane \in Lanes, at \in Ids \cup {Null} : CreateLane(lane, at) \/ MoveLane(lane, at)
  \/ \E id \in Ids, lane \in Lanes :
       \/ \E type \in EntryTypes : AppendEntry(id, lane, type)
       \/ AppendRecord(id, lane, "operation_started", Null)
       \/ \E runId \in Ids : AppendRecord(id, lane, "operation_finished", runId)
       \/ AppendRecord(id, lane, "usage", Null)
  \/ \E text \in Labels \cup {Null} :
       \/ SetName(text)
       \/ \E id \in Ids : SetLabel(id, text)

\* The bytes of the append are in the file ...
WriteAll ==
  /\ inflight # <<>> /\ ~written
  /\ file' = FileWith(Head(inflight), "all") /\ terminated' = TerminatedWith("all")
  /\ written' = TRUE
  /\ UNCHANGED <<phase, memory, content, inflight, promised, counters>>

\* Bug variant: the append is not awaited.
AcknowledgeUnwritten ==
  /\ inflight # <<>>
  /\ Apply(Head(inflight))
  /\ promised' = Append(promised, Head(inflight))
  /\ inflight' = Tail(inflight) /\ written' = FALSE
  /\ UNCHANGED <<disk, phase, content, counters>>

\* ... and appendMutation returns: applyMutation, and the caller's promise.
Acknowledge ==
  /\ inflight # <<>> /\ written
  /\ Apply(Head(inflight))
  /\ promised' = Append(promised, Head(inflight))
  /\ inflight' = Tail(inflight) /\ written' = FALSE
  /\ UNCHANGED <<disk, phase, content, counters>>

\* appendFile reports an error after so much of the text is in the file; the
\* operation is rejected, the state keeps its sequence number.
WriteFails(extent) ==
  /\ inflight # <<>> /\ ~written
  /\ errors < MaxErrors
  /\ errors' = errors + 1
  /\ file' = FileWith(Head(inflight), extent) /\ terminated' = TerminatedWith(extent)
  /\ inflight' = Tail(inflight)
  /\ UNCHANGED <<phase, memory, content, written, promised, crashes>>

\* The process stops, an append in flight half done.
Crash(extent) ==
  /\ crashes < MaxCrashes
  /\ crashes' = crashes + 1
  /\ IF inflight # <<>> /\ ~written
     THEN file' = FileWith(Head(inflight), extent) /\ terminated' = TerminatedWith(extent)
     ELSE extent = "nothing" /\ UNCHANGED disk
  /\ phase' = "closed" /\ Forget /\ content' = <<>> /\ inflight' = <<>> /\ written' = FALSE
  /\ UNCHANGED <<promised, errors>>

-----------------------------------------------------------------------------
(* load.  The loop over the lines has no await; index - 1 lines are applied.*)

Load ==
  /\ phase \in {"closed", "refused"}
  /\ phase' = "loading" /\ Forget /\ content' = file
  /\ UNCHANGED <<disk, inflight, written, promised, counters>>

index == Len(log) + 1
Applies(line) == line # Garbage /\ ValidMutation(state, line)

LoadLine ==
  /\ phase = "loading" /\ index <= Len(content)
  /\ Applies(content[index])
  /\ Apply(content[index])
  /\ UNCHANGED <<disk, phase, content, inflight, written, promised, counters>>

IsTornTail == index = Len(content) /\ content[index] = Garbage

\* invalidFile: a line in the middle does not parse, or a line does not apply.
LoadRefuses ==
  /\ phase = "loading" /\ index <= Len(content)
  /\ ~IsTornTail
  /\ ~Applies(content[index])
  /\ phase' = "refused" /\ Forget /\ content' = <<>>
  /\ UNCHANGED <<disk, inflight, written, promised, counters>>

\* Bug variant: a torn tail makes load start over.
LoadTornTailAgain ==
  /\ phase = "loading" /\ index <= Len(content) /\ IsTornTail
  /\ Forget
  /\ UNCHANGED <<disk, phase, content, inflight, written, promised, counters>>

\* publishFileAtomically: the valid prefix goes to a temporary file ...
LoadTornTail ==
  /\ phase = "loading" /\ index <= Len(content) /\ IsTornTail
  /\ phase' = "stageRepair"
  /\ UNCHANGED <<disk, memory, content, inflight, written, promised, counters>>

StageRepair ==
  /\ phase = "stageRepair"
  /\ phase' = "publishRepair"
  /\ UNCHANGED <<disk, memory, content, inflight, written, promised, counters>>

\* The session is open: its callers see everything the log holds.
Opened ==
  /\ phase' = "open" /\ content' = <<>>
  /\ promised' = log
  /\ UNCHANGED <<memory, inflight, written, counters>>

\* Bug variant: the prefix is one line too long.
PublishTooMuch ==
  /\ phase = "publishRepair"
  /\ file' = SubSeq(content, 1, index) /\ terminated' = TRUE
  /\ Opened

\* ... that is renamed over the session file.
PublishRepair ==
  /\ phase = "publishRepair"
  /\ file' = SubSeq(content, 1, index - 1) /\ terminated' = TRUE
  /\ Opened

\* Bug variant: a missing newline is not repaired.
LoadCompleteUnrepaired ==
  /\ phase = "loading" /\ index > Len(content)
  /\ Opened /\ UNCHANGED disk

LoadComplete ==
  /\ phase = "loading" /\ index > Len(content)
  /\ IF terminated
     THEN Opened /\ UNCHANGED disk
     ELSE phase' = "repairNewline"
          /\ UNCHANGED <<disk, memory, content, inflight, written, promised, counters>>

RepairNewline ==
  /\ phase = "repairNewline"
  /\ terminated' = TRUE /\ UNCHANGED file
  /\ Opened

\* A step of a repair reports an error: load throws.  The file is as it was,
\* unless the newline is there after all.
RepairFails ==
  /\ phase \in {"stageRepair", "publishRepair", "repairNewline"}
  /\ errors < MaxErrors
  /\ errors' = errors + 1
  /\ phase' = "closed" /\ Forget /\ content' = <<>>
  /\ terminated' \in {terminated, terminated \/ phase = "repairNewline"}
  /\ UNCHANGED <<file, inflight, written, promised, crashes>>

LoadStep ==
  \/ LoadLine \/ LoadRefuses \/ LoadTornTail \/ LoadComplete
  \/ StageRepair \/ PublishRepair \/ RepairNewline

Next ==
  \/ Operation \/ WriteAll \/ Acknowledge
  \/ \E extent \in Extents : WriteFails(extent) \/ Crash(extent)
  \/ Load \/ LoadStep \/ RepairFails

\* load runs to its end once it has been called.
Spec == Init /\ [][Next]_vars /\ WF_vars(LoadStep)

-----------------------------------------------------------------------------
(* Properties.                                                             *)

Lines == Mutations \cup {Garbage}

\* Every variable has its type; one operation at a time is in flight, and only
\* on an open storage.
TypeOK ==
  /\ file \in Seq(Lines) /\ terminated \in BOOLEAN
  /\ phase \in Phases
  /\ log \in Seq(Mutations) /\ state \in States
  /\ content \in Seq(Lines) /\ promised \in Seq(Mutations)
  /\ inflight \in Seq(Mutations) /\ Len(inflight) <= 1 /\ written \in BOOLEAN
  /\ inflight # <<>> => phase = "open"
  /\ errors \in 0 .. MaxErrors /\ crashes \in 0 .. MaxCrashes

\* An operation validates before it writes: what it has on its way to the file
\* is what applyMutation accepts afterwards.  Were it not, the line would be on
\* disk, the caller would see an error, and the file would never load again.
InflightApplies == inflight # <<>> => ValidMutation(state, Head(inflight))

\* However the process stops, if no append reported an error the file loads.
NeverRefused == errors = 0 => phase # "refused"

\* Loading never loses a mutation that was acknowledged or seen before, and adds
\* at most the one that was in flight when the process stopped.
LoadKeepsPromises ==
  [][errors = 0 /\ phase # "open" /\ phase' = "open" =>
       /\ Len(promised') \in {Len(promised), Len(promised) + 1}
       /\ SubSeq(promised', 1, Len(promised)) = promised]_vars

\* Between operations an open session and its file agree, line by line.
FileIsLog == errors = 0 /\ phase = "open" /\ inflight = <<>> => file = log /\ terminated

\* A lane never has two open operations, which recovery would read as corruption
\* (types.ts:311), through crashes and replays.
OneOpenOperation ==
  phase = "open" => \A lane \in Lanes : \A a, b \in state.openOperations[lane] : a = b

\* A load that was started ends, with an open session or an error.
LoadSettles == phase = "loading" ~> phase \in {"open", "closed", "refused"}
=============================================================================
