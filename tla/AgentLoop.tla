------------------------------ MODULE AgentLoop ------------------------------
(***************************************************************************)
(* The stateful Agent (packages/agent/src/agent.ts) and the loop it drives *)
(* (packages/agent/src/agent-loop.ts): the steering and follow-up queues,  *)
(* one run at a time, the turns of a run, the tool calls of a turn, abort, *)
(* failure, and a restart of the process that keeps only the transcript.   *)
(*                                                                         *)
(* JavaScript runs one callback at a time, so a step of the model is the   *)
(* code between two awaits, and every value of pc is an await at which     *)
(* callers may steer, abort, prompt and so on.                             *)
(***************************************************************************)
EXTENDS Naturals, FiniteSets, Sequences

CONSTANTS
  Tools,             \* names of the tools in the context
  SequentialTools,   \* the ones with executionMode "sequential"
  ReplaySafeTools,   \* the ones with replay "safe"
  ToolExecution,     \* config.toolExecution
  SteeringAll,       \* steeringMode = "all" (else "one-at-a-time")
  FollowUpAll,       \* followUpMode = "all"
  Extras,            \* what onSteeringBatch appends to a steering batch
  MaxMsgs,           \* bound: messages the callers submit
  MaxTurns,          \* bound: assistant messages that carry tool calls
  MaxCalls,          \* bound: tool calls in one assistant message
  MaxConts,          \* bound: continue() calls that wait at the same time
  MaxThrows,         \* bound: listeners or hooks that throw
  MaxRestarts        \* bound: restarts of the process

ASSUME ToolsAssumption ==
  /\ SequentialTools \subseteq Tools
  /\ ReplaySafeTools \subseteq Tools
  /\ ToolExecution \in {"parallel", "sequential"}

ASSUME ModeAssumption ==
  /\ SteeringAll \in BOOLEAN
  /\ FollowUpAll \in BOOLEAN
  /\ Extras \in Seq([role : {"custom"}])

ASSUME BoundAssumption ==
  /\ MaxMsgs \in Nat /\ MaxTurns \in Nat /\ MaxCalls \in Nat \ {0}
  /\ MaxConts \in Nat /\ MaxThrows \in Nat /\ MaxRestarts \in Nat

VARIABLES
  \* Agent
  messages,      \* _state.messages, the transcript
  steering,      \* steeringQueue
  followUp,      \* followUpQueue
  active,        \* activeRun is set
  aborted,       \* the active run's abort signal
  toolsPending,  \* _state.pendingToolCalls
  conts,         \* batches drained by continue() calls that await onSteeringBatch
  \* runLoop
  pc,            \* the await the run is at
  context,       \* currentContext.messages
  pending,       \* pendingMessages
  areSteering,   \* pendingMessagesAreSteering
  toEmit,        \* messages of the batch being injected that are still to emit
  hasMore,       \* hasMoreToolCalls
  resume,        \* resume is set
  skipPoll,      \* skipInitialSteeringPoll
  \* the tool batch of the turn
  assistant,     \* the assistant message whose calls are settled
  todo,          \* indices of the calls still to prepare, or of the results to emit
  finalized,     \* finalizedCalls: records [index, ran, terminate]
  results,       \* toolResults: indices of the calls whose result was emitted
  interrupted,   \* the batch answered calls as interrupted
  executing,     \* calls whose tool.execute has not settled
  \* counters and history
  via,           \* via[m]: how message m was submitted, or that continue() waits with it
  discarded,     \* messages a clear, a reset or a restart threw away
  lost,          \* messages a failing run or an overtaken continue() dropped
  executions,    \* how often each call was executed
  runBase,       \* length of the transcript when the active run started
  ended,         \* the active run has emitted agent_end
  turns, throws, restarts

transcript == <<messages, context>>
batchVars == <<assistant, todo, finalized, results, interrupted>>
toolVars == <<toolsPending, executing, executions>>
runVars == <<active, aborted, runBase, ended>>
queueVars == <<steering, followUp, conts>>
turnVars == <<areSteering, hasMore, resume, skipPoll>>
msgVars == <<pending, toEmit>>
fateVars == <<via, discarded, lost>>
counters == <<turns, throws, restarts>>
history == <<fateVars, counters>>
\* what a call that only queues or drops messages leaves alone
callVars == <<pc, transcript, runVars, msgVars, turnVars, batchVars, toolVars, counters>>
\* what a step of the loop that neither polls a queue nor runs a tool leaves alone
outerVars == <<runVars, queueVars, toolVars, history>>
vars == <<pc, transcript, msgVars, turnVars, batchVars, outerVars>>

-----------------------------------------------------------------------------
(* Messages.  A tool call is named by its assistant message and its index. *)

Msgs == 1 .. MaxMsgs
CallIds == (1 .. MaxTurns) \X (1 .. MaxCalls)
Channels == {"prompt", "steer", "followUp", "continue"}
Terminates == {"none", "true", "any"}
Stops == {"stop", "toolUse", "length", "error", "aborted"}

User(m) == [role |-> "user", msg |-> m]
Assistant(t, stop, calls) == [role |-> "assistant", turn |-> t, stop |-> stop, calls |-> calls]
ToolResult(t, i) == [role |-> "toolResult", turn |-> t, index |-> i]

Elements(s) == {s[i] : i \in DOMAIN s}
Users(s) == [i \in DOMAIN s |-> User(s[i])]
IsAssistant(s, p) == s[p].role = "assistant"

\* The positions of the transcript that answer call i of assistant message t.
AnswersOf(s, t, i) == {p \in DOMAIN s : s[p] = ToolResult(t, i)}

\* findPendingToolCalls: the position of the last assistant message, when no
\* user message follows it and it stopped for tool use; 0 when there is none.
PendingAssistant(s) ==
  LET Candidates == {p \in DOMAIN s :
                       /\ IsAssistant(s, p)
                       /\ s[p].stop = "toolUse"
                       /\ \A q \in p + 1 .. Len(s) : s[q].role \notin {"user", "assistant"}}
  IN IF Candidates = {} THEN 0 ELSE CHOOSE p \in Candidates : TRUE

\* Bug variant: the recorded results are not looked at.
CallsIn(s, p) == DOMAIN s[p].calls

UnansweredIn(s, p) ==
  {i \in DOMAIN s[p].calls : \A q \in p + 1 .. Len(s) : s[q] # ToolResult(s[p].turn, i)}

HasPendingToolCalls(s) ==
  PendingAssistant(s) # 0 /\ UnansweredIn(s, PendingAssistant(s)) # {}

-----------------------------------------------------------------------------
(* PendingMessageQueue.drain, and the two polls of the loop.               *)

Drained(queue, all) == IF all \/ queue = <<>> THEN queue ELSE <<Head(queue)>>
Undrained(queue, all) == IF all \/ queue = <<>> THEN <<>> ELSE Tail(queue)

\* takeSteering: an aborted run takes nothing, and the first poll of a run that
\* continue() started from a steering batch is skipped once.
TakeSteering ==
  IF aborted \/ skipPoll
  THEN /\ pending' = <<>>
       /\ skipPoll' = (skipPoll /\ aborted)
       /\ UNCHANGED steering
  ELSE /\ pending' = Drained(steering, SteeringAll)
       /\ steering' = Undrained(steering, SteeringAll)
       /\ UNCHANGED skipPoll


\* takeFollowUps
TakeFollowUps ==
  IF aborted
  THEN pending' = <<>> /\ UNCHANGED followUp
  ELSE /\ pending' = Drained(followUp, FollowUpAll)
       /\ followUp' = Undrained(followUp, FollowUpAll)

-----------------------------------------------------------------------------
(* Starting and finishing a run: runWithLifecycle and finishRun.           *)

NoAssistant == Assistant(0, "stop", <<>>)

Init ==
  /\ messages = <<>> /\ steering = <<>> /\ followUp = <<>>
  /\ active = FALSE /\ aborted = FALSE /\ toolsPending = {} /\ conts = {}
  /\ pc = "idle" /\ context = <<>> /\ pending = <<>> /\ areSteering = TRUE
  /\ toEmit = <<>> /\ hasMore = TRUE /\ resume = FALSE /\ skipPoll = FALSE
  /\ assistant = NoAssistant /\ todo = <<>> /\ finalized = <<>> /\ results = <<>>
  /\ interrupted = FALSE /\ executing = {}
  /\ via = <<>> /\ discarded = {} /\ lost = {}
  /\ executions = [c \in CallIds |-> 0]
  /\ runBase = 0 /\ ended = FALSE /\ turns = 0 /\ throws = 0 /\ restarts = 0

\* runWithLifecycle, up to the first await of the executor.  The context is a
\* copy of the transcript with the prompts; their events are still to come.
StartRun(prompts, resuming, skip, base) ==
  /\ ~active
  /\ active' = TRUE
  /\ aborted' = FALSE
  /\ pc' = "start"
  /\ context' = messages \o prompts
  /\ toEmit' = prompts
  /\ pending' = <<>>
  /\ areSteering' = TRUE
  /\ hasMore' = TRUE
  /\ resume' = resuming
  /\ skipPoll' = skip
  /\ runBase' = base
  /\ ended' = FALSE

\* The locals of a run disappear with it.
DropRun ==
  /\ active' = FALSE /\ aborted' = FALSE /\ toolsPending' = {}
  /\ pc' = "idle" /\ context' = <<>> /\ pending' = <<>> /\ areSteering' = TRUE
  /\ toEmit' = <<>> /\ hasMore' = TRUE /\ resume' = FALSE /\ skipPoll' = FALSE
  /\ assistant' = NoAssistant /\ todo' = <<>> /\ finalized' = <<>> /\ results' = <<>>
  /\ interrupted' = FALSE
  /\ runBase' = 0 /\ ended' = FALSE

-----------------------------------------------------------------------------
(* What callers do.  Message m is the m-th one submitted.                  *)

Submit(channel) ==
  /\ Len(via) < MaxMsgs
  /\ via' = Append(via, channel)

Prompt ==
  /\ Submit("prompt")
  /\ StartRun(<<User(Len(via) + 1)>>, FALSE, FALSE, Len(messages))
  /\ UNCHANGED <<messages, discarded, lost, batchVars, toolVars, queueVars, counters>>

\* Bug variant: the newest message jumps the queue.
SteerFirst ==
  /\ Submit("steer")
  /\ steering' = <<Len(via) + 1>> \o steering
  /\ UNCHANGED <<followUp, conts, discarded, lost, callVars>>

Steer ==
  /\ Submit("steer")
  /\ steering' = Append(steering, Len(via) + 1)
  /\ UNCHANGED <<followUp, conts, discarded, lost, callVars>>

FollowUp ==
  /\ Submit("followUp")
  /\ followUp' = Append(followUp, Len(via) + 1)
  /\ UNCHANGED <<steering, conts, discarded, lost, callVars>>

ClearSteeringQueue ==
  /\ steering # <<>>
  /\ steering' = <<>>
  /\ discarded' = discarded \cup Elements(steering)
  /\ UNCHANGED <<followUp, conts, via, lost, callVars>>

ClearFollowUpQueue ==
  /\ followUp # <<>>
  /\ followUp' = <<>>
  /\ discarded' = discarded \cup Elements(followUp)
  /\ UNCHANGED <<steering, conts, via, lost, callVars>>

\* Bug variant: abort() marks the agent even when it is idle.
AbortWhenIdle ==
  /\ ~aborted
  /\ aborted' = TRUE
  /\ UNCHANGED <<pc, active, runBase, ended, transcript, batchVars, toolVars, queueVars, turnVars,
                 msgVars, history>>

Abort ==
  /\ active /\ ~aborted
  /\ aborted' = TRUE
  /\ UNCHANGED <<pc, active, runBase, ended, transcript, batchVars, toolVars, queueVars, turnVars,
                 msgVars, history>>

UserMsgsIn(s) == {s[p].msg : p \in {q \in DOMAIN s : s[q].role = "user"}}

Reset ==
  /\ ~active
  /\ messages # <<>> \/ steering # <<>> \/ followUp # <<>>
  /\ messages' = <<>> /\ steering' = <<>> /\ followUp' = <<>> /\ toolsPending' = {}
  /\ discarded' = discarded \cup UserMsgsIn(messages) \cup Elements(steering) \cup Elements(followUp)
  /\ UNCHANGED <<pc, context, executing, executions, conts, via, lost, batchVars, runVars, turnVars,
                 msgVars, counters>>

LastIsAssistant == messages[Len(messages)].role = "assistant"

Waits(batch) == via' = [m \in DOMAIN via |-> IF m \in Elements(batch) THEN "continue" ELSE via[m]]

\* Bug variant: the batch is copied, not drained.
ContinueCopiesSteering ==
  /\ ~active
  /\ messages # <<>> /\ LastIsAssistant
  /\ steering # <<>>
  /\ Cardinality(conts) < MaxConts
  /\ conts' = conts \cup {Drained(steering, SteeringAll)}
  /\ Waits(Drained(steering, SteeringAll))
  /\ UNCHANGED <<steering, followUp, discarded, lost, callVars>>

\* continue() from an assistant message drains the steering queue at once and
\* then awaits onSteeringBatch; no run is active during that await.
ContinueDrainsSteering ==
  /\ ~active
  /\ messages # <<>> /\ LastIsAssistant
  /\ steering # <<>>
  /\ Cardinality(conts) < MaxConts
  /\ conts' = conts \cup {Drained(steering, SteeringAll)}
  /\ steering' = Undrained(steering, SteeringAll)
  /\ Waits(Drained(steering, SteeringAll))
  /\ UNCHANGED <<followUp, discarded, lost, callVars>>

\* Bug variant: the run polls again before its first request.
ContinueWithBatchPolls(batch, extras) ==
  /\ StartRun(Users(batch) \o extras, FALSE, FALSE, Len(messages))
  /\ conts' = conts \ {batch}
  /\ UNCHANGED <<messages, steering, followUp, batchVars, toolVars, history>>

\* ... the hook returned (or threw) and no run was started meanwhile.
ContinueWithBatch(batch, extras) ==
  /\ StartRun(Users(batch) \o extras, FALSE, TRUE, Len(messages))
  /\ conts' = conts \ {batch}
  /\ UNCHANGED <<messages, steering, followUp, batchVars, toolVars, history>>

\* ... another run is active by now: runWithLifecycle throws and the batch,
\* drained before the await, is dropped.
ContinueOvertaken(batch) ==
  /\ active
  /\ conts' = conts \ {batch}
  /\ lost' = lost \cup Elements(batch)
  /\ UNCHANGED <<steering, followUp, via, discarded, callVars>>

ContinueWithFollowUps ==
  /\ messages # <<>> /\ LastIsAssistant
  /\ steering = <<>> /\ followUp # <<>>
  /\ StartRun(Users(Drained(followUp, FollowUpAll)), FALSE, FALSE, Len(messages))
  /\ followUp' = Undrained(followUp, FollowUpAll)
  /\ UNCHANGED <<messages, steering, conts, batchVars, toolVars, history>>

\* runContinuation
ContinueFromInput ==
  /\ messages # <<>> /\ ~LastIsAssistant
  /\ StartRun(<<>>, FALSE, FALSE, Len(messages))
  /\ UNCHANGED <<messages, batchVars, toolVars, queueVars, history>>

Continue ==
  \/ ContinueDrainsSteering
  \/ \E batch \in conts :
       \/ \E extras \in {Extras, <<>>} : ContinueWithBatch(batch, extras)
       \/ ContinueOvertaken(batch)
  \/ ContinueWithFollowUps
  \/ ContinueFromInput

ResumePendingToolCalls ==
  /\ HasPendingToolCalls(messages)
  /\ StartRun(<<>>, TRUE, FALSE, PendingAssistant(messages) - 1)
  /\ UNCHANGED <<messages, batchVars, toolVars, queueVars, history>>

\* The process stops and a new Agent is created with the recorded transcript.
Restart ==
  /\ restarts < MaxRestarts
  /\ restarts' = restarts + 1
  /\ DropRun
  /\ steering' = <<>> /\ followUp' = <<>> /\ conts' = {} /\ executing' = {}
  /\ discarded' = discarded \cup Elements(steering) \cup Elements(followUp) \cup Elements(pending)
                    \cup UserMsgsIn(toEmit) \cup UNION {Elements(batch) : batch \in conts}
  /\ UNCHANGED <<messages, executions, via, lost, turns, throws>>

-----------------------------------------------------------------------------
(* The turns of a run: runAgentLoop and runLoop.                           *)

\* message_start and message_end of one prompt.
EmitPrompt ==
  /\ pc = "start" /\ toEmit # <<>>
  /\ messages' = Append(messages, Head(toEmit))
  /\ toEmit' = Tail(toEmit)
  /\ UNCHANGED <<pc, context, pending, batchVars, turnVars, outerVars>>

\* prepareInitialTurn, then the first poll; a resumed batch settles first.
PrepareInitialTurn ==
  /\ pc = "start" /\ toEmit = <<>>
  /\ pc' = "inject"
  /\ IF resume THEN UNCHANGED <<pending, steering, skipPoll>> ELSE TakeSteering
  /\ UNCHANGED <<followUp, conts, areSteering, hasMore, resume, toEmit, transcript, batchVars,
                 toolVars, runVars, history>>

\* prepareNextTurn, then a second poll if the first one found nothing.
PrepareNextTurn ==
  /\ pc = "turn" /\ (hasMore \/ pending # <<>>)
  /\ pc' = "inject"
  /\ IF pending = <<>> THEN TakeSteering ELSE UNCHANGED <<pending, steering, skipPoll>>
  /\ UNCHANGED <<followUp, conts, areSteering, hasMore, resume, toEmit, transcript, batchVars,
                 toolVars, runVars, history>>

\* The inner loop is over: look for follow-up messages, else stop.
PollFollowUps ==
  /\ pc = "turn" /\ ~hasMore /\ pending = <<>>
  /\ TakeFollowUps
  /\ IF pending' = <<>>
     THEN pc' = "end" /\ UNCHANGED <<areSteering, hasMore>>
     ELSE areSteering' = FALSE /\ hasMore' = TRUE /\ UNCHANGED pc
  /\ UNCHANGED <<steering, conts, resume, skipPoll, toEmit, transcript, batchVars, toolVars, runVars,
                 history>>

\* onSteeringBatch; its failure leaves the batch without extras.
BeginInjection(extras) ==
  /\ pc = "inject" /\ pending # <<>>
  /\ toEmit' = Users(pending) \o (IF areSteering THEN extras ELSE <<>>)
  /\ pending' = <<>>
  /\ areSteering' = TRUE
  /\ UNCHANGED <<pc, hasMore, resume, skipPoll, transcript, batchVars, outerVars>>


EmitInjected ==
  /\ pc = "inject" /\ toEmit # <<>>
  /\ messages' = Append(messages, Head(toEmit))
  /\ context' = Append(context, Head(toEmit))
  /\ toEmit' = Tail(toEmit)
  /\ UNCHANGED <<pc, pending, batchVars, turnVars, outerVars>>

ReadyToRequest == pc = "inject" /\ pending = <<>> /\ toEmit = <<>>

\* Bug variant: a refused request is tried again in a new turn.
RequestRetried ==
  /\ ReadyToRequest /\ ~resume /\ aborted
  /\ pc' = "turn"
  /\ UNCHANGED <<transcript, msgVars, batchVars, turnVars, outerVars>>

\* streamAssistantResponse.  The provider answers a request whose signal is
\* already aborted with an "aborted" message.
RequestRefused ==
  /\ ReadyToRequest /\ ~resume /\ aborted
  /\ pc' = "end"
  /\ messages' = Append(messages, Assistant(0, "aborted", <<>>))
  /\ context' = Append(context, Assistant(0, "aborted", <<>>))
  /\ UNCHANGED <<batchVars, turnVars, msgVars, outerVars>>

Request ==
  /\ ReadyToRequest /\ ~resume /\ ~aborted
  /\ pc' = "stream"
  /\ UNCHANGED <<transcript, batchVars, turnVars, msgVars, outerVars>>

-----------------------------------------------------------------------------
(* The tool calls of a turn.                                               *)

Call(i) == <<assistant.turn, i>>
Indices(calls) == [i \in DOMAIN calls |-> i]

\* executeToolCalls: one sequential tool makes the whole batch sequential.
ExecutionMode(calls, indices) ==
  IF ToolExecution = "sequential" \/ \E i \in Elements(indices) : calls[i] \in SequentialTools
  THEN "sequential"
  ELSE "parallel"

\* The response is complete.  A message that ended in an error or an abort ends
\* the run, whatever tool calls it carries; a truncated one gets its calls
\* failed (failToolCallsFromTruncatedMessage); else they are executed.
StreamEnd(stop, calls) ==
  LET hasCalls == calls # <<>>
      message == Assistant(IF hasCalls THEN turns + 1 ELSE 0, stop, calls)
  IN /\ pc = "stream"
     /\ stop = "aborted" => aborted
     /\ hasCalls => turns < MaxTurns
     /\ turns' = IF hasCalls THEN turns + 1 ELSE turns
     /\ messages' = Append(messages, message)
     /\ context' = Append(context, message)
     /\ IF stop \in {"error", "aborted"}
        THEN pc' = "end" /\ UNCHANGED <<assistant, todo>>
        ELSE /\ assistant' = message
             /\ todo' = Indices(calls)
             /\ pc' = IF ~hasCalls THEN "turnEnd"
                      ELSE IF stop = "length" THEN "fail"
                      ELSE ExecutionMode(calls, Indices(calls))
     /\ UNCHANGED <<finalized, results, interrupted, throws, restarts, toolVars, runVars, queueVars,
                    turnVars, msgVars, fateVars>>

\* Append the tool result message of call i to the transcript.
EmitToolResult(i) ==
  /\ messages' = Append(messages, ToolResult(assistant.turn, i))
  /\ results' = Append(results, i)

\* Bug variant: only the first call of a truncated message is answered.
FailFirstTruncatedCall ==
  /\ pc = "fail"
  /\ EmitToolResult(Head(todo))
  /\ todo' = Tail(todo)
  /\ pc' = "turnEnd"
  /\ UNCHANGED <<context, assistant, finalized, interrupted, turnVars, msgVars, outerVars>>

FailTruncatedCall ==
  /\ pc = "fail"
  /\ EmitToolResult(Head(todo))
  /\ todo' = Tail(todo)
  /\ pc' = IF todo' = <<>> THEN "turnEnd" ELSE "fail"
  /\ UNCHANGED <<context, assistant, finalized, interrupted, turnVars, msgVars, outerVars>>

Ascending(s) == \A j, k \in DOMAIN s : j < k => s[j] < s[k]

\* executePendingToolCalls: a resumed run reuses the recorded message.
ResumeBatch ==
  /\ ReadyToRequest /\ resume
  /\ resume' = FALSE
  /\ LET p == PendingAssistant(context)
         unanswered == UnansweredIn(context, p)
     IN /\ assistant' = context[p]
        /\ todo' \in {s \in [1 .. Cardinality(unanswered) -> unanswered] : Ascending(s)}
  /\ pc' = "interrupt"
  /\ UNCHANGED <<finalized, results, interrupted, areSteering, hasMore, skipPoll, transcript, msgVars,
                 outerVars>>

\* Bug variant: every pending call is replayed.
AlwaysReplayable(i) == i \in DOMAIN assistant.calls

IsReplayable(i) == assistant.calls[i] \in ReplaySafeTools

Without(s, k) == [j \in 1 .. Len(s) - 1 |-> IF j < k THEN s[j] ELSE s[j + 1]]

\* Answer the first call that is not replayable as interrupted ...
InterruptCall ==
  /\ pc = "interrupt"
  /\ \E k \in DOMAIN todo :
       /\ ~IsReplayable(todo[k])
       /\ \A j \in 1 .. k - 1 : IsReplayable(todo[j])
       /\ EmitToolResult(todo[k])
       /\ todo' = Without(todo, k)
  /\ interrupted' = TRUE
  /\ UNCHANGED <<pc, context, assistant, finalized, turnVars, msgVars, outerVars>>

\* ... and then run the replayable ones again.
ReplayCalls ==
  /\ pc = "interrupt"
  /\ \A i \in Elements(todo) : IsReplayable(i)
  /\ pc' = IF todo = <<>> THEN "turnEnd" ELSE ExecutionMode(assistant.calls, todo)
  /\ UNCHANGED <<transcript, batchVars, turnVars, msgVars, outerVars>>

\* prepareToolCall: an unknown tool, invalid arguments, a blocking or failing
\* beforeToolCall or an abort settle the call at once; only a block can
\* terminate, and not once the run is aborted.
ImmediateOutcomes == IF aborted THEN {"none"} ELSE {"none", "true"}

\* tool.execute is called for call i.
Execute(c) ==
  /\ executions' = [executions EXCEPT ![c] = @ + 1]
  /\ executing' = executing \cup {<<c, executions[c] + 1>>}
  /\ toolsPending' = toolsPending \cup {c}

\* executeToolCallsSequential
PrepareSequential ==
  LET i == Head(todo)
  IN /\ pc = "sequential"
     /\ \/ \E outcome \in ImmediateOutcomes :
             /\ finalized' = Append(finalized, [index |-> i, ran |-> FALSE, terminate |-> outcome])
             /\ toolsPending' = toolsPending \cup {Call(i)}
             /\ pc' = "emitResult"
             /\ UNCHANGED <<executions, executing>>
        \/ /\ ~aborted
           /\ finalized' = Append(finalized, [index |-> i, ran |-> TRUE, terminate |-> "running"])
           /\ Execute(Call(i))
           /\ pc' = "runOne"
     /\ UNCHANGED <<assistant, todo, results, interrupted, transcript, runVars, queueVars, turnVars,
                    msgVars, history>>

EmitResult ==
  /\ pc = "emitResult"
  /\ EmitToolResult(Head(todo))
  /\ toolsPending' = toolsPending \ {Call(Head(todo))}
  /\ pc' = "checkSequential"
  /\ UNCHANGED <<context, assistant, todo, finalized, interrupted, executing, executions, runVars,
                 queueVars, turnVars, msgVars, history>>

\* executeToolCallsParallel: the calls are prepared one after the other ...
PrepareParallel ==
  /\ pc = "parallel" /\ todo # <<>>
  /\ \/ \E outcome \in ImmediateOutcomes :
          /\ finalized' = Append(finalized, [index |-> Head(todo), ran |-> FALSE, terminate |-> outcome])
          /\ UNCHANGED toolsPending
     \/ /\ ~aborted
        /\ finalized' = Append(finalized, [index |-> Head(todo), ran |-> TRUE, terminate |-> "prepared"])
        /\ toolsPending' = toolsPending \cup {Call(Head(todo))}
  /\ pc' = "checkParallel"
  /\ UNCHANGED <<assistant, todo, results, interrupted, executing, executions, transcript, runVars,
                 queueVars, turnVars, msgVars, history>>

\* Both loops over the calls break once the run is aborted.
CheckAbort ==
  /\ pc \in {"checkSequential", "checkParallel"}
  /\ todo' = IF aborted THEN <<>> ELSE Tail(todo)
  /\ pc' = IF pc = "checkParallel" THEN "parallel"
           ELSE IF todo' = <<>> THEN "turnEnd" ELSE "sequential"
  /\ UNCHANGED <<assistant, finalized, results, interrupted, transcript, turnVars, msgVars,
                 outerVars>>

\* ... and the prepared ones started together, whether or not the run is
\* aborted by now.
Launch ==
  LET Prepared == {Call(finalized[k].index) :
                     k \in {j \in DOMAIN finalized : finalized[j].terminate = "prepared"}}
  IN /\ pc = "parallel" /\ todo = <<>>
     /\ finalized' = [k \in DOMAIN finalized |->
                        IF finalized[k].terminate = "prepared"
                        THEN [finalized[k] EXCEPT !.terminate = "running"] ELSE finalized[k]]
     /\ executions' = [c \in CallIds |-> IF c \in Prepared THEN executions[c] + 1 ELSE executions[c]]
     /\ executing' = executing \cup {<<c, executions[c] + 1>> : c \in Prepared}
     /\ pc' = "runAll"
     /\ UNCHANGED <<assistant, todo, results, interrupted, toolsPending, transcript, runVars,
                    queueVars, turnVars, msgVars, history>>

Running == {k \in DOMAIN finalized : finalized[k].terminate = "running"}
Execution(k) == <<Call(finalized[k].index), executions[Call(finalized[k].index)]>>

\* tool.execute of the k-th call settles, and afterToolCall with it.  In a
\* parallel batch tool_execution_end follows at once.
ToolSettles(k, outcome) ==
  /\ pc \in {"runOne", "runAll"} /\ k \in Running
  /\ finalized' = [finalized EXCEPT ![k].terminate = outcome]
  /\ executing' = executing \ {Execution(k)}
  /\ IF pc = "runOne"
     THEN pc' = "emitResult" /\ UNCHANGED toolsPending
     ELSE toolsPending' = toolsPending \ {Call(finalized[k].index)} /\ UNCHANGED pc
  /\ UNCHANGED <<assistant, todo, results, interrupted, executions, transcript, runVars, queueVars,
                 turnVars, msgVars, history>>

\* Bug variant: an abort gives up waiting for the calls that still run.
CollectOnAbort ==
  /\ pc = "runAll" /\ (Running = {} \/ aborted)
  /\ todo' = [k \in DOMAIN finalized |-> finalized[k].index]
  /\ pc' = "emitResults"
  /\ UNCHANGED <<assistant, finalized, results, interrupted, transcript, msgVars, turnVars, outerVars>>

\* Bug variant: the calls that were settled at once come first.
CollectImmediateFirst ==
  LET Immediate(f) == ~f.ran
      Ran(f) == f.ran
      ordered == SelectSeq(finalized, Immediate) \o SelectSeq(finalized, Ran)
  IN /\ pc = "runAll" /\ Running = {}
     /\ todo' = [k \in DOMAIN ordered |-> ordered[k].index]
     /\ pc' = "emitResults"
     /\ UNCHANGED <<assistant, finalized, results, interrupted, transcript, msgVars, turnVars, outerVars>>

\* Promise.all is settled: the results follow in the order of the calls.
Collect ==
  /\ pc = "runAll" /\ Running = {}
  /\ todo' = [k \in DOMAIN finalized |-> finalized[k].index]
  /\ pc' = "emitResults"
  /\ UNCHANGED <<assistant, finalized, results, interrupted, transcript, turnVars, msgVars,
                 outerVars>>

EmitResults ==
  /\ pc = "emitResults"
  /\ EmitToolResult(Head(todo))
  /\ todo' = Tail(todo)
  /\ pc' = IF todo' = <<>> THEN "turnEnd" ELSE "emitResults"
  /\ UNCHANGED <<context, assistant, finalized, interrupted, turnVars, msgVars, outerVars>>

\* shouldTerminateToolBatch; interrupted results never terminate the batch.
ShouldTerminateToolBatch ==
  /\ ~interrupted
  /\ \/ \E k \in DOMAIN finalized : finalized[k].terminate = "any"
     \/ finalized # <<>> /\ \A k \in DOMAIN finalized : finalized[k].terminate = "true"

\* turn_end, shouldStopAfterTurn, and the poll for steering after the turn.
CompleteTurn(stopAfterTurn) ==
  /\ pc = "turnEnd"
  /\ context' = context \o [k \in DOMAIN results |-> ToolResult(assistant.turn, results[k])]
  /\ hasMore' = (assistant.calls # <<>> /\ ~ShouldTerminateToolBatch)
  /\ assistant' = NoAssistant /\ todo' = <<>> /\ finalized' = <<>> /\ results' = <<>>
  /\ interrupted' = FALSE
  /\ IF stopAfterTurn
     THEN pc' = "end" /\ UNCHANGED <<pending, steering, skipPoll>>
     ELSE pc' = "turn" /\ TakeSteering
  /\ UNCHANGED <<messages, followUp, conts, areSteering, resume, toEmit, toolVars, runVars, history>>

-----------------------------------------------------------------------------
(* The end of a run, and its failure.                                      *)

AgentEnd ==
  /\ pc = "end"
  /\ pc' = "ending"
  /\ ended' = TRUE
  /\ UNCHANGED <<active, aborted, runBase, transcript, batchVars, toolVars, queueVars, turnVars,
                 msgVars, history>>

FinishRun ==
  /\ pc \in {"ending", "failEnded"}
  /\ DropRun
  /\ UNCHANGED <<messages, executing, executions, queueVars, history>>

\* A listener, or a hook that is not guarded, throws.  A tool that throws is an
\* outcome; tool_execution_end of a settled call may throw while others run.
CanThrow ==
  \/ pc \in {"start", "turn", "inject", "stream", "fail", "interrupt", "sequential", "emitResult",
             "checkSequential", "parallel", "checkParallel", "emitResults", "turnEnd", "end", "ending"}
  \/ pc = "runAll" /\ \E k \in DOMAIN finalized \ Running : finalized[k].ran

Throw ==
  /\ throws < MaxThrows /\ CanThrow
  /\ throws' = throws + 1
  /\ pc' = IF aborted THEN "failingAborted" ELSE "failing"
  /\ lost' = lost \cup Elements(pending) \cup UserMsgsIn(toEmit)
  /\ pending' = <<>> /\ toEmit' = <<>>
  /\ UNCHANGED <<via, discarded, turns, restarts, transcript, batchVars, toolVars, runVars, queueVars,
                 turnVars>>

\* handleRunFailure
FailureMessage == Assistant(0, IF pc = "failingAborted" THEN "aborted" ELSE "error", <<>>)

HandleRunFailure ==
  /\ pc \in {"failing", "failingAborted"}
  /\ messages' = Append(messages, FailureMessage)
  /\ pc' = "failEnded"
  /\ ended' = TRUE
  /\ UNCHANGED <<context, active, aborted, runBase, batchVars, toolVars, queueVars, turnVars, msgVars,
                 history>>

\* A listener of the failure's own events throws, before or after the message
\* is in the transcript: finishRun still runs.
HandleRunFailureThrows ==
  /\ throws < MaxThrows /\ pc \in {"failing", "failingAborted"}
  /\ throws' = throws + 1
  /\ messages' \in {messages, Append(messages, FailureMessage)}
  /\ DropRun
  /\ UNCHANGED <<executing, executions, turns, restarts, queueVars, fateVars>>

\* The executions that belong to the batch of the active run.
BatchExecutions == IF pc \in {"runOne", "runAll"} THEN {Execution(k) : k \in Running} ELSE {}

\* A call of a batch that failed settles later; its event reaches the agent.
StraySettles(e) ==
  /\ e \in executing \ BatchExecutions
  /\ executing' = executing \ {e}
  /\ toolsPending' = toolsPending \ {e[1]}
  /\ UNCHANGED <<pc, executions, transcript, batchVars, runVars, queueVars, turnVars, msgVars,
                 history>>

-----------------------------------------------------------------------------

CallLists == UNION {[1 .. n -> Tools] : n \in 0 .. MaxCalls}

Caller ==
  \/ Prompt \/ Steer \/ FollowUp
  \/ ClearSteeringQueue \/ ClearFollowUpQueue
  \/ Abort \/ Reset \/ Continue \/ ResumePendingToolCalls

Loop ==
  \/ EmitPrompt \/ PrepareInitialTurn \/ PrepareNextTurn \/ PollFollowUps
  \/ \E extras \in {Extras, <<>>} : BeginInjection(extras)
  \/ EmitInjected \/ RequestRefused \/ Request
  \/ \E stop \in Stops, calls \in CallLists : StreamEnd(stop, calls)
  \/ FailTruncatedCall \/ ResumeBatch \/ InterruptCall \/ ReplayCalls
  \/ PrepareSequential \/ EmitResult
  \/ PrepareParallel \/ CheckAbort \/ Launch \/ Collect \/ EmitResults
  \/ \E stopAfterTurn \in BOOLEAN : CompleteTurn(stopAfterTurn)
  \/ AgentEnd \/ FinishRun \/ HandleRunFailure

Tool == \E k \in 1 .. MaxCalls, outcome \in Terminates : ToolSettles(k, outcome)

Failure == Throw \/ HandleRunFailureThrows \/ \E e \in executing : StraySettles(e)

Next == Caller \/ Loop \/ Tool \/ Failure \/ Restart

\* The event loop resumes a run whose await has settled; hooks, listeners, the
\* provider and the tools settle.
Fairness == WF_vars(Loop) /\ WF_vars(Tool)

Spec == Init /\ [][Next]_vars /\ Fairness

-----------------------------------------------------------------------------
(* Properties.                                                             *)

PCs == {"idle", "start", "turn", "inject", "stream", "fail", "interrupt",
        "sequential", "runOne", "emitResult", "checkSequential",
        "parallel", "checkParallel", "runAll", "emitResults",
        "turnEnd", "end", "ending", "failing", "failingAborted", "failEnded"}

Messages ==
  [role : {"user"}, msg : Msgs]
    \cup [role : {"custom"}]
    \cup [role : {"assistant"}, turn : 0 .. MaxTurns, stop : Stops, calls : CallLists]
    \cup [role : {"toolResult"}, turn : 1 .. MaxTurns, index : 1 .. MaxCalls]

\* Every variable has its type, the run's locals exist only while it is active
\* (activeRun is set exactly while the lifecycle wrapper is at an await), and
\* only an active run can be aborted.
TypeOK ==
  /\ messages \in Seq(Messages) /\ context \in Seq(Messages) /\ toEmit \in Seq(Messages)
  /\ steering \in Seq(Msgs) /\ followUp \in Seq(Msgs) /\ pending \in Seq(Msgs)
  /\ conts \subseteq Seq(Msgs)
  /\ active \in BOOLEAN /\ aborted \in BOOLEAN
  /\ pc \in PCs
  /\ active <=> pc # "idle"
  /\ aborted => active
  /\ areSteering \in BOOLEAN /\ hasMore \in BOOLEAN /\ resume \in BOOLEAN /\ skipPoll \in BOOLEAN
  /\ assistant \in Messages /\ assistant.role = "assistant"
  /\ todo \in Seq(1 .. MaxCalls) /\ results \in Seq(1 .. MaxCalls)
  /\ finalized \in Seq([index : 1 .. MaxCalls, ran : BOOLEAN,
                        terminate : Terminates \cup {"prepared", "running"}])
  /\ interrupted \in BOOLEAN
  /\ toolsPending \subseteq CallIds
  /\ executing \subseteq CallIds \X Nat
  /\ via \in Seq(Channels) /\ Len(via) <= MaxMsgs
  /\ discarded \subseteq Msgs /\ lost \subseteq Msgs
  /\ executions \in [CallIds -> Nat]
  /\ runBase \in Nat /\ ended \in BOOLEAN
  /\ turns \in 0 .. MaxTurns /\ throws \in 0 .. MaxThrows /\ restarts \in 0 .. MaxRestarts

Occurrences(s, m) == Cardinality({i \in DOMAIN s : s[i] = m})

\* No message is delivered twice or disappears silently: each one submitted is,
\* once, in a queue, in the hands of the run or of a waiting continue(), in the
\* transcript, or among those a clear, reset, restart or failure dropped.
Conservation ==
  \A m \in DOMAIN via :
    /\ Occurrences(steering, m) + Occurrences(followUp, m) + Occurrences(pending, m)
         + Occurrences(toEmit, User(m)) + Occurrences(messages, User(m))
         + Cardinality({batch \in conts : m \in Elements(batch)})
         + Cardinality({m} \cap discarded) + Cardinality({m} \cap lost) = 1

\* The queue a message was sent on; continue() takes from the steering queue.
Queue(m) == IF via[m] = "continue" THEN "steer" ELSE via[m]

\* Messages sent on one channel reach the transcript in the order they were
\* sent, whatever polls, turns and runs deliver them, except that one continue()
\* took may come late: while it awaits onSteeringBatch, a run that somebody else
\* starts, or another continue(), may deliver later ones.
DeliveredInOrder ==
  \A p, q \in DOMAIN messages :
    /\ messages[p].role = "user" /\ messages[q].role = "user" /\ p < q
    /\ Queue(messages[p].msg) = Queue(messages[q].msg) /\ via[messages[q].msg] # "continue"
    => messages[p].msg < messages[q].msg

\* One-at-a-time mode: within a run, two steering messages are never injected
\* before the same response, although each turn polls the queue up to twice and
\* continue() drains it before the run.
OneSteeringPerTurn ==
  active /\ ~SteeringAll =>
    \A p, q \in runBase + 1 .. Len(messages) :
      /\ messages[p].role = "user" /\ messages[q].role = "user" /\ p < q
      /\ {via[messages[p].msg], via[messages[q].msg]} \subseteq {"steer", "continue"}
      => \E r \in p + 1 .. q - 1 : IsAssistant(messages, r)


\* At every request, each tool call of the run's earlier messages (of the
\* resumed message too) has exactly one result, after its message.
AnsweredAtRequest ==
  pc = "stream" =>
    \A p \in runBase + 1 .. Len(messages) :
      IsAssistant(messages, p) =>
        \A i \in DOMAIN messages[p].calls :
          \E q \in p + 1 .. Len(messages) : AnswersOf(messages, messages[p].turn, i) = {q}

\* The results a batch has added to the transcript since its request are in
\* the order of its calls, though the calls settle in any order, unless a resumed
\* batch first answered some as interrupted.
ResultsInCallOrder ==
  active /\ ~interrupted =>
    \A p, q \in Len(context) + 1 .. Len(messages) :
      /\ messages[p].role = "toolResult" /\ messages[q].role = "toolResult" /\ p < q
      => messages[p].index < messages[q].index

\* A call is executed again only if its tool declares replay "safe", even when
\* the process stops in the middle of a batch and the batch is resumed; the
\* calls of a truncated, failed or aborted response are never executed.
ExecutedAtMostOnce ==
  \A p \in DOMAIN messages :
    IsAssistant(messages, p) =>
      \A i \in DOMAIN messages[p].calls :
        /\ messages[p].calls[i] \notin ReplaySafeTools => executions[<<messages[p].turn, i>>] <= 1
        /\ messages[p].stop \in {"length", "error", "aborted"} => executions[<<messages[p].turn, i>>] = 0

\* A call whose result is in the transcript is not executed again.
AnsweredNeverRerun ==
  [][\A c \in CallIds :
       executions'[c] > executions[c] => AnswersOf(messages, c[1], c[2]) = {}]_vars

\* Without throwing listeners, no tool outlives the run that started it, and
\* pendingToolCalls shows every tool that runs.
NoToolOutlivesRun ==
  throws = 0 =>
    /\ ~active => executing = {}
    /\ {e[1] : e \in executing} \subseteq toolsPending


\* A run that is aborted ends, in whatever turn, batch or preparation it is.
AbortSettles == aborted ~> ~active
=============================================================================
