-------------------------- MODULE BrowserExecutor ---------------------------
(* startBrowserExecutor of packages/browser-engine/src/executor.ts: the page  *)
(* that owns an agent session connects out to a server, introduces itself,   *)
(* publishes its snapshot, then runs the commands of remote participants     *)
(* beside those of the page.                                                 *)
(*                                                                          *)
(* A step is the code between two awaits. All callbacks of a generation are  *)
(* fenced by generation.closed, so only the current one has state. A frame   *)
(* counts 1 against the queue bounds. Whether a snapshot or a progress       *)
(* message exceeds the frame limit, and whether it can be projected, is a    *)
(* free choice. The identity checks (session, binding and generation ids)    *)
(* hold here: one session and one bridge, and a generation has its own       *)
(* transport. The versions of the session stand for its content.             *)
EXTENDS ExecutorWire

CONSTANTS
  OutLimit,          \* maxQueuedOutboundBytes, in frames
  OutReserve,        \* maxAbortControlBytes, in frames
  MaxPendingLocal,   \* maxPendingCommands of the executor
  LocalCmds          \* the commands the page itself issues

VARIABLES
  x,         \* the driver: see XInit
  version,   \* the version of the session's content
  run,       \* run[c]: "no", "preflight", "running" or "done"
  by,        \* by[c]: generation whose command c is, 0 for the page
  runs       \* runs[c]: how often the session was asked to do c

xVars == <<x, version, run, by, runs>>

XInit ==
  /\ x = [cur |-> 0, last |-> 0, st |-> "closed", sent |-> FALSE, q |-> <<>>,
          terminal |-> FALSE, disposed |-> FALSE]
  /\ version = 0
  /\ run = [c \in Cmds |-> "no"]
  /\ by = [c \in Cmds |-> 0]
  /\ runs = [c \in Cmds |-> 0]

XTypeOK ==
  /\ x \in [cur: 0..MaxGens, last: 0..MaxGens,
            st: {"closed", "connecting", "hello", "bootstrap", "active"},
            sent: BOOLEAN, q: Seq(ToHost), terminal: BOOLEAN, disposed: BOOLEAN]
  /\ version \in 0..MaxVersions
  /\ run \in [Cmds -> {"no", "preflight", "running", "done"}]
  /\ by \in [Cmds -> 0..MaxGens]

(*************************** generations ************************************)
\* failGeneration: the generation closes and what it had queued is gone.
Closed(y, terminal) ==
  [y EXCEPT !.cur = 0, !.st = "closed", !.sent = FALSE, !.q = <<>>,
            !.terminal = @ \/ terminal]

Fits(y, control) == Len(y.q) < OutLimit - (IF control THEN 0 ELSE OutReserve)

\* enqueue, and the write failure that follows when the queue is full.
Enqueued(y, m, control) ==
  IF Fits(y, control) THEN [y EXCEPT !.q = Append(@, m)] ELSE Closed(y, FALSE)

\* sendRuntimeError, after which the generation closes: see DrainWrites.
RuntimeError(y) == Enqueued(y, [type |-> "error"], TRUE)

\* rejectOversizedSnapshot tells the host what it does not get.
Oversized(y, scope, c) ==
  Enqueued(y, [type |-> "rejected", scope |-> scope, c |-> c], TRUE)

\* sendProgress: the progress, or that it is too large.
Progress(y, v) == {Enqueued(y, [type |-> "progress", v |-> v], FALSE), RuntimeError(y)}

\* publishSnapshot: the snapshot, or that it is too large, or that it cannot
\* be projected.
Published(y, scope, v) ==
  LET z == [y EXCEPT !.sent = @ \/ scope = "bootstrap"]
  IN {Enqueued(z, [type |-> "snapshot", v |-> v], FALSE),
      Oversized(z, scope, "none"), RuntimeError(y)}

\* The driver goes on as y; a generation it gave up closes its transport.
Becomes(y, d) ==
  /\ x' = y
  /\ tr' = IF y.cur = x.cur THEN tr ELSE Dead(x.cur)
  /\ down' = IF y.cur = x.cur THEN d ELSE [d EXCEPT ![x.cur] = <<>>]

\* connect: a new generation, unless one is alive.
Connect ==
  /\ ~x.disposed /\ ~x.terminal /\ x.cur = 0 /\ x.last < MaxGens
  /\ x' = [x EXCEPT !.cur = x.last + 1, !.last = @ + 1, !.st = "connecting"]
  /\ UNCHANGED <<wireVars, version, run, by, runs>>

\* The transport factory answers in time: hello goes out.
OpenTransport ==
  /\ x.st = "connecting"
  /\ x' = Enqueued([x EXCEPT !.st = "hello"], [type |-> "hello"], FALSE)
  /\ tr' = [tr EXCEPT ![x.cur] = "open"]
  /\ UNCHANGED <<up, down, version, run, by, runs>>

\* It answers after its generation closed: the transport is closed at once.
LateTransport(g) ==
  /\ g <= x.last /\ g # x.cur /\ tr[g] = "none"
  /\ tr' = [tr EXCEPT ![g] = "dead"]
  /\ UNCHANGED <<up, down, xVars>>

\* The factory fails, or one of the timers for connect, hello and bootstrap
\* fires first.
HandshakeFails ==
  /\ x.st \in {"connecting", "hello", "bootstrap"}
  /\ Becomes(Closed(x, FALSE), down)
  /\ UNCHANGED <<up, version, run, by, runs>>

\* drainWrites: a frame is written. The generation that reported a bootstrap
\* snapshot too large, or an error, closes once that is out.
DrainWrites ==
  /\ x.q # <<>> /\ tr[x.cur] = "open"
  /\ LET m == Head(x.q)
         last == \/ m.type = "error"
                 \/ m.type = "rejected" /\ m.scope = "bootstrap"
     IN /\ up' = [up EXCEPT ![x.cur] = Append(@, m)]
        /\ Becomes(IF last THEN Closed(x, FALSE) ELSE [x EXCEPT !.q = Tail(@)], down)
  /\ UNCHANGED <<version, run, by, runs>>

\* onClose, onError, or a write that fails because the transport is dead.
TransportCloses ==
  /\ x.cur # 0 /\ tr[x.cur] = "dead"
  /\ Becomes(Closed(x, FALSE), down)
  /\ UNCHANGED <<up, version, run, by, runs>>

\* dispose: the close frame only goes out when nothing is being written.
DisposeExecutor ==
  /\ MayDispose /\ ~x.disposed
  /\ up' = IF x.st = "active" /\ x.q = <<>> /\ tr[x.cur] = "open"
             THEN [up EXCEPT ![x.cur] = Append(@, [type |-> "close"])] ELSE up
  /\ LET y == [Closed(x, TRUE) EXCEPT !.disposed = TRUE]
     IN IF x.cur = 0 THEN x' = y /\ UNCHANGED <<tr, down>> ELSE Becomes(y, down)
  /\ UNCHANGED <<version, run, by, runs>>

(****************************** commands ************************************)
Running(kinds) == {c \in Cmds : Kind[c] \in kinds /\ run[c] \in {"preflight", "running"}}
Ordinary == {"prompt", "steer", "config"}

\* The checks of runPrompt, runSteer, runAbort, runSetModel, runSetThinking.
\* A prompt is what makes the session stream.
Busy(c) ==
  CASE Abort(c) ->
         \/ Running({"abort"}) # {}
         \/ \E p \in Running({"prompt"}) : run[p] = "preflight"
    [] Kind[c] = "steer" -> Cardinality(Running(Ordinary)) >= MaxPendingLocal
    [] OTHER ->
         \/ Cardinality(Running(Ordinary)) >= MaxPendingLocal
         \/ Running({"prompt", "config"}) # {}

FailureResult(c) == [type |-> "result", c |-> c, ok |-> FALSE, v |-> version]

\* Command c of generation g (0: the page) starts.
Started(c, g) ==
  /\ run' = [run EXCEPT ![c] = IF Kind[c] = "prompt" THEN "preflight" ELSE "running"]
  /\ by' = [by EXCEPT ![c] = g]
  /\ runs' = [runs EXCEPT ![c] = @ + 1]

\* A command of the page itself.
LocalCommand(c) ==
  /\ c \in LocalCmds /\ run[c] = "no"
  /\ ~x.disposed /\ ~x.terminal /\ ~Busy(c)
  /\ Started(c, 0)
  /\ UNCHANGED <<wireVars, x, version>>

\* preflightResult(true).
PreflightAccepts(c) ==
  /\ run[c] = "preflight"
  /\ run' = [run EXCEPT ![c] = "running"]
  /\ UNCHANGED <<wireVars, x, version, by, runs>>

\* handleRuntimeCommand after the command: its result for the generation it
\* came from, if that is still the current one. A result that finds the queue
\* full becomes a failure, which may still fit, being smaller. A model the
\* page itself chose is published.
Answered(c) ==
  IF c \in LocalCmds
    THEN IF Kind[c] = "config" /\ x.st \in {"bootstrap", "active"}
           THEN Published(x, "snapshot", version) ELSE {x}
  ELSE IF by[c] # x.cur \/ x.st # "active" THEN {x}
  ELSE LET ok == [type |-> "result", c |-> c, ok |-> TRUE, v |-> version]
           no == [x EXCEPT !.q = Append(@, FailureResult(c))]
       IN IF Fits(x, Abort(c))
            THEN {Enqueued(x, ok, Abort(c)), Oversized(x, "result", c)}
            ELSE {no, Closed(x, FALSE)}

CommandSucceeds(c) ==
  /\ run[c] = "running"
  /\ run' = [run EXCEPT ![c] = "done"]
  /\ \E y \in Answered(c) : Becomes(y, down)
  /\ UNCHANGED <<up, version, by, runs>>

\* The session throws, or never accepted the prompt.
CommandFails(c) ==
  /\ run[c] \in {"preflight", "running"}
  /\ run' = [run EXCEPT ![c] = "done"]
  /\ Becomes(IF c \in LocalCmds \/ by[c] # x.cur THEN x
             ELSE Enqueued(x, FailureResult(c), Abort(c)), down)
  /\ UNCHANGED <<up, version, by, runs>>

\* emitAgentEvent: the session changed, and says so by progress or snapshot.
SessionChanges ==
  /\ version < MaxVersions
  /\ version' = version + 1
  /\ UNCHANGED <<up, run, by, runs>>
  /\ IF x.st \in {"bootstrap", "active"} /\ ~x.disposed
       THEN \E y \in Progress(x, version') \cup Published(x, "snapshot", version') :
              Becomes(y, down)
       ELSE UNCHANGED <<x, tr, down>>

(************************** messages of the host ****************************)
\* executor_reject names a stage the generation cannot be in.
InvalidStage(stage) ==
  \/ stage = "hello" /\ x.st # "hello"
  \/ stage = "bootstrap" /\ x.st # "bootstrap"
  \/ stage = "snapshot" /\ x.st \notin {"bootstrap", "active"}

\* pendingCommandIds: a command of this generation is still running.
Pending(c) == by[c] = x.cur /\ run[c] \in {"preflight", "running"}

\* handleMessage.
HandleMessage ==
  /\ x.cur # 0 /\ x.st # "connecting" /\ down[x.cur] # <<>>
  /\ UNCHANGED <<up, version>>
  /\ LET m == Head(down[x.cur])
         d == [down EXCEPT ![x.cur] = Tail(@)]
         quiet == UNCHANGED <<run, by, runs>>
     IN \/ /\ m.type = "ready" /\ quiet
           /\ IF x.st = "hello"
                THEN \E y \in Published([x EXCEPT !.st = "bootstrap"], "bootstrap", version) : Becomes(y, d)
                ELSE Becomes(Closed(x, TRUE), d)
        \/ /\ m.type = "reject" /\ quiet
           /\ Becomes(Closed(x, InvalidStage(m.stage) \/ (m.stage = "hello" /\ protocol # 1)), d)
        \/ /\ m.type = "ack" /\ quiet
           /\ Becomes(IF x.st = "bootstrap" /\ x.sent THEN [x EXCEPT !.st = "active"]
                      ELSE Closed(x, TRUE), d)
        \/ /\ m.type = "command" /\ (x.st # "active" \/ Pending(m.c)) /\ quiet
           /\ Becomes(Closed(x, TRUE), d)
        \/ /\ m.type = "command" /\ x.st = "active" /\ ~Pending(m.c) /\ Busy(m.c) /\ quiet
           /\ Becomes(Enqueued(x, FailureResult(m.c), Abort(m.c)), d)
        \/ /\ m.type = "command" /\ x.st = "active" /\ ~Pending(m.c) /\ ~Busy(m.c)
           /\ Started(m.c, x.cur)
           /\ Becomes(x, d)
=============================================================================
