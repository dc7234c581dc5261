---------------------------- MODULE LiveSessions ----------------------------
(* LiveSessionManager of packages/server/src/sessions.ts, with what          *)
(* server.ts does to it: one session id, the runtimes acquired for it one    *)
(* after the other, the connections that attach to it, the commands in       *)
(* flight, removeSession() and close().                                      *)
(*                                                                          *)
(* A step is the code between two awaits.  The commands of one connection    *)
(* are not serialised (dispatchMessage does not await handleRequest), so a   *)
(* command is a task of its own.  maybeDispose is called inside other steps  *)
(* and is therefore an operator on the record of a live session.  What is    *)
(* sent to the clients is left out, but for the version of the snapshot an   *)
(* attach answers with.                                                      *)
EXTENDS Naturals, FiniteSets

CONSTANTS Conns,        \* connections that completed their handshake
          Tasks,        \* commands that may be in flight together
          MaxRuntimes,  \* bound: runtimes acquired for the session
          MaxEvents,    \* bound: events the runtimes emit
          MaxRemoves,   \* bound: calls of removeSession
          MayClose      \* whether the server may be closed

ASSUME LiveAssumption == /\ IsFiniteSet(Conns) /\ IsFiniteSet(Tasks)
                         /\ MaxRuntimes \in Nat /\ MaxEvents \in Nat
                         /\ MaxRemoves \in Nat /\ MayClose \in BOOLEAN

VARIABLES live,       \* the LiveSession object of each runtime
          current,    \* liveSessions.get(id): a runtime, or 0
          opening,    \* openingSessions.get(id) and how far its create() is
          stage,      \* ConnectionState.stage of each connection
          sessionIds, \* connections whose sessionIds holds the session
          task,       \* the commands in flight
          remover,    \* the remove() in flight
          server,     \* how far close() is
          opened, events, removes   \* counters for the bounds

vars == <<live, current, opening, stage, sessionIds, task, remover, server,
          opened, events, removes>>
bounds == <<opened, events, removes>>

Runtimes == 1..MaxRuntimes
None == 0
OpenSession == [connections |-> {}, operationCount |-> 0, stateRevision |-> 0,
                version |-> 0, idle |-> TRUE, ready |-> FALSE,
                terminal |-> FALSE, terminating |-> "no", targets |-> {},
                subscribed |-> FALSE,
                disposing |-> "no", held |-> FALSE, disposals |-> 0]
Free == [at |-> "free", conn |-> None, gen |-> None, rev |-> 0, snap |-> 0]
NoOpening == [at |-> "none", gen |-> None]
NotRemoving == [at |-> "none", gen |-> None, targets |-> {}]

Init == /\ live = [g \in Runtimes |-> OpenSession]
        /\ current = None /\ opening = NoOpening
        /\ stage = [c \in Conns |-> "ready"] /\ sessionIds = {}
        /\ task = [t \in Tasks |-> Free]
        /\ remover = NotRemoving
        /\ server = [at |-> "open", gen |-> None]
        /\ opened = 0 /\ events = 0 /\ removes = 0

IsClosing == server.at # "open"

(***************************** disposal *************************************)
\* runtime.dispose() is called; held is cleared when it returns.
CallDispose(l) == [l EXCEPT !.subscribed = FALSE, !.disposals = @ + 1]

\* Bug variant: maybeDispose overlooks commands in flight.
DisposeIgnoringOperations(l) ==
  ~IsClosing /\ l.ready /\ l.disposing = "no" /\ l.connections = {}
  /\ (l.terminal \/ l.idle)

Disposable(l) ==
  /\ ~IsClosing /\ l.ready /\ l.disposing = "no"
  /\ l.connections = {} /\ l.operationCount = 0
  /\ l.terminal \/ l.idle

MaybeDispose(l) ==
  IF Disposable(l) THEN [CallDispose(l) EXCEPT !.disposing = "running"] ELSE l

\* The finally block of a command that counted itself in operationCount.
EndOperation(l) == MaybeDispose([l EXCEPT !.operationCount = @ - 1])

\* The entry in liveSessions goes away only while it still is this object.
Unlisted(g) == IF current = g THEN None ELSE current

\* The commands that wait in state `at` for runtime g.
Waiting(at, g) == {t \in Tasks : task[t].at = at /\ task[t].gen = g}

DisposeEnds(g) ==
  /\ live[g].disposing = "running"
  /\ live' = [live EXCEPT ![g].disposing = "done", ![g].held = FALSE]
  /\ current' = Unlisted(g)
  /\ \E outcome \in {"retry", "free"} :  \* "free": the disposal was rejected
       task' = [t \in Tasks |->
                  IF t \notin Waiting("disposal", g) THEN task[t]
                  ELSE IF outcome = "free" THEN Free
                  ELSE [task[t] EXCEPT !.at = "retry", !.gen = None]]
  /\ remover' = IF remover.at = "disposal" /\ remover.gen = g
                THEN NotRemoving ELSE remover
  /\ UNCHANGED <<opening, stage, sessionIds, server, bounds>>

(***************************** acquire **************************************)
\* A command of connection c enters acquire(), or returns to its loop.
Acquiring(t, c) == \/ task[t].at = "free" /\ stage[c] = "ready"
                   \/ task[t].at = "retry" /\ task[t].conn = c

\* prepareAttach reads the revision and asks the runtime for a snapshot.
Preparing(c, g) == [at |-> "snapshot", conn |-> c, gen |-> g,
                    rev |-> live[g].stateRevision, snap |-> live[g].version]

AcquireExisting(t, c) ==
  /\ Acquiring(t, c) /\ current # None
  /\ ~live[current].terminal /\ live[current].disposing = "no"
  /\ live' = [live EXCEPT ![current].operationCount = @ + 1]
  /\ task' = [task EXCEPT ![t] = Preparing(c, current)]
  /\ UNCHANGED <<current, opening, stage, sessionIds, remover, server, bounds>>

\* "Session runtime is terminating"
AcquireRefused(t, c) ==
  /\ Acquiring(t, c) /\ task[t].at = "retry"
  /\ current # None /\ live[current].terminal
  /\ task' = [task EXCEPT ![t] = Free]
  /\ UNCHANGED <<live, current, opening, stage, sessionIds, remover, server,
                 bounds>>

AcquireAwaitsDisposal(t, c) ==
  /\ Acquiring(t, c) /\ current # None
  /\ ~live[current].terminal /\ live[current].disposing = "running"
  /\ task' = [task EXCEPT ![t] = [Free EXCEPT !.at = "disposal", !.conn = c,
                                              !.gen = current]]
  /\ UNCHANGED <<live, current, opening, stage, sessionIds, remover, server,
                 bounds>>

AcquireAwaitsOpening(t, c) ==
  /\ Acquiring(t, c) /\ current = None /\ opening # NoOpening
  /\ task' = [task EXCEPT ![t] = [Free EXCEPT !.at = "opening", !.conn = c,
                                              !.gen = opening.gen]]
  /\ UNCHANGED <<live, current, opening, stage, sessionIds, remover, server,
                 bounds>>

\* create() begins: it asks the service for the runtime.
Create(t, c) ==
  /\ opened < MaxRuntimes
  /\ opened' = opened + 1
  /\ opening' = [at |-> "runtime", gen |-> opened + 1]
  /\ task' = [task EXCEPT ![t] = [Free EXCEPT !.at = "opening", !.conn = c,
                                              !.gen = opened + 1]]
  /\ UNCHANGED <<live, current, stage, sessionIds, remover, server, events,
                 removes>>

AcquireOpens(t, c) ==
  Acquiring(t, c) /\ current = None /\ opening = NoOpening /\ Create(t, c)

\* The promise in openingSessions is rejected: every command that awaits it
\* fails, and a remove() that awaits it returns.
OpeningFails ==
  /\ opening' = NoOpening
  /\ task' = [t \in Tasks |-> IF t \in Waiting("opening", opening.gen)
                              THEN Free ELSE task[t]]
  /\ remover' = IF remover.at = "opening" THEN NotRemoving ELSE remover

RuntimeRefused ==
  /\ opening.at = "runtime"
  /\ OpeningFails
  /\ UNCHANGED <<live, current, stage, sessionIds, server, bounds>>

RuntimeAcquired ==
  /\ opening.at = "runtime"
  /\ opening' = [opening EXCEPT !.at = IF IsClosing THEN "dispose"
                                       ELSE "snapshot"]
  /\ live' = [live EXCEPT ![opening.gen].held = TRUE,
                          ![opening.gen].disposals = IF IsClosing THEN 1 ELSE 0]
  /\ UNCHANGED <<current, stage, sessionIds, task, remover, server, bounds>>

\* The snapshot is of the session asked for: the object is published with
\* `count` commands counted in.
Publish(count) ==
  LET g == opening.gen IN
  /\ opening.at = "snapshot"
  /\ live' = [live EXCEPT ![g].operationCount = count, ![g].ready = TRUE,
                          ![g].subscribed = TRUE]
  /\ current' = g /\ opening' = NoOpening
  /\ task' = [t \in Tasks |-> IF t \in Waiting("opening", g)
                              THEN Preparing(task[t].conn, g) ELSE task[t]]
  /\ remover' = IF remover.at = "opening"
                THEN [remover EXCEPT !.at = "lookup"] ELSE remover
  /\ UNCHANGED <<stage, sessionIds, server, bounds>>

\* The creator counts for one; in the same turn of the event loop every
\* command that awaited the opening counts itself.
Open == Publish(Cardinality(Waiting("opening", opening.gen)))

\* The snapshot fails or is of another session.
OpenFails ==
  /\ opening.at = "snapshot"
  /\ opening' = [opening EXCEPT !.at = "dispose"]
  /\ live' = [live EXCEPT ![opening.gen] = CallDispose(@)]
  /\ UNCHANGED <<current, stage, sessionIds, task, remover, server, bounds>>

\* Bug variant: a failed opening is never settled.
OpeningKeepsWaiting ==
  /\ opening.at = "dispose"
  /\ live' = [live EXCEPT ![opening.gen].held = FALSE]
  /\ UNCHANGED <<current, opening, stage, sessionIds, task, remover, server,
                 bounds>>

OpeningDisposed ==
  /\ opening.at = "dispose"
  /\ live' = [live EXCEPT ![opening.gen].held = FALSE]
  /\ OpeningFails
  /\ UNCHANGED <<current, stage, sessionIds, server, bounds>>

(***************************** attach ***************************************)
\* The snapshot arrives: it shows the runtime as of some moment since it was
\* asked for.  prepareAttach takes it only if the revision has not moved.
SnapshotReturns(t) ==
  LET k == task[t]  l == live[k.gen] IN
  /\ k.at = "snapshot"
  /\ \E seen \in k.snap..l.version :
       task' = [task EXCEPT ![t] =
                  IF k.rev = l.stateRevision
                  THEN [k EXCEPT !.at = "candidate", !.snap = seen]
                  ELSE Preparing(k.conn, k.gen)]
  /\ UNCHANGED <<live, current, opening, stage, sessionIds, remover, server,
                 bounds>>

\* The runtime has no snapshot, or the snapshot does not fit a frame.
SnapshotFails(t) ==
  /\ task[t].at = "snapshot"
  /\ live' = [live EXCEPT ![task[t].gen] = EndOperation(@)]
  /\ task' = [task EXCEPT ![t] = Free]
  /\ UNCHANGED <<current, opening, stage, sessionIds, remover, server, bounds>>

\* attach() and the finally block, for the candidate of prepareAttach.
FinishAttach(t) ==
  LET k == task[t]  l == live[k.gen]  ok == stage[k.conn] = "ready" IN
  /\ k.at = "candidate"
  /\ sessionIds' = IF ok THEN sessionIds \union {k.conn} ELSE sessionIds
  /\ live' = [live EXCEPT ![k.gen] =
                EndOperation(IF ok THEN [l EXCEPT !.connections = @ \union {k.conn}]
                             ELSE l)]
  /\ task' = [task EXCEPT ![t] = Free]
  /\ UNCHANGED <<current, opening, stage, remover, server, bounds>>

\* Bug variant: attach() does not compare the revision again.
AttachUnchecked(t) == FinishAttach(t)

Attach(t) == /\ task[t].at = "candidate"
             /\ task[t].rev = live[task[t].gen].stateRevision
             /\ FinishAttach(t)

\* The revision moved after prepareAttach had returned.
PrepareAgain(t) ==
  LET k == task[t] IN
  /\ k.at = "candidate" /\ k.rev # live[k.gen].stateRevision
  /\ task' = [task EXCEPT ![t] = Preparing(k.conn, k.gen)]
  /\ UNCHANGED <<live, current, opening, stage, sessionIds, remover, server,
                 bounds>>

(***************************** other commands *******************************)
\* prompt, steer, abort, set_model, ...: requireAttached, then runOperation.
Operate(t, c) ==
  /\ task[t].at = "free" /\ stage[c] = "ready" /\ c \in sessionIds
  /\ current # None /\ ~live[current].terminal
  /\ live[current].disposing = "no"
  /\ live' = [live EXCEPT ![current].operationCount = @ + 1]
  /\ task' = [task EXCEPT ![t] = [Free EXCEPT !.at = "operation", !.conn = c,
                                              !.gen = current]]
  /\ UNCHANGED <<current, opening, stage, sessionIds, remover, server, bounds>>

\* The operation and its broadcastSnapshot are over, or one of them failed.
OperateEnds(t) ==
  /\ task[t].at = "operation"
  /\ live' = [live EXCEPT ![task[t].gen] = EndOperation(@)]
  /\ task' = [task EXCEPT ![t] = Free]
  /\ UNCHANGED <<current, opening, stage, sessionIds, remover, server, bounds>>

\* Bug variant: detach forgets maybeDispose.
DetachKeepsSilent(t, c) ==
  /\ task[t].at = "free" /\ stage[c] = "ready" /\ c \in sessionIds
  /\ sessionIds' = sessionIds \ {c}
  /\ live' = [g \in Runtimes |->
                IF g = current THEN [live[g] EXCEPT !.connections = @ \ {c}]
                ELSE live[g]]
  /\ UNCHANGED <<current, opening, stage, task, remover, server, bounds>>

\* Connection c leaves the object g; the others, if any, get a snapshot first.
Detach(t, c) ==
  LET l == [live[current] EXCEPT !.connections = @ \ {c}]
      broadcasts == l.connections # {} /\ ~l.terminal /\ l.disposing = "no" IN
  /\ task[t].at = "free" /\ stage[c] = "ready" /\ c \in sessionIds
  /\ sessionIds' = sessionIds \ {c}
  /\ IF current = None THEN UNCHANGED <<live, task>>
     ELSE /\ live' = [live EXCEPT ![current] = IF broadcasts THEN l
                                               ELSE MaybeDispose(l)]
          /\ task' = IF broadcasts
                     THEN [task EXCEPT ![t] = [Free EXCEPT !.at = "detach",
                                                 !.conn = c, !.gen = current]]
                     ELSE task
  /\ UNCHANGED <<current, opening, stage, remover, server, bounds>>

\* The broadcast of a detach is over; when it failed, maybeDispose is skipped.
DetachEnds(t) ==
  /\ task[t].at = "detach"
  /\ \E failed \in BOOLEAN :
       live' = IF failed THEN live
               ELSE [live EXCEPT ![task[t].gen] = MaybeDispose(@)]
  /\ task' = [task EXCEPT ![t] = Free]
  /\ UNCHANGED <<current, opening, stage, sessionIds, remover, server, bounds>>

(***************************** connections **********************************)
\* failProtocol, or a transport that was closed: no more input is read.
FailProtocol(c) ==
  /\ stage[c] = "ready"
  /\ stage' = [stage EXCEPT ![c] = "closing"]
  /\ UNCHANGED <<live, current, opening, sessionIds, task, remover, server,
                 bounds>>

\* The objects after the connections of S left the listed session.
Without(S) == [g \in Runtimes |->
                 IF g = current /\ S \intersect sessionIds # {}
                 THEN MaybeDispose([live[g] EXCEPT
                        !.connections = @ \ (S \intersect sessionIds)])
                 ELSE live[g]]

Disconnect(c) ==
  /\ stage[c] # "closed"
  /\ stage' = [stage EXCEPT ![c] = "closed"]
  /\ sessionIds' = sessionIds \ {c}
  /\ live' = Without({c})
  /\ UNCHANGED <<current, opening, task, remover, server, bounds>>

(***************************** runtime events *******************************)
\* The runtime changes and tells its listener, which raises stateRevision.
RuntimeChanges(g) ==
  /\ live[g].ready /\ live[g].held /\ events < MaxEvents
  /\ events' = events + 1
  /\ \E idle \in BOOLEAN :
       LET l == [live[g] EXCEPT !.version = @ + 1, !.idle = idle] IN
       live' = [live EXCEPT ![g] =
                  IF l.subscribed
                  THEN MaybeDispose([l EXCEPT !.stateRevision = @ + 1]) ELSE l]
  /\ UNCHANGED <<current, opening, stage, sessionIds, task, remover, server,
                 opened, removes>>

\* The runtime reports a fatal error: terminate() closes the transports of the
\* connections attached now, and then waits.
RuntimeError(g) ==
  /\ live[g].subscribed /\ events < MaxEvents
  /\ events' = events + 1
  /\ live' = [live EXCEPT ![g].stateRevision = @ + 1, ![g].terminal = TRUE,
                          ![g].subscribed = FALSE,
                          ![g].terminating = "running",
                          ![g].targets = live[g].connections]
  /\ stage' = [c \in Conns |-> IF c \in live[g].connections /\ stage[c] = "ready"
                               THEN "closing" ELSE stage[c]]
  /\ UNCHANGED <<current, opening, sessionIds, task, remover, server, opened,
                 removes>>

TerminateEnds(g) ==
  /\ live[g].terminating = "running"
  /\ stage' = [c \in Conns |-> IF c \in live[g].targets THEN "closed"
                               ELSE stage[c]]
  /\ sessionIds' = sessionIds \ live[g].targets
  /\ live' = [Without(live[g].targets) EXCEPT
                ![g] = MaybeDispose([@ EXCEPT !.terminating = "done",
                                              !.targets = {}])]
  /\ UNCHANGED <<current, opening, task, remover, server, bounds>>

(***************************** remove ***************************************)
\* remove(): waits for an opening, and then looks the session up.
Remove ==
  /\ remover.at = "none" /\ removes < MaxRemoves
  /\ removes' = removes + 1
  /\ remover' = [remover EXCEPT
                   !.at = IF opening # NoOpening THEN "opening" ELSE "lookup"]
  /\ UNCHANGED <<live, current, opening, stage, sessionIds, task, server,
                 opened, events>>

RemoveLooksUp ==
  /\ remover.at = "lookup"
  /\ remover' =
       IF current = None THEN NotRemoving
       ELSE IF live[current].disposing = "running"
            THEN [at |-> "disposal", gen |-> current, targets |-> {}]
            ELSE [at |-> "sending", gen |-> current,
                  targets |-> live[current].connections]
  /\ UNCHANGED <<live, current, opening, stage, sessionIds, task, server, bounds>>

\* session_removed was sent to connection c.
RemoveSent(c) ==
  /\ remover.at = "sending" /\ c \in remover.targets
  /\ remover' = [remover EXCEPT !.targets = @ \ {c}]
  /\ sessionIds' = sessionIds \ {c}
  /\ live' = [live EXCEPT ![remover.gen].connections = @ \ {c}]
  /\ UNCHANGED <<current, opening, stage, task, server, bounds>>

RemoveUnsubscribes ==
  /\ remover.at = "sending" /\ remover.targets = {}
  /\ remover' = [remover EXCEPT !.at = "draining"]
  /\ live' = [live EXCEPT ![remover.gen].subscribed = FALSE]
  /\ UNCHANGED <<current, opening, stage, sessionIds, task, server, bounds>>

RemoveDisposes ==
  /\ remover.at = "draining" /\ live[remover.gen].operationCount = 0
  /\ remover' = [remover EXCEPT !.at = "disposing"]
  /\ live' = [live EXCEPT ![remover.gen] = CallDispose(@)]
  /\ UNCHANGED <<current, opening, stage, sessionIds, task, server, bounds>>

\* Bug variant: remove() unlists whatever is listed.
RemoveUnlistsAny ==
  /\ remover.at = "disposing"
  /\ live' = [live EXCEPT ![remover.gen].held = FALSE]
  /\ current' = None /\ remover' = NotRemoving
  /\ UNCHANGED <<opening, stage, sessionIds, task, server, bounds>>

RemoveEnds ==
  /\ remover.at = "disposing"
  /\ live' = [live EXCEPT ![remover.gen].held = FALSE]
  /\ current' = Unlisted(remover.gen) /\ remover' = NotRemoving
  /\ UNCHANGED <<opening, stage, sessionIds, task, server, bounds>>

(***************************** close ****************************************)
\* From here on isClosing() holds; the listeners are being closed.
Close ==
  /\ MayClose /\ server.at = "open"
  /\ server' = [server EXCEPT !.at = "listeners"]
  /\ UNCHANGED <<live, current, opening, stage, sessionIds, task, remover,
                 bounds>>

CloseConnections ==
  /\ server.at = "listeners"
  /\ server' = [server EXCEPT !.at = "connections"]
  /\ stage' = [c \in Conns |-> IF stage[c] = "ready" THEN "closing" ELSE stage[c]]
  /\ UNCHANGED <<live, current, opening, sessionIds, task, remover, bounds>>

\* Every connection is disconnected; the openings of this moment are awaited.
CloseSessions ==
  /\ server.at = "connections" /\ \A c \in Conns : stage[c] = "closed"
  /\ server' = [at |-> "openings", gen |-> opening.gen]
  /\ UNCHANGED <<live, current, opening, stage, sessionIds, task, remover,
                 bounds>>

\* Bug variant: close() does not wait for openings.
CloseDisposesAtOnce ==
  /\ server.at = "openings"
  /\ server' = [at |-> "sessions", gen |-> current]
  /\ current' = None
  /\ live' = [g \in Runtimes |->
                IF g = current /\ live[g].disposing = "no"
                THEN CallDispose(live[g]) ELSE live[g]]
  /\ UNCHANGED <<opening, stage, sessionIds, task, remover, bounds>>

\* The map is cleared and its sessions are disposed, or their disposal awaited.
CloseDisposes ==
  /\ server.at = "openings"
  /\ server.gen = None \/ opening.gen # server.gen
  /\ server' = [at |-> "sessions", gen |-> current]
  /\ current' = None
  /\ live' = [g \in Runtimes |->
                IF g = current /\ live[g].disposing = "no"
                THEN CallDispose(live[g]) ELSE live[g]]
  /\ UNCHANGED <<opening, stage, sessionIds, task, remover, bounds>>

CloseEnds ==
  LET g == server.gen IN
  /\ server.at = "sessions"
  /\ g # None => live[g].disposing # "running"
  /\ server' = [at |-> "closed", gen |-> None]
  /\ live' = IF g = None THEN live ELSE [live EXCEPT ![g].held = FALSE]
  /\ UNCHANGED <<current, opening, stage, sessionIds, task, remover, bounds>>

(***************************** specification ********************************)
Acquire(t, c) == \/ AcquireExisting(t, c) \/ AcquireRefused(t, c)
                 \/ AcquireAwaitsDisposal(t, c) \/ AcquireAwaitsOpening(t, c)
                 \/ AcquireOpens(t, c)

\* Steps the server, the service or the runtime takes by itself.
TaskStep(t) == \/ SnapshotReturns(t) \/ SnapshotFails(t) \/ Attach(t)
               \/ PrepareAgain(t) \/ OperateEnds(t) \/ DetachEnds(t)
               \/ \E c \in Conns : task[t].at = "retry" /\ Acquire(t, c)
OpeningStep == \/ RuntimeRefused \/ RuntimeAcquired \/ Open \/ OpenFails
               \/ OpeningDisposed
DisposalStep(g) == DisposeEnds(g) \/ TerminateEnds(g)
RemoveStep == \/ RemoveLooksUp \/ RemoveUnsubscribes \/ RemoveDisposes
              \/ RemoveEnds \/ \E c \in Conns : RemoveSent(c)
CloseStep == CloseConnections \/ CloseSessions \/ CloseDisposes \/ CloseEnds

\* Steps of the clients, the runtime's own life and the host.
Request(t, c) == task[t].at = "free" /\ Acquire(t, c)
Environment ==
  \/ \E t \in Tasks, c \in Conns : Request(t, c) \/ Operate(t, c) \/ Detach(t, c)
  \/ \E c \in Conns : FailProtocol(c)
  \/ \E g \in Runtimes : RuntimeChanges(g) \/ RuntimeError(g)
  \/ Remove \/ Close

Next == \/ Environment
        \/ \E t \in Tasks : TaskStep(t)
        \/ \E c \in Conns : Disconnect(c)
        \/ \E g \in Runtimes : DisposalStep(g)
        \/ OpeningStep \/ RemoveStep \/ CloseStep

\* Promises settle: what the service, the runtime and the transport were asked
\* for arrives.  A connection that is closing is disconnected.
Fairness == /\ \A t \in Tasks : WF_vars(TaskStep(t))
            /\ \A c \in Conns : WF_vars(stage[c] = "closing" /\ Disconnect(c))
            /\ \A g \in Runtimes : WF_vars(DisposalStep(g))
            /\ WF_vars(OpeningStep) /\ WF_vars(CloseStep)

Spec == Init /\ [][Next]_vars
FairSpec == Spec /\ Fairness

(***************************** properties ***********************************)
LiveSession ==
  [connections : SUBSET Conns, operationCount : 0..Cardinality(Tasks),
   stateRevision : 0..MaxEvents, version : 0..MaxEvents, idle : BOOLEAN,
   ready : BOOLEAN, terminal : BOOLEAN, terminating : {"no", "running", "done"},
   targets : SUBSET Conns, subscribed : BOOLEAN,
   disposing : {"no", "running", "done"}, held : BOOLEAN, disposals : 0..2]

\* Types.
TypeOK ==
  /\ live \in [Runtimes -> LiveSession]
  /\ current \in Runtimes \union {None}
  /\ opening \in [at : {"none", "runtime", "snapshot", "dispose"},
                  gen : Runtimes \union {None}]
  /\ stage \in [Conns -> {"ready", "closing", "closed"}]
  /\ sessionIds \subseteq Conns
  /\ \A t \in Tasks : task[t].at \in {"free", "opening", "disposal", "retry",
       "snapshot", "candidate", "operation", "detach"}

\* "exclusively acquired runtimes" (types.ts:61): until the server closes, the
\* service is never asked for a runtime of a session while an earlier runtime of
\* it is not yet disposed.
ExclusiveRuntime ==
  ~IsClosing =>
    \A g \in Runtimes : live[g].held \/ opening.gen = g =>
      \A h \in Runtimes \ {g} : ~live[h].held

\* Until removeSession is called (it disposes again what maybeDispose disposed
\* meanwhile), no runtime is disposed twice, whoever of the last detach, a
\* disconnect, the end of an operation, a fatal error, a failed opening or
\* close() comes first, nor, while the server is open, under an attached
\* connection or under a command that holds it (maybeDispose's guard).
DisposedOnceUnused ==
  removes = 0 =>
    \A g \in Runtimes :
      /\ live[g].disposals <= 1
      /\ ~IsClosing /\ (live[g].connections # {} \/ live[g].operationCount > 0)
           => live[g].disposals = 0

\* maybeDispose is called wherever its guard can become true: a listed session
\* that is idle, unused and unattached is always already being disposed.
NoIdleLeak ==
  current # None /\ remover = NotRemoving
    /\ live[current].terminating # "running"
  => ~Disposable(live[current])

\* An attach answers with the state the runtime has at the moment the
\* connection is registered for its events, so no change falls in between
\* (the two revision checks around prepareAttach). Until removeSession is
\* called: remove() drops the listener that moves the revision, while a snapshot
\* may be in flight.
AttachIsFresh ==
  [][removes = 0 =>
       \A t \in Tasks :
         LET k == task[t] IN
         k.at = "candidate" /\ task'[t] = Free /\ ~live[k.gen].terminal
           /\ k.conn \in live'[k.gen].connections
         => k.snap = live[k.gen].version]_vars

\* When close() returns, no runtime is left but one whose create() noticed the
\* closing server and disposes it.
ClosedHoldsNothing ==
  server.at = "closed" =>
    \A g \in Runtimes : live[g].held => opening = [at |-> "dispose", gen |-> g]

\* Every command comes to its end, also one that waits for an opening or a
\* disposal of others: acquire never waits for something nobody settles.  (A
\* command that would need more runtimes than the bound allows stays at retry.)
CommandsSettle ==
  \A t \in Tasks : task[t] # Free ~> \/ task[t] = Free
                                     \/ task[t].at = "retry" /\ opened = MaxRuntimes

\* close() returns, whatever opening, disposal or command it meets.
CloseSettles == server.at # "open" ~> server.at = "closed"
=============================================================================
