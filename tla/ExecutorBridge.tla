--------------------------- MODULE ExecutorBridge ---------------------------
(* createExecutorSessionBridge of packages/server/src/executor-runtime.ts:    *)
(* the server's end of the executor channel. It takes the transports the     *)
(* platform hands it, one replacing the other, performs the handshake, keeps *)
(* the last snapshot and forwards the commands of participants.              *)
(*                                                                          *)
(* The counter `generation` is compared with the value captured at attach,   *)
(* and changes whenever a transport is attached or given up: the comparison  *)
(* is "this transport is the current one", h.conn = g. A step is a callback  *)
(* with the promise reactions it causes. A frame counts 1 against the bounds *)
(* of the writer. Whether a snapshot exceeds the frame limit of participants *)
(* is a free choice.                                                         *)
EXTENDS ExecutorWire

CONSTANTS
  Acquirers,      \* calls of acquireRuntime
  HostCmds,       \* the commands participants issue
  MaxPending,     \* maxPendingCommands of the bridge
  HostLimit,      \* maxQueuedOutboundBytes, in frames
  HostReserve     \* maxAbortControlBytes, in frames

VARIABLES
  h,         \* the bridge: see HInit
  w,         \* w[g]: the BoundedWriter of transport g
  issuedTo   \* issuedTo[c]: the transport current when c was issued

hVars == <<h, w, issuedTo>>
\* EXECUTOR_PROTOCOL_VERSION of the server is 1.
ProtocolMatches == protocol = 1

Idle == [type |-> "idle"]
Frames == ToExecutor \cup {Idle}

HInit ==
  /\ h = [conn |-> 0, hello |-> FALSE, boot |-> FALSE, ready |-> FALSE,
          helloTimer |-> FALSE, bootTimer |-> FALSE, pending |-> {},
          ordinary |-> 0, abort |-> FALSE, seen |-> 0, attached |-> {},
          st |-> [c \in HostCmds |-> "new"],
          acq |-> [a \in Acquirers |-> "idle"], disposed |-> FALSE]
  /\ w = [g \in Gens |-> [q |-> <<>>, fly |-> Idle, closed |-> FALSE]]
  /\ issuedTo = [c \in HostCmds |-> 0]

HTypeOK ==
  /\ h \in [conn: 0..MaxGens, hello: BOOLEAN, boot: BOOLEAN, ready: BOOLEAN,
            helloTimer: BOOLEAN, bootTimer: BOOLEAN, pending: SUBSET HostCmds,
            ordinary: 0..MaxPending, abort: BOOLEAN, seen: 0..MaxVersions,
            attached: SUBSET Gens,
            st: [HostCmds -> {"new", "pending", "ok", "failed"}],
            acq: [Acquirers -> {"idle", "waiting", "ok", "failed"}],
            disposed: BOOLEAN]
  /\ w \in [Gens -> [q: Seq(ToExecutor), fly: Frames, closed: BOOLEAN]]

(***************************** generations **********************************)
\* Bug variant: commands in flight survive the loss of their executor.
FailedKeepingCommands(b) ==
  [b EXCEPT !.conn = 0, !.hello = FALSE, !.ready = FALSE,
            !.helloTimer = FALSE, !.bootTimer = FALSE]

\* Bug variant: bootstrapped is not reset.
FailedStayingReady(b) ==
  [b EXCEPT !.conn = 0, !.hello = FALSE, !.helloTimer = FALSE, !.bootTimer = FALSE,
            !.pending = {}, !.ordinary = 0, !.abort = FALSE,
            !.st = [c \in HostCmds |-> IF c \in b.pending THEN "failed" ELSE @[c]],
            !.acq = [a \in Acquirers |-> IF @[a] = "waiting" THEN "failed" ELSE @[a]]]

\* failGeneration: waiters and pending commands are rejected.
Failed(b) ==
  [b EXCEPT !.conn = 0, !.hello = FALSE, !.ready = FALSE,
            !.helloTimer = FALSE, !.bootTimer = FALSE,
            !.pending = {}, !.ordinary = 0, !.abort = FALSE,
            !.st = [c \in HostCmds |-> IF c \in b.pending THEN "failed" ELSE @[c]],
            !.acq = [a \in Acquirers |-> IF @[a] = "waiting" THEN "failed" ELSE @[a]]]

\* BoundedWriter.close: what is queued is dropped, what is written is not.
WriterClosed(g) == IF g = 0 THEN w ELSE [w EXCEPT ![g].q = <<>>, ![g].closed = TRUE]

\* The bridge goes on as b; a transport it gave up is closed.
Continues(b) ==
  /\ h' = b
  /\ tr' = IF h.conn # 0 /\ b.conn # h.conn THEN Dead(h.conn) ELSE tr

\* Give up the current transport, if there is one.
FailGeneration ==
  /\ Continues(Failed(h))
  /\ w' = WriterClosed(h.conn)

\* BoundedWriter.send to the current transport.
Send(m) ==
  LET g == h.conn
  IN IF w[g].fly = Idle
       THEN /\ w' = [w EXCEPT ![g].fly = m]
            /\ down' = IF tr[g] = "open" THEN [down EXCEPT ![g] = Append(@, m)] ELSE down
       ELSE /\ w' = [w EXCEPT ![g].q = Append(@, m)]
            /\ UNCHANGED down

Room(reserved) ==
  LET g == h.conn
  IN Len(w[g].q) + (IF w[g].fly = Idle THEN 0 ELSE 1)
       < HostLimit - (IF reserved THEN 0 ELSE HostReserve)

\* A control frame for which there is no room fails, and with it the generation.
SendControl(b, m) ==
  IF Room(FALSE) THEN Continues(b) /\ Send(m)
  ELSE Continues(Failed(b)) /\ w' = WriterClosed(h.conn) /\ UNCHANGED down

(***************************** transports ***********************************)
Control(m) == m.type \in {"ready", "ack", "reject"}

\* attachTransport: a transport already there is replaced. Its writer rejects
\* what it had queued, and the reaction of a control frame fails the
\* generation that is current by then.
Attach(g) ==
  /\ tr[g] # "none" /\ g \notin h.attached
  /\ LET old == h.conn
         backlash == old # 0 /\ \E i \in DOMAIN w[old].q : Control(w[old].q[i])
         b == [(IF old # 0 THEN Failed(h) ELSE h) EXCEPT
                 !.conn = g, !.boot = FALSE, !.helloTimer = TRUE, !.attached = @ \cup {g}]
     IN IF h.disposed
          THEN /\ h' = [h EXCEPT !.attached = @ \cup {g}]
               /\ tr' = Dead(g)
               /\ UNCHANGED w
          ELSE /\ h' = IF backlash THEN Failed(b) ELSE b
               /\ tr' = [t \in Gens |-> IF t = old \/ (t = g /\ backlash) THEN Dead(t)[t] ELSE tr[t]]
               /\ w' = [WriterClosed(old) EXCEPT ![g].closed = backlash]
  /\ UNCHANGED <<up, down, issuedTo>>

\* The write under way ends, well or (the transport being dead) not.
WriteEnds(g) ==
  /\ w[g].fly # Idle
  /\ UNCHANGED <<up, issuedTo>>
  /\ LET m == w[g].fly
         next == IF w[g].q = <<>> THEN Idle ELSE Head(w[g].q)
         bootstrapped == [h EXCEPT !.ready = TRUE,
                            !.acq = [a \in Acquirers |-> IF @[a] = "waiting" THEN "ok" ELSE @[a]]]
         written == [w EXCEPT ![g].fly = next,
                              ![g].q = IF @ = <<>> THEN @ ELSE Tail(@)]
     IN \/ /\ m.type # "reject"
           /\ w' = written
           /\ down' = IF next # Idle /\ tr[g] = "open"
                        THEN [down EXCEPT ![g] = Append(@, next)] ELSE down
           /\ h' = IF m.type = "ack" /\ h.conn = g THEN bootstrapped ELSE h
           /\ UNCHANGED tr
        \/ /\ m.type = "reject" \/ tr[g] = "dead"
           /\ IF Control(m) \/ h.conn = g
                THEN /\ Continues(Failed(h))
                     /\ w' = [WriterClosed(h.conn) EXCEPT ![g] = [q |-> <<>>, fly |-> Idle, closed |-> TRUE]]
                ELSE /\ w' = [w EXCEPT ![g] = [q |-> <<>>, fly |-> Idle, closed |-> TRUE]]
                     /\ UNCHANGED <<h, tr>>
           /\ UNCHANGED down

\* onClose and onError.
ConnectionCloses(g) ==
  /\ h.conn = g /\ tr[g] = "dead"
  /\ FailGeneration
  /\ UNCHANGED <<up, down, issuedTo>>

\* helloTimer and bootstrapTimer.
HandshakeTimeout ==
  /\ h.helloTimer \/ h.bootTimer
  /\ FailGeneration
  /\ UNCHANGED <<up, down, issuedTo>>

DisposeBridge ==
  /\ MayDispose /\ ~h.disposed
  /\ Continues([Failed(h) EXCEPT !.disposed = TRUE])
  /\ w' = WriterClosed(h.conn)
  /\ UNCHANGED <<up, down, issuedTo>>

(*********************** messages of the executor ***************************)
\* An answered command leaves the pending ones and their counts.
Unpended(c, outcome) ==
  [h EXCEPT !.pending = @ \ {c}, !.st[c] = outcome,
            !.abort = IF Abort(c) THEN FALSE ELSE @,
            !.ordinary = IF Abort(c) THEN @ ELSE @ - 1]

\* Bug variant: every snapshot is rejected as the bootstrap one.
RejectAsBootstrap == SendControl(h, [type |-> "reject", stage |-> "bootstrap"])

\* rejectSnapshot: the stage is told from whether a snapshot was accepted.
RejectSnapshot ==
  SendControl(h, [type |-> "reject", stage |-> IF h.boot THEN "snapshot" ELSE "bootstrap"])

\* Bug variant: no bootstrap timer is armed.
HelloWithoutTimer ==
  IF ProtocolMatches
    THEN SendControl([h EXCEPT !.hello = TRUE, !.helloTimer = FALSE], [type |-> "ready"])
    ELSE SendControl([h EXCEPT !.hello = TRUE], [type |-> "reject", stage |-> "hello"])

\* executor_hello: welcomed, or rejected for its protocol version.
Hello ==
  IF ProtocolMatches
    THEN SendControl([h EXCEPT !.hello = TRUE, !.helloTimer = FALSE, !.bootTimer = TRUE],
                     [type |-> "ready"])
    ELSE SendControl([h EXCEPT !.hello = TRUE], [type |-> "reject", stage |-> "hello"])

\* The first snapshot of a generation is acknowledged.
Snapshot(m) ==
  LET b == [h EXCEPT !.boot = TRUE, !.seen = m.v]
  IN \/ /\ ~h.boot
        /\ SendControl([b EXCEPT !.bootTimer = FALSE], [type |-> "ack"])
     \/ /\ h.boot
        /\ Continues(b) /\ UNCHANGED <<w, down>>
     \/ RejectSnapshot

\* Bug variant: a failed command counts as done.
CommandResultUnchecked(m) ==
  /\ UNCHANGED <<w, down>>
  /\ Continues(IF m.c \in h.pending THEN Unpended(m.c, "ok") ELSE h)

\* A result counts only for a pending command; its snapshot may be too large.
CommandResult(m) ==
  /\ UNCHANGED <<w, down>>
  /\ IF m.c \notin h.pending THEN Continues(h)
     ELSE IF ~m.ok THEN Continues(Unpended(m.c, "failed"))
     ELSE \/ Continues([Unpended(m.c, "ok") EXCEPT !.seen = m.v])
          \/ Continues(Unpended(m.c, "failed"))

SnapshotRejected(m) ==
  IF m.scope # "result" THEN RejectSnapshot
  ELSE /\ Continues(IF m.c \in h.pending THEN Unpended(m.c, "failed") ELSE h)
       /\ UNCHANGED <<w, down>>

\* Bug variant: a message is taken whatever transport it comes by.
Unfenced(g) == h.conn # 0

\* Messages of a transport that was replaced or given up are ignored.
Current(g) == h.conn = g

\* onData and receiveMessage.
ReceiveMessage(g) ==
  /\ g \in h.attached /\ up[g] # <<>>
  /\ up' = [up EXCEPT ![g] = Tail(@)]
  /\ UNCHANGED issuedTo
  /\ LET m == Head(up[g])
     IN \/ /\ ~Current(g) \/ (m.type # "hello" /\ ~h.hello) \/ (Current(g) /\ m.type = "error")
           /\ UNCHANGED <<tr, down, h, w>>
        \/ Current(g) /\ m.type = "hello" /\ Hello
        \/ Current(g) /\ h.hello /\ m.type = "snapshot" /\ Snapshot(m)
        \/ /\ Current(g) /\ h.hello /\ m.type = "progress"
           /\ Continues([h EXCEPT !.seen = m.v])
           /\ UNCHANGED <<w, down>>
        \/ Current(g) /\ h.hello /\ m.type = "result" /\ CommandResult(m)
        \/ Current(g) /\ h.hello /\ m.type = "rejected" /\ SnapshotRejected(m)
        \/ Current(g) /\ h.hello /\ m.type = "close" /\ FailGeneration /\ UNCHANGED down

(**************************** participants **********************************)
\* assertCurrent: what a runtime facade needs to be usable.
Usable == ~h.disposed /\ h.ready /\ h.conn # 0 /\ h.hello /\ h.boot

\* acquireRuntime answers at once, or waits for a bootstrap.
AcquireRuntime(a) ==
  /\ h.acq[a] = "idle"
  /\ h' = [h EXCEPT !.acq[a] = IF h.ready /\ h.boot /\ h.conn # 0 /\ h.hello
                                THEN "ok" ELSE "waiting"]
  /\ UNCHANGED <<wireVars, w, issuedTo>>

AcquireTimeout(a) ==
  /\ h.acq[a] = "waiting"
  /\ h' = [h EXCEPT !.acq[a] = "failed"]
  /\ UNCHANGED <<wireVars, w, issuedTo>>

\* The command of a facade: refused, or pending and sent. A facade, once
\* acquired, serves whatever generation is current.
Command(c) ==
  /\ h.st[c] = "new" /\ \E a \in Acquirers : h.acq[a] = "ok"
  /\ UNCHANGED <<tr, up>>
  /\ IF \/ ~Usable
        \/ Abort(c) /\ h.abort
        \/ ~Abort(c) /\ h.ordinary >= MaxPending
        \/ ~Room(Abort(c))
       THEN /\ h' = [h EXCEPT !.st[c] = "failed"]
            /\ UNCHANGED <<w, down, issuedTo>>
       ELSE /\ h' = [h EXCEPT !.st[c] = "pending", !.pending = @ \cup {c},
                              !.abort = @ \/ Abort(c),
                              !.ordinary = IF Abort(c) THEN @ ELSE @ + 1]
            /\ issuedTo' = [issuedTo EXCEPT ![c] = h.conn]
            /\ Send([type |-> "command", c |-> c])
=============================================================================
