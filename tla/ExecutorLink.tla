---------------------------- MODULE ExecutorLink ----------------------------
(* The browser executor and the bridge of the server, joined by the channel.  *)
EXTENDS BrowserExecutor, ExecutorBridge

\* A command is a participant's or the page's own: their ids are drawn apart.
ASSUME LinkAssumption == /\ HostCmds \subseteq Cmds /\ LocalCmds \subseteq Cmds
                         /\ HostCmds \intersect LocalCmds = {}

linkVars == <<wireVars, protocol, xVars, hVars>>

LinkInit == WireInit /\ XInit /\ HInit

\* A step of one end leaves the other as it is.
Executor == UNCHANGED <<hVars, protocol>>
Bridge == UNCHANGED <<xVars, protocol>>

LinkNext ==
  \/ Connect /\ Executor
  \/ OpenTransport /\ Executor
  \/ \E g \in Gens : LateTransport(g) /\ Executor
  \/ HandshakeFails /\ Executor
  \/ DrainWrites /\ Executor
  \/ TransportCloses /\ Executor
  \/ DisposeExecutor /\ Executor
  \/ \E c \in LocalCmds : LocalCommand(c) /\ Executor
  \/ \E c \in Cmds : PreflightAccepts(c) /\ Executor
  \/ \E c \in Cmds : CommandSucceeds(c) /\ Executor
  \/ \E c \in Cmds : CommandFails(c) /\ Executor
  \/ SessionChanges /\ Executor
  \/ HandleMessage /\ Executor
  \/ \E g \in Gens : Attach(g) /\ Bridge
  \/ \E g \in Gens : WriteEnds(g) /\ Bridge
  \/ \E g \in Gens : ConnectionCloses(g) /\ Bridge
  \/ HandshakeTimeout /\ Bridge
  \/ DisposeBridge /\ Bridge
  \/ \E g \in Gens : ReceiveMessage(g) /\ Bridge
  \/ \E c \in Acquirers : AcquireRuntime(c) /\ Bridge
  \/ \E c \in Acquirers : AcquireTimeout(c) /\ Bridge
  \/ \E c \in HostCmds : Command(c) /\ Bridge
  \/ \E g \in Gens : Sever(g) /\ UNCHANGED <<xVars, hVars, protocol>>

LinkSpec == LinkInit /\ [][LinkNext]_linkVars

\* The timers of the bridge fire, its writes end and it learns of a dead
\* transport. Nothing is assumed of the executor or of messages arriving.
BridgeFairness ==
  /\ WF_linkVars(HandshakeTimeout /\ Bridge)
  /\ \A g \in Gens : /\ WF_linkVars(WriteEnds(g) /\ Bridge)
                      /\ WF_linkVars(ConnectionCloses(g) /\ Bridge)

FairLinkSpec == LinkSpec /\ BridgeFairness

(*************************** properties *************************************)
LinkTypeOK == WireTypeOK /\ XTypeOK /\ HTypeOK

\* Two correct peers of one protocol version never accuse each other of a
\* protocol error, whatever is lost, replaced or timed out: the executor only
\* becomes terminal by its own dispose().
PeersNeverAccuse == x.terminal => x.disposed \/ protocol # 1

\* What the bridge counts is what is pending, and what is pending waits for
\* the generation it was sent to: no command crosses generations.
PendingIsCurrent ==
  /\ h.ordinary = Cardinality({c \in h.pending : ~Abort(c)})
  /\ h.abort = (\E c \in h.pending : Abort(c))
  /\ \A c \in HostCmds : h.st[c] = "pending" <=> c \in h.pending
  /\ \A c \in h.pending : issuedTo[c] = h.conn /\ h.conn # 0

\* A command runs at most once, and is reported done only if the executor
\* generation it was issued to ran it to its end.
DoneMeansRunOnce ==
  \A c \in HostCmds :
    /\ runs[c] <= 1
    /\ h.st[c] = "ok" => run[c] = "done" /\ by[c] = issuedTo[c]

\* Participants are served only by a generation whose executor has been, or is
\* being, told that its bootstrap was accepted.
ServedAfterBootstrap ==
  Usable =>
    \/ x.cur # h.conn \/ tr[h.conn] = "dead"
    \/ x.st = "active"
    \/ x.st = "bootstrap" /\ x.sent /\ \E i \in DOMAIN down[h.conn] : down[h.conn][i].type = "ack"

\* What participants are shown never goes back to an older state of the
\* session, across reconnections included.
NeverBackwards == [][h'.seen >= h.seen]_linkVars

\* A transport taken up is bootstrapped or given up, though the executor may
\* hang at any point of the handshake.
HandshakeSettles == (h.conn # 0 /\ ~h.ready) ~> (h.conn = 0 \/ h.ready)

\* The commands sent to a transport that died are settled.
LostCommandsSettle ==
  \A c \in HostCmds :
    (h.st[c] = "pending" /\ tr[issuedTo[c]] = "dead") ~> (h.st[c] # "pending")
=============================================================================
