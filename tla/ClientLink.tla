----------------------------- MODULE ClientLink -----------------------------
(* A PiClient (ClientLeases) and the server's end of its connection: the      *)
(* requests handleRequest of packages/server/src/server.ts takes, and what    *)
(* sessions.ts makes of them for one session and sends back. How the session  *)
(* is opened, shared and disposed is LiveSessions; here an attach may fail,   *)
(* and may find the session running or open it anew.                          *)
EXTENDS ClientLeases, Functions

CONSTANTS
  MaxChanges,   \* bound: changes of the session
  MaxRemovals,  \* bound: calls of removeSession
  MaxErrors     \* bound: requests the server answers with an error

VARIABLES
  srv,     \* the server's side of the connection: see LinkInit
  down,    \* frames on their way to the client
  budget   \* what the bounds leave

linkVars == <<clientVars, srv, down, budget>>

LinkInit ==
  /\ ClientInit
  /\ \E there \in BOOLEAN:
       srv = [exists |-> there, attached |-> FALSE, rev |-> 1, publishing |-> {},
              attaching |-> {}, answering |-> {}, failed |-> FALSE]
  /\ down = <<>>
  /\ budget = [changes |-> MaxChanges, removals |-> MaxRemovals, errors |-> MaxErrors]

Spend(what) == budget[what] > 0 /\ budget' = [budget EXCEPT ![what] = @ - 1]
Response(from, command, ok) ==
  [type |-> "response", from |-> from, command |-> command, ok |-> ok, rev |-> srv.rev]
Send(ms) == down' = down \o ms

\* A connection that is gone takes its requests, frames and attachment along.
ServerForgets ==
  /\ srv' = [srv EXCEPT !.attached = FALSE, !.attaching = {}, !.answering = {},
                        !.failed = FALSE]
  /\ down' = <<>>
  /\ UNCHANGED budget

(******************************* requests ***********************************)
\* A request leaves the client when the turn that made it is over.
Received == /\ y.up # <<>> /\ Drained
            /\ y' = [y EXCEPT !.up = Tail(@)]
            /\ UNCHANGED <<connections, overtaken>>
Next1 == Head(y.up)

\* attach and create acquire a runtime and prepare its snapshot first.
ReceiveAttach ==
  /\ Received /\ Next1.command # "detach"
  /\ srv' = [srv EXCEPT !.attaching = @ \cup {Next1}]
  /\ UNCHANGED <<down, budget>>

\* A detach takes effect before its first await.
ReceiveDetach ==
  /\ Received /\ Next1.command = "detach"
  /\ srv' = [srv EXCEPT !.attached = FALSE,
               !.answering = @ \cup {[from |-> Next1.from, was |-> srv.attached]}]
  /\ UNCHANGED <<down, budget>>

\* The snapshot goes to everyone attached, this client included, then the reply.
CommitAttach(r, anew) ==
  LET rev == IF anew THEN 1 ELSE srv.rev
  IN /\ r \in srv.attaching /\ (r.command = "create" \/ srv.exists)
     /\ anew => ~srv.attached
     /\ srv' = [srv EXCEPT !.exists = TRUE, !.attached = TRUE, !.rev = rev,
                  !.publishing = IF anew THEN {} ELSE @,
                  !.attaching = @ \ {r}, !.failed = FALSE]
     /\ Send(<<[type |-> "session_snapshot", rev |-> rev],
               [type |-> "response", from |-> r.from, command |-> r.command,
                ok |-> TRUE, rev |-> rev]>>)
     /\ UNCHANGED <<clientVars, budget>>

RefuseAttach(r) ==
  /\ r \in srv.attaching /\ Spend("errors")
  /\ srv' = [srv EXCEPT !.attaching = @ \ {r}]
  /\ Send(<<Response(r.from, r.command, FALSE)>>)
  /\ UNCHANGED clientVars

AnswerDetach(r) ==
  /\ r \in srv.answering
  /\ srv' = [srv EXCEPT !.answering = @ \ {r}, !.failed = FALSE]
  /\ Send(<<Response(r.from, "detach", TRUE)>>)
  /\ UNCHANGED <<clientVars, budget>>

\* The runtime's snapshot or disposal fails: the client is detached all the same.
FailDetach(r) ==
  /\ r \in srv.answering /\ r.was /\ Spend("errors")
  /\ srv' = [srv EXCEPT !.answering = @ \ {r}, !.failed = TRUE]
  /\ Send(<<Response(r.from, "detach", FALSE)>>)
  /\ UNCHANGED clientVars

(******************************** events ************************************)
\* A change of the runtime starts a broadcast of its snapshot; broadcasts
\* await the snapshot one beside the other and finish in any order. Changes
\* while the client is away show in the revision it finds when it attaches.
SessionChanges ==
  /\ srv.attached /\ Spend("changes")
  /\ srv' = [srv EXCEPT !.rev = @ + 1, !.publishing = @ \cup {srv.rev + 1}]
  /\ UNCHANGED <<clientVars, down>>

PublishSnapshot(rev) ==
  /\ rev \in srv.publishing
  /\ srv' = [srv EXCEPT !.publishing = @ \ {rev}]
  /\ IF srv.attached THEN Send(<<[type |-> "session_snapshot", rev |-> rev]>>)
                     ELSE UNCHANGED down
  /\ UNCHANGED <<clientVars, budget>>

RemoveSession ==
  /\ srv.attached /\ Spend("removals")
  /\ srv' = [srv EXCEPT !.attached = FALSE]
  /\ Send(<<[type |-> "session_removed"]>>)
  /\ UNCHANGED clientVars

(***************************** composition **********************************)
Server == UNCHANGED <<srv, down, budget>>
Deliver == /\ Connected /\ down # <<>>
           /\ HandleMessage(Head(down))
           /\ down' = Tail(down) /\ UNCHANGED <<srv, budget>>
LoseConnection == Disconnect /\ ServerForgets
Finish == Dispose /\ ServerForgets
\* The id of a new session is known from the reply to its create.
Creating == \E s \in Slots: y.slot[s].at = "creation"
Known == srv.exists /\ ~Creating

LinkNext ==
  \/ \E s \in Slots, mode \in Modes: AcquireSession(s, mode) /\ Known /\ Server
  \/ \E s \in Slots: CreateSession(s) /\ ~srv.exists /\ ~Creating /\ Server
  \/ \E s \in Slots, r \in BOOLEAN: Release(s, r) /\ Server
  \/ \E s \in Slots: Continue(s) /\ Server
  \/ Connect /\ Server
  \/ OpenTransport /\ Server
  \/ Hello /\ Server
  \/ LoseConnection
  \/ Finish
  \/ Deliver
  \/ ReceiveAttach
  \/ ReceiveDetach
  \/ \E r \in srv.attaching, anew \in BOOLEAN: CommitAttach(r, anew)
  \/ \E r \in srv.attaching: RefuseAttach(r)
  \/ \E r \in srv.answering: AnswerDetach(r)
  \/ \E r \in srv.answering: FailDetach(r)
  \/ SessionChanges
  \/ \E rev \in srv.publishing: PublishSnapshot(rev)
  \/ RemoveSession

LinkSpec == LinkInit /\ [][LinkNext]_linkVars

(***************************** properties ***********************************)
LinkTypeOK ==
  /\ y.conn \in {"disconnected", "connecting", "greeting", "connected"}
  /\ y.count \in 0..Cardinality(Slots)
  /\ {y.exclusive, y.attachment, y.detachment, y.reconciliation}
       \subseteq Slots \cup {Nobody}
  /\ \A s \in Slots:
       /\ y.slot[s].at \in {"free", "held", "releasing"} \cup Waiting
       /\ y.slot[s].on \in Slots \cup {Nobody}
       /\ y.slot[s].got \in {"none", "ok", "error"}

Quiet == /\ y.up = <<>> /\ down = <<>>
         /\ srv.attaching = {} /\ srv.answering = {} /\ srv.publishing = {}

\* Two leases usable at the same time are both shared (#reserveSessionLease),
\* however acquisitions, releases, failures and reconnections interleave, as
\* long as no invalidation of the leases met an acquisition or release half-way.
ExclusiveIsAlone ==
  ~overtaken => \A s, t \in Slots:
    s # t /\ IsActive(s) /\ IsActive(t)
      => y.slot[s].mode = "shared" /\ y.slot[t].mode = "shared"

\* When nothing is in flight, no lease is left and no failed cleanup is
\* remembered, the server does not hold the client as a participant: the last
\* release has detached it (release in #createSessionLease).
LastReleaseDetaches ==
  Connected /\ Quiet /\ ~y.cleanup
  /\ (\A s \in Slots: y.slot[s].at = "free") => ~srv.attached


\* Whoever waits for a request, one of its own or one it shares, waits for a
\* reply that is still to come: no failure, loss of the connection or removal
\* leaves a call hanging (#rejectPendingRequests; the promises that
\* acquireSession keeps per session).
NobodyWaitsInVain ==
  \A s \in Slots:
    y.slot[s].at \in Waiting \cup {"releasing"} /\ y.slot[s].got = "none" =>
      LET o == y.slot[s].on
      IN /\ Connected
         /\ \/ \E r \in Range(y.up) \cup srv.attaching \cup srv.answering: r.from = o
            \/ \E m \in Range(down): m.type = "response" /\ m.from = o
=============================================================================
