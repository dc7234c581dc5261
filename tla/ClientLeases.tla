---------------------------- MODULE ClientLeases ----------------------------
(* PiClient of packages/client/src/client.ts with its ClientState (state.ts)  *)
(* and Connection (connection.ts): the leases of one session over a           *)
(* connection that is lost and made again.                                    *)
(*                                                                            *)
(* A slot is one acquireSession or createSession call and the lease it        *)
(* returns. The client is one record, and what the code does between two      *)
(* awaits is a function on it. A reply settles the request at once and        *)
(* leaves its outcome with the slots awaiting it (`got`); their               *)
(* continuations are steps of their own, because the frames of one chunk are  *)
(* handled before any continuation runs, and the listeners they call may use  *)
(* the client. A request is named by the slot that sent it.                   *)
EXTENDS Naturals, FiniteSets, Sequences

CONSTANTS
  Slots,           \* calls of acquireSession/createSession in progress or held
  MaxConnections   \* bound: calls of connect()

VARIABLES
  y,           \* the client: see ClientInit
  connections, \* calls of connect() so far
  overtaken    \* an invalidation found a call of the client half-way

clientVars == <<y, connections, overtaken>>

Nobody == "nobody"
ASSUME ClientAssumption ==
  IsFiniteSet(Slots) /\ Nobody \notin Slots /\ MaxConnections \in Nat

Modes == {"shared", "exclusive"}
Waiting == {"detachment", "reconciliation", "attachment", "creation"}
Free == [at |-> "free", mode |-> "shared", on |-> Nobody, got |-> "none",
         valid |-> TRUE, relinquish |-> FALSE]

ClientInit ==
  /\ y = [conn |-> "disconnected", disposed |-> FALSE, up |-> <<>>,
          attached |-> FALSE, snap |-> 0, previous |-> 0,
          count |-> 0, exclusive |-> Nobody,
          cleanup |-> FALSE, attachment |-> Nobody, detachment |-> Nobody,
          reconciliation |-> Nobody, slot |-> [s \in Slots |-> Free]]
  /\ connections = 0 /\ overtaken = FALSE

Connected == y.conn = "connected"
IsActive(s) == y.slot[s].at = "held" /\ y.attached

(******************************* leases *************************************)
\* Bug variant: a shared lease may join an exclusive one.
MayReserveShared(c, mode) == mode = "exclusive" => c.count = 0

MayReserve(c, mode) == IF mode = "exclusive" THEN c.count = 0
                                             ELSE c.exclusive = Nobody

Reserved(c, s, mode) ==
  [c EXCEPT !.count = @ + 1,
            !.exclusive = IF mode = "exclusive" THEN s ELSE @,
            !.slot[s].mode = mode]

ReleasedLease(c, s) ==
  [c EXCEPT !.count = IF @ <= 1 THEN 0 ELSE @ - 1,
            !.exclusive = IF @ = s THEN Nobody ELSE @]

\* The promise of the call rejects, or the lease is over.
Gone(c, s) == [c EXCEPT !.slot[s] = Free]
Abandoned(c, s) == Gone(ReleasedLease(c, s), s)

CreatedLease(c, s) ==
  [c EXCEPT !.slot[s].at = "held", !.slot[s].on = Nobody, !.slot[s].got = "none"]

\* A lease is of the current generation unless it was there at an invalidation.
\* From then on it refuses or ignores every call, so its slot is free; one that
\* is being released learns of it when its detach settles.
Invalidated(c) ==
  [c EXCEPT !.count = 0, !.exclusive = Nobody, !.cleanup = FALSE,
     !.slot = [s \in Slots |->
       CASE @[s].at = "held" -> Free
         [] @[s].at = "releasing" -> [@[s] EXCEPT !.valid = FALSE]
         [] OTHER -> @[s]]]

\* Only sessions with a counted lease get a new generation.
AllInvalidated(c) ==
  [(IF c.count > 0 THEN Invalidated(c) ELSE c) EXCEPT !.cleanup = FALSE]

(****************************** requests ************************************)
Awaits(c, s, what, owner) ==
  [c EXCEPT !.slot[s].at = what, !.slot[s].on = owner, !.slot[s].got = "none"]

\* #request: rejected at once without a connection.
Request(c, s, what, command) ==
  LET waiting == Awaits(c, s, what, s)
  IN IF c.conn = "connected"
       THEN [waiting EXCEPT !.up = Append(@, [command |-> command, from |-> s])]
       ELSE [waiting EXCEPT !.slot[s].got = "error"]

\* The request of o settles: everyone awaiting it has the outcome.
Settled(c, o, outcome) ==
  [c EXCEPT !.slot = [s \in Slots |->
     IF @[s].on = o /\ @[s].got = "none" THEN [@[s] EXCEPT !.got = outcome]
                                         ELSE @[s]]]

\* Bug variant: only the calls that sent a request learn of its loss.
RejectedOwn(c) ==
  [c EXCEPT !.up = <<>>, !.reconciliation = Nobody,
     !.slot = [s \in Slots |->
       IF @[s].on = s /\ @[s].got = "none" THEN [@[s] EXCEPT !.got = "error"]
                                           ELSE @[s]]]

RejectedPending(c) ==
  [c EXCEPT !.up = <<>>, !.reconciliation = Nobody,
     !.slot = [s \in Slots |->
       IF @[s].on # Nobody /\ @[s].got = "none" THEN [@[s] EXCEPT !.got = "error"]
                                                ELSE @[s]]]

(************************** acquireSession **********************************)
RequestAttach(c, s) ==
  [Request([c EXCEPT !.previous = c.snap, !.snap = 0], s, "attachment", "attach")
   EXCEPT !.attachment = s]

AttachOrCreate(c, s, reconciled) ==
  CASE ~reconciled /\ c.attached -> CreatedLease(c, s)
    [] (reconciled \/ ~c.attached) /\ c.attachment # Nobody ->
         [Awaits(c, s, "attachment", c.attachment) EXCEPT
            !.slot[s].got = c.slot[c.attachment].got]
    [] OTHER -> RequestAttach(c, s)

ReconcileFirst(c, s) ==
  CASE ~c.cleanup -> AttachOrCreate(c, s, FALSE)
    [] c.cleanup /\ c.reconciliation # Nobody ->
         Awaits(c, s, "reconciliation", c.reconciliation)
    [] OTHER -> LET asked == Request(c, s, "reconciliation", "detach")
                IN [asked EXCEPT !.reconciliation =
                      IF asked.slot[s].got = "none" THEN s ELSE Nobody]

Acquired(c, s) ==
  IF c.detachment # Nobody
    THEN [Awaits(c, s, "detachment", c.detachment) EXCEPT
            !.slot[s].got = c.slot[c.detachment].got]
    ELSE ReconcileFirst(c, s)

\* A slot is used again once nobody awaits its last request.
Unused(s) == y.slot[s].at = "free" /\ \A t \in Slots: y.slot[t].on # s

AcquireSession(s, mode) ==
  /\ ~y.disposed /\ Unused(s) /\ MayReserve(y, mode)
  /\ y' = Acquired(Reserved(y, s, mode), s)
  /\ UNCHANGED <<connections, overtaken>>

CreateSession(s) ==
  /\ ~y.disposed /\ Unused(s)
  /\ y' = Request(y, s, "creation", "create")
  /\ UNCHANGED <<connections, overtaken>>

(******************************* release ************************************)
\* Bug variant: the last lease is dropped without a detach.
StartedReleaseSilently(c, s, relinquish) ==
  IF c.count <= 0
    THEN [Request(c, s, "releasing", "detach") EXCEPT
            !.detachment = s, !.slot[s].relinquish = relinquish]
    ELSE Abandoned(c, s)

StartedRelease(c, s, relinquish) ==
  IF c.count <= 1
    THEN [Request(c, s, "releasing", "detach") EXCEPT
            !.detachment = s, !.slot[s].relinquish = relinquish]
    ELSE Abandoned(c, s)

\* detach() and dispose() of a lease; assertActive lets neither start otherwise.
Release(s, relinquish) ==
  /\ ~y.disposed /\ Connected /\ IsActive(s)
  /\ y' = StartedRelease(y, s, relinquish)
  /\ UNCHANGED <<connections, overtaken>>

(**************************** continuations *********************************)
NoDetachmentOf(c, s) == [c EXCEPT !.detachment = IF @ = s THEN Nobody ELSE @]

ReleaseFailed(c, s) ==
  IF ~c.slot[s].valid THEN Gone(c, s)
  ELSE IF c.slot[s].relinquish
         THEN [Abandoned(c, s) EXCEPT !.cleanup = TRUE]
         ELSE [c EXCEPT !.slot[s].at = "held", !.slot[s].on = Nobody,
                        !.slot[s].got = "none"]

\* The attachment map is cleared, and a failed attach puts the snapshot back.
AttachmentOver(c, s) ==
  LET slot == c.slot[s]
      lost == slot.on = s /\ slot.got = "error" /\ c.snap = 0
  IN [c EXCEPT !.attachment = IF @ = slot.on THEN Nobody ELSE @,
               !.snap = IF lost THEN c.previous ELSE @, 
               !.previous = IF slot.on = s THEN 0 ELSE @]

Continued(c, s) ==
  LET slot == c.slot[s]
      ok == slot.got = "ok"
  IN CASE slot.at = "detachment" -> ReconcileFirst(c, s)
       [] slot.at = "reconciliation" /\ ok -> AttachOrCreate(c, s, TRUE)
       [] slot.at = "attachment" /\ ok -> CreatedLease(AttachmentOver(c, s), s)
       [] slot.at = "attachment" /\ ~ok -> Abandoned(AttachmentOver(c, s), s)
       [] slot.at = "reconciliation" /\ ~ok -> Abandoned(c, s)
       [] slot.at = "creation" /\ ok ->
            IF MayReserve(c, "exclusive")
              THEN CreatedLease(Reserved(c, s, "exclusive"), s) ELSE Gone(c, s)
       [] slot.at = "creation" /\ ~ok -> Gone(c, s)
       [] slot.at = "releasing" /\ ok -> NoDetachmentOf(Abandoned(c, s), s)
       [] slot.at = "releasing" /\ ~ok -> NoDetachmentOf(ReleaseFailed(c, s), s)

\* The lease being released goes on before those that wait for its detach.
Continue(s) ==
  /\ y.slot[s].got # "none"
  /\ y.slot[s].at = "detachment" =>
       LET owner == y.slot[y.slot[s].on]
       IN owner.at = "releasing" => owner.got = "none"
  /\ y' = Continued(y, s)
  /\ UNCHANGED <<connections, overtaken>>

(***************************** connection ***********************************)
Connect ==
  /\ ~y.disposed /\ y.conn = "disconnected" /\ connections < MaxConnections
  /\ y' = [y EXCEPT !.conn = "connecting", !.snap = 0, !.attached = FALSE]
  /\ connections' = connections + 1
  /\ UNCHANGED overtaken

\* The transport of the factory arrives and takes the client's hello.
OpenTransport ==
  /\ y.conn = "connecting"
  /\ y' = [y EXCEPT !.conn = "greeting"]
  /\ UNCHANGED <<connections, overtaken>>

\* No continuation is left: a frame that answers this turn comes after it.
Drained == \A s \in Slots: y.slot[s].got = "none"

Hello ==
  /\ y.conn = "greeting" /\ Drained
  /\ y' = [y EXCEPT !.conn = "connected"]
  /\ UNCHANGED <<connections, overtaken>>

\* #fail, with the handler of the state change.
Lost(c) ==
  RejectedPending(AllInvalidated([c EXCEPT !.conn = "disconnected", !.attached = FALSE]))

Disconnect ==
  /\ y.conn # "disconnected"
  /\ y' = Lost(y)
  /\ overtaken' = (overtaken \/ \E s \in Slots: y.slot[s].got = "ok")
  /\ UNCHANGED connections

Dispose ==
  /\ ~y.disposed
  /\ y' = [AllInvalidated(Lost(y)) EXCEPT !.disposed = TRUE, !.snap = 0]
  /\ overtaken' = (overtaken \/ \E s \in Slots: y.slot[s].got = "ok")
  /\ UNCHANGED connections


\* #applySessionSnapshot; the snapshots sent to this client say "attached".
Applied(c, rev) ==
  IF rev < c.snap THEN c ELSE [c EXCEPT !.snap = rev, !.attached = TRUE]

\* A reply: the state, then the promises. A reconciliation is over with it.
Replied(c, m) ==
  LET applied == CASE m.ok /\ m.command = "detach" -> [c EXCEPT !.attached = FALSE]
                   [] m.ok /\ m.command # "detach" -> Applied(c, m.rev)
                   [] OTHER -> c
      mine == c.reconciliation = m.from
  IN Settled([applied EXCEPT
                !.reconciliation = IF mine THEN Nobody ELSE @,
                !.cleanup = @ /\ ~(mine /\ m.ok)],
             m.from, IF m.ok THEN "ok" ELSE "error")

HandleMessage(m) ==
  /\ y' = CASE m.type = "response" -> Replied(y, m)
            [] m.type = "session_snapshot" -> Applied(y, m.rev)
            [] m.type = "session_removed" ->
                 [Invalidated(y) EXCEPT !.snap = 0, !.attached = FALSE]
  /\ overtaken' = (overtaken \/ (/\ m.type = "session_removed"
                                 /\ \E s \in Slots: y.slot[s].at \notin {"free", "held"}))
  /\ UNCHANGED connections
=============================================================================
