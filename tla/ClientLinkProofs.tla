-------------------------- MODULE ClientLinkProofs --------------------------
(***************************************************************************)
(* Theorems about ClientLink, for any number of calls and leases, of       *)
(* connections, changes, removals and errors: nobody waits in vain.        *)
(*                                                                         *)
(* Inv says that a call awaits a request exactly while it is half-way,     *)
(* that the promises the client shares are those of calls which have not   *)
(* gone on yet, and that a request without an outcome is still with the    *)
(* client, with the server or answered by a frame on its way (Owed).  The  *)
(* steps of the client are functions on its record; each has a lemma on    *)
(* the fields it changes, one on Answerable and, when a lease goes on with *)
(* it, one on that lease (Goes).                                           *)
(***************************************************************************)
EXTENDS ClientLink, Integers, TLAPS

-----------------------------------------------------------------------------
(* Types.                                                                  *)

Owner == Slots \cup {Nobody}
Asking == Waiting \cup {"releasing"}
Calls == [at : {"free", "held"} \cup Asking, mode : Modes, on : Owner,
          got : {"none", "ok", "error"}, valid : BOOLEAN, relinquish : BOOLEAN]
Commands == {"attach", "create", "detach"}
Requests == [command : Commands, from : Slots]
Clients ==
  [conn : {"disconnected", "connecting", "greeting", "connected"}, disposed : BOOLEAN,
   up : Seq(Requests), attached : BOOLEAN, snap : Nat, previous : Nat, count : Nat,
   exclusive : Owner, cleanup : BOOLEAN, attachment : Owner, detachment : Owner,
   reconciliation : Owner, slot : [Slots -> Calls]]
Frames ==
  [type : {"response"}, from : Slots, command : Commands, ok : BOOLEAN, rev : Nat]
  \cup [type : {"session_snapshot"}, rev : Nat] \cup [type : {"session_removed"}]
Servers ==
  [exists : BOOLEAN, attached : BOOLEAN, rev : Nat, publishing : SUBSET Nat,
   attaching : SUBSET Requests, answering : SUBSET [from : Slots, was : BOOLEAN], failed : BOOLEAN]

TypeInv == y \in Clients /\ srv \in Servers /\ down \in Seq(Frames)

-----------------------------------------------------------------------------
(* Who waits for what.                                                     *)

\* The requests the server or the network still has an answer for.
Owed == {r.from : r \in srv.attaching \cup srv.answering}
        \cup {m.from : m \in {f \in Range(down) : f.type = "response"}}
Sent(c) == {r.from : r \in Range(c.up)}

\* The reply to the request of o is still to come.
Coming(c, W, o) == c.conn = "connected" /\ o \in W \cup Sent(c)

\* A call awaits a request exactly while it is half-way, and has its outcome or
\* will have it.
CallOK(c, W, s) ==
  LET call == c.slot[s] IN
  /\ call.on # Nobody <=> call.at \in Asking
  /\ call.got # "none" => call.on # Nobody
  /\ call.on # Nobody /\ call.got = "none" => Coming(c, W, call.on)

\* The promises the client keeps are those of calls that have not gone on yet.
HubOK(c, W) ==
  /\ c.attachment # Nobody => LET call == c.slot[c.attachment] IN
                              call.at = "attachment" /\ call.on = c.attachment
  /\ c.detachment # Nobody => LET call == c.slot[c.detachment] IN
                              call.at = "releasing" /\ call.on = c.detachment
  /\ c.reconciliation # Nobody => Coming(c, W, c.reconciliation)

Answerable(c, W) == c \in Clients /\ (\A s \in Slots : CallOK(c, W, s)) /\ HubOK(c, W)
Inv == TypeInv /\ Answerable(y, Owed)

-----------------------------------------------------------------------------
(* The parts of a client, and what each function on it changes.            *)

LEMMA ClientTypes ==
  ASSUME NEW c \in Clients
  PROVE  /\ c.conn \in {"disconnected", "connecting", "greeting", "connected"} /\ c.disposed \in BOOLEAN
         /\ c.up \in Seq(Requests) /\ c.attached \in BOOLEAN /\ c.snap \in Nat /\ c.previous \in Nat
         /\ c.count \in Nat /\ c.exclusive \in Owner /\ c.cleanup \in BOOLEAN /\ c.attachment \in Owner
         /\ c.detachment \in Owner /\ c.reconciliation \in Owner /\ c.slot \in [Slots -> Calls]
         /\ \A s \in Slots : c.slot[s] \in Calls
  BY DEF Clients

LEMMA CallTypes ==
  ASSUME NEW call \in Calls
  PROVE  /\ call.at \in {"free", "held"} \cup Asking /\ call.mode \in Modes /\ call.on \in Owner
         /\ call.got \in {"none", "ok", "error"} /\ call.valid \in BOOLEAN /\ call.relinquish \in BOOLEAN
  BY DEF Calls

LEMMA FreeFacts ==
  /\ Free \in Calls /\ Free.at = "free" /\ Free.on = Nobody /\ Free.got = "none" /\ Free.mode = "shared"
  /\ Free.valid = TRUE
  BY DEF Free, Calls, Owner, Modes

\* What the calls of a client await is all that Answerable looks at.
SameHubs(c, d) == /\ d.conn = c.conn /\ d.up = c.up /\ d.attachment = c.attachment
                  /\ d.detachment = c.detachment /\ d.reconciliation = c.reconciliation
SameCall(a, b) == b.at = a.at /\ b.on = a.on /\ b.got = a.got

LEMMA Indifferent ==
  ASSUME NEW c, NEW d \in Clients, NEW W, Answerable(c, W), SameHubs(c, d),
         \A t \in Slots : SameCall(c.slot[t], d.slot[t])
  PROVE  Answerable(d, W)
<1>1. ASSUME NEW t \in Slots PROVE CallOK(d, W, t)
  BY Zenon DEF Answerable, CallOK, Coming, Sent, SameHubs, SameCall
<1>2. HubOK(d, W)
  <2>1. c \in Clients /\ HubOK(c, W)
    BY Zenon DEF Answerable
  <2>2. c.attachment \in Slots \cup {Nobody} /\ c.detachment \in Slots \cup {Nobody}
    BY <2>1, ClientTypes DEF Owner
  <2>. QED
    BY <2>1, <2>2, Zenon DEF HubOK, Coming, Sent, SameHubs, SameCall
<1>. QED
  BY <1>1, <1>2, Zenon DEF Answerable

\* The call of s is replaced by another; no promise the client keeps is its.
LEMMA CallReplaced ==
  ASSUME NEW c, NEW d \in Clients, NEW W, NEW s \in Slots, Answerable(c, W),
         d.conn = c.conn, Sent(c) \subseteq Sent(d), d.reconciliation = c.reconciliation,
         d.attachment \in {c.attachment, Nobody} \ {s}, d.detachment \in {c.detachment, Nobody} \ {s},
         \A t \in Slots \ {s} : SameCall(c.slot[t], d.slot[t]), CallOK(d, W, s)
  PROVE  Answerable(d, W)
<1>1. ASSUME NEW t \in Slots PROVE CallOK(d, W, t)
  <2>1. CASE t = s
    BY <2>1
  <2>2. CASE t # s
    BY <2>2, Zenon DEF Answerable, CallOK, Coming, SameCall
  <2>. QED
    BY <2>1, <2>2
<1>2. HubOK(d, W)
  <2>1. c \in Clients /\ HubOK(c, W)
    BY Zenon DEF Answerable
  <2>2. d.attachment \in Slots \cup {Nobody} /\ d.detachment \in Slots \cup {Nobody}
    BY ClientTypes DEF Owner
  <2>3. ASSUME d.attachment # Nobody
        PROVE  d.slot[d.attachment].at = "attachment" /\ d.slot[d.attachment].on = d.attachment
    <3>1. d.attachment = c.attachment /\ d.attachment \in Slots \ {s}
      BY <2>2, <2>3
    <3>. QED
      BY <2>1, <2>3, <3>1, Zenon DEF HubOK, SameCall
  <2>4. ASSUME d.detachment # Nobody
        PROVE  d.slot[d.detachment].at = "releasing" /\ d.slot[d.detachment].on = d.detachment
    <3>1. d.detachment = c.detachment /\ d.detachment \in Slots \ {s}
      BY <2>2, <2>4
    <3>. QED
      BY <2>1, <2>4, <3>1, Zenon DEF HubOK, SameCall
  <2>5. d.reconciliation # Nobody => Coming(d, W, d.reconciliation)
    BY <2>1, Zenon DEF HubOK, Coming
  <2>. QED
    BY <2>3, <2>4, <2>5, Zenon DEF HubOK
<1>. QED
  BY <1>1, <1>2, Zenon DEF Answerable

\* A request is written: what was coming still is, and so is the reply to it.
LEMMA SentGrows ==
  ASSUME NEW c \in Clients, NEW r \in Requests, NEW d, d.up = Append(c.up, r)
  PROVE  Sent(d) = Sent(c) \cup {r.from}
<1>. DEFINE u == c.up
            n == Len(u)
<1>1. u \in Seq(Requests) /\ n \in Nat
  BY ClientTypes
<1>2. DOMAIN u = 1 .. n /\ DOMAIN Append(u, r) = 1 .. (n + 1) /\ Append(u, r)[n + 1] = r
      /\ \A i \in 1 .. n : Append(u, r)[i] = u[i]
  BY <1>1
<1>3. 1 .. (n + 1) = (1 .. n) \cup {n + 1}
  BY <1>1
<1>. HIDE DEF u, n
<1>4. Range(d.up) = Range(u) \cup {r}
  BY <1>2, <1>3 DEF Range, u
<1>. QED
  BY <1>4 DEF Sent, u

SameRest(c, d) == /\ d.disposed = c.disposed /\ d.attached = c.attached /\ d.snap = c.snap
                  /\ d.previous = c.previous /\ d.cleanup = c.cleanup
SameLeases(c, d) == d.count = c.count /\ d.exclusive = c.exclusive
\* Only the call of s differs, and it is now `call`.
Only(c, d, s, call) == d.slot = [c.slot EXCEPT ![s] = call]

LEMMA OnlyFacts ==
  ASSUME NEW c \in Clients, NEW d, NEW s \in Slots, NEW call \in Calls, Only(c, d, s, call)
  PROVE  /\ d.slot \in [Slots -> Calls] /\ d.slot[s] = call
         /\ \A t \in Slots \ {s} : d.slot[t] = c.slot[t]
  BY ClientTypes, Zenon DEF Only

LEMMA ReservedFields ==
  ASSUME NEW c \in Clients, NEW s \in Slots, NEW mode \in Modes
  PROVE  LET d == Reserved(c, s, mode) IN
         /\ d \in Clients /\ SameHubs(c, d) /\ SameRest(c, d) /\ d.count = c.count + 1
         /\ d.exclusive = (IF mode = "exclusive" THEN s ELSE c.exclusive)
         /\ Only(c, d, s, [c.slot[s] EXCEPT !.mode = mode])
<1>. DEFINE p == [c.slot[s] EXCEPT !.mode = mode]
            n == c.count + 1
            x == IF mode = "exclusive" THEN s ELSE c.exclusive
            d == Reserved(c, s, mode)
<1>1. p \in Calls /\ n \in Nat /\ x \in Owner
  <2>1. c.slot[s] \in Calls /\ c.count \in Nat /\ c.exclusive \in Owner
    BY ClientTypes
  <2>. QED
    BY <2>1 DEF Calls, Owner
<1>2. d = [c EXCEPT !.count = n, !.exclusive = x, !.slot = [c.slot EXCEPT ![s] = p]]
  BY Zenon DEF Reserved
<1>. HIDE DEF p, n, x, d
<1>3. /\ d \in Clients /\ SameHubs(c, d) /\ SameRest(c, d) /\ d.count = n /\ d.exclusive = x
      /\ Only(c, d, s, p)
  BY <1>1, <1>2, Zenon DEF Clients, SameHubs, SameRest, Only
<1>. QED
  BY <1>3 DEF p, n, x, d

LEMMA ReleasedFields ==
  ASSUME NEW c \in Clients, NEW s \in Slots
  PROVE  LET d == ReleasedLease(c, s) IN
         /\ d \in Clients /\ SameHubs(c, d) /\ SameRest(c, d) /\ d.slot = c.slot
         /\ d.count = (IF c.count <= 1 THEN 0 ELSE c.count - 1)
         /\ d.exclusive = (IF c.exclusive = s THEN Nobody ELSE c.exclusive)
<1>. DEFINE n == IF c.count <= 1 THEN 0 ELSE c.count - 1
            x == IF c.exclusive = s THEN Nobody ELSE c.exclusive
            d == ReleasedLease(c, s)
<1>1. n \in Nat /\ x \in Owner
  <2>1. c.count \in Nat /\ c.exclusive \in Owner
    BY ClientTypes
  <2>. QED
    BY <2>1 DEF Owner
<1>2. d = [c EXCEPT !.count = n, !.exclusive = x]
  BY Zenon DEF ReleasedLease
<1>. HIDE DEF n, x, d
<1>3. /\ d \in Clients /\ SameHubs(c, d) /\ SameRest(c, d) /\ d.slot = c.slot /\ d.count = n /\ d.exclusive = x
  BY <1>1, <1>2, Zenon DEF Clients, SameHubs, SameRest
<1>. QED
  BY <1>3 DEF n, x, d

LEMMA GoneFields ==
  ASSUME NEW c \in Clients, NEW s \in Slots
  PROVE  LET d == Gone(c, s) IN
         /\ d \in Clients /\ SameHubs(c, d) /\ SameRest(c, d) /\ SameLeases(c, d)
         /\ Only(c, d, s, Free)
  BY FreeFacts DEF Gone, Clients, SameHubs, SameRest, SameLeases, Only

LEMMA AbandonedFields ==
  ASSUME NEW c \in Clients, NEW s \in Slots
  PROVE  LET d == Abandoned(c, s) IN
         /\ d \in Clients /\ SameHubs(c, d) /\ SameRest(c, d) /\ Only(c, d, s, Free)
         /\ d.count = (IF c.count <= 1 THEN 0 ELSE c.count - 1)
         /\ d.exclusive = (IF c.exclusive = s THEN Nobody ELSE c.exclusive)
<1>. DEFINE a == ReleasedLease(c, s)
            d == Gone(a, s)
<1>1. /\ a \in Clients /\ SameHubs(c, a) /\ SameRest(c, a) /\ a.slot = c.slot
      /\ a.count = (IF c.count <= 1 THEN 0 ELSE c.count - 1)
      /\ a.exclusive = (IF c.exclusive = s THEN Nobody ELSE c.exclusive)
  BY ReleasedFields
<1>. HIDE DEF a
<1>2. d \in Clients /\ SameHubs(a, d) /\ SameRest(a, d) /\ SameLeases(a, d) /\ Only(a, d, s, Free)
  BY <1>1, GoneFields
<1>. HIDE DEF d
<1>3. Abandoned(c, s) = d
  BY Zenon DEF Abandoned, d, a
<1>. QED
  BY <1>1, <1>2, <1>3, Zenon DEF SameHubs, SameRest, SameLeases, Only

Placed(call, what, owner, outcome) == [call EXCEPT !.at = what, !.on = owner, !.got = outcome]

LEMMA PlacedFacts ==
  ASSUME NEW call \in Calls, NEW what \in {"free", "held"} \cup Asking, NEW owner \in Owner,
         NEW outcome \in {"none", "ok", "error"}
  PROVE  LET p == Placed(call, what, owner, outcome) IN
         /\ p \in Calls /\ p.at = what /\ p.on = owner /\ p.got = outcome
         /\ p.mode = call.mode /\ p.valid = call.valid /\ p.relinquish = call.relinquish
  BY Zenon DEF Placed, Calls

LEMMA PlacedCall ==
  ASSUME NEW c \in Clients, NEW s \in Slots, NEW what \in Asking, NEW owner \in Slots,
         NEW outcome \in {"none", "ok", "error"}
  PROVE  LET p == Placed(c.slot[s], what, owner, outcome) IN
         /\ p \in Calls /\ p.at = what /\ p.on = owner /\ p.got = outcome
         /\ p.mode = c.slot[s].mode /\ p.valid = c.slot[s].valid
<1>1. c.slot[s] \in Calls /\ what \in {"free", "held"} \cup Asking /\ owner \in Owner
  BY ClientTypes, Zenon DEF Owner
<1>. QED
  BY <1>1, PlacedFacts

LEMMA CreatedFields ==
  ASSUME NEW c \in Clients, NEW s \in Slots
  PROVE  LET d == CreatedLease(c, s) IN
         /\ d \in Clients /\ SameHubs(c, d) /\ SameRest(c, d) /\ SameLeases(c, d)
         /\ Only(c, d, s, Placed(c.slot[s], "held", Nobody, "none"))
<1>. DEFINE p == Placed(c.slot[s], "held", Nobody, "none")
            d == CreatedLease(c, s)
<1>1. p \in Calls
  BY PlacedFacts, ClientTypes DEF Owner
<1>2. d = [c EXCEPT !.slot = [c.slot EXCEPT ![s] = p]]
  BY ClientTypes, ZenonT(30) DEF CreatedLease, Placed, Clients
<1>. HIDE DEF p
<1>3. d \in Clients /\ SameHubs(c, d) /\ SameRest(c, d) /\ SameLeases(c, d) /\ Only(c, d, s, p)
  BY <1>1, <1>2, SMTT(30) DEF Clients, SameHubs, SameRest, SameLeases, Only
<1>. QED
  BY <1>3 DEF p

LEMMA AwaitsPlain ==
  ASSUME NEW c \in Clients, NEW s \in Slots, NEW what \in Asking, NEW owner \in Slots
  PROVE  LET d == Awaits(c, s, what, owner) IN
         /\ d \in Clients /\ SameHubs(c, d) /\ SameRest(c, d) /\ SameLeases(c, d)
         /\ Only(c, d, s, Placed(c.slot[s], what, owner, "none"))
<1>. DEFINE p == Placed(c.slot[s], what, owner, "none")
            d == Awaits(c, s, what, owner)
<1>1. p \in Calls
  BY PlacedFacts, ClientTypes, Zenon DEF Owner
<1>2. d = [c EXCEPT !.slot = [c.slot EXCEPT ![s] = p]]
  BY ClientTypes, ZenonT(60) DEF Awaits, Placed, Clients
<1>. HIDE DEF p
<1>3. d \in Clients /\ SameHubs(c, d) /\ SameRest(c, d) /\ SameLeases(c, d) /\ Only(c, d, s, p)
  BY <1>1, <1>2, SMTT(30) DEF Clients, SameHubs, SameRest, SameLeases, Only
<1>. QED
  BY <1>3 DEF p

LEMMA AwaitsFields ==
  ASSUME NEW c \in Clients, NEW s \in Slots, NEW what \in Asking, NEW owner \in Slots,
         NEW outcome \in {"none", "ok", "error"}
  PROVE  LET d == [Awaits(c, s, what, owner) EXCEPT !.slot[s].got = outcome] IN
         /\ d \in Clients /\ SameHubs(c, d) /\ SameRest(c, d) /\ SameLeases(c, d)
         /\ Only(c, d, s, Placed(c.slot[s], what, owner, outcome))
<1>. DEFINE p == Placed(c.slot[s], what, owner, outcome)
            q == Placed(c.slot[s], what, owner, "none")
            a == Awaits(c, s, what, owner)
            d == [a EXCEPT !.slot[s].got = outcome]
<1>1. p \in Calls /\ q \in Calls
  BY PlacedFacts, ClientTypes, ZenonT(30) DEF Owner
<1>2. /\ a \in Clients /\ SameHubs(c, a) /\ SameRest(c, a) /\ SameLeases(c, a) /\ Only(c, a, s, q)
  BY AwaitsPlain
<1>3. [q EXCEPT !.got = outcome] = p
  BY ClientTypes, Zenon DEF Placed, Calls
<1>. HIDE DEF p, q, a
<1>4. a.slot[s] = q /\ c.slot \in [Slots -> Calls]
  BY <1>1, <1>2, OnlyFacts, ClientTypes
<1>5. [a.slot EXCEPT ![s] = p] = [c.slot EXCEPT ![s] = p]
  BY <1>2, <1>4 DEF Only
<1>6. d = [a EXCEPT !.slot = [c.slot EXCEPT ![s] = p]]
  BY <1>3, <1>4, <1>5, Zenon
<1>. HIDE DEF d
<1>7. [c.slot EXCEPT ![s] = p] \in [Slots -> Calls]
  BY <1>1, <1>4
<1>8. d \in Clients /\ SameHubs(a, d) /\ SameRest(a, d) /\ SameLeases(a, d) /\ Only(c, d, s, p)
  BY <1>2, <1>6, <1>7, ZenonT(30) DEF Clients, SameHubs, SameRest, SameLeases, Only
<1>9. SameHubs(c, d) /\ SameRest(c, d) /\ SameLeases(c, d)
  BY <1>2, <1>8, Zenon DEF SameHubs, SameRest, SameLeases
<1>. QED
  BY <1>8, <1>9, Zenon DEF p, a, d

LEMMA RequestFields ==
  ASSUME NEW c \in Clients, NEW s \in Slots, NEW what \in Asking, NEW command \in Commands
  PROVE  LET d == Request(c, s, what, command)
             outcome == IF c.conn = "connected" THEN "none" ELSE "error"
         IN /\ d \in Clients /\ SameRest(c, d) /\ SameLeases(c, d)
            /\ d.conn = c.conn /\ d.attachment = c.attachment /\ d.detachment = c.detachment
            /\ d.reconciliation = c.reconciliation
            /\ c.conn # "connected" => d.up = c.up
            /\ c.conn = "connected" => Sent(d) = Sent(c) \cup {s}
            /\ Only(c, d, s, Placed(c.slot[s], what, s, outcome))
<1>. DEFINE d == Request(c, s, what, command)
            a == Awaits(c, s, what, s)
            r == [command |-> command, from |-> s]
            p == Placed(c.slot[s], what, s, "none")
<1>1. /\ a \in Clients /\ SameHubs(c, a) /\ SameRest(c, a) /\ SameLeases(c, a) /\ Only(c, a, s, p)
  BY AwaitsPlain
<1>2. CASE c.conn = "connected"
  <2>1. d = [a EXCEPT !.up = Append(@, r)]
    BY <1>2 DEF Request
  <2>. HIDE DEF a, p
  <2>2. r \in Requests /\ r.from = s
    BY DEF Requests
  <2>. HIDE DEF r
  <2>. DEFINE u == Append(a.up, r)
  <2>a. u \in Seq(Requests)
    BY <1>1, <2>2, ClientTypes
  <2>b. d = [a EXCEPT !.up = u]
    BY <2>1
  <2>. HIDE DEF u
  <2>3. /\ d \in Clients /\ d.up = u /\ d.slot = a.slot
        /\ d.conn = a.conn /\ d.attachment = a.attachment /\ d.detachment = a.detachment
        /\ d.reconciliation = a.reconciliation /\ SameRest(a, d) /\ SameLeases(a, d)
    BY <1>1, <2>a, <2>b, ZenonT(30) DEF Clients, SameRest, SameLeases
  <2>4. Sent(d) = Sent(c) \cup {s}
    <3>1. Sent(d) = Sent(a) \cup {r.from}
      BY <1>1, <2>2, <2>3, SentGrows DEF u
    <3>2. Sent(a) = Sent(c)
      BY <1>1, Zenon DEF Sent, SameHubs
    <3>. QED
      BY <2>2, <3>1, <3>2
  <2>. HIDE DEF d
  <2>5. /\ d \in Clients /\ SameRest(c, d) /\ SameLeases(c, d)
        /\ d.conn = c.conn /\ d.attachment = c.attachment /\ d.detachment = c.detachment
        /\ d.reconciliation = c.reconciliation /\ Sent(d) = Sent(c) \cup {s} /\ Only(c, d, s, p)
    BY <1>1, <2>3, <2>4, Zenon DEF SameRest, SameLeases, SameHubs, Only
  <2>. QED
    BY <1>2, <2>5, Zenon DEF d, p
<1>3. CASE c.conn # "connected"
  <2>1. d = [a EXCEPT !.slot[s].got = "error"]
    BY <1>3 DEF Request
  <2>2. /\ d \in Clients /\ SameHubs(c, d) /\ SameRest(c, d) /\ SameLeases(c, d)
        /\ Only(c, d, s, Placed(c.slot[s], what, s, "error"))
    <3>. DEFINE e == [Awaits(c, s, what, s) EXCEPT !.slot[s].got = "error"]
    <3>1. /\ e \in Clients /\ SameHubs(c, e) /\ SameRest(c, e) /\ SameLeases(c, e)
          /\ Only(c, e, s, Placed(c.slot[s], what, s, "error"))
      BY AwaitsFields, Zenon
    <3>2. d = e
      BY <2>1
    <3>. HIDE DEF e, d
    <3>. QED
      BY <3>1, <3>2, Zenon
  <2>. QED
    BY <1>3, <2>2, Zenon DEF SameHubs
<1>. QED
  BY <1>2, <1>3

-----------------------------------------------------------------------------
(* None of them leaves a call waiting in vain.                             *)

\* None of the promises that later calls join is the one of s.
Apart(c, s) == c.attachment # s /\ c.detachment # s

LEMMA ReservedAnswerable ==
  ASSUME NEW c, NEW W, NEW s \in Slots, NEW mode \in Modes, Answerable(c, W)
  PROVE  Answerable(Reserved(c, s, mode), W)
<1>. DEFINE d == Reserved(c, s, mode)
            p == [c.slot[s] EXCEPT !.mode = mode]
<1>0. c \in Clients
  BY Zenon DEF Answerable
<1>1. d \in Clients /\ SameHubs(c, d) /\ Only(c, d, s, p)
  BY <1>0, ReservedFields
<1>2. p \in Calls /\ SameCall(c.slot[s], p)
  <2>1. c.slot[s] \in Calls
    BY <1>0, ClientTypes
  <2>. QED
    BY <2>1 DEF Calls, SameCall
<1>. HIDE DEF d, p
<1>3. \A t \in Slots : SameCall(c.slot[t], d.slot[t])
  <2>1. d.slot[s] = p /\ \A t \in Slots \ {s} : d.slot[t] = c.slot[t]
    BY <1>0, <1>1, <1>2, OnlyFacts
  <2>. QED
    BY <1>2, <2>1 DEF SameCall
<1>4. Answerable(d, W)
  BY <1>1, <1>3, Indifferent, Zenon
<1>. QED
  BY <1>4 DEF d

\* s is given a call that awaits nothing, or something that is coming.
LEMMA PutAnswerable ==
  ASSUME NEW c, NEW W, NEW s \in Slots, Answerable(c, W), Apart(c, s), NEW d \in Clients, SameHubs(c, d),
         NEW call \in Calls, Only(c, d, s, call), call.on # Nobody <=> call.at \in Asking,
         call.got # "none" => call.on # Nobody,
         call.on # Nobody /\ call.got = "none" => Coming(c, W, call.on)
  PROVE  Answerable(d, W)
<1>1. c \in Clients /\ d.slot[s] = call /\ \A t \in Slots \ {s} : SameCall(c.slot[t], d.slot[t])
  <2>1. c \in Clients
    BY Zenon DEF Answerable
  <2>. QED
    BY <2>1, OnlyFacts DEF SameCall
<1>2. CallOK(d, W, s)
  BY <1>1, Zenon DEF CallOK, Coming, Sent, SameHubs
<1>3. d.attachment \in {c.attachment, Nobody} \ {s} /\ d.detachment \in {c.detachment, Nobody} \ {s}
  BY DEF SameHubs, Apart
<1>4. d.conn = c.conn /\ Sent(c) \subseteq Sent(d) /\ d.reconciliation = c.reconciliation
  BY DEF SameHubs, Sent
<1>. QED
  BY <1>1, <1>2, <1>3, <1>4, CallReplaced, Zenon

LEMMA GoneAnswerable ==
  ASSUME NEW c, NEW W, NEW s \in Slots, Answerable(c, W), Apart(c, s)
  PROVE  Answerable(Gone(c, s), W) /\ Answerable(Abandoned(c, s), W)
<1>0. c \in Clients /\ "free" \notin Asking
  BY Zenon DEF Answerable, Asking, Waiting
<1>1. Gone(c, s) \in Clients /\ SameHubs(c, Gone(c, s)) /\ Only(c, Gone(c, s), s, Free)
  BY <1>0, GoneFields
<1>2. Abandoned(c, s) \in Clients /\ SameHubs(c, Abandoned(c, s)) /\ Only(c, Abandoned(c, s), s, Free)
  BY <1>0, AbandonedFields
<1>3. Free \in Calls /\ (Free.on # Nobody <=> Free.at \in Asking) /\ Free.on = Nobody /\ Free.got = "none"
  BY <1>0, FreeFacts
<1>4. Answerable(Gone(c, s), W)
  BY <1>1, <1>3, PutAnswerable, Zenon
<1>5. Answerable(Abandoned(c, s), W)
  BY <1>2, <1>3, PutAnswerable, Zenon
<1>. QED
  BY <1>4, <1>5

LEMMA CreatedAnswerable ==
  ASSUME NEW c, NEW W, NEW s \in Slots, Answerable(c, W), Apart(c, s)
  PROVE  Answerable(CreatedLease(c, s), W)
<1>. DEFINE p == Placed(c.slot[s], "held", Nobody, "none")
<1>0. c \in Clients /\ "held" \notin Asking
  BY Zenon DEF Answerable, Asking, Waiting
<1>1. /\ CreatedLease(c, s) \in Clients /\ SameHubs(c, CreatedLease(c, s))
      /\ Only(c, CreatedLease(c, s), s, p)
  BY <1>0, CreatedFields
<1>2. p \in Calls /\ p.at = "held" /\ p.on = Nobody /\ p.got = "none"
  BY <1>0, PlacedFacts, ClientTypes DEF Owner
<1>. HIDE DEF p
<1>. QED
  BY <1>0, <1>1, <1>2, PutAnswerable, Zenon

LEMMA JoinAnswerable ==
  ASSUME NEW c, NEW W, NEW s \in Slots, Answerable(c, W), Apart(c, s), NEW what \in Asking,
         NEW owner \in Slots, NEW outcome \in {"none", "ok", "error"},
         outcome = "none" => Coming(c, W, owner)
  PROVE  Answerable([Awaits(c, s, what, owner) EXCEPT !.slot[s].got = outcome], W)
<1>. DEFINE p == Placed(c.slot[s], what, owner, outcome)
            d == [Awaits(c, s, what, owner) EXCEPT !.slot[s].got = outcome]
<1>0. c \in Clients /\ owner # Nobody
  BY ClientAssumption, Zenon DEF Answerable
<1>1. d \in Clients /\ SameHubs(c, d) /\ Only(c, d, s, p)
  BY <1>0, AwaitsFields, ZenonT(30)
<1>2. p \in Calls /\ p.at = what /\ p.on = owner /\ p.got = outcome
  BY <1>0, PlacedCall
<1>. HIDE DEF p, d
<1>3. Answerable(d, W)
  BY <1>0, <1>1, <1>2, PutAnswerable, Zenon
<1>. QED
  BY <1>3 DEF d

LEMMA AwaitsAnswerable ==
  ASSUME NEW c, NEW W, NEW s \in Slots, Answerable(c, W), Apart(c, s), NEW what \in Asking,
         NEW owner \in Slots, Coming(c, W, owner)
  PROVE  Answerable(Awaits(c, s, what, owner), W)
<1>. DEFINE p == Placed(c.slot[s], what, owner, "none")
            d == Awaits(c, s, what, owner)
<1>0. c \in Clients /\ owner # Nobody
  BY ClientAssumption, Zenon DEF Answerable
<1>1. d \in Clients /\ SameHubs(c, d) /\ Only(c, d, s, p)
  BY <1>0, AwaitsPlain
<1>2. p \in Calls /\ p.at = what /\ p.on = owner /\ p.got = "none"
  BY <1>0, PlacedCall
<1>. HIDE DEF p, d
<1>3. Answerable(d, W)
  BY <1>0, <1>1, <1>2, PutAnswerable, Zenon
<1>. QED
  BY <1>3 DEF d

LEMMA RequestAnswerable ==
  ASSUME NEW c, NEW W, NEW s \in Slots, Answerable(c, W), Apart(c, s), NEW what \in Asking,
         NEW command \in Commands
  PROVE  LET d == Request(c, s, what, command) IN
         /\ Answerable(d, W) /\ d.slot[s].at = what /\ d.slot[s].on = s
         /\ d.slot[s].got = "none" => Coming(d, W, s)
<1>. DEFINE o == IF c.conn = "connected" THEN "none" ELSE "error"
            p == Placed(c.slot[s], what, s, o)
            d == Request(c, s, what, command)
<1>0. c \in Clients /\ s # Nobody
  BY ClientAssumption, Zenon DEF Answerable
<1>1. /\ d \in Clients /\ d.conn = c.conn /\ d.attachment = c.attachment /\ d.detachment = c.detachment
      /\ d.reconciliation = c.reconciliation /\ Only(c, d, s, p)
      /\ c.conn # "connected" => d.up = c.up
      /\ c.conn = "connected" => Sent(d) = Sent(c) \cup {s}
  BY <1>0, RequestFields
<1>2. p \in Calls /\ p.at = what /\ p.on = s /\ p.got = o
  <2>1. o \in {"none", "ok", "error"}
    OBVIOUS
  <2>. HIDE DEF o
  <2>. QED
    BY <1>0, <2>1, PlacedCall
<1>3. o = "none" => c.conn = "connected"
  OBVIOUS
<1>. HIDE DEF p, d, o
<1>4. d.slot[s] = p /\ \A t \in Slots \ {s} : SameCall(c.slot[t], d.slot[t])
  BY <1>0, <1>1, <1>2, OnlyFacts DEF SameCall
<1>5. Sent(c) \subseteq Sent(d)
  BY <1>1 DEF Sent
<1>6. o = "none" => Coming(d, W, s)
  BY <1>1, <1>3 DEF Coming
<1>7. CallOK(d, W, s)
  BY <1>0, <1>2, <1>4, <1>6, Zenon DEF CallOK
<1>8. d.attachment \in {c.attachment, Nobody} \ {s} /\ d.detachment \in {c.detachment, Nobody} \ {s}
  BY <1>1 DEF Apart
<1>9. Answerable(d, W)
  BY <1>1, <1>4, <1>5, <1>7, <1>8, CallReplaced, Zenon
<1>10. d.slot[s].at = what /\ d.slot[s].on = s /\ (d.slot[s].got = "none" => Coming(d, W, s))
  BY <1>2, <1>4, <1>6, Zenon
<1>. QED
  BY <1>9, <1>10 DEF d

LEMMA HubSet ==
  ASSUME NEW c, NEW W, NEW s \in Slots, Answerable(c, W)
  PROVE  /\ c.slot[s].at = "attachment" /\ c.slot[s].on = s => Answerable([c EXCEPT !.attachment = s], W)
         /\ c.slot[s].at = "releasing" /\ c.slot[s].on = s => Answerable([c EXCEPT !.detachment = s], W)
         /\ Coming(c, W, s) => Answerable([c EXCEPT !.reconciliation = s], W)
         /\ Answerable([c EXCEPT !.reconciliation = Nobody], W)
         /\ Answerable([c EXCEPT !.attachment = Nobody], W)
         /\ Answerable([c EXCEPT !.detachment = Nobody], W)
<1>0. c \in Clients /\ s \in Owner /\ Nobody \in Owner /\ s # Nobody
  BY ClientAssumption, Zenon DEF Answerable, Owner
<1>1. /\ c.attachment # Nobody => c.slot[c.attachment].at = "attachment" /\ c.slot[c.attachment].on = c.attachment
      /\ c.detachment # Nobody => c.slot[c.detachment].at = "releasing" /\ c.slot[c.detachment].on = c.detachment
      /\ c.reconciliation # Nobody => Coming(c, W, c.reconciliation)
  BY Zenon DEF Answerable, HubOK
<1>2. ASSUME NEW d \in Clients, d.conn = c.conn, d.up = c.up, d.slot = c.slot,
             d.attachment \in {c.attachment, Nobody} \/ (d.attachment = s /\ c.slot[s].at = "attachment" /\ c.slot[s].on = s),
             d.detachment \in {c.detachment, Nobody} \/ (d.detachment = s /\ c.slot[s].at = "releasing" /\ c.slot[s].on = s),
             d.reconciliation \in {c.reconciliation, Nobody} \/ (d.reconciliation = s /\ Coming(c, W, s))
      PROVE  Answerable(d, W)
  <2>1. \A o : Coming(c, W, o) => Coming(d, W, o)
    BY <1>2, Zenon DEF Coming, Sent
  <2>2. \A t \in Slots : CallOK(d, W, t)
    BY <1>2, <2>1, Zenon DEF Answerable, CallOK
  <2>3. d.attachment # Nobody => d.slot[d.attachment].at = "attachment" /\ d.slot[d.attachment].on = d.attachment
    BY <1>1, <1>2
  <2>4. d.detachment # Nobody => d.slot[d.detachment].at = "releasing" /\ d.slot[d.detachment].on = d.detachment
    BY <1>1, <1>2
  <2>5. d.reconciliation # Nobody => Coming(d, W, d.reconciliation)
    BY <1>1, <1>2, <2>1
  <2>6. HubOK(d, W)
    BY <2>3, <2>4, <2>5, Zenon DEF HubOK
  <2>. QED
    BY <1>2, <2>2, <2>6, Zenon DEF Answerable
<1>3. ASSUME NEW o \in Owner
      PROVE  LET d == [c EXCEPT !.attachment = o] IN
             /\ d \in Clients /\ d.conn = c.conn /\ d.up = c.up /\ d.slot = c.slot /\ d.attachment = o
             /\ d.detachment = c.detachment /\ d.reconciliation = c.reconciliation
  BY <1>0 DEF Clients
<1>4. ASSUME NEW o \in Owner
      PROVE  LET d == [c EXCEPT !.detachment = o] IN
             /\ d \in Clients /\ d.conn = c.conn /\ d.up = c.up /\ d.slot = c.slot /\ d.detachment = o
             /\ d.attachment = c.attachment /\ d.reconciliation = c.reconciliation
  BY <1>0 DEF Clients
<1>5. ASSUME NEW o \in Owner
      PROVE  LET d == [c EXCEPT !.reconciliation = o] IN
             /\ d \in Clients /\ d.conn = c.conn /\ d.up = c.up /\ d.slot = c.slot /\ d.reconciliation = o
             /\ d.detachment = c.detachment /\ d.attachment = c.attachment
  BY <1>0 DEF Clients
<1>6. /\ c.slot[s].at = "attachment" /\ c.slot[s].on = s => Answerable([c EXCEPT !.attachment = s], W)
      /\ Answerable([c EXCEPT !.attachment = Nobody], W)
  BY <1>0, <1>2, <1>3, Zenon
<1>7. /\ c.slot[s].at = "releasing" /\ c.slot[s].on = s => Answerable([c EXCEPT !.detachment = s], W)
      /\ Answerable([c EXCEPT !.detachment = Nobody], W)
  BY <1>0, <1>2, <1>4, Zenon
<1>8. /\ Coming(c, W, s) => Answerable([c EXCEPT !.reconciliation = s], W)
      /\ Answerable([c EXCEPT !.reconciliation = Nobody], W)
  BY <1>0, <1>2, <1>5, Zenon
<1>. QED
  BY <1>6, <1>7, <1>8

\* What may join a promise the client keeps.
LEMMA Joins ==
  ASSUME NEW c, NEW W, Answerable(c, W)
  PROVE  /\ c.attachment # Nobody => /\ c.attachment \in Slots
                                     /\ c.slot[c.attachment].got \in {"none", "ok", "error"}
                                     /\ c.slot[c.attachment].got = "none" => Coming(c, W, c.attachment)
         /\ c.detachment # Nobody => /\ c.detachment \in Slots
                                     /\ c.slot[c.detachment].got \in {"none", "ok", "error"}
                                     /\ c.slot[c.detachment].got = "none" => Coming(c, W, c.detachment)
         /\ c.reconciliation # Nobody => c.reconciliation \in Slots /\ Coming(c, W, c.reconciliation)
<1>0. c \in Clients /\ HubOK(c, W) /\ \A t \in Slots : CallOK(c, W, t)
  BY Zenon DEF Answerable
<1>1. c.attachment \in Owner /\ c.detachment \in Owner /\ c.reconciliation \in Owner /\ \A t \in Slots : c.slot[t] \in Calls
  BY <1>0, ClientTypes
<1>2. \A t \in Slots : c.slot[t].got \in {"none", "ok", "error"}
  BY <1>1, CallTypes
<1>3. ASSUME c.attachment # Nobody
      PROVE  c.attachment \in Slots /\ (c.slot[c.attachment].got = "none" => Coming(c, W, c.attachment))
  <2>1. c.attachment \in Slots /\ c.slot[c.attachment].on = c.attachment
    BY <1>0, <1>1, <1>3, Zenon DEF HubOK, Owner
  <2>. QED
    BY <1>0, <1>3, <2>1, Zenon DEF CallOK
<1>4. ASSUME c.detachment # Nobody
      PROVE  c.detachment \in Slots /\ (c.slot[c.detachment].got = "none" => Coming(c, W, c.detachment))
  <2>1. c.detachment \in Slots /\ c.slot[c.detachment].on = c.detachment
    BY <1>0, <1>1, <1>4, Zenon DEF HubOK, Owner
  <2>. QED
    BY <1>0, <1>4, <2>1, Zenon DEF CallOK
<1>5. c.reconciliation # Nobody => c.reconciliation \in Slots /\ Coming(c, W, c.reconciliation)
  BY <1>0, <1>1, Zenon DEF HubOK, Owner
<1>. QED
  BY <1>2, <1>3, <1>4, <1>5, Zenon

\* acquireSession, from the reservation to its next await.
LEMMA RequestAttachAnswerable ==
  ASSUME NEW c, NEW W, NEW s \in Slots, Answerable(c, W), Apart(c, s)
  PROVE  Answerable(RequestAttach(c, s), W)
<1>. DEFINE b == [c EXCEPT !.previous = c.snap, !.snap = 0]
            d == Request(b, s, "attachment", "attach")
<1>0. c \in Clients
  BY Zenon DEF Answerable
<1>1. b \in Clients /\ SameHubs(c, b) /\ b.slot = c.slot
  <2>1. c.snap \in Nat
    BY <1>0, ClientTypes
  <2>. QED
    BY <1>0, <2>1, Zenon DEF Clients, SameHubs
<1>2. RequestAttach(c, s) = [d EXCEPT !.attachment = s]
  BY Zenon DEF RequestAttach
<1>. HIDE DEF b
<1>3. Answerable(b, W)
  BY <1>1, Indifferent, Zenon DEF SameCall
<1>4. Apart(b, s)
  BY <1>1, Zenon DEF Apart, SameHubs
<1>5. "attachment" \in Asking /\ "attach" \in Commands
  BY Zenon DEF Asking, Waiting, Commands
<1>6. Answerable(d, W) /\ d.slot[s].at = "attachment" /\ d.slot[s].on = s
  BY <1>3, <1>4, <1>5, RequestAnswerable
<1>. HIDE DEF d
<1>. QED
  BY <1>2, <1>6, HubSet, Zenon

LEMMA AttachOrCreateAnswerable ==
  ASSUME NEW c, NEW W, NEW s \in Slots, Answerable(c, W), Apart(c, s), NEW reconciled \in BOOLEAN
  PROVE  Answerable(AttachOrCreate(c, s, reconciled), W)
<1>. DEFINE join == [Awaits(c, s, "attachment", c.attachment) EXCEPT
                       !.slot[s].got = c.slot[c.attachment].got]
<1>1. AttachOrCreate(c, s, reconciled) =
        CASE ~reconciled /\ c.attached -> CreatedLease(c, s)
          [] (reconciled \/ ~c.attached) /\ c.attachment # Nobody -> join
          [] OTHER -> RequestAttach(c, s)
  BY Zenon DEF AttachOrCreate
<1>2. ASSUME c.attachment # Nobody PROVE Answerable(join, W)
  <2>1. "attachment" \in Asking
    BY Zenon DEF Asking, Waiting
  <2>2. /\ c.attachment \in Slots /\ c.slot[c.attachment].got \in {"none", "ok", "error"}
        /\ c.slot[c.attachment].got = "none" => Coming(c, W, c.attachment)
    BY <1>2, Joins, Zenon
  <2>. QED
    BY <2>1, <2>2, JoinAnswerable, Zenon
<1>3. Answerable(CreatedLease(c, s), W) /\ Answerable(RequestAttach(c, s), W)
  BY CreatedAnswerable, RequestAttachAnswerable
<1>. HIDE DEF join
<1>4. \/ AttachOrCreate(c, s, reconciled) = CreatedLease(c, s)
      \/ c.attachment # Nobody /\ AttachOrCreate(c, s, reconciled) = join
      \/ AttachOrCreate(c, s, reconciled) = RequestAttach(c, s)
  BY <1>1
<1>. QED
  BY <1>2, <1>3, <1>4, Zenon

LEMMA ReconcileFirstAnswerable ==
  ASSUME NEW c, NEW W, NEW s \in Slots, Answerable(c, W), Apart(c, s)
  PROVE  Answerable(ReconcileFirst(c, s), W)
<1>. DEFINE asked == Request(c, s, "reconciliation", "detach")
            joined == Awaits(c, s, "reconciliation", c.reconciliation)
            x == IF asked.slot[s].got = "none" THEN s ELSE Nobody
<1>1. ReconcileFirst(c, s) =
        CASE ~c.cleanup -> AttachOrCreate(c, s, FALSE)
          [] c.cleanup /\ c.reconciliation # Nobody -> joined
          [] OTHER -> [asked EXCEPT !.reconciliation = x]
  BY Zenon DEF ReconcileFirst
<1>2. "reconciliation" \in Asking /\ "detach" \in Commands
  BY Zenon DEF Asking, Waiting, Commands
<1>3. Answerable(asked, W) /\ (asked.slot[s].got = "none" => Coming(asked, W, s))
  BY <1>2, RequestAnswerable
<1>4. ASSUME c.reconciliation # Nobody PROVE Answerable(joined, W)
  <2>1. c.reconciliation \in Slots /\ Coming(c, W, c.reconciliation)
    BY <1>4, Joins, Zenon
  <2>. QED
    BY <1>2, <2>1, AwaitsAnswerable, Zenon
<1>. HIDE DEF asked, joined
<1>5. Answerable([asked EXCEPT !.reconciliation = x], W)
  <2>1. CASE asked.slot[s].got = "none"
    BY <1>3, <2>1, HubSet, Zenon
  <2>2. CASE asked.slot[s].got # "none"
    BY <1>3, <2>2, HubSet, Zenon
  <2>. QED
    BY <2>1, <2>2
<1>6. Answerable(AttachOrCreate(c, s, FALSE), W)
  BY AttachOrCreateAnswerable, Zenon
<1>. HIDE DEF x
<1>7. \/ ReconcileFirst(c, s) = AttachOrCreate(c, s, FALSE)
      \/ c.reconciliation # Nobody /\ ReconcileFirst(c, s) = joined
      \/ ReconcileFirst(c, s) = [asked EXCEPT !.reconciliation = x]
  BY <1>1, Zenon
<1>. QED
  BY <1>4, <1>5, <1>6, <1>7, Zenon

LEMMA AcquiredAnswerable ==
  ASSUME NEW c, NEW W, NEW s \in Slots, Answerable(c, W), Apart(c, s)
  PROVE  Answerable(Acquired(c, s), W)
<1>. DEFINE join == [Awaits(c, s, "detachment", c.detachment) EXCEPT
                       !.slot[s].got = c.slot[c.detachment].got]
<1>1. ASSUME c.detachment # Nobody PROVE Answerable(join, W)
  <2>1. "detachment" \in Asking
    BY Zenon DEF Asking, Waiting
  <2>2. /\ c.detachment \in Slots /\ c.slot[c.detachment].got \in {"none", "ok", "error"}
        /\ c.slot[c.detachment].got = "none" => Coming(c, W, c.detachment)
    BY <1>1, Joins, Zenon
  <2>. QED
    BY <2>1, <2>2, JoinAnswerable, Zenon
<1>2. Answerable(ReconcileFirst(c, s), W)
  BY ReconcileFirstAnswerable
<1>3. Acquired(c, s) = IF c.detachment # Nobody THEN join ELSE ReconcileFirst(c, s)
  BY Zenon DEF Acquired
<1>. HIDE DEF join
<1>. QED
  BY <1>1, <1>2, <1>3

\* The release of a lease, from its start to the detach.
LEMMA ReleaseAnswerable ==
  ASSUME NEW c, NEW W, NEW s \in Slots, Answerable(c, W), Apart(c, s), NEW relinquish \in BOOLEAN
  PROVE  Answerable(StartedRelease(c, s, relinquish), W)
<1>. DEFINE asked == Request(c, s, "releasing", "detach")
            b == [asked EXCEPT !.detachment = s]
            d == [asked EXCEPT !.detachment = s, !.slot[s].relinquish = relinquish]
<1>1. "releasing" \in Asking /\ "detach" \in Commands
  BY Zenon DEF Asking, Commands
<1>2. Answerable(asked, W) /\ asked.slot[s].at = "releasing" /\ asked.slot[s].on = s
  BY <1>1, RequestAnswerable
<1>3. StartedRelease(c, s, relinquish) = IF c.count <= 1 THEN d ELSE Abandoned(c, s)
  BY Zenon DEF StartedRelease
<1>. HIDE DEF asked
<1>4. Answerable(b, W)
  BY <1>2, HubSet, Zenon
<1>5. asked \in Clients /\ b \in Clients
  BY <1>2, <1>4, Zenon DEF Answerable
<1>6. d \in Clients /\ SameHubs(b, d) /\ \A t \in Slots : SameCall(b.slot[t], d.slot[t])
  <2>. DEFINE p == [asked.slot[s] EXCEPT !.relinquish = relinquish]
              f == [asked.slot EXCEPT ![s] = p]
  <2>1. asked.slot \in [Slots -> Calls] /\ p \in Calls /\ SameCall(asked.slot[s], p)
    <3>1. asked.slot \in [Slots -> Calls] /\ asked.slot[s] \in Calls
      BY <1>5, ClientTypes
    <3>. QED
      BY <3>1 DEF Calls, SameCall
  <2>2. d = [asked EXCEPT !.detachment = s, !.slot = f]
    BY Zenon
  <2>. HIDE DEF p, d
  <2>3. f \in [Slots -> Calls] /\ \A t \in Slots : SameCall(asked.slot[t], f[t])
    BY <2>1 DEF SameCall
  <2>4. s \in Owner
    BY DEF Owner
  <2>. HIDE DEF f
  <2>5. /\ d \in Clients /\ d.conn = asked.conn /\ d.up = asked.up /\ d.attachment = asked.attachment
        /\ d.detachment = s /\ d.reconciliation = asked.reconciliation /\ d.slot = f
    BY <1>5, <2>2, <2>3, <2>4, ZenonT(30) DEF Clients
  <2>6. /\ b.conn = asked.conn /\ b.up = asked.up /\ b.attachment = asked.attachment
        /\ b.detachment = s /\ b.reconciliation = asked.reconciliation /\ b.slot = asked.slot
    BY <1>5 DEF Clients
  <2>. HIDE DEF b
  <2>. QED
    BY <2>3, <2>5, <2>6, Zenon DEF SameHubs
<1>. HIDE DEF b, d
<1>7. Answerable(d, W)
  BY <1>4, <1>6, Indifferent, Zenon
<1>8. Answerable(Abandoned(c, s), W)
  BY GoneAnswerable
<1>. QED
  BY <1>3, <1>7, <1>8

\* A call that has its outcome goes on.
LEMMA AttachmentOverAnswerable ==
  ASSUME NEW c, NEW W, NEW s \in Slots, Answerable(c, W), c.slot[s].at = "attachment"
  PROVE  LET d == AttachmentOver(c, s) IN Answerable(d, W) /\ Apart(d, s)
<1>. DEFINE call == c.slot[s]
            a == IF c.attachment = call.on THEN Nobody ELSE c.attachment
            n == IF call.on = s /\ call.got = "error" /\ c.snap = 0 THEN c.previous ELSE c.snap
            q == IF call.on = s THEN 0 ELSE c.previous
            b == [c EXCEPT !.snap = n, !.previous = q]
            d == [c EXCEPT !.attachment = a, !.snap = n, !.previous = q]
<1>0. c \in Clients /\ HubOK(c, W)
  BY Zenon DEF Answerable
<1>1. AttachmentOver(c, s) = d
  BY Zenon DEF AttachmentOver
<1>2. n \in Nat /\ q \in Nat /\ a \in Owner
  <2>1. c.snap \in Nat /\ c.previous \in Nat /\ c.attachment \in Owner
    BY <1>0, ClientTypes
  <2>. QED
    BY <2>1 DEF Owner
<1>3. a \in {c.attachment, Nobody} /\ a # s
  <2>1. c.attachment = s => call.on = s
    BY <1>0, ClientAssumption DEF HubOK
  <2>. QED
    BY <2>1, ClientAssumption
<1>4. c.detachment # s
  BY <1>0, ClientAssumption DEF HubOK
<1>. HIDE DEF a, n, q
<1>5. /\ d \in Clients /\ d.conn = c.conn /\ d.up = c.up /\ d.slot = c.slot /\ d.attachment = a
      /\ d.detachment = c.detachment /\ d.reconciliation = c.reconciliation
  BY <1>0, <1>2, Zenon DEF Clients
<1>. HIDE DEF d
<1>6. CallOK(d, W, s)
  BY <1>5, Zenon DEF Answerable, CallOK, Coming, Sent
<1>7. d.attachment \in {c.attachment, Nobody} \ {s} /\ d.detachment \in {c.detachment, Nobody} \ {s}
  BY <1>3, <1>4, <1>5
<1>8. Sent(c) \subseteq Sent(d) /\ \A t \in Slots \ {s} : SameCall(c.slot[t], d.slot[t])
  BY <1>5 DEF Sent, SameCall
<1>9. Answerable(d, W)
  BY <1>5, <1>6, <1>7, <1>8, CallReplaced, Zenon
<1>. QED
  BY <1>1, <1>7, <1>9 DEF Apart

\* The release of s is over: its call awaits nothing any more.
LEMMA NoDetachmentAnswerable ==
  ASSUME NEW c, NEW W, NEW s \in Slots, Answerable(c, W), c.slot[s].at = "releasing",
         NEW d \in Clients, SameHubs(c, d), NEW call \in Calls, Only(c, d, s, call),
         call.at \in {"free", "held"}, call.on = Nobody, call.got = "none"
  PROVE  Answerable(NoDetachmentOf(d, s), W)
<1>. DEFINE e == NoDetachmentOf(d, s)
            x == IF d.detachment = s THEN Nobody ELSE d.detachment
<1>0. c \in Clients /\ HubOK(c, W) /\ call.at \notin Asking /\ s # Nobody
  BY ClientAssumption DEF Answerable, Asking, Waiting
<1>1. x \in Owner /\ x \in {d.detachment, Nobody} \ {s}
  BY <1>0, ClientTypes DEF Owner
<1>2. e = [d EXCEPT !.detachment = x]
  BY Zenon DEF NoDetachmentOf
<1>. HIDE DEF x, e
<1>3. /\ e \in Clients /\ e.conn = d.conn /\ e.up = d.up /\ e.slot = d.slot /\ e.attachment = d.attachment
      /\ e.detachment = x /\ e.reconciliation = d.reconciliation
  BY <1>1, <1>2 DEF Clients
<1>4. d.slot[s] = call /\ \A t \in Slots \ {s} : SameCall(c.slot[t], d.slot[t])
  BY <1>0, OnlyFacts DEF SameCall
<1>5. CallOK(e, W, s)
  BY <1>0, <1>3, <1>4, Zenon DEF CallOK
<1>6. c.attachment # s
  BY <1>0 DEF HubOK
<1>7. e.attachment \in {c.attachment, Nobody} \ {s} /\ e.detachment \in {c.detachment, Nobody} \ {s}
  BY <1>1, <1>3, <1>6 DEF SameHubs
<1>8. e.conn = c.conn /\ Sent(c) \subseteq Sent(e) /\ e.reconciliation = c.reconciliation
  BY <1>3 DEF SameHubs, Sent
<1>9. Answerable(e, W)
  BY <1>3, <1>4, <1>5, <1>7, <1>8, CallReplaced, Zenon
<1>. QED
  BY <1>9 DEF e

LEMMA ReleaseFailedAnswerable ==
  ASSUME NEW c, NEW W, NEW s \in Slots, Answerable(c, W), c.slot[s].at = "releasing"
  PROVE  Answerable(NoDetachmentOf(ReleaseFailed(c, s), s), W)
<1>. DEFINE p == Placed(c.slot[s], "held", Nobody, "none")
            back == CreatedLease(c, s)
            a == Abandoned(c, s)
            d == [a EXCEPT !.cleanup = TRUE]
<1>0. c \in Clients
  BY Zenon DEF Answerable
<1>1. ReleaseFailed(c, s) = IF ~c.slot[s].valid THEN Gone(c, s)
                            ELSE IF c.slot[s].relinquish THEN d ELSE back
  BY Zenon DEF ReleaseFailed, CreatedLease
<1>2. /\ back \in Clients /\ SameHubs(c, back) /\ Only(c, back, s, p)
  BY <1>0, CreatedFields
<1>3. p \in Calls /\ p.at = "held" /\ p.on = Nobody /\ p.got = "none"
  BY <1>0, PlacedFacts, ClientTypes DEF Owner
<1>4. Gone(c, s) \in Clients /\ SameHubs(c, Gone(c, s)) /\ Only(c, Gone(c, s), s, Free)
  BY <1>0, GoneFields
<1>5. a \in Clients /\ SameHubs(c, a) /\ Only(c, a, s, Free)
  BY <1>0, AbandonedFields
<1>. HIDE DEF a, back, p
<1>6. d \in Clients /\ SameHubs(c, d) /\ Only(c, d, s, Free)
  BY <1>5, Zenon DEF Clients, SameHubs, Only
<1>. HIDE DEF d
<1>7. Answerable(NoDetachmentOf(back, s), W)
  <2>1. p.at \in {"free", "held"}
    BY <1>3
  <2>. QED
    BY <1>2, <1>3, <2>1, NoDetachmentAnswerable, Zenon
<1>8. Free.at \in {"free", "held"} /\ Free.on = Nobody /\ Free.got = "none" /\ Free \in Calls
  BY FreeFacts
<1>9. Answerable(NoDetachmentOf(Gone(c, s), s), W)
  BY <1>4, <1>8, NoDetachmentAnswerable, Zenon
<1>10. Answerable(NoDetachmentOf(d, s), W)
  BY <1>6, <1>8, NoDetachmentAnswerable, Zenon
<1>. QED
  BY <1>1, <1>7, <1>9, <1>10

LEMMA ContinuedAnswerable ==
  ASSUME NEW c, NEW W, NEW s \in Slots, Answerable(c, W), c.slot[s].got # "none"
  PROVE  Answerable(Continued(c, s), W)
<1>0. c \in Clients /\ HubOK(c, W) /\ c.slot[s].at \in Asking /\ s # Nobody
  BY ClientAssumption, Zenon DEF Answerable, CallOK
<1>. DEFINE at == c.slot[s].at
            ok == c.slot[s].got = "ok"
            over == AttachmentOver(c, s)
<1>1. at \in {"detachment", "reconciliation", "attachment", "creation", "releasing"}
  BY <1>0 DEF Asking, Waiting
<1>2. at \in {"detachment", "reconciliation", "creation"} => Apart(c, s)
  BY <1>0 DEF HubOK, Apart
<1>3. CASE at = "detachment"
  <2>1. Continued(c, s) = ReconcileFirst(c, s)
    BY <1>3 DEF Continued
  <2>. QED
    BY <1>2, <1>3, <2>1, ReconcileFirstAnswerable
<1>4. CASE at = "reconciliation"
  <2>1. Continued(c, s) = IF ok THEN AttachOrCreate(c, s, TRUE) ELSE Abandoned(c, s)
    BY <1>4, Zenon DEF Continued
  <2>2. Apart(c, s)
    BY <1>2, <1>4
  <2>3. Answerable(AttachOrCreate(c, s, TRUE), W) /\ Answerable(Abandoned(c, s), W)
    BY <2>2, AttachOrCreateAnswerable, GoneAnswerable, Zenon
  <2>. QED
    BY <2>1, <2>3, Zenon
<1>5. CASE at = "attachment"
  <2>1. Continued(c, s) = IF ok THEN CreatedLease(over, s) ELSE Abandoned(over, s)
    BY <1>5 DEF Continued
  <2>2. Answerable(over, W) /\ Apart(over, s)
    BY <1>5, AttachmentOverAnswerable
  <2>. HIDE DEF over
  <2>3. Answerable(CreatedLease(over, s), W) /\ Answerable(Abandoned(over, s), W)
    BY <2>2, CreatedAnswerable, GoneAnswerable
  <2>. QED
    BY <2>1, <2>3
<1>6. CASE at = "creation"
  <2>. DEFINE held == Reserved(c, s, "exclusive")
  <2>1. Continued(c, s) = IF ok /\ MayReserve(c, "exclusive") THEN CreatedLease(held, s) ELSE Gone(c, s)
    BY <1>6 DEF Continued
  <2>2. Apart(c, s) /\ "exclusive" \in Modes
    BY <1>2, <1>6 DEF Modes
  <2>3. Answerable(held, W) /\ Answerable(Gone(c, s), W)
    BY <2>2, ReservedAnswerable, GoneAnswerable
  <2>4. Apart(held, s)
    <3>1. SameHubs(c, held)
      BY <1>0, <2>2, ReservedFields, Zenon
    <3>. QED
      BY <2>2, <3>1, Zenon DEF Apart, SameHubs
  <2>. HIDE DEF held
  <2>5. Answerable(CreatedLease(held, s), W)
    BY <2>3, <2>4, CreatedAnswerable
  <2>. QED
    BY <2>1, <2>3, <2>5
<1>7. CASE at = "releasing"
  <2>1. Continued(c, s) = IF ok THEN NoDetachmentOf(Abandoned(c, s), s)
                          ELSE NoDetachmentOf(ReleaseFailed(c, s), s)
    BY <1>7 DEF Continued
  <2>2. Abandoned(c, s) \in Clients /\ SameHubs(c, Abandoned(c, s)) /\ Only(c, Abandoned(c, s), s, Free)
    BY <1>0, AbandonedFields
  <2>3. Free.at \in {"free", "held"} /\ Free.on = Nobody /\ Free.got = "none" /\ Free \in Calls
    BY FreeFacts
  <2>4. Answerable(NoDetachmentOf(Abandoned(c, s), s), W)
    BY <1>7, <2>2, <2>3, NoDetachmentAnswerable, Zenon
  <2>5. Answerable(NoDetachmentOf(ReleaseFailed(c, s), s), W)
    BY <1>7, ReleaseFailedAnswerable
  <2>. QED
    BY <2>1, <2>4, <2>5
<1>. QED
  BY <1>1, <1>3, <1>4, <1>5, <1>6, <1>7

-----------------------------------------------------------------------------
(* Losses, removals and replies reach every call.                          *)

LEMMA MappedAnswerable ==
  ASSUME NEW c, NEW d \in Clients, NEW W, Answerable(c, W), SameHubs(c, d),
         \A t \in Slots : SameCall(c.slot[t], d.slot[t]) \/ (c.slot[t].at = "held" /\ d.slot[t] = Free)
  PROVE  Answerable(d, W)
<1>0. c \in Clients /\ HubOK(c, W) /\ "free" \notin Asking /\ \A t \in Slots : CallOK(c, W, t)
  BY Zenon DEF Answerable, Asking, Waiting
<1>1. ASSUME NEW t \in Slots PROVE CallOK(d, W, t)
  <2>1. CASE SameCall(c.slot[t], d.slot[t])
    BY <1>0, <2>1, Zenon DEF CallOK, Coming, Sent, SameHubs, SameCall
  <2>2. CASE d.slot[t] = Free
    BY <1>0, <2>2, FreeFacts, Zenon DEF CallOK
  <2>. QED
    BY <2>1, <2>2
<1>2. HubOK(d, W)
  <2>1. c.attachment \in Slots \cup {Nobody} /\ c.detachment \in Slots \cup {Nobody}
    BY <1>0, ClientTypes DEF Owner
  <2>2. \A t \in Slots : c.slot[t].at \in {"attachment", "releasing"} => SameCall(c.slot[t], d.slot[t])
    OBVIOUS
  <2>3. ASSUME d.attachment # Nobody
        PROVE  d.slot[d.attachment].at = "attachment" /\ d.slot[d.attachment].on = d.attachment
    <3>1. d.attachment = c.attachment /\ d.attachment \in Slots
      BY <2>1, <2>3 DEF SameHubs
    <3>2. c.slot[c.attachment].at = "attachment" /\ c.slot[c.attachment].on = c.attachment
      BY <1>0, <2>3, <3>1, Zenon DEF HubOK
    <3>. QED
      BY <2>2, <3>1, <3>2 DEF SameCall
  <2>4. ASSUME d.detachment # Nobody
        PROVE  d.slot[d.detachment].at = "releasing" /\ d.slot[d.detachment].on = d.detachment
    <3>1. d.detachment = c.detachment /\ d.detachment \in Slots
      BY <2>1, <2>4 DEF SameHubs
    <3>2. c.slot[c.detachment].at = "releasing" /\ c.slot[c.detachment].on = c.detachment
      BY <1>0, <2>4, <3>1, Zenon DEF HubOK
    <3>. QED
      BY <2>2, <3>1, <3>2 DEF SameCall
  <2>5. d.reconciliation # Nobody => Coming(d, W, d.reconciliation)
    BY <1>0, Zenon DEF HubOK, Coming, Sent, SameHubs
  <2>. QED
    BY <2>3, <2>4, <2>5, Zenon DEF HubOK
<1>. QED
  BY <1>1, <1>2, Zenon DEF Answerable

\* What an invalidation makes of a call.
Struck(call) == IF call.at = "held" THEN Free
                ELSE IF call.at = "releasing" THEN [call EXCEPT !.valid = FALSE] ELSE call

LEMMA StruckFacts ==
  ASSUME NEW call \in Calls
  PROVE  /\ Struck(call) \in Calls
         /\ SameCall(call, Struck(call)) \/ (call.at = "held" /\ Struck(call) = Free)
  BY FreeFacts, Zenon DEF Struck, Calls, SameCall

LEMMA InvalidatedFields ==
  ASSUME NEW c \in Clients
  PROVE  LET d == Invalidated(c) IN
         /\ d \in Clients /\ SameHubs(c, d) /\ d.disposed = c.disposed /\ d.attached = c.attached
         /\ d.snap = c.snap /\ d.previous = c.previous
         /\ d.count = 0 /\ d.exclusive = Nobody /\ d.cleanup = FALSE
         /\ d.slot = [s \in Slots |-> Struck(c.slot[s])]
<1>. DEFINE f == [s \in Slots |-> Struck(c.slot[s])]
            g == [s \in Slots |->
                    CASE c.slot[s].at = "held" -> Free
                      [] c.slot[s].at = "releasing" -> [c.slot[s] EXCEPT !.valid = FALSE]
                      [] OTHER -> c.slot[s]]
            d == Invalidated(c)
<1>1. f \in [Slots -> Calls]
  <2>1. \A s \in Slots : Struck(c.slot[s]) \in Calls
    BY ClientTypes, StruckFacts
  <2>. QED
    BY <2>1
<1>2. g = f
  <2>1. ASSUME NEW s \in Slots PROVE g[s] = f[s]
    BY DEF Struck
  <2>. QED
    BY <2>1
<1>3. d = [c EXCEPT !.count = 0, !.exclusive = Nobody, !.cleanup = FALSE, !.slot = g]
  BY Zenon DEF Invalidated
<1>. HIDE DEF f, g, d
<1>4. /\ d \in Clients /\ SameHubs(c, d) /\ d.disposed = c.disposed /\ d.attached = c.attached
      /\ d.snap = c.snap /\ d.previous = c.previous
      /\ d.count = 0 /\ d.exclusive = Nobody /\ d.cleanup = FALSE /\ d.slot = f
  BY <1>1, <1>2, <1>3, ZenonT(30) DEF Clients, SameHubs, Owner
<1>. QED
  BY <1>4 DEF f, d

LEMMA AllInvalidatedFields ==
  ASSUME NEW c \in Clients
  PROVE  LET d == AllInvalidated(c) IN
         /\ d \in Clients /\ SameHubs(c, d) /\ d.disposed = c.disposed /\ d.attached = c.attached
         /\ d.snap = c.snap /\ d.previous = c.previous
         /\ d.count = 0 /\ d.exclusive = (IF c.count > 0 THEN Nobody ELSE c.exclusive) /\ d.cleanup = FALSE
         /\ d.slot = (IF c.count > 0 THEN [s \in Slots |-> Struck(c.slot[s])] ELSE c.slot)
<1>. DEFINE d == AllInvalidated(c)
            i == Invalidated(c)
<1>1. CASE c.count > 0
  <2>1. d = [i EXCEPT !.cleanup = FALSE]
    BY <1>1, Zenon DEF AllInvalidated
  <2>2. /\ i \in Clients /\ SameHubs(c, i) /\ i.disposed = c.disposed /\ i.attached = c.attached
        /\ i.snap = c.snap /\ i.previous = c.previous
        /\ i.count = 0 /\ i.exclusive = Nobody /\ i.cleanup = FALSE
        /\ i.slot = [s \in Slots |-> Struck(c.slot[s])]
    BY InvalidatedFields, Zenon
  <2>. HIDE DEF i
  <2>3. d = i
    BY <2>1, <2>2 DEF Clients
  <2>. QED
    BY <1>1, <2>2, <2>3
<1>2. CASE ~(c.count > 0)
  <2>1. d = [c EXCEPT !.cleanup = FALSE]
    BY <1>2, Zenon DEF AllInvalidated
  <2>2. c.count = 0
    BY <1>2, ClientTypes
  <2>. QED
    BY <1>2, <2>1, <2>2, ZenonT(30) DEF Clients, SameHubs
<1>. QED
  BY <1>1, <1>2, Zenon

LEMMA AllInvalidatedAnswerable ==
  ASSUME NEW c, NEW W, Answerable(c, W)
  PROVE  Answerable(AllInvalidated(c), W) /\ Answerable(Invalidated(c), W)
<1>0. c \in Clients /\ \A t \in Slots : c.slot[t] \in Calls
  BY ClientTypes, Zenon DEF Answerable
<1>1. /\ Invalidated(c) \in Clients /\ SameHubs(c, Invalidated(c))
      /\ Invalidated(c).slot = [s \in Slots |-> Struck(c.slot[s])]
  BY <1>0, InvalidatedFields, Zenon
<1>2. /\ AllInvalidated(c) \in Clients /\ SameHubs(c, AllInvalidated(c))
      /\ AllInvalidated(c).slot = (IF c.count > 0 THEN [s \in Slots |-> Struck(c.slot[s])] ELSE c.slot)
  BY <1>0, AllInvalidatedFields, ZenonT(30)
<1>3. \A t \in Slots : SameCall(c.slot[t], Struck(c.slot[t])) \/ (c.slot[t].at = "held" /\ Struck(c.slot[t]) = Free)
  BY <1>0, StruckFacts
<1>4. Answerable(Invalidated(c), W)
  <2>1. \A t \in Slots : Invalidated(c).slot[t] = Struck(c.slot[t])
    BY <1>1, Zenon
  <2>2. \A t \in Slots : \/ SameCall(c.slot[t], Invalidated(c).slot[t])
                         \/ c.slot[t].at = "held" /\ Invalidated(c).slot[t] = Free
    BY <1>3, <2>1
  <2>. QED
    BY <1>1, <2>2, MappedAnswerable
<1>5. Answerable(AllInvalidated(c), W)
  <2>1. CASE c.count > 0
    <3>1. \A t \in Slots : AllInvalidated(c).slot[t] = Struck(c.slot[t])
      BY <1>2, <2>1, Zenon
    <3>. QED
      BY <1>2, <1>3, <3>1, MappedAnswerable, Zenon
  <2>2. CASE ~(c.count > 0)
    <3>1. \A t \in Slots : AllInvalidated(c).slot[t] = c.slot[t]
      BY <1>2, <2>2, Zenon
    <3>2. \A t \in Slots : SameCall(c.slot[t], AllInvalidated(c).slot[t])
      BY <3>1 DEF SameCall
    <3>. QED
      BY <1>2, <3>2, Indifferent
  <2>. QED
    BY <2>1, <2>2
<1>. QED
  BY <1>4, <1>5

LEMMA AnsweredAnswerable ==
  ASSUME NEW c, NEW W, Answerable(c, W), NEW d \in Clients, NEW V,
         d.attachment = c.attachment, d.detachment = c.detachment,
         d.reconciliation # Nobody => Coming(d, V, d.reconciliation),
         \A t \in Slots :
           /\ d.slot[t].at = c.slot[t].at /\ d.slot[t].on = c.slot[t].on
           /\ d.slot[t].got # "none" => d.slot[t].on # Nobody
           /\ d.slot[t].on # Nobody /\ d.slot[t].got = "none" => Coming(d, V, d.slot[t].on)
  PROVE  Answerable(d, V)
<1>0. c \in Clients /\ HubOK(c, W) /\ \A t \in Slots : CallOK(c, W, t)
  BY Zenon DEF Answerable
<1>1. ASSUME NEW t \in Slots PROVE CallOK(d, V, t)
  <2>1. c.slot[t].on # Nobody <=> c.slot[t].at \in Asking
    BY <1>0, Zenon DEF CallOK
  <2>. QED
    BY <2>1, Zenon DEF CallOK
<1>2. HubOK(d, V)
  <2>1. c.attachment \in Slots \cup {Nobody} /\ c.detachment \in Slots \cup {Nobody}
    BY <1>0, ClientTypes DEF Owner
  <2>2. c.attachment # Nobody => c.slot[c.attachment].at = "attachment" /\ c.slot[c.attachment].on = c.attachment
    BY <1>0, Zenon DEF HubOK
  <2>3. c.detachment # Nobody => c.slot[c.detachment].at = "releasing" /\ c.slot[c.detachment].on = c.detachment
    BY <1>0, Zenon DEF HubOK
  <2>4. /\ d.attachment # Nobody => d.slot[d.attachment].at = "attachment" /\ d.slot[d.attachment].on = d.attachment
        /\ d.detachment # Nobody => d.slot[d.detachment].at = "releasing" /\ d.slot[d.detachment].on = d.detachment
    BY <2>1, <2>2, <2>3
  <2>. QED
    BY <2>4, Zenon DEF HubOK
<1>. QED
  BY <1>1, <1>2, Zenon DEF Answerable

\* The requests that are awaited may move between the client, the server and
\* the network.
LEMMA MovedAnswerable ==
  ASSUME NEW c, NEW W, Answerable(c, W), NEW d \in Clients, NEW V,
         d.conn = c.conn, d.slot = c.slot, d.attachment = c.attachment,
         d.detachment = c.detachment, d.reconciliation = c.reconciliation,
         W \cup Sent(c) \subseteq V \cup Sent(d)
  PROVE  Answerable(d, V)
<1>1. \A o : Coming(c, W, o) => Coming(d, V, o)
  BY Zenon DEF Coming
<1>2. (\A t \in Slots : CallOK(c, W, t)) /\ (c.reconciliation # Nobody => Coming(c, W, c.reconciliation))
  BY Zenon DEF Answerable, HubOK
<1>3. \A t \in Slots :
           /\ d.slot[t].at = c.slot[t].at /\ d.slot[t].on = c.slot[t].on
           /\ d.slot[t].got # "none" => d.slot[t].on # Nobody
           /\ d.slot[t].on # Nobody /\ d.slot[t].got = "none" => Coming(d, V, d.slot[t].on)
  BY <1>1, <1>2, Zenon DEF CallOK
<1>4. d.reconciliation # Nobody => Coming(d, V, d.reconciliation)
  BY <1>1, <1>2, Zenon
<1>. QED
  BY <1>3, <1>4, AnsweredAnswerable, Zenon

-----------------------------------------------------------------------------
(* A reply.                                                                *)

\* What the outcome of the request of o makes of a call.
Told(call, o, outcome) ==
  IF call.on = o /\ call.got = "none" THEN [call EXCEPT !.got = outcome] ELSE call

LEMMA ToldFacts ==
  ASSUME NEW call \in Calls, NEW o, NEW outcome \in {"ok", "error"}
  PROVE  LET told == Told(call, o, outcome) IN
         /\ told \in Calls /\ told.at = call.at /\ told.on = call.on /\ told.mode = call.mode
         /\ told.valid = call.valid /\ told.relinquish = call.relinquish
         /\ told.got # call.got => call.on = o /\ call.got = "none" /\ told.got = outcome
         /\ call.on = o => told.got # "none"
<1>1. CASE call.on = o /\ call.got = "none"
  <2>. DEFINE told == Told(call, o, outcome)
  <2>1. told = [call EXCEPT !.got = outcome]
    BY <1>1 DEF Told
  <2>. HIDE DEF told
  <2>2. /\ told \in Calls /\ told.at = call.at /\ told.on = call.on /\ told.mode = call.mode
        /\ told.valid = call.valid /\ told.relinquish = call.relinquish /\ told.got = outcome
    BY <2>1 DEF Calls
  <2>3. told.got # "none"
    BY <2>2
  <2>4. /\ told.got # call.got => call.on = o /\ call.got = "none" /\ told.got = outcome
        /\ call.on = o => told.got # "none"
    BY <1>1, <2>2, <2>3, Zenon
  <2>. QED
    BY <2>2, <2>4 DEF told
<1>2. CASE ~(call.on = o /\ call.got = "none")
  <2>1. Told(call, o, outcome) = call
    BY <1>2, Zenon DEF Told
  <2>. QED
    BY <1>2, <2>1
<1>. QED
  BY <1>1, <1>2, Zenon

LEMMA AppliedFields ==
  ASSUME NEW c \in Clients, NEW rev \in Nat
  PROVE  LET d == Applied(c, rev) IN
         /\ d \in Clients /\ SameHubs(c, d) /\ d.slot = c.slot /\ d.count = c.count
         /\ d.exclusive = c.exclusive /\ d.cleanup = c.cleanup /\ d.disposed = c.disposed
<1>1. CASE rev < c.snap
  BY <1>1 DEF Applied, SameHubs
<1>2. CASE ~(rev < c.snap)
  <2>. DEFINE d == Applied(c, rev)
  <2>1. d = [c EXCEPT !.snap = rev, !.attached = TRUE]
    BY <1>2 DEF Applied
  <2>. HIDE DEF d
  <2>2. /\ d \in Clients /\ SameHubs(c, d) /\ d.slot = c.slot /\ d.count = c.count
        /\ d.exclusive = c.exclusive /\ d.cleanup = c.cleanup /\ d.disposed = c.disposed
    BY <2>1, Zenon DEF Clients, SameHubs
  <2>. QED
    BY <2>2 DEF d
<1>. QED
  BY <1>1, <1>2, Zenon

LEMMA RepliedFields ==
  ASSUME NEW c \in Clients, NEW m, m.from \in Slots, m.ok \in BOOLEAN, m.rev \in Nat
  PROVE  LET d == Replied(c, m)
             outcome == IF m.ok THEN "ok" ELSE "error" IN
         /\ d \in Clients /\ d.conn = c.conn /\ d.up = c.up /\ d.attachment = c.attachment
         /\ d.detachment = c.detachment /\ d.count = c.count /\ d.exclusive = c.exclusive
         /\ d.reconciliation = (IF c.reconciliation = m.from THEN Nobody ELSE c.reconciliation)
         /\ \A s \in Slots : d.slot[s] = Told(c.slot[s], m.from, outcome)
<1>. DEFINE outcome == IF m.ok THEN "ok" ELSE "error"
            a == CASE m.ok /\ m.command = "detach" -> [c EXCEPT !.attached = FALSE]
                   [] m.ok /\ m.command # "detach" -> Applied(c, m.rev)
                   [] OTHER -> c
            mine == c.reconciliation = m.from
            b == [a EXCEPT !.reconciliation = IF mine THEN Nobody ELSE @,
                           !.cleanup = @ /\ ~(mine /\ m.ok)]
            rest == IF c.reconciliation = m.from THEN Nobody ELSE c.reconciliation
            kept == a.cleanup /\ ~(mine /\ m.ok)
            f == [s \in Slots |-> Told(b.slot[s], m.from, outcome)]
            d == Replied(c, m)
<1>1. /\ a \in Clients /\ SameHubs(c, a) /\ a.slot = c.slot /\ a.count = c.count /\ a.exclusive = c.exclusive
  <2>1. CASE m.ok /\ m.command = "detach"
    <3>1. a = [c EXCEPT !.attached = FALSE]
      BY <2>1
    <3>. HIDE DEF a
    <3>. QED
      BY <3>1, Zenon DEF Clients, SameHubs
  <2>2. CASE m.ok /\ m.command # "detach"
    <3>1. a = Applied(c, m.rev)
      BY <2>2
    <3>. HIDE DEF a
    <3>. QED
      BY <3>1, AppliedFields
  <2>3. CASE ~m.ok
    <3>1. a = c
      BY <2>3
    <3>. HIDE DEF a
    <3>. QED
      BY <3>1 DEF SameHubs
  <2>. QED
    BY <2>1, <2>2, <2>3
<1>. HIDE DEF a
<1>2. /\ b \in Clients /\ b.conn = c.conn /\ b.up = c.up /\ b.attachment = c.attachment
      /\ b.detachment = c.detachment /\ b.count = c.count /\ b.exclusive = c.exclusive /\ b.slot = c.slot
      /\ b.reconciliation = rest
  <2>1. rest \in Owner /\ kept \in BOOLEAN
    BY ClientTypes DEF Owner
  <2>2. a.reconciliation = c.reconciliation
    BY <1>1 DEF SameHubs
  <2>3. b = [a EXCEPT !.reconciliation = rest, !.cleanup = kept]
    BY <2>2
  <2>. HIDE DEF rest, kept, b
  <2>. QED
    BY <1>1, <2>1, <2>3, Zenon DEF Clients, SameHubs
<1>3. d = Settled(b, m.from, outcome)
  BY Zenon DEF Replied, a
<1>. HIDE DEF b
<1>4. outcome \in {"ok", "error"}
  OBVIOUS
<1>. HIDE DEF outcome
<1>5. f \in [Slots -> Calls]
  <2>1. \A s \in Slots : Told(b.slot[s], m.from, outcome) \in Calls
    BY <1>2, <1>4, ClientTypes, ToldFacts
  <2>. QED
    BY <2>1
<1>6. d = [b EXCEPT !.slot = f]
  BY <1>3, Zenon DEF Settled, Told
<1>. HIDE DEF f, d
<1>7. /\ d \in Clients /\ d.conn = c.conn /\ d.up = c.up /\ d.attachment = c.attachment
      /\ d.detachment = c.detachment /\ d.count = c.count /\ d.exclusive = c.exclusive
      /\ d.reconciliation = b.reconciliation /\ d.slot = f
  BY <1>2, <1>5, <1>6, ZenonT(30) DEF Clients
<1>8. \A s \in Slots : d.slot[s] = Told(c.slot[s], m.from, outcome)
  BY <1>2, <1>7, Zenon DEF f
<1>. QED
  BY <1>2, <1>7, <1>8, Zenon DEF d, outcome

LEMMA RepliedAnswerable ==
  ASSUME NEW c, NEW W, Answerable(c, W), NEW V, NEW m, m.from \in Slots, m.ok \in BOOLEAN, m.rev \in Nat,
         W \subseteq V \cup {m.from}
  PROVE  Answerable(Replied(c, m), V)
<1>. DEFINE outcome == IF m.ok THEN "ok" ELSE "error"
            d == Replied(c, m)
<1>0. c \in Clients /\ HubOK(c, W) /\ (\A t \in Slots : CallOK(c, W, t)) /\ (\A t \in Slots : c.slot[t] \in Calls)
  BY ClientTypes, Zenon DEF Answerable
<1>1. /\ d \in Clients /\ d.conn = c.conn /\ d.up = c.up /\ d.attachment = c.attachment
      /\ d.detachment = c.detachment
      /\ d.reconciliation = (IF c.reconciliation = m.from THEN Nobody ELSE c.reconciliation)
      /\ \A s \in Slots : d.slot[s] = Told(c.slot[s], m.from, outcome)
  BY <1>0, RepliedFields, Zenon
<1>. HIDE DEF d
<1>2. outcome \in {"ok", "error"} /\ m.from # Nobody
  BY ClientAssumption
<1>. HIDE DEF outcome
<1>3. \A o : o # m.from /\ Coming(c, W, o) => Coming(d, V, o)
  BY <1>1, Zenon DEF Coming, Sent
<1>4. d.reconciliation # Nobody => Coming(d, V, d.reconciliation)
  BY <1>0, <1>1, <1>3, Zenon DEF HubOK
<1>5. ASSUME NEW t \in Slots
      PROVE  /\ d.slot[t].at = c.slot[t].at /\ d.slot[t].on = c.slot[t].on
             /\ d.slot[t].got # "none" => d.slot[t].on # Nobody
             /\ d.slot[t].on # Nobody /\ d.slot[t].got = "none" => Coming(d, V, d.slot[t].on)
  <2>. DEFINE call == c.slot[t]
              told == Told(call, m.from, outcome)
  <2>1. call \in Calls /\ d.slot[t] = told
    BY <1>0, <1>1, Zenon
  <2>2. /\ told.at = call.at /\ told.on = call.on
        /\ told.got # call.got => call.on = m.from /\ call.got = "none" /\ told.got = outcome
        /\ call.on = m.from => told.got # "none"
    BY <2>1, <1>2, ToldFacts, SMTT(30)
  <2>3. /\ call.got # "none" => call.on # Nobody
        /\ call.on # Nobody /\ call.got = "none" => Coming(c, W, call.on)
    BY <1>0, Zenon DEF CallOK
  <2>. HIDE DEF told, call
  <2>4. /\ told.got # "none" => told.on # Nobody
        /\ told.on # Nobody /\ told.got = "none" => Coming(d, V, told.on)
    BY <1>2, <1>3, <2>2, <2>3, Zenon
  <2>5. told.at = c.slot[t].at /\ told.on = c.slot[t].on
    BY <2>2 DEF call
  <2>. QED
    BY <2>1, <2>4, <2>5, Zenon
<1>6. Answerable(d, V)
  BY <1>1, <1>4, <1>5, AnsweredAnswerable, SMTT(30)
<1>. QED
  BY <1>6 DEF d

-----------------------------------------------------------------------------
(* A lost connection.                                                      *)

\* What the rejection of the pending requests makes of a call.
Failed(call) ==
  IF call.on # Nobody /\ call.got = "none" THEN [call EXCEPT !.got = "error"] ELSE call

LEMMA FailedFacts ==
  ASSUME NEW call \in Calls
  PROVE  LET told == Failed(call) IN
         /\ told \in Calls /\ told.at = call.at /\ told.on = call.on /\ told.mode = call.mode
         /\ told.valid = call.valid
         /\ told.got # call.got => call.on # Nobody /\ told.got = "error"
         /\ call.on # Nobody => told.got # "none"
<1>1. CASE call.on # Nobody /\ call.got = "none"
  <2>. DEFINE told == Failed(call)
  <2>1. told = [call EXCEPT !.got = "error"]
    BY <1>1 DEF Failed
  <2>. HIDE DEF told
  <2>2. /\ told \in Calls /\ told.at = call.at /\ told.on = call.on /\ told.mode = call.mode
        /\ told.valid = call.valid /\ told.got = "error"
    BY <2>1 DEF Calls
  <2>3. told.got # "none"
    BY <2>2
  <2>4. /\ told.got # call.got => call.on # Nobody /\ told.got = "error"
        /\ call.on # Nobody => told.got # "none"
    BY <1>1, <2>2, <2>3, Zenon
  <2>. QED
    BY <2>2, <2>4 DEF told
<1>2. CASE ~(call.on # Nobody /\ call.got = "none")
  <2>1. Failed(call) = call
    BY <1>2, Zenon DEF Failed
  <2>. QED
    BY <1>2, <2>1
<1>. QED
  BY <1>1, <1>2, Zenon

LEMMA RejectedFields ==
  ASSUME NEW c \in Clients
  PROVE  LET d == RejectedPending(c) IN
         /\ d \in Clients /\ d.conn = c.conn /\ d.attachment = c.attachment /\ d.up = <<>>
         /\ d.detachment = c.detachment /\ d.count = c.count /\ d.exclusive = c.exclusive
         /\ d.reconciliation = Nobody /\ d.attached = c.attached /\ d.disposed = c.disposed
         /\ \A s \in Slots : d.slot[s] = Failed(c.slot[s])
<1>. DEFINE f == [s \in Slots |-> Failed(c.slot[s])]
            nothing == <<>>
            d == RejectedPending(c)
<1>0. nothing \in Seq(Requests)
  OBVIOUS
<1>1. f \in [Slots -> Calls]
  <2>1. \A s \in Slots : Failed(c.slot[s]) \in Calls
    BY ClientTypes, FailedFacts
  <2>. QED
    BY <2>1
<1>2. d = [c EXCEPT !.up = nothing, !.reconciliation = Nobody, !.slot = f]
  BY Zenon DEF RejectedPending, Failed
<1>. HIDE DEF f, d, nothing
<1>3. /\ d \in Clients /\ d.conn = c.conn /\ d.attachment = c.attachment /\ d.up = nothing
      /\ d.detachment = c.detachment /\ d.count = c.count /\ d.exclusive = c.exclusive
      /\ d.reconciliation = Nobody /\ d.attached = c.attached /\ d.disposed = c.disposed
      /\ d.slot = f
  BY <1>0, <1>1, <1>2, Zenon DEF Clients, Owner
<1>4. \A s \in Slots : d.slot[s] = Failed(c.slot[s])
  BY <1>3, Zenon DEF f
<1>. QED
  BY <1>3, <1>4, Zenon DEF d, nothing

LEMMA LostFields ==
  ASSUME NEW c \in Clients
  PROVE  LET d == Lost(c)
             h == AllInvalidated(c) IN
         /\ d \in Clients /\ d.conn = "disconnected" /\ d.attached = FALSE /\ d.up = <<>>
         /\ d.attachment = c.attachment /\ d.detachment = c.detachment /\ d.reconciliation = Nobody
         /\ d.disposed = c.disposed /\ d.count = 0 /\ d.exclusive = h.exclusive
         /\ \A s \in Slots : d.slot[s] = Failed(h.slot[s])
<1>. DEFINE d == Lost(c)
            h == AllInvalidated(c)
            x == [c EXCEPT !.conn = "disconnected", !.attached = FALSE]
            i == AllInvalidated(x)
            struck == [s \in Slots |-> Struck(c.slot[s])]
<1>1. /\ x \in Clients /\ x.slot = c.slot /\ x.count = c.count /\ x.exclusive = c.exclusive
      /\ x.conn = "disconnected" /\ x.attached = FALSE /\ x.attachment = c.attachment
      /\ x.detachment = c.detachment /\ x.disposed = c.disposed
  BY Zenon DEF Clients
<1>2. h.exclusive = (IF c.count > 0 THEN Nobody ELSE c.exclusive) /\ h.slot = (IF c.count > 0 THEN struck ELSE c.slot)
  BY AllInvalidatedFields, Zenon
<1>3. d = RejectedPending(i)
  BY DEF Lost
<1>. HIDE DEF x, h
<1>4. /\ i \in Clients /\ SameHubs(x, i) /\ i.disposed = x.disposed /\ i.attached = x.attached
      /\ i.count = 0 /\ i.exclusive = (IF x.count > 0 THEN Nobody ELSE x.exclusive)
      /\ i.slot = (IF x.count > 0 THEN [s \in Slots |-> Struck(x.slot[s])] ELSE x.slot)
  BY <1>1, AllInvalidatedFields, ZenonT(30)
<1>5. i.slot = h.slot /\ i.exclusive = h.exclusive
  <2>1. [s \in Slots |-> Struck(x.slot[s])] = struck
    BY <1>1
  <2>. HIDE DEF struck
  <2>2. i.slot = (IF c.count > 0 THEN struck ELSE c.slot) /\ i.exclusive = (IF c.count > 0 THEN Nobody ELSE c.exclusive)
    BY <1>1, <1>4, <2>1
  <2>. QED
    BY <1>2, <2>2
<1>. HIDE DEF i
<1>6. /\ d \in Clients /\ d.conn = i.conn /\ d.attachment = i.attachment /\ d.up = <<>>
      /\ d.detachment = i.detachment /\ d.count = i.count /\ d.exclusive = i.exclusive
      /\ d.reconciliation = Nobody /\ d.attached = i.attached /\ d.disposed = i.disposed
      /\ \A s \in Slots : d.slot[s] = Failed(i.slot[s])
  BY <1>3, <1>4, RejectedFields
<1>. HIDE DEF d
<1>7. /\ d \in Clients /\ d.conn = "disconnected" /\ d.attached = FALSE /\ d.up = <<>>
      /\ d.attachment = c.attachment /\ d.detachment = c.detachment /\ d.reconciliation = Nobody
      /\ d.disposed = c.disposed /\ d.count = 0 /\ d.exclusive = h.exclusive
      /\ \A s \in Slots : d.slot[s] = Failed(h.slot[s])
  BY <1>1, <1>4, <1>5, <1>6, Zenon DEF SameHubs
<1>. QED
  BY <1>7, Zenon DEF d, h

LEMMA LostAnswerable ==
  ASSUME NEW c, NEW W, Answerable(c, W), NEW V
  PROVE  Answerable(Lost(c), V)
<1>. DEFINE d == Lost(c)
            h == AllInvalidated(c)
<1>0. c \in Clients
  BY Zenon DEF Answerable
<1>1. /\ d \in Clients /\ d.attachment = c.attachment /\ d.detachment = c.detachment
      /\ d.reconciliation = Nobody
      /\ \A s \in Slots : d.slot[s] = Failed(h.slot[s])
  BY <1>0, LostFields, Zenon
<1>2. Answerable(h, W)
  BY AllInvalidatedAnswerable
<1>3. h.attachment = c.attachment /\ h.detachment = c.detachment
  BY <1>0, AllInvalidatedFields, ZenonT(30) DEF SameHubs
<1>. HIDE DEF d, h
<1>4. h \in Clients /\ (\A t \in Slots : CallOK(h, W, t)) /\ (\A t \in Slots : h.slot[t] \in Calls)
  BY <1>2, ClientTypes, Zenon DEF Answerable
<1>5. ASSUME NEW t \in Slots
      PROVE  /\ d.slot[t].at = h.slot[t].at /\ d.slot[t].on = h.slot[t].on
             /\ d.slot[t].got # "none" => d.slot[t].on # Nobody
             /\ d.slot[t].on # Nobody /\ d.slot[t].got = "none" => Coming(d, V, d.slot[t].on)
  <2>1. /\ Failed(h.slot[t]).at = h.slot[t].at /\ Failed(h.slot[t]).on = h.slot[t].on
        /\ Failed(h.slot[t]).got # h.slot[t].got => h.slot[t].on # Nobody
        /\ h.slot[t].on # Nobody => Failed(h.slot[t]).got # "none"
    BY <1>4, FailedFacts
  <2>2. h.slot[t].got # "none" => h.slot[t].on # Nobody
    BY <1>4, Zenon DEF CallOK
  <2>3. d.slot[t] = Failed(h.slot[t])
    BY <1>1
  <2>. QED
    BY <2>1, <2>2, <2>3, Zenon
<1>6. d.attachment = h.attachment /\ d.detachment = h.detachment
  BY <1>1, <1>3
<1>7. d.reconciliation # Nobody => Coming(d, V, d.reconciliation)
  BY <1>1
<1>8. Answerable(d, V)
  BY <1>1, <1>2, <1>5, <1>6, <1>7, AnsweredAnswerable
<1>. QED
  BY <1>8 DEF d

\* Without a connection nobody waits, so the connection may become anything.
LEMMA UnconnectedAnswerable ==
  ASSUME NEW c, NEW W, Answerable(c, W), c.conn # "connected", NEW d \in Clients, NEW V,
         d.slot = c.slot, d.attachment = c.attachment, d.detachment = c.detachment,
         d.reconciliation = c.reconciliation
  PROVE  Answerable(d, V)
<1>1. \A o : ~Coming(c, W, o)
  BY Zenon DEF Coming
<1>2. d.reconciliation = Nobody
  BY <1>1, Zenon DEF Answerable, HubOK
<1>3. \A t \in Slots :
           /\ d.slot[t].at = c.slot[t].at /\ d.slot[t].on = c.slot[t].on
           /\ d.slot[t].got # "none" => d.slot[t].on # Nobody
           /\ d.slot[t].on # Nobody /\ d.slot[t].got = "none" => Coming(d, V, d.slot[t].on)
  BY <1>1, Zenon DEF Answerable, CallOK
<1>. QED
  BY <1>2, <1>3, AnsweredAnswerable, Zenon

LEMMA DisposedFields ==
  ASSUME NEW c \in Clients
  PROVE  LET d == [AllInvalidated(Lost(c)) EXCEPT !.disposed = TRUE, !.snap = 0] IN
         /\ d \in Clients /\ SameHubs(Lost(c), d) /\ d.slot = Lost(c).slot
         /\ d.count = 0 /\ d.exclusive = Lost(c).exclusive /\ d.attached = FALSE
<1>. DEFINE l == Lost(c)
            i == AllInvalidated(l)
            d == [i EXCEPT !.disposed = TRUE, !.snap = 0]
<1>1. l \in Clients /\ l.count = 0 /\ l.attached = FALSE
  BY LostFields, Zenon
<1>. HIDE DEF l
<1>2. /\ i \in Clients /\ SameHubs(l, i) /\ i.attached = l.attached
      /\ i.count = 0 /\ i.exclusive = (IF l.count > 0 THEN Nobody ELSE l.exclusive)
      /\ i.slot = (IF l.count > 0 THEN [s \in Slots |-> Struck(l.slot[s])] ELSE l.slot)
  BY <1>1, AllInvalidatedFields, Zenon
<1>3. ~(l.count > 0)
  BY <1>1
<1>4. i.exclusive = l.exclusive /\ i.slot = l.slot
  BY <1>2, <1>3, Zenon
<1>. HIDE DEF i
<1>5. /\ d \in Clients /\ SameHubs(l, d) /\ d.slot = l.slot
      /\ d.count = 0 /\ d.exclusive = l.exclusive /\ d.attached = FALSE
  BY <1>1, <1>2, <1>4, ZenonT(30) DEF Clients, SameHubs
<1>. QED
  BY <1>5 DEF d, i, l

-----------------------------------------------------------------------------
(* Frames and requests on their way.                                       *)

LEMMA RangeTail ==
  ASSUME NEW S, NEW s \in Seq(S), s # <<>>
  PROVE  /\ Head(s) \in S /\ Head(s) \in Range(s) /\ Tail(s) \in Seq(S)
         /\ Range(s) \subseteq {Head(s)} \cup Range(Tail(s))
<1>1. Head(s) \in S /\ Head(s) = s[1] /\ Tail(s) \in Seq(S) /\ Len(s) \in Nat /\ Len(s) > 0
      /\ DOMAIN s = 1..Len(s) /\ DOMAIN Tail(s) = 1..(Len(s) - 1)
  OBVIOUS
<1>2. \A i \in DOMAIN Tail(s) : Tail(s)[i] = s[i + 1]
  OBVIOUS
<1>3. Head(s) \in Range(s)
  BY <1>1 DEF Range
<1>4. ASSUME NEW i \in DOMAIN s, i # 1 PROVE s[i] \in Range(Tail(s))
  <2>1. i - 1 \in DOMAIN Tail(s) /\ s[i] = Tail(s)[i - 1]
    BY <1>1, <1>2, <1>4
  <2>. QED
    BY <2>1 DEF Range
<1>5. Range(s) \subseteq {Head(s)} \cup Range(Tail(s))
  BY <1>1, <1>4, Zenon DEF Range
<1>. QED
  BY <1>1, <1>3, <1>5

LEMMA RangeConcat ==
  ASSUME NEW S, NEW s \in Seq(S), NEW t \in Seq(S)
  PROVE  s \o t \in Seq(S) /\ Range(s) \subseteq Range(s \o t) /\ Range(t) \subseteq Range(s \o t)
<1>. DEFINE u == s \o t
<1>1. /\ u \in Seq(S) /\ Len(u) = Len(s) + Len(t) /\ DOMAIN u = 1..Len(u)
      /\ DOMAIN s = 1..Len(s) /\ DOMAIN t = 1..Len(t) /\ Len(s) \in Nat /\ Len(t) \in Nat
      /\ (\A i \in 1..Len(s) : u[i] = s[i]) /\ (\A i \in 1..Len(t) : u[Len(s) + i] = t[i])
  OBVIOUS
<1>. HIDE DEF u
<1>2. \A i \in DOMAIN s : i \in DOMAIN u /\ u[i] = s[i]
  BY <1>1
<1>3. \A i \in DOMAIN t : Len(s) + i \in DOMAIN u /\ u[Len(s) + i] = t[i]
  BY <1>1
<1>4. Range(s) \subseteq Range(u) /\ Range(t) \subseteq Range(u)
  BY <1>2, <1>3, Zenon DEF Range
<1>. QED
  BY <1>1, <1>4 DEF u

\* The answers owed stay owed, but for that of one request.
LEMMA StillOwed ==
  ASSUME NEW o,
         \A r \in srv.attaching : r \in srv'.attaching \/ r.from \in Owed' \cup {o},
         \A r \in srv.answering : r \in srv'.answering \/ r.from \in Owed' \cup {o},
         \A m \in Range(down) : m.type = "response" => m \in Range(down') \/ m.from = o
  PROVE  Owed \subseteq Owed' \cup {o}
<1>1. /\ \A r \in srv'.attaching : r.from \in Owed'
      /\ \A r \in srv'.answering : r.from \in Owed'
      /\ \A m \in Range(down') : m.type = "response" => m.from \in Owed'
  BY Zenon DEF Owed
<1>2. ASSUME NEW x \in Owed PROVE x \in Owed' \cup {o}
  <2>1. \/ \E r \in srv.attaching : x = r.from
        \/ \E r \in srv.answering : x = r.from
        \/ \E m \in Range(down) : m.type = "response" /\ x = m.from
    BY <1>2, Zenon DEF Owed
  <2>. QED
    BY <1>1, <2>1, Zenon
<1>. QED
  BY <1>2

LEMMA Unmoved ==
  ASSUME Inv, UNCHANGED <<srv, down>>, Answerable(y', Owed)
  PROVE  Inv'
<1>1. Owed' = Owed
  BY Zenon DEF Owed
<1>2. Answerable(y', Owed') /\ y' \in Clients
  BY <1>1, Zenon DEF Answerable
<1>. QED
  BY <1>2, Zenon DEF Inv, TypeInv

-----------------------------------------------------------------------------
(* The steps of the client.                                                *)

LEMMA InvFacts ==
  ASSUME Inv
  PROVE  y \in Clients /\ srv \in Servers /\ down \in Seq(Frames) /\ Answerable(y, Owed)
BY Zenon DEF Inv, TypeInv

LEMMA StandsApart ==
  ASSUME Inv, NEW s \in Slots, y.slot[s].at \in {"free", "held"}
  PROVE  Apart(y, s)
<1>1. HubOK(y, Owed) /\ s # Nobody
  BY ClientAssumption, Zenon DEF Inv, Answerable
<1>2. y.slot[s].at # "attachment" /\ y.slot[s].at # "releasing"
  OBVIOUS
<1>3. /\ y.attachment # Nobody => y.slot[y.attachment].at = "attachment"
      /\ y.detachment # Nobody => y.slot[y.detachment].at = "releasing"
  BY <1>1, Zenon DEF HubOK
<1>. QED
  BY <1>1, <1>2, <1>3 DEF Apart

LEMMA AcquireInv ==
  ASSUME Inv, NEW s \in Slots, NEW mode \in Modes, AcquireSession(s, mode), Server
  PROVE  Inv'
<1>1. y.slot[s].at = "free" /\ y' = Acquired(Reserved(y, s, mode), s) /\ UNCHANGED <<srv, down>>
  BY Zenon DEF AcquireSession, Unused, Server
<1>2. Apart(y, s) /\ y \in Clients /\ Answerable(y, Owed)
  BY <1>1, StandsApart, InvFacts
<1>3. Answerable(Reserved(y, s, mode), Owed)
  BY <1>2, ReservedAnswerable
<1>4. SameHubs(y, Reserved(y, s, mode))
  BY <1>2, ReservedFields, Zenon
<1>5. Apart(Reserved(y, s, mode), s)
  BY <1>2, <1>4 DEF Apart, SameHubs
<1>6. Answerable(y', Owed)
  BY <1>1, <1>3, <1>5, AcquiredAnswerable, Zenon
<1>. QED
  BY <1>1, <1>6, Unmoved

LEMMA CreateInv ==
  ASSUME Inv, NEW s \in Slots, CreateSession(s), Server
  PROVE  Inv'
<1>1. y.slot[s].at = "free" /\ y' = Request(y, s, "creation", "create") /\ UNCHANGED <<srv, down>>
  BY Zenon DEF CreateSession, Unused, Server
<1>2. Apart(y, s) /\ y \in Clients /\ Answerable(y, Owed)
  BY <1>1, StandsApart, InvFacts
<1>3. "creation" \in Asking /\ "create" \in Commands
  BY Zenon DEF Asking, Waiting, Commands
<1>4. Answerable(y', Owed)
  BY <1>1, <1>2, <1>3, RequestAnswerable
<1>. QED
  BY <1>1, <1>4, Unmoved

LEMMA ReleaseInv ==
  ASSUME Inv, NEW s \in Slots, NEW r \in BOOLEAN, Release(s, r), Server
  PROVE  Inv'
<1>1. y.slot[s].at = "held" /\ y' = StartedRelease(y, s, r) /\ UNCHANGED <<srv, down>>
  BY Zenon DEF Release, IsActive, Server
<1>2. Apart(y, s) /\ y \in Clients /\ Answerable(y, Owed)
  BY <1>1, StandsApart, InvFacts
<1>3. Answerable(y', Owed)
  BY <1>1, <1>2, ReleaseAnswerable
<1>. QED
  BY <1>1, <1>3, Unmoved

LEMMA ContinueInv ==
  ASSUME Inv, NEW s \in Slots, Continue(s), Server
  PROVE  Inv'
<1>1. y.slot[s].got # "none" /\ y' = Continued(y, s) /\ UNCHANGED <<srv, down>>
  BY Zenon DEF Continue, Server
<1>2. Answerable(y', Owed)
  BY <1>1, InvFacts, ContinuedAnswerable
<1>. QED
  BY <1>1, <1>2, Unmoved

LEMMA ConnectInv ==
  ASSUME Inv, Connect \/ OpenTransport \/ Hello, Server
  PROVE  Inv'
<1>0. y \in Clients /\ Answerable(y, Owed)
  BY InvFacts
<1>1. /\ y.conn # "connected" /\ y' \in Clients /\ y'.slot = y.slot /\ y'.attachment = y.attachment
      /\ y'.detachment = y.detachment /\ y'.reconciliation = y.reconciliation
  <2>1. CASE Connect
    <3>1. y.conn = "disconnected" /\ y' = [y EXCEPT !.conn = "connecting", !.snap = 0, !.attached = FALSE]
      BY <2>1, Zenon DEF Connect
    <3>. QED
      BY <1>0, <3>1, Zenon DEF Clients
  <2>2. CASE OpenTransport
    <3>1. y.conn = "connecting" /\ y' = [y EXCEPT !.conn = "greeting"]
      BY <2>2, Zenon DEF OpenTransport
    <3>. QED
      BY <1>0, <3>1 DEF Clients
  <2>3. CASE Hello
    <3>1. y.conn = "greeting" /\ y' = [y EXCEPT !.conn = "connected"]
      BY <2>3, Zenon DEF Hello
    <3>. QED
      BY <1>0, <3>1 DEF Clients
  <2>. QED
    BY <2>1, <2>2, <2>3
<1>2. Answerable(y', Owed)
  BY <1>0, <1>1, UnconnectedAnswerable
<1>3. UNCHANGED <<srv, down>>
  BY Zenon DEF Server
<1>. QED
  BY <1>2, <1>3, Unmoved

LEMMA ForgetsTypes ==
  ASSUME Inv, ServerForgets, Answerable(y', Owed')
  PROVE  Inv'
<1>1. srv' \in Servers
  <2>1. srv \in Servers /\ srv' = [srv EXCEPT !.attached = FALSE, !.attaching = {}, !.answering = {}, !.failed = FALSE]
    BY InvFacts DEF ServerForgets
  <2>. QED
    BY <2>1, Zenon DEF Servers
<1>2. down' \in Seq(Frames)
  <2>1. down' = <<>>
    BY DEF ServerForgets
  <2>. QED
    BY <2>1
<1>3. y' \in Clients
  BY Zenon DEF Answerable
<1>. QED
  BY <1>1, <1>2, <1>3, Zenon DEF Inv, TypeInv

LEMMA LoseInv ==
  ASSUME Inv, LoseConnection
  PROVE  Inv'
<1>1. y' = Lost(y) /\ ServerForgets
  BY Zenon DEF LoseConnection, Disconnect
<1>2. Answerable(y', Owed')
  BY <1>1, InvFacts, LostAnswerable
<1>. QED
  BY <1>1, <1>2, ForgetsTypes

LEMMA FinishInv ==
  ASSUME Inv, Finish
  PROVE  Inv'
<1>1. y' = [AllInvalidated(Lost(y)) EXCEPT !.disposed = TRUE, !.snap = 0] /\ ServerForgets
  BY Zenon DEF Finish, Dispose
<1>2. Answerable(Lost(y), Owed')
  BY InvFacts, LostAnswerable
<1>3. y' \in Clients /\ SameHubs(Lost(y), y') /\ y'.slot = Lost(y).slot
  BY <1>1, InvFacts, DisposedFields, Zenon
<1>4. \A t \in Slots : SameCall(Lost(y).slot[t], y'.slot[t])
  BY <1>3, Zenon DEF SameCall
<1>5. Answerable(y', Owed')
  BY <1>2, <1>3, <1>4, Indifferent
<1>. QED
  BY <1>1, <1>5, ForgetsTypes

LEMMA DeliverInv ==
  ASSUME Inv, Deliver
  PROVE  Inv'
<1>. DEFINE m == Head(down)
<1>0. y \in Clients /\ srv \in Servers /\ down \in Seq(Frames) /\ Answerable(y, Owed)
  BY InvFacts
<1>1. down # <<>> /\ HandleMessage(m) /\ down' = Tail(down) /\ srv' = srv
  BY Zenon DEF Deliver
<1>2. m \in Frames /\ Tail(down) \in Seq(Frames) /\ Range(down) \subseteq {m} \cup Range(Tail(down))
  BY <1>0, <1>1, RangeTail
<1>3. y' = CASE m.type = "response" -> Replied(y, m)
             [] m.type = "session_snapshot" -> Applied(y, m.rev)
             [] m.type = "session_removed" -> [Invalidated(y) EXCEPT !.snap = 0, !.attached = FALSE]
  BY <1>1, Zenon DEF HandleMessage
<1>. HIDE DEF m
<1>4. /\ m.type \in {"response", "session_snapshot", "session_removed"}
      /\ m.type = "response" => m.from \in Slots /\ m.ok \in BOOLEAN /\ m.rev \in Nat
      /\ m.type = "session_snapshot" => m.rev \in Nat
  BY <1>2 DEF Frames
<1>5. \A f \in Range(down) : f \in Range(down') \/ f = m
  BY <1>1, <1>2, Zenon
<1>6. Answerable(y', Owed')
  <2>1. CASE m.type = "response"
    <3>1. y' = Replied(y, m)
      BY <1>3, <2>1
    <3>2. Owed \subseteq Owed' \cup {m.from}
      BY <1>1, <1>5, StillOwed, Zenon
    <3>. QED
      BY <1>0, <1>4, <2>1, <3>1, <3>2, RepliedAnswerable
  <2>2. ASSUME m.type # "response" PROVE Owed \subseteq Owed'
    <3>1. \A f \in Range(down) : f.type = "response" => f \in Range(down')
      BY <1>5, <2>2
    <3>. QED
      BY <1>1, <3>1, Zenon DEF Owed
  <2>3. CASE m.type = "session_snapshot"
    <3>1. y' = Applied(y, m.rev) /\ Owed \subseteq Owed'
      BY <1>3, <2>2, <2>3
    <3>2. y' \in Clients /\ SameHubs(y, y') /\ y'.slot = y.slot
      BY <1>0, <1>4, <2>3, <3>1, AppliedFields, Zenon
    <3>3. Owed \cup Sent(y) \subseteq Owed' \cup Sent(y')
      BY <3>1, <3>2, Zenon DEF Sent, SameHubs
    <3>. QED
      BY <1>0, <3>2, <3>3, MovedAnswerable DEF SameHubs
  <2>4. CASE m.type = "session_removed"
    <3>. DEFINE i == Invalidated(y)
    <3>1. y' = [i EXCEPT !.snap = 0, !.attached = FALSE] /\ Owed \subseteq Owed'
      BY <1>3, <2>2, <2>4
    <3>2. Answerable(i, Owed)
      BY <1>0, AllInvalidatedAnswerable
    <3>. HIDE DEF i
    <3>3. i \in Clients
      BY <3>2, Zenon DEF Answerable
    <3>4. y' \in Clients /\ SameHubs(i, y') /\ y'.slot = i.slot
      BY <3>1, <3>3, Zenon DEF Clients, SameHubs
    <3>5. Owed \cup Sent(i) \subseteq Owed' \cup Sent(y')
      BY <3>1, <3>4, Zenon DEF Sent, SameHubs
    <3>. QED
      BY <3>2, <3>4, <3>5, MovedAnswerable DEF SameHubs
  <2>. QED
    BY <1>4, <2>1, <2>3, <2>4
<1>7. y' \in Clients
  BY <1>6, Zenon DEF Answerable
<1>. QED
  BY <1>0, <1>1, <1>2, <1>6, <1>7, Zenon DEF Inv, TypeInv

-----------------------------------------------------------------------------
(* The steps of the server.                                                *)

LEMMA ReceivedFacts ==
  ASSUME Inv, Received
  PROVE  /\ y' \in Clients /\ y'.conn = y.conn /\ y'.slot = y.slot /\ y'.attachment = y.attachment
         /\ y'.detachment = y.detachment /\ y'.reconciliation = y.reconciliation
         /\ y'.attached = y.attached /\ y'.count = y.count /\ y'.exclusive = y.exclusive
         /\ Next1 \in Requests /\ Sent(y) \subseteq Sent(y') \cup {Next1.from}
<1>0. y \in Clients /\ y.up # <<>> /\ y' = [y EXCEPT !.up = Tail(@)] /\ y.up \in Seq(Requests)
  BY InvFacts, ClientTypes DEF Received
<1>1. Next1 \in Requests /\ Tail(y.up) \in Seq(Requests) /\ Range(y.up) \subseteq {Next1} \cup Range(Tail(y.up))
  BY <1>0, RangeTail DEF Next1
<1>2. /\ y' \in Clients /\ y'.conn = y.conn /\ y'.slot = y.slot /\ y'.attachment = y.attachment
      /\ y'.detachment = y.detachment /\ y'.reconciliation = y.reconciliation /\ y'.up = Tail(y.up)
      /\ y'.attached = y.attached /\ y'.count = y.count /\ y'.exclusive = y.exclusive
  <2>. DEFINE rest == Tail(y.up)
  <2>1. rest \in Seq(Requests) /\ y' = [y EXCEPT !.up = rest]
    BY <1>0, <1>1
  <2>. HIDE DEF rest
  <2>2. /\ y' \in Clients /\ y'.conn = y.conn /\ y'.slot = y.slot /\ y'.attachment = y.attachment
        /\ y'.detachment = y.detachment /\ y'.reconciliation = y.reconciliation /\ y'.up = rest
        /\ y'.attached = y.attached /\ y'.count = y.count /\ y'.exclusive = y.exclusive
    BY <1>0, <2>1, Zenon DEF Clients
  <2>. QED
    BY <2>2 DEF rest
<1>3. Sent(y) \subseteq Sent(y') \cup {Next1.from}
  BY <1>1, <1>2, Zenon DEF Sent
<1>. QED
  BY <1>1, <1>2, <1>3, Zenon

LEMMA ReceiveInv ==
  ASSUME Inv, Received, srv' \in Servers, down' = down, Next1.from \in Owed',
         srv.attaching \subseteq srv'.attaching, srv.answering \subseteq srv'.answering
  PROVE  Inv'
<1>0. y \in Clients /\ down \in Seq(Frames) /\ Answerable(y, Owed)
  BY InvFacts
<1>1. /\ y' \in Clients /\ y'.conn = y.conn /\ y'.slot = y.slot /\ y'.attachment = y.attachment
      /\ y'.detachment = y.detachment /\ y'.reconciliation = y.reconciliation
      /\ Sent(y) \subseteq Sent(y') \cup {Next1.from}
  BY ReceivedFacts, Zenon
<1>2. Owed \subseteq Owed'
  BY Zenon DEF Owed
<1>3. Owed \cup Sent(y) \subseteq Owed' \cup Sent(y')
  BY <1>1, <1>2, Zenon
<1>4. Answerable(y', Owed')
  BY <1>0, <1>1, <1>3, MovedAnswerable
<1>. QED
  BY <1>0, <1>1, <1>4, Zenon DEF Inv, TypeInv

LEMMA ReceiveAttachInv ==
  ASSUME Inv, ReceiveAttach
  PROVE  Inv'
<1>0. srv \in Servers /\ Next1 \in Requests /\ Received /\ down' = down
  BY InvFacts, ReceivedFacts DEF ReceiveAttach
<1>. DEFINE S == srv.attaching \cup {Next1}
<1>1. srv' = [srv EXCEPT !.attaching = S]
  BY DEF ReceiveAttach
<1>2. S \in SUBSET Requests /\ srv.attaching \subseteq S /\ Next1 \in S
  BY <1>0 DEF Servers
<1>. HIDE DEF S
<1>3. srv' \in Servers /\ srv'.attaching = S /\ srv'.answering = srv.answering
  BY <1>0, <1>1, <1>2 DEF Servers
<1>4. Next1.from \in Owed'
  BY <1>2, <1>3, Zenon DEF Owed
<1>. QED
  BY <1>0, <1>2, <1>3, <1>4, ReceiveInv

LEMMA ReceiveDetachInv ==
  ASSUME Inv, ReceiveDetach
  PROVE  Inv'
<1>0. srv \in Servers /\ Next1 \in Requests /\ Received /\ down' = down
  BY InvFacts, ReceivedFacts DEF ReceiveDetach
<1>. DEFINE a == [from |-> Next1.from, was |-> srv.attached]
            S == srv.answering \cup {a}
<1>1. srv' = [srv EXCEPT !.attached = FALSE, !.answering = S]
  BY DEF ReceiveDetach
<1>2. a \in [from : Slots, was : BOOLEAN] /\ a.from = Next1.from
  BY <1>0 DEF Servers, Requests
<1>3. S \in SUBSET [from : Slots, was : BOOLEAN] /\ srv.answering \subseteq S /\ a \in S
  BY <1>0, <1>2 DEF Servers
<1>. HIDE DEF S, a
<1>4. srv' \in Servers /\ srv'.answering = S /\ srv'.attaching = srv.attaching
  BY <1>0, <1>1, <1>3, Zenon DEF Servers
<1>5. Next1.from \in Owed'
  BY <1>2, <1>3, <1>4, Zenon DEF Owed
<1>. QED
  BY <1>0, <1>3, <1>4, <1>5, ReceiveInv

\* A step of the server alone that forgets no request without answering it.
LEMMA ServerInv ==
  ASSUME Inv, y' = y, srv' \in Servers, NEW ms \in Seq(Frames), down' = down \o ms, NEW o,
         \A r \in srv.attaching : r \in srv'.attaching \/ r.from = o,
         \A r \in srv.answering : r \in srv'.answering \/ r.from = o,
         \/ srv.attaching \subseteq srv'.attaching /\ srv.answering \subseteq srv'.answering
         \/ \E m \in Range(ms) : m.type = "response" /\ m.from = o
  PROVE  Inv'
<1>0. y \in Clients /\ down \in Seq(Frames) /\ Answerable(y, Owed)
  BY InvFacts, Zenon
<1>1. down' \in Seq(Frames) /\ Range(down) \subseteq Range(down') /\ Range(ms) \subseteq Range(down')
  BY <1>0, RangeConcat
<1>2. Owed \subseteq Owed'
  <2>1. CASE srv.attaching \subseteq srv'.attaching /\ srv.answering \subseteq srv'.answering
    BY <1>1, <2>1, Zenon DEF Owed
  <2>2. CASE \E m \in Range(ms) : m.type = "response" /\ m.from = o
    <3>1. o \in Owed'
      BY <1>1, <2>2, Zenon DEF Owed
    <3>2. Owed \subseteq Owed' \cup {o}
      BY <1>1, StillOwed, Zenon
    <3>. QED
      BY <3>1, <3>2
  <2>. QED
    BY <2>1, <2>2
<1>3. Owed \cup Sent(y) \subseteq Owed' \cup Sent(y')
  BY <1>2, Zenon
<1>4. Answerable(y', Owed')
  BY <1>0, <1>3, MovedAnswerable
<1>. QED
  BY <1>0, <1>1, <1>4, Zenon DEF Inv, TypeInv

LEMMA FrameFacts ==
  /\ \A from \in Slots, command \in Commands, ok \in BOOLEAN, rev \in Nat :
       [type |-> "response", from |-> from, command |-> command, ok |-> ok, rev |-> rev] \in Frames
  /\ \A rev \in Nat : [type |-> "session_snapshot", rev |-> rev] \in Frames
  /\ [type |-> "session_removed"] \in Frames
BY Zenon DEF Frames

LEMMA OneFrame ==
  ASSUME NEW f \in Frames
  PROVE  <<f>> \in Seq(Frames) /\ f \in Range(<<f>>)
<1>1. <<f>> \in Seq(Frames) /\ 1 \in DOMAIN <<f>> /\ <<f>>[1] = f
  OBVIOUS
<1>. QED
  BY <1>1, Zenon DEF Range

LEMMA TwoFrames ==
  ASSUME NEW f \in Frames, NEW g \in Frames
  PROVE  <<f, g>> \in Seq(Frames) /\ g \in Range(<<f, g>>)
<1>1. <<f, g>> \in Seq(Frames) /\ 2 \in DOMAIN <<f, g>> /\ <<f, g>>[2] = g
  OBVIOUS
<1>. QED
  BY <1>1, Zenon DEF Range

LEMMA CommitAttachInv ==
  ASSUME Inv, NEW r \in srv.attaching, NEW anew \in BOOLEAN, CommitAttach(r, anew)
  PROVE  Inv'
<1>. DEFINE rev == IF anew THEN 1 ELSE srv.rev
            left == IF anew THEN {} ELSE srv.publishing
            rest == srv.attaching \ {r}
            f == [type |-> "session_snapshot", rev |-> rev]
            g == [type |-> "response", from |-> r.from, command |-> r.command, ok |-> TRUE, rev |-> rev]
            ms == <<f, g>>
<1>0. srv \in Servers
  BY InvFacts
<1>1. r \in Requests /\ r.from \in Slots /\ r.command \in Commands /\ srv.rev \in Nat
  BY <1>0 DEF Servers, Requests
<1>2. rev \in Nat /\ left \in SUBSET Nat /\ rest \in SUBSET Requests
  BY <1>0 DEF Servers
<1>3. /\ srv' = [srv EXCEPT !.exists = TRUE, !.attached = TRUE, !.rev = rev, !.publishing = left,
                            !.attaching = rest, !.failed = FALSE]
      /\ down' = down \o ms /\ y' = y
  BY DEF CommitAttach, Send, clientVars
<1>4. f \in Frames /\ g \in Frames /\ g.type = "response" /\ g.from = r.from
  BY <1>1, <1>2, FrameFacts, ZenonT(30)
<1>5. \A x \in srv.attaching : x \in rest \/ x.from = r.from
  OBVIOUS
<1>. HIDE DEF f, g, rev, left, rest
<1>6. ms \in Seq(Frames) /\ g \in Range(ms)
  BY <1>4, TwoFrames
<1>7. srv' \in Servers /\ srv'.attaching = rest /\ srv'.answering = srv.answering
  BY <1>0, <1>2, <1>3, ZenonT(30) DEF Servers
<1>. HIDE DEF ms
<1>8. \E m \in Range(ms) : m.type = "response" /\ m.from = r.from
  BY <1>4, <1>6
<1>. QED
  BY <1>3, <1>5, <1>6, <1>7, <1>8, ServerInv, ZenonT(30)

LEMMA RefuseAttachInv ==
  ASSUME Inv, NEW r \in srv.attaching, RefuseAttach(r)
  PROVE  Inv'
<1>. DEFINE rest == srv.attaching \ {r}
            g == [type |-> "response", from |-> r.from, command |-> r.command, ok |-> FALSE, rev |-> srv.rev]
            ms == <<g>>
<1>0. srv \in Servers
  BY InvFacts
<1>1. r.from \in Slots /\ r.command \in Commands /\ srv.rev \in Nat /\ rest \in SUBSET Requests
  BY <1>0 DEF Servers, Requests
<1>2. srv' = [srv EXCEPT !.attaching = rest] /\ down' = down \o ms /\ y' = y
  BY DEF RefuseAttach, Send, Response, clientVars
<1>3. g \in Frames /\ g.type = "response" /\ g.from = r.from
  BY <1>1, FrameFacts, Zenon
<1>4. \A x \in srv.attaching : x \in rest \/ x.from = r.from
  OBVIOUS
<1>. HIDE DEF g, rest
<1>5. ms \in Seq(Frames) /\ g \in Range(ms)
  BY <1>3, OneFrame
<1>6. srv' \in Servers /\ srv'.attaching = rest /\ srv'.answering = srv.answering
  BY <1>0, <1>1, <1>2, ZenonT(30) DEF Servers
<1>. HIDE DEF ms
<1>7. \E m \in Range(ms) : m.type = "response" /\ m.from = r.from
  BY <1>3, <1>5
<1>. QED
  BY <1>2, <1>4, <1>5, <1>6, <1>7, ServerInv, ZenonT(30)

LEMMA AnswerInv ==
  ASSUME Inv, NEW r \in srv.answering, AnswerDetach(r) \/ FailDetach(r)
  PROVE  Inv'
<1>1. PICK ok \in BOOLEAN :
        /\ srv' = [srv EXCEPT !.answering = srv.answering \ {r}, !.failed = ~ok] /\ y' = y
        /\ down' = down \o <<[type |-> "response", from |-> r.from, command |-> "detach", ok |-> ok,
                              rev |-> srv.rev]>>
  <2>1. CASE AnswerDetach(r)
    <3>. WITNESS TRUE \in BOOLEAN
    <3>. QED
      BY <2>1, Zenon DEF AnswerDetach, Send, Response, clientVars
  <2>2. CASE FailDetach(r)
    <3>. WITNESS FALSE \in BOOLEAN
    <3>. QED
      BY <2>2, Zenon DEF FailDetach, Send, Response, clientVars
  <2>. QED
    BY <2>1, <2>2, Zenon
<1>. DEFINE rest == srv.answering \ {r}
            failed == ~ok
            g == [type |-> "response", from |-> r.from, command |-> "detach", ok |-> ok, rev |-> srv.rev]
            ms == <<g>>
<1>2. srv \in Servers
  BY InvFacts
<1>3. /\ r.from \in Slots /\ srv.rev \in Nat /\ rest \in SUBSET [from : Slots, was : BOOLEAN]
      /\ "detach" \in Commands /\ failed \in BOOLEAN
  BY <1>2 DEF Servers, Commands
<1>4. srv' = [srv EXCEPT !.answering = rest, !.failed = failed] /\ down' = down \o ms /\ y' = y
  BY <1>1
<1>5. g \in Frames /\ g.type = "response" /\ g.from = r.from
  BY <1>3, FrameFacts, Zenon
<1>6. \A x \in srv.answering : x \in rest \/ x.from = r.from
  OBVIOUS
<1>. HIDE DEF g, rest, failed
<1>7. ms \in Seq(Frames) /\ g \in Range(ms)
  BY <1>5, OneFrame
<1>8. srv' \in Servers /\ srv'.answering = rest /\ srv'.attaching = srv.attaching
  BY <1>2, <1>3, <1>4, ZenonT(30) DEF Servers
<1>. HIDE DEF ms
<1>9. \E m \in Range(ms) : m.type = "response" /\ m.from = r.from
  BY <1>5, <1>7
<1>. QED
  BY <1>4, <1>6, <1>7, <1>8, <1>9, ServerInv, ZenonT(30)

\* A step of the server alone that answers no request.
LEMMA QuietInv ==
  ASSUME Inv, y' = y, srv' \in Servers, NEW ms \in Seq(Frames), down' = down \o ms,
         srv'.attaching = srv.attaching, srv'.answering = srv.answering
  PROVE  Inv'
BY ServerInv, ZenonT(30)

LEMMA EventInv ==
  ASSUME Inv, SessionChanges \/ RemoveSession \/ \E rev \in srv.publishing : PublishSnapshot(rev)
  PROVE  Inv'
<1>. DEFINE none == <<>>
<1>0. srv \in Servers /\ down \in Seq(Frames) /\ none \in Seq(Frames) /\ down \o none = down
  BY InvFacts
<1>1. CASE SessionChanges
  <2>. DEFINE S == srv.publishing \cup {srv.rev + 1}
              n == srv.rev + 1
  <2>1. srv' = [srv EXCEPT !.rev = n, !.publishing = S] /\ y' = y /\ down' = down
    BY <1>1 DEF SessionChanges, clientVars
  <2>2. S \in SUBSET Nat /\ n \in Nat
    BY <1>0 DEF Servers
  <2>. HIDE DEF S, n
  <2>3. srv' \in Servers /\ srv'.attaching = srv.attaching /\ srv'.answering = srv.answering
    BY <1>0, <2>1, <2>2, ZenonT(30) DEF Servers
  <2>. HIDE DEF none
  <2>4. down' = down \o none
    BY <1>0, <2>1
  <2>. QED
    BY <1>0, <2>1, <2>3, <2>4, QuietInv
<1>2. CASE RemoveSession
  <2>. DEFINE f == [type |-> "session_removed"]
              ms == <<f>>
  <2>1. srv' = [srv EXCEPT !.attached = FALSE] /\ y' = y /\ down' = down \o ms
    BY <1>2 DEF RemoveSession, clientVars, Send
  <2>2. f \in Frames
    BY FrameFacts, Zenon
  <2>. HIDE DEF f
  <2>3. ms \in Seq(Frames)
    BY <2>2, OneFrame
  <2>. HIDE DEF ms
  <2>4. srv' \in Servers /\ srv'.attaching = srv.attaching /\ srv'.answering = srv.answering
    BY <1>0, <2>1, Zenon DEF Servers
  <2>. QED
    BY <2>1, <2>3, <2>4, QuietInv
<1>3. ASSUME NEW rev \in srv.publishing, PublishSnapshot(rev) PROVE Inv'
  <2>. DEFINE f == [type |-> "session_snapshot", rev |-> rev]
              ms == IF srv.attached THEN <<f>> ELSE none
              S == srv.publishing \ {rev}
  <2>1. srv' = [srv EXCEPT !.publishing = S] /\ y' = y /\ down' = down \o ms
    BY <1>0, <1>3 DEF PublishSnapshot, clientVars, Send
  <2>2. f \in Frames /\ S \in SUBSET Nat
    BY <1>0, FrameFacts DEF Servers
  <2>. HIDE DEF f, none, S
  <2>3. ms \in Seq(Frames)
    BY <1>0, <2>2, OneFrame
  <2>. HIDE DEF ms
  <2>4. srv' \in Servers /\ srv'.attaching = srv.attaching /\ srv'.answering = srv.answering
    BY <1>0, <2>1, <2>2, ZenonT(30) DEF Servers
  <2>. QED
    BY <2>1, <2>3, <2>4, QuietInv
<1>. QED
  BY <1>1, <1>2, <1>3

-----------------------------------------------------------------------------
(* Every call is answered.                                                 *)

LEMMA InitFacts ==
  ASSUME LinkInit
  PROVE  /\ y \in Clients /\ srv \in Servers /\ down \in Seq(Frames)
         /\ y.conn = "disconnected" /\ y.attached = FALSE /\ y.count = 0 /\ y.exclusive = Nobody
         /\ y.attachment = Nobody /\ y.detachment = Nobody /\ y.reconciliation = Nobody
         /\ \A s \in Slots : y.slot[s] = Free
<1>. DEFINE none == <<>>
            slots == [s \in Slots |-> Free]
<1>1. none \in Seq(Requests) /\ none \in Seq(Frames) /\ slots \in [Slots -> Calls]
  BY FreeFacts
<1>2. /\ y = [conn |-> "disconnected", disposed |-> FALSE, up |-> none,
          attached |-> FALSE, snap |-> 0, previous |-> 0,
          count |-> 0, exclusive |-> Nobody,
          cleanup |-> FALSE, attachment |-> Nobody, detachment |-> Nobody,
          reconciliation |-> Nobody, slot |-> slots]
      /\ down = none
  BY Zenon DEF LinkInit, ClientInit
<1>3. srv \in Servers
  BY DEF LinkInit, Servers
<1>4. \A s \in Slots : slots[s] = Free
  OBVIOUS
<1>. HIDE DEF none, slots
<1>5. /\ y \in Clients /\ y.slot = slots /\ y.conn = "disconnected" /\ y.attached = FALSE
      /\ y.count = 0 /\ y.exclusive = Nobody
      /\ y.attachment = Nobody /\ y.detachment = Nobody /\ y.reconciliation = Nobody
  BY <1>1, <1>2, Zenon DEF Clients, Owner
<1>. QED
  BY <1>1, <1>2, <1>3, <1>4, <1>5, Zenon

LEMMA InitInv ==
  ASSUME LinkInit
  PROVE  Inv
<1>1. ASSUME NEW s \in Slots PROVE CallOK(y, Owed, s)
  <2>1. y.slot[s] = Free
    BY InitFacts, Zenon
  <2>2. Free.at \notin Asking
    BY FreeFacts, Zenon DEF Asking, Waiting
  <2>. QED
    BY <2>1, <2>2, FreeFacts, Zenon DEF CallOK
<1>2. HubOK(y, Owed)
  BY InitFacts, Zenon DEF HubOK
<1>. QED
  BY <1>1, <1>2, InitFacts, Zenon DEF Inv, TypeInv, Answerable

LEMMA NextInv ==
  ASSUME Inv, [LinkNext]_linkVars
  PROVE  Inv'
<1>1. CASE UNCHANGED linkVars
  <2>1. y' = y /\ UNCHANGED <<srv, down>>
    BY <1>1, Zenon DEF linkVars, clientVars
  <2>2. Answerable(y', Owed)
    BY <2>1, InvFacts
  <2>. QED
    BY <2>1, <2>2, Unmoved
<1>2. ASSUME NEW s \in Slots, NEW mode \in Modes, AcquireSession(s, mode), Server PROVE Inv'
  BY <1>2, AcquireInv
<1>3. ASSUME NEW s \in Slots, CreateSession(s), Server PROVE Inv'
  BY <1>3, CreateInv
<1>4. ASSUME NEW s \in Slots, NEW r \in BOOLEAN, Release(s, r), Server PROVE Inv'
  BY <1>4, ReleaseInv
<1>5. ASSUME NEW s \in Slots, Continue(s), Server PROVE Inv'
  BY <1>5, ContinueInv
<1>6. ASSUME Connect \/ OpenTransport \/ Hello, Server PROVE Inv'
  BY <1>6, ConnectInv
<1>7. CASE LoseConnection \/ Finish \/ Deliver \/ ReceiveAttach \/ ReceiveDetach
  BY <1>7, LoseInv, FinishInv, DeliverInv, ReceiveAttachInv, ReceiveDetachInv
<1>8. ASSUME NEW r \in srv.attaching, NEW anew \in BOOLEAN, CommitAttach(r, anew) PROVE Inv'
  BY <1>8, CommitAttachInv
<1>9. ASSUME NEW r \in srv.answering, AnswerDetach(r) \/ FailDetach(r) PROVE Inv'
  BY <1>9, AnswerInv
<1>10. CASE SessionChanges \/ RemoveSession \/ \E rev \in srv.publishing : PublishSnapshot(rev)
  BY <1>10, EventInv
<1>11. ASSUME NEW r \in srv.attaching, RefuseAttach(r) PROVE Inv'
  BY <1>11, RefuseAttachInv
<1>. QED
  BY <1>1, <1>2, <1>3, <1>4, <1>5, <1>6, <1>7, <1>8, <1>9, <1>10, <1>11, Zenon DEF LinkNext

\* The client's promises are kept by calls that are under way, and each call
\* under way has its outcome or a request that is still to be answered, for any
\* number of calls, connections, failures and removals.
THEOREM LinkInvariant == LinkSpec => []Inv
<1>1. LinkInit => Inv
  BY InitInv
<1>2. Inv /\ [LinkNext]_linkVars => Inv'
  BY NextInv
<1>. QED
  BY <1>1, <1>2, PTL DEF LinkSpec

\* No call of acquireSession, createSession or a lease's detach is left hanging:
\* whoever waits has a request under way on a connection that is up.
THEOREM EveryCallIsAnswered == LinkSpec => []NobodyWaitsInVain
<1>1. Inv => NobodyWaitsInVain
  <2>. SUFFICES ASSUME Inv, NEW s \in Slots, y.slot[s].at \in Asking, y.slot[s].got = "none"
                PROVE  LET o == y.slot[s].on
                       IN /\ Connected
                          /\ \/ \E r \in Range(y.up) \cup srv.attaching \cup srv.answering : r.from = o
                             \/ \E m \in Range(down) : m.type = "response" /\ m.from = o
    BY Zenon DEF NobodyWaitsInVain, Asking
  <2>. DEFINE o == y.slot[s].on
  <2>1. Coming(y, Owed, o)
    BY Zenon DEF Inv, Answerable, CallOK
  <2>. QED
    BY <2>1, Zenon DEF Coming, Sent, Owed, Connected
<1>. QED
  BY <1>1, LinkInvariant, PTL

-----------------------------------------------------------------------------
(* A lease that goes on.                                                   *)

\* A call that has a lease, and one that lost it with the connection.
Leased(call) == \/ call.at \in {"held", "detachment", "reconciliation", "attachment"}
                \/ call.at = "releasing" /\ call.valid
Fallen(call) == /\ call.at # "held" /\ call.got # "ok"
                /\ call.at = "releasing" => ~call.valid

\* d differs from c in the call of s, which goes on with its lease.
Goes(c, d, s) ==
  /\ d \in Clients /\ d.conn = c.conn /\ d.attached = c.attached /\ SameLeases(c, d)
  /\ \A t \in Slots \ {s} : d.slot[t] = c.slot[t]
  /\ d.slot[s].mode = c.slot[s].mode /\ d.slot[s].valid = c.slot[s].valid
  /\ c.slot[s].valid => Leased(d.slot[s])
  /\ c.conn # "connected" /\ ~c.attached /\ (\A t \in Slots : c.slot[t].got # "ok") => Fallen(d.slot[s])

LEMMA PlacedGoes ==
  ASSUME NEW c \in Clients, NEW d \in Clients, NEW s \in Slots, d.conn = c.conn, d.attached = c.attached,
         SameLeases(c, d), NEW what \in Asking \ {"creation"}, NEW owner \in Slots,
         NEW outcome \in {"none", "ok", "error"}, Only(c, d, s, Placed(c.slot[s], what, owner, outcome)),
         c.conn # "connected" /\ ~c.attached /\ (\A t \in Slots : c.slot[t].got # "ok")
           => outcome # "ok" /\ what # "releasing"
  PROVE  Goes(c, d, s)
<1>. DEFINE p == Placed(c.slot[s], what, owner, outcome)
<1>1. /\ p \in Calls /\ p.at = what /\ p.on = owner /\ p.got = outcome
      /\ p.mode = c.slot[s].mode /\ p.valid = c.slot[s].valid
  BY PlacedCall, SMTT(30)
<1>. HIDE DEF p
<1>2. d.slot[s] = p /\ \A t \in Slots \ {s} : d.slot[t] = c.slot[t]
  BY <1>1, OnlyFacts, SMTT(30) DEF p
<1>3. what \in {"detachment", "reconciliation", "attachment", "releasing"} /\ what # "held"
  BY Zenon DEF Asking, Waiting
<1>4. c.slot[s].valid => Leased(p)
  BY <1>1, <1>3, ZenonT(30) DEF Leased
<1>5. outcome # "ok" /\ what # "releasing" => Fallen(p)
  BY <1>1, <1>3, Zenon DEF Fallen
<1>. QED
  BY <1>1, <1>2, <1>4, <1>5, Zenon DEF Goes

LEMMA CreatedGoes ==
  ASSUME NEW c \in Clients, NEW s \in Slots, c.conn = "connected" \/ c.attached \/ c.slot[s].got = "ok"
  PROVE  Goes(c, CreatedLease(c, s), s)
<1>. DEFINE p == Placed(c.slot[s], "held", Nobody, "none")
            d == CreatedLease(c, s)
<1>1. /\ p \in Calls /\ p.at = "held" /\ p.mode = c.slot[s].mode /\ p.valid = c.slot[s].valid
  BY PlacedFacts, ClientTypes, SMTT(30) DEF Owner
<1>2. /\ d \in Clients /\ SameHubs(c, d) /\ SameRest(c, d) /\ SameLeases(c, d) /\ Only(c, d, s, p)
  BY CreatedFields, Zenon
<1>. HIDE DEF p, d
<1>3. d.slot[s] = p /\ (\A t \in Slots \ {s} : d.slot[t] = c.slot[t]) /\ d.conn = c.conn /\ d.attached = c.attached
  BY <1>1, <1>2, OnlyFacts, SMTT(30) DEF SameHubs, SameRest
<1>4. Leased(p)
  BY <1>1 DEF Leased
<1>5. Goes(c, d, s)
  BY <1>1, <1>2, <1>3, <1>4, Zenon DEF Goes
<1>. QED
  BY <1>5 DEF d

LEMMA RequestGoes ==
  ASSUME NEW c \in Clients, NEW s \in Slots, NEW what \in Asking \ {"creation"}, NEW command \in Commands,
         c.conn = "connected" \/ what # "releasing"
  PROVE  Goes(c, Request(c, s, what, command), s)
<1>. DEFINE d == Request(c, s, what, command)
            outcome == IF c.conn = "connected" THEN "none" ELSE "error"
<1>1. /\ d \in Clients /\ SameRest(c, d) /\ SameLeases(c, d) /\ d.conn = c.conn
      /\ Only(c, d, s, Placed(c.slot[s], what, s, outcome))
  BY RequestFields
<1>2. outcome \in {"none", "ok", "error"} /\ outcome # "ok"
  OBVIOUS
<1>. HIDE DEF d, outcome
<1>3. d.attached = c.attached
  BY <1>1, Zenon DEF SameRest
<1>4. Goes(c, d, s)
  BY <1>1, <1>2, <1>3, PlacedGoes
<1>. QED
  BY <1>4 DEF d

LEMMA RequestAttachGoes ==
  ASSUME NEW c \in Clients, NEW s \in Slots
  PROVE  Goes(c, RequestAttach(c, s), s)
<1>. DEFINE b == [c EXCEPT !.previous = c.snap, !.snap = 0]
            r == Request(b, s, "attachment", "attach")
            d == [r EXCEPT !.attachment = s]
<1>1. /\ b \in Clients /\ b.slot = c.slot /\ b.conn = c.conn /\ b.attached = c.attached /\ SameLeases(c, b)
  <2>1. c.snap \in Nat
    BY ClientTypes
  <2>. QED
    BY <2>1, Zenon DEF Clients, SameLeases
<1>. HIDE DEF b
<1>2. "attachment" \in Asking \ {"creation"} /\ "attach" \in Commands /\ "attachment" # "releasing"
  BY DEF Asking, Waiting, Commands
<1>3. Goes(b, r, s)
  BY <1>1, <1>2, RequestGoes
<1>. HIDE DEF r
<1>4. r \in Clients
  BY <1>3, Zenon DEF Goes
<1>5. d \in Clients /\ d.slot = r.slot /\ d.conn = r.conn /\ d.attached = r.attached /\ SameLeases(r, d)
  BY <1>4, Zenon DEF Clients, SameLeases, Owner
<1>. HIDE DEF d
<1>6. Goes(c, d, s)
  BY <1>1, <1>3, <1>5, Zenon DEF Goes, SameLeases
<1>7. RequestAttach(c, s) = d
  BY Zenon DEF RequestAttach, d, r, b
<1>. QED
  BY <1>6, <1>7

LEMMA AttachOrCreateGoes ==
  ASSUME NEW c, NEW W, Answerable(c, W), NEW s \in Slots, NEW reconciled \in BOOLEAN
  PROVE  Goes(c, AttachOrCreate(c, s, reconciled), s)
<1>. DEFINE join == [Awaits(c, s, "attachment", c.attachment) EXCEPT !.slot[s].got = c.slot[c.attachment].got]
<1>0. c \in Clients
  BY Zenon DEF Answerable
<1>1. CASE ~reconciled /\ c.attached
  <2>1. AttachOrCreate(c, s, reconciled) = CreatedLease(c, s)
    BY <1>1, Zenon DEF AttachOrCreate
  <2>. QED
    BY <1>0, <1>1, <2>1, CreatedGoes
<1>2. CASE (reconciled \/ ~c.attached) /\ c.attachment # Nobody
  <2>1. AttachOrCreate(c, s, reconciled) = join
    BY <1>2 DEF AttachOrCreate
  <2>2. c.attachment \in Slots /\ c.slot[c.attachment].got \in {"none", "ok", "error"}
    BY <1>2, Joins
  <2>3. "attachment" \in Asking \ {"creation"} /\ "attachment" \in Asking /\ "attachment" # "releasing"
    BY DEF Asking, Waiting
  <2>4. /\ join \in Clients /\ SameHubs(c, join) /\ SameRest(c, join) /\ SameLeases(c, join)
        /\ Only(c, join, s, Placed(c.slot[s], "attachment", c.attachment, c.slot[c.attachment].got))
    BY <1>0, <2>2, <2>3, AwaitsFields, ZenonT(30)
  <2>. HIDE DEF join
  <2>5. join.conn = c.conn /\ join.attached = c.attached
    BY <2>4, Zenon DEF SameHubs, SameRest
  <2>6. (\A t \in Slots : c.slot[t].got # "ok") => c.slot[c.attachment].got # "ok"
    BY <2>2, Zenon
  <2>7. Goes(c, join, s)
    BY <1>0, <2>2, <2>3, <2>4, <2>5, <2>6, PlacedGoes, ZenonT(30)
  <2>. QED
    BY <2>1, <2>7
<1>3. CASE (reconciled \/ ~c.attached) /\ c.attachment = Nobody
  <2>1. AttachOrCreate(c, s, reconciled) = RequestAttach(c, s)
    BY <1>3 DEF AttachOrCreate
  <2>. QED
    BY <1>0, <2>1, RequestAttachGoes
<1>. QED
  BY <1>1, <1>2, <1>3

LEMMA ReconcileFirstGoes ==
  ASSUME NEW c, NEW W, Answerable(c, W), NEW s \in Slots
  PROVE  Goes(c, ReconcileFirst(c, s), s)
<1>. DEFINE joined == Awaits(c, s, "reconciliation", c.reconciliation)
            asked == Request(c, s, "reconciliation", "detach")
            x == IF asked.slot[s].got = "none" THEN s ELSE Nobody
            d == [asked EXCEPT !.reconciliation = x]
<1>0. c \in Clients
  BY Zenon DEF Answerable
<1>a. /\ "reconciliation" \in Asking \ {"creation"} /\ "reconciliation" \in Asking
      /\ "reconciliation" # "releasing" /\ "detach" \in Commands
  BY DEF Asking, Waiting, Commands
<1>1. CASE ~c.cleanup
  <2>1. ReconcileFirst(c, s) = AttachOrCreate(c, s, FALSE)
    BY <1>1, Zenon DEF ReconcileFirst
  <2>. QED
    BY <2>1, AttachOrCreateGoes, Zenon
<1>2. CASE c.cleanup /\ c.reconciliation # Nobody
  <2>1. ReconcileFirst(c, s) = joined
    BY <1>2 DEF ReconcileFirst
  <2>2. c.reconciliation \in Slots
    BY <1>2, Joins
  <2>3. /\ joined \in Clients /\ SameHubs(c, joined) /\ SameRest(c, joined) /\ SameLeases(c, joined)
        /\ Only(c, joined, s, Placed(c.slot[s], "reconciliation", c.reconciliation, "none"))
    BY <1>0, <1>a, <2>2, AwaitsPlain, Zenon
  <2>. HIDE DEF joined
  <2>4. joined.conn = c.conn /\ joined.attached = c.attached
    BY <2>3, Zenon DEF SameHubs, SameRest
  <2>5. Goes(c, joined, s)
    BY <1>0, <1>a, <2>2, <2>3, <2>4, PlacedGoes, ZenonT(30)
  <2>. QED
    BY <2>1, <2>5
<1>3. CASE c.cleanup /\ c.reconciliation = Nobody
  <2>1. ReconcileFirst(c, s) = d
    BY <1>3 DEF ReconcileFirst
  <2>2. Goes(c, asked, s)
    BY <1>0, <1>a, RequestGoes
  <2>. HIDE DEF asked
  <2>3. asked \in Clients /\ x \in Owner
    BY <2>2, Zenon DEF Goes, Owner
  <2>. HIDE DEF x
  <2>4. d \in Clients /\ d.slot = asked.slot /\ d.conn = asked.conn /\ d.attached = asked.attached /\ SameLeases(asked, d)
    BY <2>3 DEF Clients, SameLeases
  <2>. HIDE DEF d
  <2>5. Goes(c, d, s)
    BY <2>2, <2>4, Zenon DEF Goes, SameLeases
  <2>. QED
    BY <2>1, <2>5
<1>. QED
  BY <1>1, <1>2, <1>3

LEMMA AcquiredGoes ==
  ASSUME NEW c, NEW W, Answerable(c, W), NEW s \in Slots
  PROVE  Goes(c, Acquired(c, s), s)
<1>. DEFINE join == [Awaits(c, s, "detachment", c.detachment) EXCEPT !.slot[s].got = c.slot[c.detachment].got]
<1>0. c \in Clients
  BY Zenon DEF Answerable
<1>1. CASE c.detachment # Nobody
  <2>1. Acquired(c, s) = join
    BY <1>1, Zenon DEF Acquired
  <2>2. c.detachment \in Slots /\ c.slot[c.detachment].got \in {"none", "ok", "error"}
    BY <1>1, Joins
  <2>3. "detachment" \in Asking \ {"creation"} /\ "detachment" \in Asking /\ "detachment" # "releasing"
    BY DEF Asking, Waiting
  <2>4. /\ join \in Clients /\ SameHubs(c, join) /\ SameRest(c, join) /\ SameLeases(c, join)
        /\ Only(c, join, s, Placed(c.slot[s], "detachment", c.detachment, c.slot[c.detachment].got))
    BY <1>0, <2>2, <2>3, AwaitsFields, ZenonT(30)
  <2>. HIDE DEF join
  <2>5. join.conn = c.conn /\ join.attached = c.attached
    BY <2>4, Zenon DEF SameHubs, SameRest
  <2>6. (\A t \in Slots : c.slot[t].got # "ok") => c.slot[c.detachment].got # "ok"
    BY <2>2, Zenon
  <2>7. Goes(c, join, s)
    BY <1>0, <2>2, <2>3, <2>4, <2>5, <2>6, PlacedGoes, Zenon
  <2>. QED
    BY <2>1, <2>7
<1>2. CASE c.detachment = Nobody
  <2>1. Acquired(c, s) = ReconcileFirst(c, s)
    BY <1>2, Zenon DEF Acquired
  <2>. QED
    BY <2>1, ReconcileFirstGoes
<1>. QED
  BY <1>1, <1>2
=============================================================================
