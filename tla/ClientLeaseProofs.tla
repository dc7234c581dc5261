------------------------- MODULE ClientLeaseProofs --------------------------
(***************************************************************************)
(* Theorems about ClientLink, for any number of calls and leases, of       *)
(* connections, changes, removals and errors: nobody shares an exclusive   *)
(* lease.                                                                  *)
(*                                                                         *)
(* LeaseInv says that the count and the exclusive holder are those of the  *)
(* calls that have a lease, and what is left of both while the client is   *)
(* not connected.  Each function on the client has a lemma on the leases,  *)
(* from the fields it changes (ClientLinkProofs).                          *)
(***************************************************************************)
EXTENDS ClientLinkProofs, FiniteSetTheorems

-----------------------------------------------------------------------------
(* Who holds a lease.                                                      *)

Leases(c) == {s \in Slots : Leased(c.slot[s])}
Alone(c) ==
  /\ c.exclusive # Nobody => c.exclusive \in Leases(c)
  /\ \A s \in Slots : c.slot[s].valid \/ c.slot[s].at = "releasing"
  /\ c.conn = "connected" =>
       /\ c.count = Cardinality(Leases(c))
       /\ c.exclusive # Nobody => Leases(c) = {c.exclusive}
       /\ \A s \in Leases(c) : c.slot[s].mode = "exclusive" => c.exclusive = s
       /\ \A s \in Slots : c.slot[s].valid
  /\ c.conn # "connected" =>
       /\ c.count <= Cardinality(Leases(c)) /\ ~c.attached
       /\ \A s \in Slots : Fallen(c.slot[s])
LeaseInv == ~overtaken => Alone(y)

-----------------------------------------------------------------------------
(* How the set of leases changes.                                          *)

LEMMA LeasesFinite ==
  ASSUME NEW c
  PROVE  /\ IsFiniteSet(Leases(c)) /\ Cardinality(Leases(c)) \in Nat
         /\ Cardinality(Leases(c)) = 0 <=> Leases(c) = {}
<1>1. Leases(c) \subseteq Slots
  BY Zenon DEF Leases
<1>2. IsFiniteSet(Leases(c))
  BY <1>1, ClientAssumption, FS_Subset
<1>. QED
  BY <1>2, FS_CardinalityType, FS_EmptySet

\* s has its lease before and after.
LEMMA LeasesKept ==
  ASSUME NEW c, NEW d, NEW s \in Slots, \A t \in Slots \ {s} : d.slot[t] = c.slot[t],
         Leased(c.slot[s]) <=> Leased(d.slot[s])
  PROVE  Leases(d) = Leases(c)
<1>1. \A t \in Slots : Leased(c.slot[t]) <=> Leased(d.slot[t])
  BY Zenon
<1>. QED
  BY <1>1, Zenon DEF Leases

LEMMA LeasesGrow ==
  ASSUME NEW c, NEW d, NEW s \in Slots, \A t \in Slots \ {s} : d.slot[t] = c.slot[t],
         ~Leased(c.slot[s]), Leased(d.slot[s])
  PROVE  /\ s \notin Leases(c) /\ Leases(d) = Leases(c) \cup {s}
         /\ Cardinality(Leases(d)) = Cardinality(Leases(c)) + 1
<1>1. ASSUME NEW t \in Slots PROVE t \in Leases(d) <=> t \in Leases(c) \cup {s}
  BY Zenon DEF Leases
<1>2. Leases(c) \subseteq Slots /\ Leases(d) \subseteq Slots /\ s \notin Leases(c)
  BY Zenon DEF Leases
<1>3. Leases(d) = Leases(c) \cup {s}
  BY <1>1, <1>2
<1>. QED
  BY <1>2, <1>3, LeasesFinite, FS_AddElement, ZenonT(30)

LEMMA LeasesShrink ==
  ASSUME NEW c, NEW d, NEW s \in Slots, \A t \in Slots \ {s} : d.slot[t] = c.slot[t],
         Leased(c.slot[s]), ~Leased(d.slot[s])
  PROVE  /\ s \in Leases(c) /\ Leases(d) = Leases(c) \ {s}
         /\ Cardinality(Leases(d)) = Cardinality(Leases(c)) - 1
<1>1. ASSUME NEW t \in Slots PROVE t \in Leases(d) <=> t \in Leases(c) \ {s}
  BY Zenon DEF Leases
<1>2. Leases(c) \subseteq Slots /\ Leases(d) \subseteq Slots /\ s \in Leases(c)
  BY Zenon DEF Leases
<1>3. Leases(d) = Leases(c) \ {s}
  BY <1>1, <1>2
<1>. QED
  BY <1>2, <1>3, LeasesFinite, FS_RemoveElement, ZenonT(30)

\* A call that has a lease goes on with it.
LEMMA GoesAlone ==
  ASSUME NEW c \in Clients, Alone(c), NEW d, NEW s \in Slots, Goes(c, d, s), Leased(c.slot[s])
  PROVE  Alone(d)
<1>1. c.slot[s].valid
  BY DEF Alone, Leased
<1>2. /\ d.conn = c.conn /\ d.attached = c.attached /\ d.count = c.count /\ d.exclusive = c.exclusive
      /\ \A t \in Slots \ {s} : d.slot[t] = c.slot[t]
      /\ d.slot[s].mode = c.slot[s].mode /\ d.slot[s].valid = c.slot[s].valid /\ Leased(d.slot[s])
  BY <1>1, Zenon DEF Goes, SameLeases
<1>3. Leases(d) = Leases(c)
  BY <1>2, LeasesKept
<1>4. \A t \in Slots : d.slot[t].mode = c.slot[t].mode /\ d.slot[t].valid = c.slot[t].valid
  BY <1>2, Zenon
<1>5. Leases(c) \subseteq Slots
  BY Zenon DEF Leases
<1>6. ASSUME c.conn # "connected" PROVE ~d.attached /\ \A t \in Slots : Fallen(d.slot[t])
  <2>1. ~c.attached /\ \A t \in Slots : Fallen(c.slot[t])
    BY <1>6, Zenon DEF Alone
  <2>2. \A t \in Slots : c.slot[t].got # "ok"
    BY <2>1, Zenon DEF Fallen
  <2>3. Fallen(d.slot[s])
    BY <1>6, <2>1, <2>2, Zenon DEF Goes
  <2>. QED
    BY <1>2, <2>1, <2>3, Zenon
<1>7. \A t \in Slots : d.slot[t].valid \/ d.slot[t].at = "releasing"
  BY <1>1, <1>2, Zenon DEF Alone
<1>. QED
  BY <1>2, <1>3, <1>4, <1>5, <1>6, <1>7, Zenon DEF Alone

\* Nothing about the leases changes but the outcomes known over a connection.
LEMMA KeepsAlone ==
  ASSUME NEW c, Alone(c), NEW d, d.conn = "connected" <=> c.conn = "connected", SameLeases(c, d),
         \A t \in Slots : /\ d.slot[t].at = c.slot[t].at /\ d.slot[t].mode = c.slot[t].mode
                          /\ d.slot[t].valid = c.slot[t].valid,
         d.conn # "connected" => ~d.attached /\ \A t \in Slots : d.slot[t].got = c.slot[t].got
  PROVE  Alone(d)
<1>1. \A t \in Slots : Leased(d.slot[t]) <=> Leased(c.slot[t])
  BY Zenon DEF Leased
<1>2. Leases(d) = Leases(c)
  BY <1>1, Zenon DEF Leases
<1>3. Leases(c) \subseteq Slots
  BY Zenon DEF Leases
<1>4. ASSUME d.conn # "connected", NEW t \in Slots PROVE Fallen(d.slot[t])
  BY <1>4, Zenon DEF Alone, Fallen
<1>. QED
  BY <1>2, <1>3, <1>4, Zenon DEF Alone, SameLeases

\* Nobody has a lease.
LEMMA EmptyAlone ==
  ASSUME NEW d, d.conn = "connected", d.count = 0, d.exclusive = Nobody,
         \A t \in Slots : d.slot[t].at = "free" /\ d.slot[t].valid
  PROVE  Alone(d)
<1>1. \A t \in Slots : ~Leased(d.slot[t])
  BY DEF Leased
<1>2. Leases(d) = {}
  BY <1>1, Zenon DEF Leases
<1>3. Cardinality(Leases(d)) = 0
  BY <1>2, LeasesFinite
<1>. QED
  BY <1>2, <1>3, Zenon DEF Alone

\* The call of s reserves a lease (MayReserve) and goes on with it.
LEMMA JoinsAlone ==
  ASSUME NEW c \in Clients, Alone(c), NEW s \in Slots, ~Leased(c.slot[s]), c.slot[s].valid,
         NEW mode \in Modes, MayReserve(c, mode), NEW d, Goes(Reserved(c, s, mode), d, s)
  PROVE  Alone(d)
<1>. DEFINE r == Reserved(c, s, mode)
            p == [c.slot[s] EXCEPT !.mode = mode]
<1>1. /\ r \in Clients /\ r.conn = c.conn /\ r.attached = c.attached /\ r.count = c.count + 1
      /\ r.exclusive = (IF mode = "exclusive" THEN s ELSE c.exclusive) /\ Only(c, r, s, p)
  BY ReservedFields DEF SameHubs, SameRest
<1>2. c.slot[s] \in Calls /\ c.count \in Nat
  BY ClientTypes
<1>3. p \in Calls /\ p.mode = mode /\ p.valid = c.slot[s].valid /\ p.got = c.slot[s].got
  BY <1>2, Zenon DEF Calls
<1>4. r.slot[s] = p /\ \A t \in Slots \ {s} : r.slot[t] = c.slot[t]
  BY <1>1, <1>3, OnlyFacts
<1>5. Goes(r, d, s)
  OBVIOUS
<1>. HIDE DEF r, p
<1>6. /\ d.conn = c.conn /\ d.attached = c.attached /\ d.count = c.count + 1
      /\ d.exclusive = (IF mode = "exclusive" THEN s ELSE c.exclusive)
      /\ d.slot[s].mode = mode /\ d.slot[s].valid /\ Leased(d.slot[s])
      /\ \A t \in Slots \ {s} : d.slot[t] = c.slot[t]
  BY <1>1, <1>3, <1>4, <1>5, SMTT(30) DEF Goes, SameLeases
<1>7. /\ s \notin Leases(c) /\ Leases(d) = Leases(c) \cup {s}
      /\ Cardinality(Leases(d)) = Cardinality(Leases(c)) + 1
  BY <1>6, LeasesGrow, Zenon
<1>8. /\ Cardinality(Leases(c)) \in Nat /\ (Cardinality(Leases(c)) = 0 <=> Leases(c) = {})
      /\ Leases(c) \subseteq Slots /\ s # Nobody
  BY LeasesFinite, ClientAssumption, ZenonT(30) DEF Leases
<1>9. \A t \in Slots : d.slot[t].valid \/ d.slot[t].at = "releasing"
  BY <1>6, Zenon DEF Alone
<1>10. d.exclusive # Nobody => d.exclusive \in Leases(d)
  BY <1>6, <1>7, Zenon DEF Alone
<1>11. ASSUME d.conn = "connected"
       PROVE  /\ d.count = Cardinality(Leases(d))
              /\ d.exclusive # Nobody => Leases(d) = {d.exclusive}
              /\ \A t \in Leases(d) : d.slot[t].mode = "exclusive" => d.exclusive = t
              /\ \A t \in Slots : d.slot[t].valid
  <2>1. /\ c.count = Cardinality(Leases(c)) /\ \A t \in Slots : c.slot[t].valid
        /\ \A t \in Leases(c) : c.slot[t].mode = "exclusive" => c.exclusive = t
    BY <1>6, <1>11, Zenon DEF Alone
  <2>2. d.count = Cardinality(Leases(d)) /\ \A t \in Slots : d.slot[t].valid
    BY <1>6, <1>7, <2>1, Zenon
  <2>3. \A t \in Leases(c) : d.slot[t].mode = c.slot[t].mode
    BY <1>6, <1>7, <1>8, Zenon
  <2>4. CASE mode = "exclusive"
    <3>1. Leases(c) = {} /\ d.exclusive = s
      BY <1>6, <1>8, <2>1, <2>4, Zenon DEF MayReserve
    <3>. QED
      BY <1>7, <2>2, <3>1, Zenon
  <2>5. CASE mode # "exclusive"
    <3>1. c.exclusive = Nobody /\ d.exclusive = Nobody
      BY <1>6, <2>5, Zenon DEF MayReserve
    <3>2. \A t \in Leases(d) : d.slot[t].mode # "exclusive"
      BY <1>6, <1>7, <1>8, <2>1, <2>3, <2>5, <3>1, ClientAssumption, Zenon
    <3>. QED
      BY <2>2, <3>1, <3>2, Zenon
  <2>. QED
    BY <2>4, <2>5, Zenon
<1>12. ASSUME d.conn # "connected"
       PROVE  d.count <= Cardinality(Leases(d)) /\ ~d.attached /\ \A t \in Slots : Fallen(d.slot[t])
  <2>1. c.count <= Cardinality(Leases(c)) /\ ~c.attached /\ \A t \in Slots : Fallen(c.slot[t])
    BY <1>6, <1>12, Zenon DEF Alone
  <2>2. \A t \in Slots : r.slot[t].got # "ok"
    BY <1>3, <1>4, <2>1, Zenon DEF Fallen
  <2>3. Fallen(d.slot[s])
    BY <1>1, <1>5, <1>6, <1>12, <2>1, <2>2, Zenon DEF Goes
  <2>4. \A t \in Slots : Fallen(d.slot[t])
    BY <1>6, <2>1, <2>3, Zenon
  <2>5. d.count <= Cardinality(Leases(d))
    BY <1>2, <1>6, <1>7, <1>8, <2>1, SMTT(30)
  <2>. QED
    BY <1>6, <2>1, <2>4, <2>5, Zenon
<1>. QED
  BY <1>9, <1>10, <1>11, <1>12, Zenon DEF Alone

\* The lease of s is over.
LEMMA EndsAlone ==
  ASSUME NEW c \in Clients, Alone(c), NEW s \in Slots, Leased(c.slot[s]), NEW d,
         d.conn = c.conn, d.attached = c.attached, d.slot[s] = Free,
         \A t \in Slots \ {s} : d.slot[t] = c.slot[t],
         d.count = (IF c.count <= 1 THEN 0 ELSE c.count - 1),
         d.exclusive = (IF c.exclusive = s THEN Nobody ELSE c.exclusive)
  PROVE  Alone(d)
<1>1. ~Leased(d.slot[s]) /\ d.slot[s].valid /\ Fallen(d.slot[s])
  BY FreeFacts DEF Leased, Fallen
<1>2. /\ s \in Leases(c) /\ Leases(d) = Leases(c) \ {s}
      /\ Cardinality(Leases(d)) = Cardinality(Leases(c)) - 1
  BY <1>1, LeasesShrink
<1>3. /\ Cardinality(Leases(c)) \in Nat /\ Cardinality(Leases(d)) \in Nat /\ c.count \in Nat
      /\ Leases(c) \subseteq Slots
  BY LeasesFinite, ClientTypes, ZenonT(30) DEF Leases
<1>4. \A t \in Slots : d.slot[t].valid \/ d.slot[t].at = "releasing"
  BY <1>1, Zenon DEF Alone
<1>5. d.exclusive # Nobody => d.exclusive \in Leases(d)
  BY <1>2, Zenon DEF Alone
<1>6. ASSUME d.conn = "connected"
      PROVE  /\ d.count = Cardinality(Leases(d))
             /\ d.exclusive # Nobody => Leases(d) = {d.exclusive}
             /\ \A t \in Leases(d) : d.slot[t].mode = "exclusive" => d.exclusive = t
             /\ \A t \in Slots : d.slot[t].valid
  <2>1. /\ c.count = Cardinality(Leases(c)) /\ (c.exclusive # Nobody => Leases(c) = {c.exclusive})
        /\ (\A t \in Leases(c) : c.slot[t].mode = "exclusive" => c.exclusive = t)
        /\ \A t \in Slots : c.slot[t].valid
    BY <1>6, Zenon DEF Alone
  <2>2. d.count = Cardinality(Leases(d))
    BY <1>2, <1>3, <2>1
  <2>3. d.exclusive = Nobody
    BY <1>2, <2>1, Zenon
  <2>4. \A t \in Leases(d) : d.slot[t].mode = "exclusive" => d.exclusive = t
    BY <1>2, <1>3, <2>1, Zenon
  <2>5. \A t \in Slots : d.slot[t].valid
    BY <1>1, <2>1, Zenon
  <2>. QED
    BY <2>2, <2>3, <2>4, <2>5, Zenon
<1>7. ASSUME d.conn # "connected"
      PROVE  d.count <= Cardinality(Leases(d)) /\ ~d.attached /\ \A t \in Slots : Fallen(d.slot[t])
  <2>1. c.count <= Cardinality(Leases(c)) /\ ~c.attached /\ \A t \in Slots : Fallen(c.slot[t])
    BY <1>7, Zenon DEF Alone
  <2>2. d.count <= Cardinality(Leases(d))
    BY <1>2, <1>3, <2>1
  <2>. QED
    BY <1>1, <2>1, <2>2, Zenon
<1>. QED
  BY <1>4, <1>5, <1>6, <1>7, Zenon DEF Alone

\* The call of s has no lease, and gets none.
LEMMA OutsideAlone ==
  ASSUME NEW c, Alone(c), NEW s \in Slots, ~Leased(c.slot[s]), NEW d,
         d.conn = c.conn, d.attached = c.attached, SameLeases(c, d),
         \A t \in Slots \ {s} : d.slot[t] = c.slot[t],
         ~Leased(d.slot[s]), d.slot[s].valid, d.conn # "connected" => Fallen(d.slot[s])
  PROVE  Alone(d)
<1>1. Leases(d) = Leases(c)
  BY LeasesKept, Zenon
<1>2. Leases(c) \subseteq Slots /\ s \notin Leases(c)
  BY Zenon DEF Leases
<1>3. \A t \in Slots : d.slot[t].valid \/ d.slot[t].at = "releasing"
  BY Zenon DEF Alone
<1>4. d.conn = "connected" => \A t \in Slots : d.slot[t].valid
  BY Zenon DEF Alone
<1>5. d.conn # "connected" => \A t \in Slots : Fallen(d.slot[t])
  BY Zenon DEF Alone
<1>6. \A t \in Leases(c) : d.slot[t] = c.slot[t]
  BY <1>2, Zenon
<1>. QED
  BY <1>1, <1>3, <1>4, <1>5, <1>6, Zenon DEF Alone, SameLeases

-----------------------------------------------------------------------------
(* What the steps of the client do to the leases.                          *)

LEMMA AcquireLease ==
  ASSUME Inv, Alone(y), NEW s \in Slots, NEW mode \in Modes, AcquireSession(s, mode)
  PROVE  Alone(y')
<1>. DEFINE r == Reserved(y, s, mode)
<1>1. y.slot[s].at = "free" /\ MayReserve(y, mode) /\ y' = Acquired(r, s)
  BY Zenon DEF AcquireSession, Unused
<1>2. Apart(y, s) /\ y \in Clients /\ Answerable(y, Owed)
  BY <1>1, StandsApart, InvFacts, Zenon
<1>3. Answerable(r, Owed)
  BY <1>2, ReservedAnswerable
<1>4. Goes(r, y', s)
  BY <1>1, <1>3, AcquiredGoes, Zenon
<1>5. ~Leased(y.slot[s]) /\ y.slot[s].valid
  BY <1>1 DEF Leased, Alone
<1>. QED
  BY <1>1, <1>2, <1>4, <1>5, JoinsAlone, ZenonT(30)

LEMMA CreateLease ==
  ASSUME Inv, Alone(y), NEW s \in Slots, CreateSession(s)
  PROVE  Alone(y')
<1>. DEFINE outcome == IF y.conn = "connected" THEN "none" ELSE "error"
            p == Placed(y.slot[s], "creation", s, outcome)
<1>1. y.slot[s].at = "free" /\ y' = Request(y, s, "creation", "create") /\ y \in Clients
  BY InvFacts, Zenon DEF CreateSession, Unused
<1>2. /\ "creation" \in Asking /\ "create" \in Commands /\ s \in Owner
      /\ outcome \in {"none", "ok", "error"} /\ outcome # "ok" /\ y.slot[s] \in Calls
  BY <1>1, ClientTypes DEF Asking, Waiting, Commands, Owner
<1>3. y'.conn = y.conn /\ y'.attached = y.attached /\ SameLeases(y, y') /\ Only(y, y', s, p)
  BY <1>1, <1>2, RequestFields, ZenonT(30) DEF SameRest
<1>. HIDE DEF outcome
<1>4. p \in Calls /\ p.at = "creation" /\ p.got = outcome /\ p.valid = y.slot[s].valid
  BY <1>2, PlacedFacts, SMTT(30)
<1>. HIDE DEF p
<1>5. y'.slot[s] = p /\ \A t \in Slots \ {s} : y'.slot[t] = y.slot[t]
  BY <1>1, <1>3, <1>4, OnlyFacts, SMTT(30)
<1>6. ~Leased(y.slot[s]) /\ y.slot[s].valid /\ ~Leased(p) /\ Fallen(p)
  BY <1>1, <1>2, <1>4, ZenonT(30) DEF Leased, Fallen, Alone
<1>. QED
  BY <1>3, <1>4, <1>5, <1>6, OutsideAlone, ZenonT(30)

LEMMA AbandonedAlone ==
  ASSUME NEW c \in Clients, Alone(c), NEW s \in Slots, Leased(c.slot[s])
  PROVE  Alone(Abandoned(c, s))
<1>. DEFINE a == Abandoned(c, s)
<1>1. /\ a.conn = c.conn /\ a.attached = c.attached /\ Only(c, a, s, Free)
      /\ a.count = (IF c.count <= 1 THEN 0 ELSE c.count - 1)
      /\ a.exclusive = (IF c.exclusive = s THEN Nobody ELSE c.exclusive)
  BY AbandonedFields, SMTT(30) DEF SameHubs, SameRest
<1>2. a.slot[s] = Free /\ \A t \in Slots \ {s} : a.slot[t] = c.slot[t]
  BY <1>1, FreeFacts, OnlyFacts, SMTT(30)
<1>. HIDE DEF a
<1>3. Alone(a)
  BY <1>1, <1>2, EndsAlone, ZenonT(30)
<1>. QED
  BY <1>3 DEF a

LEMMA ReleaseLease ==
  ASSUME Inv, Alone(y), NEW s \in Slots, NEW r \in BOOLEAN, Release(s, r)
  PROVE  Alone(y')
<1>. DEFINE asked == Request(y, s, "releasing", "detach")
            d == [asked EXCEPT !.detachment = s, !.slot[s].relinquish = r]
            a == Abandoned(y, s)
<1>1. y.slot[s].at = "held" /\ y.conn = "connected" /\ y' = (IF y.count <= 1 THEN d ELSE a) /\ y \in Clients
  BY InvFacts, Zenon DEF Release, IsActive, Connected, StartedRelease
<1>2. Leased(y.slot[s])
  BY <1>1 DEF Leased
<1>3. CASE y.count <= 1
  <2>1. Goes(y, asked, s)
    <3>1. "releasing" \in Asking \ {"creation"} /\ "detach" \in Commands
      BY DEF Asking, Commands
    <3>. QED
      BY <1>1, <3>1, RequestGoes
  <2>. HIDE DEF asked
  <2>. DEFINE p == [asked.slot[s] EXCEPT !.relinquish = r]
              f == [asked.slot EXCEPT ![s] = p]
  <2>2. asked \in Clients /\ asked.slot \in [Slots -> Calls] /\ asked.slot[s] \in Calls /\ s \in Owner
    BY <2>1, ClientTypes, ZenonT(30) DEF Goes, Owner
  <2>3. /\ p \in Calls /\ p.at = asked.slot[s].at /\ p.valid = asked.slot[s].valid /\ p.mode = asked.slot[s].mode
        /\ p.got = asked.slot[s].got
    BY <2>2 DEF Calls
  <2>4. d = [asked EXCEPT !.detachment = s, !.slot = f]
    BY Zenon
  <2>. HIDE DEF p, d
  <2>5. f \in [Slots -> Calls] /\ f[s] = p /\ \A t \in Slots \ {s} : f[t] = asked.slot[t]
    BY <2>2, <2>3
  <2>. HIDE DEF f
  <2>6. d \in Clients /\ d.conn = asked.conn /\ d.attached = asked.attached /\ SameLeases(asked, d) /\ d.slot = f
    BY <2>2, <2>4, <2>5, ZenonT(30) DEF Clients, SameLeases
  <2>7. (Leased(asked.slot[s]) => Leased(d.slot[s])) /\ (Fallen(asked.slot[s]) => Fallen(d.slot[s]))
    BY <2>3, <2>5, <2>6, Zenon DEF Leased, Fallen
  <2>8. Goes(y, d, s)
    BY <2>1, <2>3, <2>5, <2>6, <2>7, Zenon DEF Goes, SameLeases
  <2>9. Alone(d)
    BY <1>1, <1>2, <2>8, GoesAlone
  <2>. QED
    BY <1>1, <1>3, <2>9, ZenonT(30)
<1>4. CASE ~(y.count <= 1)
  <2>1. Alone(a)
    BY <1>1, <1>2, AbandonedAlone
  <2>. QED
    BY <1>1, <1>4, <2>1
<1>. QED
  BY <1>3, <1>4

LEMMA GoneAlone ==
  ASSUME NEW c \in Clients, Alone(c), NEW s \in Slots, ~Leased(c.slot[s])
  PROVE  Alone(Gone(c, s))
<1>. DEFINE a == Gone(c, s)
<1>1. a.conn = c.conn /\ a.attached = c.attached /\ Only(c, a, s, Free) /\ SameLeases(c, a)
  BY GoneFields DEF SameHubs, SameRest
<1>2. a.slot[s] = Free /\ \A t \in Slots \ {s} : a.slot[t] = c.slot[t]
  BY <1>1, FreeFacts, OnlyFacts, SMTT(30)
<1>3. ~Leased(Free) /\ Free.valid /\ Fallen(Free)
  BY FreeFacts DEF Leased, Fallen
<1>. HIDE DEF a
<1>4. Alone(a)
  BY <1>1, <1>2, <1>3, OutsideAlone, ZenonT(30)
<1>. QED
  BY <1>4 DEF a

LEMMA NoDetachmentAlone ==
  ASSUME NEW c \in Clients, Alone(c), NEW s \in Slots
  PROVE  Alone(NoDetachmentOf(c, s))
<1>. DEFINE x == IF c.detachment = s THEN Nobody ELSE c.detachment
            d == NoDetachmentOf(c, s)
<1>1. d = [c EXCEPT !.detachment = x] /\ x \in Owner
  BY ClientTypes DEF NoDetachmentOf, Owner
<1>. HIDE DEF x, d
<1>2. d.conn = c.conn /\ d.attached = c.attached /\ SameLeases(c, d) /\ d.slot = c.slot
  BY <1>1 DEF Clients, SameLeases
<1>3. d.conn # "connected" => ~d.attached
  BY <1>2, Zenon DEF Alone
<1>4. Alone(d)
  BY <1>2, <1>3, KeepsAlone
<1>. QED
  BY <1>4 DEF d

LEMMA ReleaseFailedAlone ==
  ASSUME NEW c \in Clients, Alone(c), NEW s \in Slots, c.slot[s].at = "releasing"
  PROVE  ReleaseFailed(c, s) \in Clients /\ Alone(ReleaseFailed(c, s))
<1>. DEFINE a == Abandoned(c, s)
            d == [a EXCEPT !.cleanup = TRUE]
            back == CreatedLease(c, s)
<1>1. ReleaseFailed(c, s) = IF ~c.slot[s].valid THEN Gone(c, s)
                            ELSE IF c.slot[s].relinquish THEN d ELSE back
  BY Zenon DEF ReleaseFailed, CreatedLease
<1>2. Leased(c.slot[s]) <=> c.slot[s].valid
  BY DEF Leased
<1>3. Gone(c, s) \in Clients /\ back \in Clients /\ a \in Clients
  BY GoneFields, CreatedFields, AbandonedFields, Zenon
<1>4. CASE ~c.slot[s].valid
  BY <1>1, <1>2, <1>3, <1>4, GoneAlone
<1>5. CASE c.slot[s].valid /\ c.slot[s].relinquish
  <2>1. Alone(a)
    BY <1>2, <1>5, AbandonedAlone
  <2>. HIDE DEF a
  <2>2. d \in Clients /\ d.conn = a.conn /\ d.attached = a.attached /\ SameLeases(a, d) /\ d.slot = a.slot
    BY <1>3, Zenon DEF Clients, SameLeases
  <2>. HIDE DEF d
  <2>3. d.conn # "connected" => ~d.attached
    BY <2>1, <2>2, Zenon DEF Alone
  <2>4. Alone(d)
    BY <2>1, <2>2, <2>3, KeepsAlone
  <2>. QED
    BY <1>1, <1>5, <2>2, <2>4
<1>6. CASE c.slot[s].valid /\ ~c.slot[s].relinquish
  <2>1. c.conn = "connected"
    BY <1>6, Zenon DEF Alone, Fallen
  <2>2. Goes(c, back, s)
    BY <2>1, CreatedGoes
  <2>3. Alone(back)
    BY <1>2, <1>6, <2>2, GoesAlone
  <2>. QED
    BY <1>1, <1>3, <1>6, <2>3
<1>. QED
  BY <1>4, <1>5, <1>6

LEMMA ContinuedAlone ==
  ASSUME NEW c, NEW W, NEW s \in Slots, Answerable(c, W), Alone(c), c.slot[s].got # "none"
  PROVE  Alone(Continued(c, s))
<1>0. c \in Clients /\ c.slot[s].at \in Asking
  BY Zenon DEF Answerable, CallOK
<1>. DEFINE at == c.slot[s].at
            ok == c.slot[s].got = "ok"
            over == AttachmentOver(c, s)
<1>1. at \in {"detachment", "reconciliation", "attachment", "creation", "releasing"}
  BY <1>0 DEF Asking, Waiting
<1>2. at \in {"detachment", "reconciliation", "attachment"} => Leased(c.slot[s])
  BY DEF Leased
<1>3. ok => c.conn = "connected"
  BY Zenon DEF Alone, Fallen
<1>4. CASE at = "detachment"
  <2>1. Continued(c, s) = ReconcileFirst(c, s)
    BY <1>4 DEF Continued
  <2>. QED
    BY <1>0, <1>2, <1>4, <2>1, ReconcileFirstGoes, GoesAlone
<1>5. CASE at = "reconciliation"
  <2>1. Continued(c, s) = IF ok THEN AttachOrCreate(c, s, TRUE) ELSE Abandoned(c, s)
    BY <1>5, Zenon DEF Continued
  <2>2. Goes(c, AttachOrCreate(c, s, TRUE), s) /\ Leased(c.slot[s])
    BY <1>2, <1>5, AttachOrCreateGoes, ZenonT(30)
  <2>3. Alone(AttachOrCreate(c, s, TRUE)) /\ Alone(Abandoned(c, s))
    BY <1>0, <2>2, GoesAlone, AbandonedAlone, ZenonT(30)
  <2>. QED
    BY <2>1, <2>3, ZenonT(30)
<1>6. CASE at = "attachment"
  <2>1. Continued(c, s) = IF ok THEN CreatedLease(over, s) ELSE Abandoned(over, s)
    BY <1>6 DEF Continued
  <2>2. over \in Clients /\ over.conn = c.conn /\ over.attached = c.attached /\ SameLeases(c, over) /\ over.slot = c.slot
    <3>. DEFINE n == IF c.slot[s].on = s /\ c.slot[s].got = "error" /\ c.snap = 0 THEN c.previous ELSE c.snap
                q == IF c.slot[s].on = s THEN 0 ELSE c.previous
                x == IF c.attachment = c.slot[s].on THEN Nobody ELSE c.attachment
    <3>1. over = [c EXCEPT !.attachment = x, !.snap = n, !.previous = q]
      BY Zenon DEF AttachmentOver
    <3>2. n \in Nat /\ q \in Nat /\ x \in Owner
      BY <1>0, ClientTypes, ZenonT(30) DEF Owner
    <3>. HIDE DEF n, q, x, over
    <3>. QED
      BY <1>0, <3>1, <3>2, ZenonT(30) DEF Clients, SameLeases
  <2>. HIDE DEF over
  <2>3. over.conn # "connected" => ~over.attached
    BY <2>2, Zenon DEF Alone
  <2>4. Alone(over)
    BY <2>2, <2>3, KeepsAlone, ZenonT(30)
  <2>5. Leased(over.slot[s]) /\ (ok => Goes(over, CreatedLease(over, s), s))
    BY <1>2, <1>6, <2>2, CreatedGoes, ZenonT(30)
  <2>6. (ok => Alone(CreatedLease(over, s))) /\ Alone(Abandoned(over, s))
    BY <2>2, <2>4, <2>5, GoesAlone, AbandonedAlone, ZenonT(30)
  <2>. QED
    BY <2>1, <2>6
<1>7. CASE at = "creation"
  <2>. DEFINE held == Reserved(c, s, "exclusive")
  <2>1. Continued(c, s) = IF ok /\ MayReserve(c, "exclusive") THEN CreatedLease(held, s) ELSE Gone(c, s)
    BY <1>7 DEF Continued
  <2>2. ~Leased(c.slot[s]) /\ c.slot[s].valid /\ "exclusive" \in Modes
    BY <1>7 DEF Leased, Alone, Modes
  <2>3. Alone(Gone(c, s))
    BY <1>0, <2>2, GoneAlone
  <2>4. held \in Clients /\ held.conn = c.conn
    BY <1>0, <2>2, ReservedFields, ZenonT(30) DEF SameHubs
  <2>5. ok => Goes(held, CreatedLease(held, s), s)
    BY <1>3, <2>4, CreatedGoes
  <2>6. ok /\ MayReserve(c, "exclusive") => Alone(CreatedLease(held, s))
    BY <1>0, <2>2, <2>5, JoinsAlone, Zenon
  <2>. QED
    BY <2>1, <2>3, <2>6, ZenonT(30)
<1>8. CASE at = "releasing"
  <2>1. Continued(c, s) = IF ok THEN NoDetachmentOf(Abandoned(c, s), s)
                          ELSE NoDetachmentOf(ReleaseFailed(c, s), s)
    BY <1>8 DEF Continued
  <2>2. ok => Leased(c.slot[s])
    BY <1>3, <1>8, Zenon DEF Alone, Leased
  <2>3. Abandoned(c, s) \in Clients /\ (ok => Alone(Abandoned(c, s)))
    BY <1>0, <2>2, AbandonedFields, AbandonedAlone, ZenonT(30)
  <2>4. ok => Alone(NoDetachmentOf(Abandoned(c, s), s))
    BY <2>3, NoDetachmentAlone
  <2>5. ReleaseFailed(c, s) \in Clients /\ Alone(ReleaseFailed(c, s))
    BY <1>0, <1>8, ReleaseFailedAlone
  <2>6. Alone(NoDetachmentOf(ReleaseFailed(c, s), s))
    BY <2>5, NoDetachmentAlone
  <2>. QED
    BY <2>1, <2>4, <2>6
<1>. QED
  BY <1>1, <1>4, <1>5, <1>6, <1>7, <1>8

LEMMA ConnectLease ==
  ASSUME Inv, Alone(y), Connect \/ OpenTransport
  PROVE  Alone(y')
<1>0. y \in Clients
  BY InvFacts
<1>1. /\ y.conn # "connected" /\ y'.conn # "connected" /\ SameLeases(y, y') /\ y'.slot = y.slot
      /\ y'.attached \in {y.attached, FALSE}
  <2>1. CASE Connect
    <3>1. y.conn = "disconnected" /\ y' = [y EXCEPT !.conn = "connecting", !.snap = 0, !.attached = FALSE]
      BY <2>1, Zenon DEF Connect
    <3>. QED
      BY <1>0, <3>1 DEF Clients, SameLeases
  <2>2. CASE OpenTransport
    <3>1. y.conn = "connecting" /\ y' = [y EXCEPT !.conn = "greeting"]
      BY <2>2, Zenon DEF OpenTransport
    <3>. QED
      BY <1>0, <3>1 DEF Clients, SameLeases
  <2>. QED
    BY <2>1, <2>2, Zenon
<1>2. ~y'.attached
  BY <1>1, Zenon DEF Alone
<1>. QED
  BY <1>1, <1>2, KeepsAlone

\* Once the client is greeted, no call is left from before.
LEMMA HelloLease ==
  ASSUME Inv, Alone(y), Hello
  PROVE  Alone(y')
<1>0. y \in Clients /\ Answerable(y, Owed)
  BY InvFacts
<1>1. y.conn = "greeting" /\ y' = [y EXCEPT !.conn = "connected"] /\ \A t \in Slots : y.slot[t].got = "none"
  BY Zenon DEF Hello, Drained
<1>2. y'.conn = "connected" /\ y'.count = y.count /\ y'.exclusive = y.exclusive /\ y'.slot = y.slot
  BY <1>0, <1>1 DEF Clients
<1>3. y.conn # "connected"
  BY <1>1
<1>4. ASSUME NEW t \in Slots PROVE y.slot[t].at = "free" /\ y.slot[t].valid
  <2>1. y.slot[t].at \notin Asking
    BY <1>0, <1>1, <1>3, <1>4, Zenon DEF Answerable, CallOK, Coming
  <2>2. y.slot[t].at \in {"free", "held"} \cup Asking
    BY <1>0, <1>4, ClientTypes, CallTypes
  <2>3. y.slot[t].at # "held"
    BY <1>3, <1>4, Zenon DEF Alone, Fallen
  <2>4. y.slot[t].at = "free"
    BY <2>1, <2>2, <2>3, Zenon
  <2>. QED
    BY <1>4, <2>4 DEF Alone
<1>5. \A t \in Slots : ~Leased(y.slot[t])
  BY <1>4 DEF Leased
<1>6. Leases(y) = {}
  BY <1>5, Zenon DEF Leases
<1>7. y.exclusive = Nobody
  BY <1>6, Zenon DEF Alone
<1>8. y.count = 0
  <2>1. y.count <= Cardinality(Leases(y)) /\ y.count \in Nat
    BY <1>0, <1>3, ClientTypes DEF Alone
  <2>. QED
    BY <1>6, <2>1, LeasesFinite
<1>. QED
  BY <1>2, <1>4, <1>7, <1>8, EmptyAlone

LEMMA LostCall ==
  ASSUME NEW call \in Calls, call.got # "ok", call.valid \/ call.at = "releasing"
  PROVE  /\ Fallen(Failed(Struck(call)))
         /\ Failed(Struck(call)).valid \/ Failed(Struck(call)).at = "releasing"
<1>. DEFINE k == Struck(call)
<1>1. /\ k \in Calls /\ k.at # "held" /\ k.got # "ok" /\ (k.at = "releasing" => ~k.valid)
      /\ k.valid \/ k.at = "releasing"
  BY FreeFacts, Zenon DEF Struck, Calls
<1>. HIDE DEF k
<1>2. Failed(k).at = k.at /\ Failed(k).valid = k.valid /\ Failed(k).got # "ok"
  BY <1>1, FailedFacts
<1>3. Fallen(Failed(k)) /\ (Failed(k).valid \/ Failed(k).at = "releasing")
  BY <1>1, <1>2, Zenon DEF Fallen
<1>. QED
  BY <1>3 DEF k

\* The connection is lost while no call has a success to go on with.
LEMMA LostAlone ==
  ASSUME NEW c \in Clients, Alone(c), \A t \in Slots : c.slot[t].got # "ok"
  PROVE  Alone(Lost(c))
<1>. DEFINE d == Lost(c)
            h == AllInvalidated(c)
<1>1. /\ d.conn = "disconnected" /\ d.attached = FALSE /\ d.count = 0 /\ d.exclusive = h.exclusive
      /\ \A t \in Slots : d.slot[t] = Failed(h.slot[t])
  BY LostFields, Zenon
<1>2. /\ h.exclusive = (IF c.count > 0 THEN Nobody ELSE c.exclusive)
      /\ h.slot = (IF c.count > 0 THEN [t \in Slots |-> Struck(c.slot[t])] ELSE c.slot)
  BY AllInvalidatedFields, Zenon
<1>3. /\ c.count \in Nat /\ Cardinality(Leases(d)) \in Nat /\ Cardinality(Leases(c)) \in Nat
      /\ Cardinality(Leases(c)) = 0 <=> Leases(c) = {}
  BY ClientTypes, LeasesFinite
<1>. HIDE DEF h
<1>4. \A t \in Slots : c.slot[t] \in Calls /\ (c.slot[t].valid \/ c.slot[t].at = "releasing")
  BY ClientTypes, Zenon DEF Alone
<1>5. d.conn # "connected"
  BY <1>1
<1>. HIDE DEF d
<1>6. CASE c.count > 0
  <2>1. d.exclusive = Nobody /\ \A t \in Slots : d.slot[t] = Failed(Struck(c.slot[t]))
    BY <1>1, <1>2, <1>6, ZenonT(30)
  <2>2. \A t \in Slots : Fallen(d.slot[t]) /\ (d.slot[t].valid \/ d.slot[t].at = "releasing")
    BY <1>4, <2>1, LostCall, ZenonT(30)
  <2>3. d.count <= Cardinality(Leases(d))
    BY <1>1, <1>3
  <2>4. Alone(d)
    BY <1>1, <1>5, <2>1, <2>2, <2>3, Zenon DEF Alone
  <2>. QED
    BY <2>4 DEF d
<1>7. CASE ~(c.count > 0)
  <2>1. d.exclusive = c.exclusive /\ \A t \in Slots : d.slot[t] = Failed(c.slot[t])
    BY <1>1, <1>2, <1>7
  <2>2. \A t \in Slots : /\ d.slot[t].at = c.slot[t].at /\ d.slot[t].valid = c.slot[t].valid
                         /\ d.slot[t].got # "ok"
    BY <1>4, <2>1, FailedFacts
  <2>3. \A t \in Slots : Leased(d.slot[t]) <=> Leased(c.slot[t])
    BY <2>2, Zenon DEF Leased
  <2>4. Leases(d) = Leases(c)
    BY <2>3, Zenon DEF Leases
  <2>5. ASSUME NEW t \in Slots PROVE c.slot[t].at # "held" /\ (c.slot[t].at = "releasing" => ~c.slot[t].valid)
    <3>1. CASE c.conn = "connected"
      <4>1. Leases(c) = {}
        BY <1>3, <1>7, <3>1 DEF Alone
      <4>2. ~Leased(c.slot[t])
        BY <2>5, <4>1, Zenon DEF Leases
      <4>. QED
        BY <4>2 DEF Leased
    <3>2. CASE c.conn # "connected"
      BY <2>5, <3>2, Zenon DEF Alone, Fallen
    <3>. QED
      BY <3>1, <3>2
  <2>6. \A t \in Slots : Fallen(d.slot[t]) /\ (d.slot[t].valid \/ d.slot[t].at = "releasing")
    BY <1>4, <2>2, <2>5, Zenon DEF Fallen
  <2>7. d.exclusive # Nobody => d.exclusive \in Leases(d)
    BY <2>1, <2>4, Zenon DEF Alone
  <2>8. d.count <= Cardinality(Leases(d))
    BY <1>1, <1>3
  <2>9. Alone(d)
    BY <1>1, <1>5, <2>6, <2>7, <2>8, Zenon DEF Alone
  <2>. QED
    BY <2>9 DEF d
<1>. QED
  BY <1>6, <1>7

LEMMA DisposedAlone ==
  ASSUME NEW c \in Clients, Alone(c), \A t \in Slots : c.slot[t].got # "ok"
  PROVE  Alone([AllInvalidated(Lost(c)) EXCEPT !.disposed = TRUE, !.snap = 0])
<1>. DEFINE d == [AllInvalidated(Lost(c)) EXCEPT !.disposed = TRUE, !.snap = 0]
            b == Lost(c)
<1>1. /\ d.conn = b.conn /\ d.slot = b.slot /\ d.count = 0 /\ d.exclusive = b.exclusive /\ d.attached = FALSE
  BY DisposedFields, Zenon DEF SameHubs
<1>2. b.conn = "disconnected" /\ b.count = 0 /\ Alone(b)
  BY LostFields, LostAlone, Zenon
<1>. HIDE DEF b, d
<1>3. Alone(d)
  BY <1>1, <1>2, KeepsAlone DEF SameLeases
<1>. QED
  BY <1>3 DEF d

LEMMA DeliverLease ==
  ASSUME Inv, Alone(y), Deliver, ~overtaken'
  PROVE  Alone(y')
<1>. DEFINE m == Head(down)
<1>0. y \in Clients /\ down \in Seq(Frames)
  BY InvFacts
<1>1. down # <<>> /\ HandleMessage(m) /\ y.conn = "connected"
  BY Zenon DEF Deliver, Connected
<1>2. m \in Frames
  BY <1>0, <1>1, RangeTail
<1>3. /\ y' = CASE m.type = "response" -> Replied(y, m)
                [] m.type = "session_snapshot" -> Applied(y, m.rev)
                [] m.type = "session_removed" -> [Invalidated(y) EXCEPT !.snap = 0, !.attached = FALSE]
      /\ overtaken' = (overtaken \/ (/\ m.type = "session_removed"
                                     /\ \E s \in Slots : y.slot[s].at \notin {"free", "held"}))
  BY <1>1, Zenon DEF HandleMessage
<1>. HIDE DEF m
<1>4. /\ m.type \in {"response", "session_snapshot", "session_removed"}
      /\ m.type = "response" => m.from \in Slots /\ m.ok \in BOOLEAN /\ m.rev \in Nat
      /\ m.type = "session_snapshot" => m.rev \in Nat
  BY <1>2 DEF Frames
<1>5. CASE m.type = "response"
  <2>. DEFINE outcome == IF m.ok THEN "ok" ELSE "error"
  <2>1. y' = Replied(y, m)
    BY <1>3, <1>5
  <2>2. y'.conn = y.conn /\ SameLeases(y, y') /\ \A t \in Slots : y'.slot[t] = Told(y.slot[t], m.from, outcome)
    BY <1>0, <1>4, <1>5, <2>1, RepliedFields DEF SameLeases
  <2>3. outcome \in {"ok", "error"} /\ \A t \in Slots : y.slot[t] \in Calls
    BY <1>0, ClientTypes
  <2>. HIDE DEF outcome
  <2>4. \A t \in Slots : /\ y'.slot[t].at = y.slot[t].at /\ y'.slot[t].mode = y.slot[t].mode
                         /\ y'.slot[t].valid = y.slot[t].valid
    BY <2>2, <2>3, ToldFacts, SMTT(30)
  <2>. QED
    BY <1>1, <2>2, <2>4, KeepsAlone
<1>6. CASE m.type = "session_snapshot"
  <2>1. y' = Applied(y, m.rev)
    BY <1>3, <1>6
  <2>2. y'.conn = y.conn /\ SameLeases(y, y') /\ y'.slot = y.slot
    BY <1>0, <1>4, <1>6, <2>1, AppliedFields, ZenonT(30) DEF SameLeases, SameHubs
  <2>. QED
    BY <1>1, <2>2, KeepsAlone
<1>7. CASE m.type = "session_removed"
  <2>. DEFINE i == Invalidated(y)
  <2>1. y' = [i EXCEPT !.snap = 0, !.attached = FALSE] /\ \A t \in Slots : y.slot[t].at \in {"free", "held"}
    BY <1>3, <1>7, Zenon
  <2>2. /\ i \in Clients /\ i.conn = y.conn /\ i.count = 0 /\ i.exclusive = Nobody
        /\ i.slot = [t \in Slots |-> Struck(y.slot[t])]
    BY <1>0, InvalidatedFields, ZenonT(30) DEF SameHubs
  <2>. HIDE DEF i
  <2>3. y'.conn = i.conn /\ y'.count = i.count /\ y'.exclusive = i.exclusive /\ y'.slot = i.slot
    BY <2>1, <2>2 DEF Clients
  <2>4. ASSUME NEW t \in Slots PROVE y'.slot[t].at = "free" /\ y'.slot[t].valid
    <3>1. y'.slot[t] = Struck(y.slot[t]) /\ y.slot[t].at \in {"free", "held"}
      BY <2>1, <2>2, <2>3, <2>4
    <3>2. y.slot[t].valid
      BY <2>4, <3>1, ZenonT(30) DEF Alone
    <3>. QED
      BY <3>1, <3>2, FreeFacts DEF Struck
  <2>. QED
    BY <1>1, <2>2, <2>3, <2>4, EmptyAlone
<1>. QED
  BY <1>4, <1>5, <1>6, <1>7

-----------------------------------------------------------------------------
(* Exclusive leases.                                                       *)

LEMMA SettledLeases ==
  ASSUME Inv, Alone(y), y' = y \/ Received
  PROVE  Alone(y')
<1>1. CASE Received
  <2>1. y'.conn = y.conn /\ y'.slot = y.slot /\ y'.attached = y.attached /\ SameLeases(y, y')
    BY <1>1, ReceivedFacts DEF SameLeases
  <2>2. y'.conn # "connected" => ~y'.attached
    BY <2>1, Zenon DEF Alone
  <2>. QED
    BY <2>1, <2>2, KeepsAlone
<1>2. CASE y' = y
  BY <1>2
<1>. QED
  BY <1>1, <1>2

LEMMA NextLeases ==
  ASSUME Inv, LeaseInv, [LinkNext]_linkVars
  PROVE  LeaseInv'
<1>. SUFFICES ASSUME ~overtaken' PROVE Alone(y')
  BY Zenon DEF LeaseInv
<1>0. y \in Clients /\ Answerable(y, Owed)
  BY InvFacts
<1>2. ASSUME NEW s \in Slots, NEW mode \in Modes, AcquireSession(s, mode) PROVE Alone(y')
  <2>1. Alone(y)
    BY <1>2, Zenon DEF AcquireSession, LeaseInv
  <2>. QED
    BY <1>2, <2>1, AcquireLease
<1>3. ASSUME NEW s \in Slots, CreateSession(s) PROVE Alone(y')
  <2>1. Alone(y)
    BY <1>3, Zenon DEF CreateSession, LeaseInv
  <2>. QED
    BY <1>3, <2>1, CreateLease
<1>4. ASSUME NEW s \in Slots, NEW r \in BOOLEAN, Release(s, r) PROVE Alone(y')
  <2>1. Alone(y)
    BY <1>4, Zenon DEF Release, LeaseInv
  <2>. QED
    BY <1>4, <2>1, ReleaseLease
<1>5. ASSUME NEW s \in Slots, Continue(s) PROVE Alone(y')
  <2>1. Alone(y) /\ y.slot[s].got # "none" /\ y' = Continued(y, s)
    BY <1>5, Zenon DEF Continue, LeaseInv
  <2>. QED
    BY <1>0, <1>5, <2>1, ContinuedAlone
<1>6. CASE Connect \/ OpenTransport
  <2>1. Alone(y)
    BY <1>6, Zenon DEF Connect, OpenTransport, LeaseInv
  <2>. QED
    BY <1>6, <2>1, ConnectLease
<1>7. CASE Hello
  <2>1. Alone(y)
    BY <1>7, Zenon DEF Hello, LeaseInv
  <2>. QED
    BY <1>7, <2>1, HelloLease
<1>8. CASE LoseConnection
  <2>1. Alone(y) /\ y' = Lost(y) /\ \A t \in Slots : y.slot[t].got # "ok"
    BY <1>8, Zenon DEF LoseConnection, Disconnect, LeaseInv
  <2>. QED
    BY <1>0, <2>1, LostAlone
<1>9. CASE Finish
  <2>1. /\ Alone(y) /\ \A t \in Slots : y.slot[t].got # "ok"
        /\ y' = [AllInvalidated(Lost(y)) EXCEPT !.disposed = TRUE, !.snap = 0]
    BY <1>9, Zenon DEF Finish, Dispose, LeaseInv
  <2>. QED
    BY <1>0, <2>1, DisposedAlone, Zenon
<1>10. CASE Deliver
  <2>1. Alone(y)
    BY <1>10, Zenon DEF Deliver, HandleMessage, LeaseInv
  <2>. QED
    BY <1>10, <2>1, DeliverLease
<1>11. CASE ReceiveAttach \/ ReceiveDetach
  <2>1. Alone(y) /\ Received
    BY <1>11, Zenon DEF ReceiveAttach, ReceiveDetach, Received, LeaseInv
  <2>. QED
    BY <2>1, SettledLeases
<1>12. ASSUME UNCHANGED clientVars PROVE Alone(y')
  <2>1. Alone(y) /\ y' = y
    BY <1>12, Zenon DEF clientVars, LeaseInv
  <2>. QED
    BY <2>1
<1>13. CASE UNCHANGED linkVars
  BY <1>12, <1>13, Zenon DEF linkVars
<1>14. ASSUME NEW r \in srv.attaching, NEW anew \in BOOLEAN, CommitAttach(r, anew) PROVE Alone(y')
  BY <1>12, <1>14, Zenon DEF CommitAttach
<1>15. ASSUME NEW r \in srv.attaching, RefuseAttach(r) PROVE Alone(y')
  BY <1>12, <1>15, Zenon DEF RefuseAttach
<1>16. ASSUME NEW r \in srv.answering, AnswerDetach(r) \/ FailDetach(r) PROVE Alone(y')
  BY <1>12, <1>16, Zenon DEF AnswerDetach, FailDetach
<1>17. CASE SessionChanges \/ RemoveSession \/ \E rev \in srv.publishing : PublishSnapshot(rev)
  BY <1>12, <1>17, Zenon DEF SessionChanges, RemoveSession, PublishSnapshot
<1>. QED
  BY <1>2, <1>3, <1>4, <1>5, <1>6, <1>7, <1>8, <1>9, <1>10, <1>11, <1>13, <1>14, <1>15, <1>16, <1>17,
     Zenon DEF LinkNext

\* The count and the exclusive holder the client keeps are those of the calls
\* that have a lease, from the reservation in acquireSession to the end of the
\* release, as long as no invalidation met a call half-way.
THEOREM LeasesAreCounted == LinkSpec => []LeaseInv
<1>1. LinkInit => LeaseInv
  <2>. SUFFICES ASSUME LinkInit PROVE Alone(y)
    BY Zenon DEF LeaseInv
  <2>1. /\ y.conn = "disconnected" /\ y.attached = FALSE /\ y.count = 0 /\ y.exclusive = Nobody
        /\ \A s \in Slots : y.slot[s] = Free
    BY InitFacts, Zenon
  <2>2. Fallen(Free) /\ Free.valid /\ y.conn # "connected"
    BY <2>1, FreeFacts DEF Fallen
  <2>3. y.count <= Cardinality(Leases(y))
    BY <2>1, LeasesFinite
  <2>. QED
    BY <2>1, <2>2, <2>3, Zenon DEF Alone
<1>2. Inv /\ LeaseInv /\ [LinkNext]_linkVars => LeaseInv'
  BY NextLeases
<1>. QED
  BY <1>1, <1>2, LinkInvariant, PTL DEF LinkSpec

\* Two leases that can be used at the same time are both shared
\* (#reserveSessionLease), for any number of calls, however acquisitions,
\* releases, failures and reconnections interleave.
THEOREM ExclusiveLeaseIsAlone == LinkSpec => []ExclusiveIsAlone
<1>1. Inv /\ LeaseInv => ExclusiveIsAlone
  <2>. SUFFICES ASSUME Inv, LeaseInv, ~overtaken, NEW s \in Slots, NEW t \in Slots, s # t, IsActive(s), IsActive(t)
                PROVE  y.slot[s].mode = "shared" /\ y.slot[t].mode = "shared"
    BY Zenon DEF ExclusiveIsAlone
  <2>1. Alone(y) /\ y.attached /\ y.slot[s].at = "held" /\ y.slot[t].at = "held"
    BY Zenon DEF LeaseInv, IsActive
  <2>2. Leased(y.slot[s]) /\ Leased(y.slot[t])
    BY <2>1 DEF Leased
  <2>3. s \in Leases(y) /\ t \in Leases(y)
    BY <2>2, Zenon DEF Leases
  <2>4. y.conn = "connected"
    BY <2>1, Zenon DEF Alone
  <2>5. /\ y.exclusive # Nobody => Leases(y) = {y.exclusive}
        /\ \A u \in Leases(y) : y.slot[u].mode = "exclusive" => y.exclusive = u
    BY <2>1, <2>4, Zenon DEF Alone
  <2>6. y.slot[s].mode # "exclusive" /\ y.slot[t].mode # "exclusive"
    BY <2>3, <2>5, ClientAssumption, Zenon
  <2>7. y.slot[s].mode \in Modes /\ y.slot[t].mode \in Modes
    BY InvFacts, ClientTypes, CallTypes
  <2>. QED
    BY <2>6, <2>7, Zenon DEF Modes
<1>. QED
  BY <1>1, LinkInvariant, LeasesAreCounted, PTL
=============================================================================
