------------------------- MODULE LiveSessionsProofs -------------------------
(***************************************************************************)
(* Theorems about LiveSessions, for any connections and commands, any      *)
(* number of runtimes, events and calls of removeSession, and a server     *)
(* that may close at any moment.                                           *)
(*                                                                         *)
(* None of the properties is inductive.  That a runtime is not disposed    *)
(* under a command rests on operationCount being the number of commands    *)
(* that hold it; that an attach is fresh, on every reason for which the    *)
(* listener of a runtime can be gone; that a runtime is exclusive, on who  *)
(* answers for one that is not disposed yet.  Inv says this of each        *)
(* runtime (Good), of each command (Command) and of the manager.  A step   *)
(* that changes a runtime is first reduced to what it does to the fields   *)
(* of that runtime, and then to what the conjuncts read of them.           *)
(***************************************************************************)
EXTENDS LiveSessions, FiniteSetTheorems, TLAPS

Counting == {"snapshot", "candidate", "operation"}
Bound == Counting \union {"disposal", "detach"}
Handling == {"sending", "draining", "disposing"}

Lives == [connections : SUBSET Conns, operationCount : Int, stateRevision : Nat,
          version : Nat, idle : BOOLEAN, ready : BOOLEAN, terminal : BOOLEAN,
          terminating : {"no", "running", "done"}, targets : SUBSET Conns,
          subscribed : BOOLEAN, disposing : {"no", "running", "done"},
          held : BOOLEAN, disposals : Nat]
Commands == [at : {"free", "retry", "opening"} \union Bound,
             conn : Conns \union {None}, gen : Runtimes \union {None},
             rev : Nat, snap : Nat]

TypeInv ==
  /\ live \in [Runtimes -> Lives]
  /\ current \in Runtimes \union {None}
  /\ opening \in [at : {"none", "runtime", "snapshot", "dispose"},
                  gen : Runtimes \union {None}]
  /\ stage \in [Conns -> {"ready", "closing", "closed"}]
  /\ sessionIds \subseteq Conns
  /\ task \in [Tasks -> Commands]
  /\ remover \in [at : {"none", "opening", "lookup", "disposal"} \union Handling,
                  gen : Runtimes \union {None}, targets : SUBSET Conns]
  /\ server \in [at : {"open", "listeners", "connections", "openings",
                       "sessions", "closed"}, gen : Runtimes \union {None}]
  /\ opened \in 0..MaxRuntimes /\ events \in Nat /\ removes \in Nat

\* An opening is for the newest runtime, while none is listed, and somebody
\* waits for it.
Opening ==
  /\ opening.at = "none" => opening = NoOpening
  /\ opening.at # "none" =>
       /\ opening.gen = opened /\ opened # 0 /\ current = None
       /\ \E t \in Tasks : task[t].at = "opening"

\* Whoever refers to a runtime refers to a published one.
References ==
  /\ current # None => live[current].ready
  /\ remover.at \in Handling \union {"disposal"} =>
       remover.gen \in Runtimes /\ live[remover.gen].ready
  /\ remover.at = "none" \/ removes = 0 => remover = NotRemoving

\* A command, and the snapshot it took of runtime l: as long as the listener
\* is there, an unmoved revision means an unchanged state.
Follows(k) ==
  /\ k.at # "free" => k.conn \in Conns
  /\ k.at = "opening" => opening.at # "none" /\ k.gen = opening.gen
  /\ k.at \in Bound => k.gen \in Runtimes /\ live[k.gen].ready
Fresh(k, l) ==
  k.at \in {"snapshot", "candidate"} =>
    /\ k.rev <= l.stateRevision
    /\ k.rev = l.stateRevision /\ l.subscribed => k.snap = l.version

\* operationCount is the number of commands that hold the runtime.
Users(g) == {t \in Tasks : task[t].at \in Counting /\ task[t].gen = g}
Counted == \A g \in Runtimes : live[g].operationCount = Cardinality(Users(g))

\* close(), once it waits for the openings.
Gone == server.at \in {"sessions", "closed"}
Closing ==
  /\ server.at = "openings" \/ Gone =>
       /\ \A c \in Conns : stage[c] = "closed"
       /\ opening.at = "snapshot" => ~Gone /\ opening.gen = server.gen
  /\ Gone => current = None

\* Wherever maybeDispose could dispose the listed runtime, it has been called.
Handled(g) == remover.at \in Handling /\ remover.gen = g
NeverIdle ==
  current # None /\ ~Handled(current) /\ live[current].terminating # "running"
    => ~Disposable(live[current])

\* A runtime that is not published is untouched.
Published(g) ==
  IF live[g].ready THEN g <= opened /\ g # opening.gen
  ELSE /\ live[g].connections = {} /\ ~live[g].subscribed
       /\ live[g].disposing = "no" /\ live[g].terminating = "no"

\* What maybeDispose disposes has no connection and no command, then or later.
Unused(g) ==
  live[g].disposing # "no" => live[g].connections = {} /\ live[g].operationCount = 0

\* Who answers for a runtime that is not disposed yet.
Held(g) ==
  live[g].held => \/ g = current
                  \/ g = opening.gen /\ opening.at \in {"snapshot", "dispose"}
                  \/ server.at = "sessions" /\ g = server.gen

\* The reasons for which the listener of a published runtime is gone.
Listened(g) ==
  live[g].ready /\ ~live[g].subscribed =>
    \/ live[g].disposing # "no" \/ live[g].terminal \/ Gone
    \/ removes # 0 /\ (g = current => remover.at # "sending" /\ Handled(g))

\* Without removeSession, what is published and not being disposed is listed,
\* and its connections know.
Once(g) ==
  removes = 0 =>
    /\ live[g].disposals <= 1
    /\ live[g].ready /\ live[g].disposing = "no" /\ ~Gone
         => g = current /\ live[g].disposals = 0
    /\ opening.at = "snapshot" /\ opening.gen = g => live[g].disposals = 0
    /\ \A c \in live[g].connections : c \in sessionIds /\ stage[c] # "closed"

Good(g) == Published(g) /\ Unused(g) /\ Held(g) /\ Listened(g) /\ Once(g)
Command(k) == Follows(k) /\ Fresh(k, live[k.gen])

Inv == /\ TypeInv /\ Opening /\ References /\ Closing /\ NeverIdle /\ Counted
       /\ \A t \in Tasks : Command(task[t])
       /\ \A g \in Runtimes : Good(g)

-----------------------------------------------------------------------------
SameUse(l, m) == m.connections = l.connections /\ m.operationCount = l.operationCount
SameState(l, m) == /\ m.stateRevision = l.stateRevision /\ m.version = l.version
                   /\ m.idle = l.idle
SameLife(l, m) == /\ m.ready = l.ready /\ m.terminal = l.terminal /\ m.held = l.held
                  /\ m.terminating = l.terminating /\ m.targets = l.targets
SameEnd(l, m) == /\ m.subscribed = l.subscribed /\ m.disposing = l.disposing
                 /\ m.disposals = l.disposals
Ended(l, m) == /\ m.subscribed = FALSE /\ m.disposing = "running"
               /\ m.disposals = l.disposals + 1
               /\ m.connections = {} /\ m.operationCount = 0
               /\ ~IsClosing /\ l.ready /\ l.disposing = "no"
Settled(l, m) == SameLife(l, m) /\ (SameEnd(l, m) \/ Ended(l, m)) /\ ~Disposable(m)

LEMMA LiveTypes ==
  ASSUME NEW l \in Lives
  PROVE  /\ l.connections \subseteq Conns /\ l.operationCount \in Int
         /\ l.stateRevision \in Nat /\ l.version \in Nat /\ l.disposals \in Nat
         /\ l.idle \in BOOLEAN /\ l.ready \in BOOLEAN /\ l.terminal \in BOOLEAN
         /\ l.subscribed \in BOOLEAN /\ l.held \in BOOLEAN
         /\ l.terminating \in {"no", "running", "done"} /\ l.targets \subseteq Conns
         /\ l.disposing \in {"no", "running", "done"}
BY DEF Lives

LEMMA NoneFacts == None \notin Runtimes /\ NotRemoving.at = "none"
BY LiveAssumption DEF None, Runtimes, NotRemoving

LEMMA Revisions == \A x, y \in Nat : x <= y => x <= y + 1 /\ x # y + 1
OBVIOUS

LEMMA FirstDisposal == 0 + 1 <= 1 /\ 0 <= 1
OBVIOUS

\* What maybeDispose does to a runtime.
LEMMA MaybeDisposeEffect ==
  ASSUME NEW l \in Lives
  PROVE  /\ MaybeDispose(l) \in Lives
         /\ SameUse(l, MaybeDispose(l)) /\ SameState(l, MaybeDispose(l))
         /\ Settled(l, MaybeDispose(l))
<1>1. CASE Disposable(l)
  <2>. DEFINE n == l.disposals + 1
              m == [l EXCEPT !.subscribed = FALSE, !.disposals = n, !.disposing = "running"]
  <2>1. MaybeDispose(l) = m
    BY <1>1 DEF MaybeDispose, CallDispose, Lives
  <2>2. n \in Nat
    BY LiveTypes
  <2>. HIDE DEF n
  <2>3. m \in Lives /\ m.subscribed = FALSE /\ m.disposals = n /\ m.disposing = "running"
    BY <2>2, Zenon DEF Lives
  <2>4. SameUse(l, m) /\ SameState(l, m) /\ SameLife(l, m)
    BY DEF Lives, SameUse, SameState, SameLife
  <2>. HIDE DEF m
  <2>5. Ended(l, m) /\ ~Disposable(m)
    BY <1>1, <2>3, <2>4 DEF Disposable, Ended, SameUse, n
  <2>. QED
    BY <2>1, <2>3, <2>4, <2>5 DEF Settled
<1>2. CASE ~Disposable(l)
  BY <1>2 DEF MaybeDispose, SameUse, SameState, SameLife, SameEnd, Settled
<1>. QED
  BY <1>1, <1>2

LEMMA UseEffect ==
  ASSUME NEW l \in Lives, NEW C \in SUBSET Conns, NEW n \in Int
  PROVE  LET d == [l EXCEPT !.connections = C, !.operationCount = n] IN
         /\ d \in Lives /\ d.connections = C /\ d.operationCount = n
         /\ SameState(l, d) /\ SameLife(l, d) /\ SameEnd(l, d)
BY Zenon DEF Lives, SameState, SameLife, SameEnd

\* The finally block of a command, after connections S were attached.
LEMMA EndEffect ==
  ASSUME NEW l \in Lives, NEW S \in SUBSET Conns
  PROVE  \E m \in Lives :
         /\ m = EndOperation([l EXCEPT !.connections = @ \union S])
         /\ m.connections = l.connections \union S
         /\ m.operationCount = l.operationCount - 1
         /\ SameState(l, m) /\ Settled(l, m)
<1>. DEFINE C == l.connections \union S
            n == l.operationCount - 1
            d == [l EXCEPT !.connections = C, !.operationCount = n]
            m == EndOperation([l EXCEPT !.connections = @ \union S])
<1>1. C \in SUBSET Conns /\ n \in Int
  BY LiveTypes
<1>2. [[l EXCEPT !.connections = @ \union S] EXCEPT !.operationCount = @ - 1] = d
  BY DEF Lives
<1>3. m = MaybeDispose(d)
  BY <1>2 DEF EndOperation
<1>. HIDE DEF C, n
<1>4. /\ d \in Lives /\ d.connections = C /\ d.operationCount = n
      /\ SameState(l, d) /\ SameLife(l, d) /\ SameEnd(l, d)
  BY <1>1, UseEffect, Zenon
<1>. HIDE DEF d, m
<1>5. m \in Lives /\ SameUse(d, m) /\ SameState(d, m) /\ Settled(d, m)
  BY <1>3, <1>4, MaybeDisposeEffect
<1>6. SameState(l, m) /\ Settled(l, m)
  BY <1>4, <1>5 DEF SameState, SameLife, SameEnd, Ended, Settled
<1>. QED
  BY <1>4, <1>5, <1>6, Zenon DEF C, n, m, SameUse
-----------------------------------------------------------------------------
(* Counting the commands of a runtime.                                      *)

LEMMA UsersFinite == \A g : IsFiniteSet(Users(g)) /\ Cardinality(Users(g)) \in Nat
BY LiveAssumption, FS_Subset, FS_CardinalityType DEF Users

\* The counts stay right where no command begins or ends to hold a runtime.
LEMMA CountedKept ==
  ASSUME Counted,
         \A g \in Runtimes : live'[g].operationCount = live[g].operationCount,
         \A t \in Tasks : /\ task'[t].at \in Counting <=> task[t].at \in Counting
                          /\ task[t].at \in Counting => task'[t].gen = task[t].gen
  PROVE  Counted'
<1>1. \A g \in Runtimes : Users(g)' = Users(g)
  BY DEF Users
<1>. QED
  BY <1>1 DEF Counted

\* A command holds its runtime.
LEMMA InUse ==
  ASSUME Inv, NEW t \in Tasks, task[t].at \in Counting
  PROVE  /\ task[t].gen \in Runtimes /\ live[task[t].gen].ready
         /\ live[task[t].gen].operationCount > 0 /\ live[task[t].gen].disposing = "no"
<1>. DEFINE k == task[t].gen
<1>1. k \in Runtimes /\ live[k].ready /\ live[k] \in Lives
  BY Zenon DEF Inv, TypeInv, Command, Follows, Bound
<1>2. t \in Users(k)
  BY DEF Users
<1>. HIDE DEF k
<1>3. Cardinality(Users(k)) > 0
  BY <1>2, UsersFinite, FS_EmptySet
<1>4. live[k].operationCount > 0
  BY <1>1, <1>3 DEF Inv, Counted
<1>5. Unused(k)
  BY <1>1 DEF Inv, Good
<1>6. live[k].disposing = "no"
  BY <1>4, <1>5 DEF Unused
<1>. QED
  BY <1>1, <1>4, <1>6 DEF k

\* One command, or one runtime, changes.
LEMMA CommandChanges ==
  ASSUME TypeInv, NEW t \in Tasks, NEW u \in Commands,
         task' = [task EXCEPT ![t] = u]
  PROVE  /\ task' \in [Tasks -> Commands] /\ task'[t] = u
         /\ \A v \in Tasks \ {t} : task'[v] = task[v]
BY DEF TypeInv

LEMMA RuntimeChange ==
  ASSUME TypeInv, NEW k \in Runtimes, NEW m \in Lives,
         live' = [live EXCEPT ![k] = m]
  PROVE  /\ live' \in [Runtimes -> Lives] /\ live'[k] = m
         /\ \A g \in Runtimes \ {k} : live'[g] = live[g]
BY DEF TypeInv

LEMMA FreeCommand == Free \in Commands
BY DEF Free, Commands, None

\* A runtime that stays what it is, or is being disposed now.
LEMMA GoodKept ==
  ASSUME NEW g \in Runtimes, Good(g), live[g] \in Lives, live'[g] \in Lives,
         SameLife(live[g], live'[g]),
         \/ SameEnd(live[g], live'[g]) /\ live'[g].connections = live[g].connections
             /\ live'[g].operationCount = live[g].operationCount
         \/ SameEnd(live[g], live'[g]) /\ live[g].disposing = "no" /\ live[g].ready
         \/ Ended(live[g], live'[g]),
         removes = 0 => \A c \in live'[g].connections :
                          c \in sessionIds' /\ stage'[c] # "closed",
         UNCHANGED <<current, opening, remover, server, opened, removes>>
  PROVE  Good(g)'
<1>1. Published(g)'
  BY DEF Good, Published, SameLife, SameEnd, Ended
<1>2. Unused(g)'
  BY DEF Good, Unused, SameEnd, Ended
<1>3. Held(g)'
  BY DEF Good, Held, SameLife
<1>4. Listened(g)'
  BY DEF Good, Listened, SameLife, SameEnd, Ended, Gone, Handled
<1>5. Once(g)'
  BY LiveTypes DEF Good, Once, Published, SameLife, SameEnd, Ended, Gone, IsClosing
<1>. QED
  BY <1>1, <1>2, <1>3, <1>4, <1>5 DEF Good

\* A command whose runtime stays what it is, but for its use or its end.
Quiet(l, m) == SameState(l, m) /\ m.ready = l.ready /\ (m.subscribed => l.subscribed)
LEMMA CommandKept ==
  ASSUME NEW t \in Tasks, Command(task[t]), task'[t] = task[t],
         \A g \in Runtimes : Quiet(live[g], live'[g]),
         opening' = opening
  PROVE  Command(task[t])'
<1>1. CASE task[t].at \in Bound
  <2>1. task[t].gen \in Runtimes
    BY <1>1 DEF Command, Follows
  <2>2. Quiet(live[task[t].gen], live'[task[t].gen])
    BY <2>1
  <2>. QED
    BY <1>1, <2>1, <2>2 DEF Command, Follows, Fresh, Quiet, SameState
<1>2. CASE task[t].at \notin Bound
  BY <1>2, Zenon DEF Command, Follows, Fresh, Bound, Counting
<1>. QED
  BY <1>1, <1>2

\* The listed runtime stays, or is settled by the step.
LEMMA NeverIdleKept ==
  ASSUME TypeInv, NeverIdle, NEW k \in Runtimes, ~Disposable(live'[k]),
         \A g \in Runtimes \ {k} : live'[g] = live[g],
         UNCHANGED <<current, remover, server>>
  PROVE  NeverIdle'
<1>1. CASE current = k
  BY <1>1 DEF NeverIdle, Disposable, IsClosing
<1>2. CASE current # k
  BY <1>2 DEF TypeInv, NeverIdle, Disposable, Handled, IsClosing
<1>. QED
  BY <1>1, <1>2

\* The finally block of a command, which may have attached connections.
LEMMA EndStep ==
  ASSUME Inv, NEW t \in Tasks, task[t].at \in Counting, NEW S \in SUBSET Conns,
         NEW k, k = task[t].gen,
         live' = [live EXCEPT ![k] =
                    EndOperation([live[k] EXCEPT !.connections = @ \union S])],
         task' = [task EXCEPT ![t] = Free],
         sessionIds' = sessionIds \union S,
         \A c \in S : stage[c] = "ready",
         UNCHANGED <<current, opening, stage, remover, server, bounds>>
  PROVE  Inv'
<1>inv. /\ TypeInv /\ Opening /\ References /\ Closing /\ NeverIdle /\ Counted
        /\ \A u \in Tasks : Command(task[u])
        /\ \A g \in Runtimes : Good(g)
  BY DEF Inv
<1>use. /\ k \in Runtimes /\ live[k] \in Lives /\ live[k].ready
        /\ live[k].operationCount > 0 /\ live[k].disposing = "no"
  BY <1>inv, InUse DEF TypeInv
<1>eff. PICK m \in Lives :
          /\ live' = [live EXCEPT ![k] = m]
          /\ m.connections = live[k].connections \union S
          /\ m.operationCount = live[k].operationCount - 1
          /\ SameState(live[k], m) /\ Settled(live[k], m)
  BY <1>use, EndEffect, Zenon
<1>task. /\ task' \in [Tasks -> Commands] /\ task'[t] = Free
         /\ \A u \in Tasks \ {t} : task'[u] = task[u]
  BY <1>inv, FreeCommand, CommandChanges, Zenon
<1>live. /\ live' \in [Runtimes -> Lives] /\ live'[k] = m
         /\ \A g \in Runtimes \ {k} : live'[g] = live[g]
  <2>1. TypeInv
    BY <1>inv
  <2>. QED
    BY <2>1, <1>use, <1>eff, RuntimeChange, ZenonT(30)
<1>1. TypeInv'
  BY <1>inv, <1>task, <1>live DEF TypeInv, bounds
<1>2. Opening' /\ Closing'
  BY <1>inv, <1>task DEF Opening, Closing, Gone, Counting, Free, bounds
<1>3. References'
  BY <1>inv, <1>live, <1>eff, Zenon DEF TypeInv, References, Settled, SameLife, bounds
<1>4. NeverIdle'
  BY <1>inv, <1>use, <1>live, <1>eff, NeverIdleKept, ZenonT(30) DEF Settled
<1>5. Counted'
  <2>1. Users(k)' = Users(k) \ {t} /\ t \in Users(k)
    BY <1>task DEF Users, Free, Counting
  <2>2. \A g \in Runtimes \ {k} : Users(g)' = Users(g)
    BY <1>task DEF Users, Free, Counting
  <2>3. IsFiniteSet(Users(k))
    BY UsersFinite
  <2>4. Cardinality(Users(k) \ {t}) = Cardinality(Users(k)) - 1
    BY <2>1, <2>3, FS_RemoveElement, Zenon
  <2>5. live'[k].operationCount = Cardinality(Users(k)')
    BY <1>inv, <1>live, <1>eff, <1>use, <2>1, <2>4, Zenon DEF Counted
  <2>. QED
    BY <1>inv, <1>live, <2>2, <2>5, Zenon DEF Counted
<1>6. ASSUME NEW u \in Tasks PROVE Command(task[u])'
  <2>1. CASE u = t
    BY <2>1, <1>task, Zenon DEF Command, Follows, Fresh, Free, Bound, Counting
  <2>2. CASE u # t
    <3>1. \A g \in Runtimes : Quiet(live[g], live'[g])
      BY <1>live, <1>eff, ZenonT(30) DEF Quiet, Settled, SameLife, SameState, SameEnd, Ended
    <3>. QED
      BY <2>2, <3>1, <1>inv, <1>task, CommandKept, Zenon
  <2>. QED
    BY <2>1, <2>2
<1>7. ASSUME NEW g \in Runtimes PROVE Good(g)'
  <2>1. live[g] \in Lives /\ live'[g] \in Lives /\ Good(g)
    BY <1>inv, <1>live, Zenon DEF TypeInv
  <2>2. removes = 0 => \A c \in live[g].connections : c \in sessionIds' /\ stage'[c] # "closed"
    BY <2>1 DEF Good, Once
  <2>3. CASE g = k
    BY <2>1, <2>2, <2>3, <1>live, <1>eff, <1>use, GoodKept, Zenon DEF Settled, bounds
  <2>4. CASE g # k
    BY <2>1, <2>2, <2>4, <1>live, GoodKept, Zenon DEF SameLife, SameEnd, bounds
  <2>. QED
    BY <2>3, <2>4
<1>. QED
  BY <1>1, <1>2, <1>3, <1>4, <1>5, <1>6, <1>7, Zenon DEF Inv

\* A command begins to hold the listed runtime.
LEMMA BeginStep ==
  ASSUME Inv, NEW t \in Tasks, task[t].at \in {"free", "retry"},
         NEW k, k = current, k # None, live[k].disposing = "no",
         NEW u \in Commands, u.at \in Counting, u.gen = k, Command(u),
         live' = [live EXCEPT ![k].operationCount = @ + 1],
         task' = [task EXCEPT ![t] = u],
         UNCHANGED <<current, opening, stage, sessionIds, remover, server, bounds>>
  PROVE  Inv'
<1>. DEFINE n == live[k].operationCount + 1
            m == [live[k] EXCEPT !.operationCount = n]
<1>inv. /\ TypeInv /\ Opening /\ References /\ Closing /\ NeverIdle /\ Counted
        /\ \A v \in Tasks : Command(task[v])
        /\ \A g \in Runtimes : Good(g)
  BY DEF Inv
<1>use. k \in Runtimes /\ live[k] \in Lives /\ live[k].ready /\ n \in Int
  BY <1>inv, LiveTypes DEF TypeInv, References
<1>upd. live' = [live EXCEPT ![k] = m]
  OBVIOUS
<1>cnt. live[k].operationCount = Cardinality(Users(k))
  BY <1>inv, <1>use DEF Counted
<1>. HIDE DEF n
<1>eff. /\ m \in Lives /\ m.connections = live[k].connections /\ m.operationCount = n
        /\ SameState(live[k], m) /\ SameLife(live[k], m) /\ SameEnd(live[k], m)
  BY <1>use, Zenon DEF Lives, SameState, SameLife, SameEnd
<1>. HIDE DEF m
<1>task. /\ task' \in [Tasks -> Commands] /\ task'[t] = u
         /\ \A v \in Tasks \ {t} : task'[v] = task[v]
  BY <1>inv, CommandChanges, Zenon
<1>live. /\ live' \in [Runtimes -> Lives] /\ live'[k] = m
         /\ \A g \in Runtimes \ {k} : live'[g] = live[g]
  <2>1. TypeInv
    BY <1>inv
  <2>. QED
    BY <2>1, <1>use, <1>upd, <1>eff, RuntimeChange, ZenonT(30)
<1>1. TypeInv'
  BY <1>inv, <1>task, <1>live DEF TypeInv, bounds
<1>2. Opening' /\ Closing'
  BY <1>inv, <1>task DEF Opening, Closing, Gone, bounds
<1>3. References'
  BY <1>inv, <1>live, <1>eff, Zenon DEF TypeInv, References, SameLife, bounds
<1>n. n = Cardinality(Users(k)) + 1 /\ n # 0
  BY <1>cnt, UsersFinite DEF n
<1>4. NeverIdle'
  <2>0. live'[k].operationCount # 0
    BY <1>live, <1>eff, <1>n, Zenon
  <2>1. ~Disposable(live'[k])
    BY <2>0 DEF Disposable
  <2>. QED
    BY <1>inv, <1>use, <1>live, <2>1, NeverIdleKept, Zenon
<1>5. Counted'
  <2>1. Users(k)' = Users(k) \union {t} /\ t \notin Users(k)
    BY <1>task DEF Users, Counting
  <2>2. \A g \in Runtimes \ {k} : Users(g)' = Users(g)
    BY <1>task DEF Users, Counting
  <2>3. IsFiniteSet(Users(k))
    BY UsersFinite
  <2>4. Cardinality(Users(k) \union {t}) = Cardinality(Users(k)) + 1
    BY <2>1, <2>3, FS_AddElement, Zenon
  <2>5. live'[k].operationCount = Cardinality(Users(k)')
    BY <1>live, <1>eff, <1>n, <2>1, <2>4, Zenon
  <2>. QED
    BY <1>inv, <1>live, <2>2, <2>5, Zenon DEF Counted
<1>6. ASSUME NEW v \in Tasks PROVE Command(task[v])'
  <2>0. \A g \in Runtimes : Quiet(live[g], live'[g])
    BY <1>live, <1>eff DEF Quiet, SameLife, SameState, SameEnd
  <2>1. CASE v = t
    <3>1. Quiet(live[k], live'[k]) /\ u.gen = k /\ u.gen \in Runtimes /\ u.at # "opening"
      BY <1>use, <2>0, Zenon DEF Counting
    <3>. QED
      BY <2>1, <3>1, <1>task DEF Command, Follows, Fresh, Quiet, SameState
  <2>2. CASE v # t
    BY <2>0, <2>2, <1>inv, <1>task, CommandKept, Zenon
  <2>. QED
    BY <2>1, <2>2
<1>7. ASSUME NEW g \in Runtimes PROVE Good(g)'
  <2>1. live[g] \in Lives /\ live'[g] \in Lives /\ Good(g)
    BY <1>inv, <1>live, Zenon DEF TypeInv
  <2>2. removes = 0 => \A c \in live[g].connections : c \in sessionIds' /\ stage'[c] # "closed"
    BY <2>1, Zenon DEF Good, Once
  <2>3. CASE g = k
    BY <2>1, <2>2, <2>3, <1>live, <1>eff, <1>use, GoodKept, Zenon DEF bounds
  <2>4. CASE g # k
    BY <2>1, <2>2, <2>4, <1>live, GoodKept, Zenon DEF SameLife, SameEnd, bounds
  <2>. QED
    BY <2>3, <2>4
<1>. QED
  BY <1>1, <1>2, <1>3, <1>4, <1>5, <1>6, <1>7, Zenon DEF Inv

\* Only a command changes, and holds what it held.
LEMMA CommandStep ==
  ASSUME Inv, NEW t \in Tasks, NEW u \in Commands, Command(u),
         task' = [task EXCEPT ![t] = u], task[t].at # "opening",
         u.at \in Counting <=> task[t].at \in Counting,
         u.at \in Counting => u.gen = task[t].gen,
         UNCHANGED <<live, current, opening, stage, sessionIds, remover, server,
                     bounds>>
  PROVE  Inv'
<1>inv. /\ TypeInv /\ Opening /\ References /\ Closing /\ NeverIdle /\ Counted
        /\ \A v \in Tasks : Command(task[v])
        /\ \A g \in Runtimes : Good(g)
  BY DEF Inv
<1>task. /\ task' \in [Tasks -> Commands] /\ task'[t] = u
         /\ \A v \in Tasks \ {t} : task'[v] = task[v]
  BY <1>inv, CommandChanges, Zenon
<1>1. TypeInv'
  BY <1>inv, <1>task DEF TypeInv, bounds
<1>2. Opening' /\ Closing' /\ References'
  BY <1>inv, <1>task, Zenon DEF Opening, Closing, Gone, References, bounds
<1>4. NeverIdle'
  BY <1>inv, Zenon DEF NeverIdle, Disposable, Handled, IsClosing
<1>5. Counted'
  BY <1>inv, <1>task, CountedKept, Zenon
<1>6. ASSUME NEW v \in Tasks PROVE Command(task[v])'
  BY <1>inv, <1>task, Zenon DEF Command, Follows, Fresh
<1>7. ASSUME NEW g \in Runtimes PROVE Good(g)'
  BY <1>inv, Zenon DEF Good, Published, Unused, Held, Listened, Once, Gone, Handled, bounds
<1>. QED
  BY <1>1, <1>2, <1>4, <1>5, <1>6, <1>7, Zenon DEF Inv
-----------------------------------------------------------------------------
(* The commands.                                                            *)

LEMMA AcquireExistingStep ==
  ASSUME Inv, NEW t \in Tasks, NEW c \in Conns, AcquireExisting(t, c)
  PROVE  Inv'
<1>. DEFINE u == Preparing(c, current)
<1>1. current \in Runtimes /\ live[current] \in Lives /\ live[current].ready
  BY DEF Inv, TypeInv, References, AcquireExisting
<1>2. u \in Commands /\ u.at = "snapshot" /\ u.gen = current /\ u.conn = c
      /\ u.rev = live[current].stateRevision /\ u.snap = live[current].version
  BY <1>1, LiveTypes, Zenon DEF Preparing, Commands, Bound, Counting
<1>3. Command(u)
  BY <1>1, <1>2, LiveTypes DEF Command, Follows, Fresh
<1>. QED
  BY <1>2, <1>3, BeginStep, Zenon DEF AcquireExisting, Acquiring, Counting

LEMMA OperateStep ==
  ASSUME Inv, NEW t \in Tasks, NEW c \in Conns, Operate(t, c)
  PROVE  Inv'
<1>. DEFINE u == [Free EXCEPT !.at = "operation", !.conn = c, !.gen = current]
<1>1. current \in Runtimes /\ live[current] \in Lives /\ live[current].ready
  BY DEF Inv, TypeInv, References, Operate
<1>2. u \in Commands /\ u.at = "operation" /\ u.gen = current /\ u.conn = c
  BY <1>1, Zenon DEF Free, Commands, Bound, Counting
<1>3. Command(u)
  BY <1>1, <1>2 DEF Command, Follows, Fresh
<1>. QED
  BY <1>2, <1>3, BeginStep, Zenon DEF Operate, Counting

LEMMA AcquireWaitsStep ==
  ASSUME Inv, NEW t \in Tasks, NEW c \in Conns,
         \/ AcquireRefused(t, c) \/ AcquireAwaitsDisposal(t, c)
         \/ AcquireAwaitsOpening(t, c)
  PROVE  Inv'
<1>0. TypeInv /\ References /\ Opening
  BY DEF Inv
<1>1. CASE AcquireRefused(t, c)
  <2>1. Free \in Commands /\ Command(Free)
    BY FreeCommand DEF Command, Follows, Fresh, Free, Bound, Counting
  <2>. QED
    BY <1>1, <2>1, CommandStep, Zenon DEF AcquireRefused, Counting, Free
<1>2. CASE AcquireAwaitsDisposal(t, c)
  <2>. DEFINE u == [Free EXCEPT !.at = "disposal", !.conn = c, !.gen = current]
  <2>1. current \in Runtimes /\ live[current].ready
    BY <1>0, <1>2 DEF TypeInv, References, AcquireAwaitsDisposal
  <2>2. u \in Commands /\ u.at = "disposal" /\ u.gen = current /\ u.conn = c
    BY <2>1, Zenon DEF Free, Commands, Bound, Counting
  <2>3. Command(u)
    BY <2>1, <2>2 DEF Command, Follows, Fresh
  <2>. QED
    BY <1>2, <2>2, <2>3, CommandStep, Zenon DEF AcquireAwaitsDisposal, Acquiring, Counting
<1>3. CASE AcquireAwaitsOpening(t, c)
  <2>. DEFINE u == [Free EXCEPT !.at = "opening", !.conn = c, !.gen = opening.gen]
  <2>1. opening.at # "none" /\ opening.gen \in Runtimes \union {None}
    BY <1>0, <1>3 DEF TypeInv, Opening, AcquireAwaitsOpening
  <2>2. u \in Commands /\ u.at = "opening" /\ u.gen = opening.gen /\ u.conn = c
    BY <2>1, Zenon DEF Free, Commands, Bound, Counting
  <2>3. Command(u)
    BY <2>1, <2>2 DEF Command, Follows, Fresh, Bound, Counting
  <2>. QED
    BY <1>3, <2>2, <2>3, CommandStep, Zenon DEF AcquireAwaitsOpening, Acquiring, Counting
<1>. QED
  BY <1>1, <1>2, <1>3

LEMMA SnapshotStep ==
  ASSUME Inv, NEW t \in Tasks, SnapshotReturns(t) \/ PrepareAgain(t)
  PROVE  Inv'
<1>. DEFINE k == task[t]
            l == live[k.gen]
            p == Preparing(k.conn, k.gen)
<1>1. k.at \in {"snapshot", "candidate"} /\ k \in Commands /\ Command(k)
  BY Zenon DEF Inv, TypeInv, SnapshotReturns, PrepareAgain
<1>2. /\ k.gen \in Runtimes /\ l \in Lives /\ l.ready /\ k.conn \in Conns
      /\ k.rev \in Nat /\ k.snap \in Nat
  BY <1>1 DEF Inv, TypeInv, Command, Follows, Bound, Counting, Commands
<1>3. /\ p \in Commands /\ p.at = "snapshot" /\ p.gen = k.gen /\ p.conn = k.conn
      /\ p.rev = l.stateRevision /\ p.snap = l.version
  BY <1>2, LiveTypes, Zenon DEF Preparing, Commands, Bound, Counting
<1>4. Command(p)
  BY <1>2, <1>3, LiveTypes DEF Command, Follows, Fresh
<1>5. CASE task' = [task EXCEPT ![t] = p]
  BY <1>1, <1>3, <1>4, <1>5, CommandStep, Zenon DEF Counting, SnapshotReturns, PrepareAgain
<1>6. ASSUME k.rev = l.stateRevision, NEW seen \in k.snap..l.version,
             task' = [task EXCEPT ![t] = [k EXCEPT !.at = "candidate", !.snap = seen]]
      PROVE  Inv'
  <2>. DEFINE u == [k EXCEPT !.at = "candidate", !.snap = seen]
  <2>1. seen \in Nat
    BY <1>2, LiveTypes
  <2>2. /\ u \in Commands /\ u.at = "candidate" /\ u.gen = k.gen /\ u.conn = k.conn
        /\ u.rev = k.rev /\ u.snap = seen
    BY <2>1, <1>1, Zenon DEF Commands, Bound, Counting
  <2>3. Command(u)
    BY <1>1, <1>2, <1>6, <2>2, LiveTypes DEF Command, Follows, Fresh
  <2>. QED
    BY <1>1, <1>6, <2>2, <2>3, CommandStep, Zenon DEF Counting, SnapshotReturns, PrepareAgain
<1>. QED
  BY <1>5, <1>6, Zenon DEF SnapshotReturns, PrepareAgain

LEMMA OperationEndsStep ==
  ASSUME Inv, NEW t \in Tasks, SnapshotFails(t) \/ OperateEnds(t) \/ Attach(t)
  PROVE  Inv'
<1>. DEFINE k == task[t].gen
<1>1. task[t].at \in Counting
  BY Zenon DEF SnapshotFails, OperateEnds, Attach, Counting
<1>2. k \in Runtimes /\ live[k] \in Lives /\ task[t].conn \in Conns
  BY <1>1, Zenon DEF Inv, TypeInv, Command, Follows, Bound, Counting
<1>3. [live[k] EXCEPT !.connections = @ \union {}] = live[k]
  BY <1>2 DEF Lives
<1>4. CASE Attach(t) /\ stage[task[t].conn] = "ready"
  <2>1. {task[t].conn} \in SUBSET Conns
    BY <1>2
  <2>2. /\ live' = [live EXCEPT ![k] = EndOperation([live[k] EXCEPT
                                 !.connections = @ \union {task[t].conn}])]
        /\ task' = [task EXCEPT ![t] = Free]
        /\ sessionIds' = sessionIds \union {task[t].conn}
        /\ UNCHANGED <<current, opening, stage, remover, server, bounds>>
    BY <1>4 DEF Attach, FinishAttach
  <2>. QED
    BY <1>1, <1>4, <2>1, <2>2, EndStep, Zenon
<1>5. CASE ~(Attach(t) /\ stage[task[t].conn] = "ready")
  <2>1. /\ live' = [live EXCEPT ![k] = EndOperation(live[k])]
        /\ task' = [task EXCEPT ![t] = Free]
        /\ sessionIds' = sessionIds \union {}
        /\ UNCHANGED <<current, opening, stage, remover, server, bounds>>
    BY <1>5, Zenon DEF Attach, FinishAttach, SnapshotFails, OperateEnds
  <2>2. {} \in SUBSET Conns /\ \A c \in {} : stage[c] = "ready"
    OBVIOUS
  <2>3. live' = [live EXCEPT ![k] = EndOperation([live[k] EXCEPT !.connections = @ \union {}])]
    BY <1>3, <2>1, Zenon
  <2>. HIDE DEF k
  <2>. QED
    BY <1>1, <2>1, <2>2, <2>3, EndStep, ZenonT(30) DEF k
<1>. QED
  BY <1>4, <1>5
-----------------------------------------------------------------------------
(* Opening a runtime.                                                       *)

LEMMA AcquireOpensStep ==
  ASSUME Inv, NEW t \in Tasks, NEW c \in Conns, AcquireOpens(t, c)
  PROVE  Inv'
<1>. DEFINE u == [Free EXCEPT !.at = "opening", !.conn = c, !.gen = opened + 1]
<1>inv. /\ TypeInv /\ Opening /\ References /\ Closing /\ NeverIdle /\ Counted
        /\ \A v \in Tasks : Command(task[v])
        /\ \A g \in Runtimes : Good(g)
  BY DEF Inv
<1>act. /\ opened + 1 \in Runtimes /\ opened \in Nat /\ opened' = opened + 1
        /\ opening = NoOpening /\ opening' = [at |-> "runtime", gen |-> opened + 1]
        /\ task' = [task EXCEPT ![t] = u] /\ task[t].at \in {"free", "retry"}
        /\ current = None
        /\ UNCHANGED <<live, current, stage, sessionIds, remover, server, events, removes>>
  BY <1>inv, LiveAssumption DEF TypeInv, AcquireOpens, Create, Acquiring, Runtimes
<1>u. u \in Commands /\ u.at = "opening" /\ u.gen = opened + 1 /\ u.conn = c
  BY <1>act, Zenon DEF Free, Commands, Bound, Counting
<1>. HIDE DEF u
<1>task. /\ task' \in [Tasks -> Commands] /\ task'[t] = u
         /\ \A v \in Tasks \ {t} : task'[v] = task[v]
  BY <1>inv, <1>act, <1>u, CommandChanges, Zenon
<1>1. TypeInv'
  BY <1>inv, <1>act, <1>task DEF TypeInv, Runtimes
<1>2. Opening' /\ Closing'
  BY <1>inv, <1>act, <1>task, <1>u DEF Opening, Closing, Gone
<1>3. References' /\ NeverIdle'
  BY <1>inv, <1>act, Zenon DEF References, NeverIdle
<1>5. Counted'
  <2>1. \A v \in Tasks : /\ task'[v].at \in Counting <=> task[v].at \in Counting
                         /\ task[v].at \in Counting => task'[v].gen = task[v].gen
    BY <1>act, <1>task, <1>u DEF Counting
  <2>. QED
    BY <1>inv, <1>act, <2>1, CountedKept, Zenon
<1>6. ASSUME NEW v \in Tasks PROVE Command(task[v])'
  <2>1. CASE v = t
    BY <2>1, <1>task, <1>u, <1>act, Zenon DEF Command, Follows, Fresh, Bound, Counting
  <2>2. CASE v # t
    BY <2>2, <1>inv, <1>task, <1>act, Zenon DEF Command, Follows, Fresh, NoOpening
  <2>. QED
    BY <2>1, <2>2
<1>7. ASSUME NEW g \in Runtimes PROVE Good(g)'
  <2>1. Good(g) /\ live'[g] = live[g] /\ g \in Nat /\ g # None
    BY <1>inv, <1>act, LiveAssumption DEF Runtimes, None
  <2>. QED
    BY <2>1, <1>act DEF Good, Published, Unused, Held, Listened, Once, Gone, Handled, NoOpening
<1>. QED
  BY <1>1, <1>2, <1>3, <1>5, <1>6, <1>7, Zenon DEF Inv

\* The runtime of an opening is not published.
LEMMA BeingOpened ==
  ASSUME Inv, opening.at # "none"
  PROVE  LET l == live[opening.gen] IN
         /\ opening.gen \in Runtimes /\ l \in Lives /\ ~l.ready
         /\ l.connections = {} /\ ~l.subscribed /\ l.disposing = "no"
         /\ l.terminating = "no" /\ opening.gen = opened /\ current = None
<1>1. TypeInv /\ Opening
  BY DEF Inv
<1>2. opening.gen \in Runtimes /\ opening.gen = opened /\ current = None
  BY <1>1, LiveAssumption DEF TypeInv, Opening, Runtimes
<1>3. Published(opening.gen) /\ live[opening.gen] \in Lives
  BY <1>1, <1>2 DEF Inv, Good, TypeInv
<1>. QED
  BY <1>2, <1>3 DEF Published

\* OpeningFails, the runtime being gone by then.
LEMMA OpeningFailsStep ==
  ASSUME Inv, RuntimeRefused \/ OpeningDisposed
  PROVE  Inv'
<1>inv. /\ TypeInv /\ Opening /\ References /\ Closing /\ NeverIdle /\ Counted
        /\ \A v \in Tasks : Command(task[v])
        /\ \A g \in Runtimes : Good(g)
  BY DEF Inv
<1>act. /\ opening.at # "none" /\ opening' = NoOpening
        /\ task' = [t \in Tasks |-> IF t \in Waiting("opening", opening.gen)
                                    THEN Free ELSE task[t]]
        /\ remover' = IF remover.at = "opening" THEN NotRemoving ELSE remover
        /\ UNCHANGED <<current, stage, sessionIds, server, bounds>>
  BY DEF RuntimeRefused, OpeningDisposed, OpeningFails
<1>k. PICK k \in Runtimes :
        /\ k = opening.gen /\ live[k] \in Lives /\ ~live[k].ready /\ current = None
  BY <1>act, BeingOpened
<1>live. /\ live' \in [Runtimes -> Lives]
         /\ \A g \in Runtimes \ {k} : live'[g] = live[g]
         /\ SameUse(live[k], live'[k]) /\ SameEnd(live[k], live'[k])
         /\ live'[k].ready = live[k].ready /\ live'[k].terminating = live[k].terminating
         /\ (opening.at = "runtime" /\ live'[k] = live[k]) \/ ~live'[k].held
  <2>1. CASE RuntimeRefused
    BY <1>inv, <1>k, <2>1, Zenon DEF TypeInv, RuntimeRefused, SameUse, SameEnd
  <2>2. CASE OpeningDisposed
    <3>. DEFINE m == [live[k] EXCEPT !.held = FALSE]
    <3>1. /\ m \in Lives /\ SameUse(live[k], m) /\ SameEnd(live[k], m)
          /\ m.ready = live[k].ready /\ m.terminating = live[k].terminating /\ ~m.held
      BY <1>k, Zenon DEF Lives, SameUse, SameEnd
    <3>2. live' = [live EXCEPT ![k] = m]
      BY <1>k, <2>2 DEF OpeningDisposed
    <3>. HIDE DEF m
    <3>3. /\ live' \in [Runtimes -> Lives] /\ live'[k] = m
          /\ \A g \in Runtimes \ {k} : live'[g] = live[g]
      BY <1>inv, <3>1, <3>2, RuntimeChange, Zenon
    <3>. QED
      BY <3>1, <3>3
  <2>. QED
    BY <2>1, <2>2, Zenon
<1>task. \A t \in Tasks : /\ task[t].at = "opening" => task'[t] = Free
                          /\ task[t].at # "opening" => task'[t] = task[t]
  BY <1>inv, <1>act, Zenon DEF Command, Follows, Waiting
<1>type. task' \in [Tasks -> Commands]
  BY <1>inv, <1>act, FreeCommand, Zenon DEF TypeInv
<1>1. TypeInv'
  BY <1>inv, <1>act, <1>type, <1>live, Zenon DEF TypeInv, bounds, NoOpening, NotRemoving
<1>2. Opening' /\ Closing'
  BY <1>inv, <1>act, Zenon DEF Opening, Closing, Gone, NoOpening
<1>3. References'
  <2>1. \A g \in Runtimes : live'[g].ready = live[g].ready
    BY <1>live
  <2>. QED
    BY <1>inv, <1>act, <2>1, <1>k, Zenon DEF TypeInv, References, bounds, NotRemoving, Handling
<1>4. NeverIdle'
  BY <1>k, <1>act DEF NeverIdle
<1>5. Counted'
  <2>1. \A v \in Tasks : /\ task'[v].at \in Counting <=> task[v].at \in Counting
                         /\ task[v].at \in Counting => task'[v].gen = task[v].gen
    BY <1>task DEF Counting, Free
  <2>2. \A g \in Runtimes : live'[g].operationCount = live[g].operationCount
    BY <1>live DEF SameUse
  <2>. QED
    BY <1>inv, <2>1, <2>2, CountedKept, Zenon
<1>6. ASSUME NEW v \in Tasks PROVE Command(task[v])'
  <2>1. CASE task[v].at = "opening"
    BY <2>1, <1>task DEF Command, Follows, Fresh, Free, Bound, Counting
  <2>2. CASE task[v].at # "opening"
    <3>1. Follows(task[v]) /\ Fresh(task[v], live[task[v].gen]) /\ task'[v] = task[v]
      BY <2>2, <1>inv, <1>task, Zenon DEF Command
    <3>2. task[v].at \in Bound => live'[task[v].gen] = live[task[v].gen]
      BY <3>1, <1>live, <1>k, Zenon DEF Follows
    <3>. QED
      BY <2>2, <3>1, <3>2, Zenon DEF Command, Follows, Fresh, Bound, Counting
  <2>. QED
    BY <2>1, <2>2
<1>7. ASSUME NEW g \in Runtimes PROVE Good(g)'
  <2>1. Good(g) /\ g # None
    BY <1>inv, LiveAssumption DEF Runtimes, None
  <2>2. CASE g = k
    BY <2>1, <2>2, <1>act, <1>live, <1>k, Zenon DEF Good, Published, Unused, Held, Listened, Once, Gone, NoOpening, SameUse, SameEnd, bounds
  <2>3. CASE g # k
    BY <2>1, <2>3, <1>act, <1>live, <1>k, Zenon DEF Good, Published, Unused, Held, Listened, Once, Gone, NoOpening, bounds
  <2>. QED
    BY <2>2, <2>3
<1>. QED
  BY <1>1, <1>2, <1>3, <1>4, <1>5, <1>6, <1>7, Zenon DEF Inv

\* The runtime arrives, or turns out to be of no use.
LEMMA OpeningStays ==
  ASSUME Inv, RuntimeAcquired \/ OpenFails
  PROVE  Inv'
<1>inv. /\ TypeInv /\ Opening /\ References /\ Closing /\ NeverIdle /\ Counted
        /\ \A v \in Tasks : Command(task[v])
        /\ \A g \in Runtimes : Good(g)
  BY DEF Inv
<1>k. PICK k \in Runtimes :
        /\ k = opening.gen /\ live[k] \in Lives /\ ~live[k].ready /\ current = None
        /\ ~live[k].subscribed
  BY BeingOpened DEF RuntimeAcquired, OpenFails
<1>act. /\ opening.at # "none" /\ opening.at # opening'.at /\ opening'.gen = k
        /\ opening' \in [at : {"snapshot", "dispose"}, gen : {k}]
        /\ opening'.at = "snapshot" => ~IsClosing
        /\ UNCHANGED <<current, stage, sessionIds, task, remover, server, bounds>>
  BY <1>inv, <1>k DEF TypeInv, RuntimeAcquired, OpenFails
<1>eff. PICK m \in Lives :
          /\ live' = [live EXCEPT ![k] = m] /\ SameUse(live[k], m)
          /\ m.ready = FALSE /\ m.subscribed = FALSE
          /\ m.disposing = live[k].disposing /\ m.terminating = live[k].terminating
          /\ removes = 0 => m.disposals <= 1 /\ (opening'.at = "snapshot" => m.disposals = 0)
  <2>1. CASE RuntimeAcquired
    <3>. DEFINE n == IF IsClosing THEN 1 ELSE 0
                m == [live[k] EXCEPT !.held = TRUE, !.disposals = n]
    <3>1. n \in Nat /\ n <= 1 /\ (~IsClosing => n = 0)
      OBVIOUS
    <3>2. live' = [live EXCEPT ![k] = m]
      BY <2>1, <1>k, Zenon DEF RuntimeAcquired
    <3>. HIDE DEF n
    <3>3. /\ m \in Lives /\ SameUse(live[k], m) /\ m.ready = FALSE /\ m.subscribed = FALSE
          /\ m.disposing = live[k].disposing /\ m.terminating = live[k].terminating
          /\ m.disposals = n
      BY <3>1, <1>k, Zenon DEF Lives, SameUse
    <3>. HIDE DEF m
    <3>. QED
      BY <3>1, <3>2, <3>3, <1>act, Zenon
  <2>2. CASE OpenFails
    <3>. DEFINE n == live[k].disposals + 1
                m == [live[k] EXCEPT !.subscribed = FALSE, !.disposals = n]
    <3>1. n \in Nat /\ (removes = 0 => n <= 1) /\ opening'.at = "dispose"
      BY <2>2, <1>inv, <1>k, LiveTypes DEF Good, Once, OpenFails, TypeInv
    <3>2. live' = [live EXCEPT ![k] = m]
      BY <2>2, <1>k DEF OpenFails, CallDispose
    <3>. HIDE DEF n
    <3>3. /\ m \in Lives /\ SameUse(live[k], m) /\ m.ready = FALSE /\ m.subscribed = FALSE
          /\ m.disposing = live[k].disposing /\ m.terminating = live[k].terminating
          /\ m.disposals = n
      BY <3>1, <1>k, Zenon DEF Lives, SameUse
    <3>. HIDE DEF m
    <3>. QED
      BY <3>1, <3>2, <3>3, <1>act, Zenon
  <2>. QED
    BY <2>1, <2>2, Zenon
<1>live. /\ live' \in [Runtimes -> Lives] /\ live'[k] = m
         /\ \A g \in Runtimes \ {k} : live'[g] = live[g]
  BY <1>inv, <1>eff, RuntimeChange, Zenon
<1>1. TypeInv'
  BY <1>inv, <1>act, <1>live DEF TypeInv, bounds
<1>2. Opening' /\ Closing'
  BY <1>inv, <1>act, <1>k, Zenon DEF Opening, Closing, Gone, IsClosing, bounds
<1>3. References'
  BY <1>inv, <1>act, <1>live, <1>k, <1>eff, Zenon DEF TypeInv, References, bounds
<1>4. NeverIdle'
  BY <1>k, <1>act, Zenon DEF NeverIdle
<1>5. Counted'
  <2>2. \A g \in Runtimes : live'[g].operationCount = live[g].operationCount
    BY <1>live, <1>eff DEF SameUse
  <2>. QED
    BY <1>inv, <1>act, <2>2, CountedKept, Zenon
<1>6. ASSUME NEW v \in Tasks PROVE Command(task[v])'
  <2>1. Follows(task[v]) /\ Fresh(task[v], live[task[v].gen]) /\ task'[v] = task[v]
    BY <1>inv, <1>act, Zenon DEF Command
  <2>2. task[v].at \in Bound => live'[task[v].gen] = live[task[v].gen]
    BY <2>1, <1>live, <1>k, Zenon DEF Follows
  <2>. QED
    BY <2>1, <2>2, <1>act, <1>k, Zenon DEF Command, Follows, Fresh, Bound, Counting
<1>7. ASSUME NEW g \in Runtimes PROVE Good(g)'
  <2>1. Good(g) /\ g # None
    BY <1>inv, LiveAssumption DEF Runtimes, None
  <2>2. CASE g = k
    BY <2>1, <2>2, <1>act, <1>live, <1>k, <1>eff, Zenon DEF Good, Published, Unused, Held, Listened, Once, Gone, SameUse, bounds
  <2>3. CASE g # k
    BY <2>1, <2>3, <1>act, <1>live, <1>k, Zenon DEF Good, Published, Unused, Held, Listened, Once, Gone, Handled, bounds
  <2>. QED
    BY <2>2, <2>3
<1>. QED
  BY <1>1, <1>2, <1>3, <1>4, <1>5, <1>6, <1>7, Zenon DEF Inv

\* The runtime is published, with everybody who waited for it counted in.
LEMMA OpenStep ==
  ASSUME Inv, Open
  PROVE  Inv'
<1>inv. /\ TypeInv /\ Opening /\ References /\ Closing /\ NeverIdle /\ Counted
        /\ \A v \in Tasks : Command(task[v])
        /\ \A g \in Runtimes : Good(g)
  BY DEF Inv
<1>k. PICK k \in Runtimes :
        /\ k = opening.gen /\ live[k] \in Lives /\ ~live[k].ready /\ current = None
        /\ live[k].connections = {} /\ live[k].disposing = "no" /\ k = opened
        /\ live[k].terminating = "no"
  BY BeingOpened DEF Open, Publish
<1>. DEFINE W == Waiting("opening", k)
            n == Cardinality(W)
            m == [live[k] EXCEPT !.operationCount = n, !.ready = TRUE, !.subscribed = TRUE]
<1>act. /\ opening.at = "snapshot" /\ live' = [live EXCEPT ![k] = m]
        /\ current' = k /\ opening' = NoOpening
        /\ task' = [t \in Tasks |-> IF t \in W THEN Preparing(task[t].conn, k) ELSE task[t]]
        /\ remover' = IF remover.at = "opening" THEN [remover EXCEPT !.at = "lookup"]
                      ELSE remover
        /\ UNCHANGED <<stage, sessionIds, server, bounds>>
  BY <1>k, Zenon DEF Open, Publish
<1>w. W = {t \in Tasks : task[t].at = "opening"}
  BY <1>inv, <1>k, Zenon DEF Waiting, Command, Follows
<1>n. n \in Nat /\ n # 0
  <2>1. W \subseteq Tasks /\ W # {}
    BY <1>inv, <1>act, <1>w DEF Opening
  <2>. HIDE DEF W
  <2>2. IsFiniteSet(W)
    BY <2>1, LiveAssumption, FS_Subset
  <2>. QED
    BY <2>1, <2>2, FS_CardinalityType, FS_EmptySet, Zenon
<1>c. n = Cardinality({t \in Tasks : task[t].at = "opening"})
  BY <1>w
<1>. HIDE DEF n, W
<1>eff. /\ m \in Lives /\ m.connections = {} /\ m.operationCount = n /\ m.ready = TRUE
        /\ m.subscribed = TRUE /\ m.disposing = "no" /\ m.disposals = live[k].disposals
        /\ m.terminating = "no" /\ SameState(live[k], m)
  <2>1. n \in Int
    BY <1>n
  <2>2. m \in Lives /\ SameState(live[k], m)
    BY <1>k, <2>1, Zenon DEF Lives, SameState
  <2>. QED
    BY <1>k, <2>1, <2>2 DEF Lives
<1>. HIDE DEF m
<1>live. /\ live' \in [Runtimes -> Lives] /\ live'[k] = m
         /\ \A g \in Runtimes \ {k} : live'[g] = live[g]
  BY <1>inv, <1>eff, <1>act, RuntimeChange, Zenon
<1>task. \A t \in Tasks : /\ task[t].at = "opening" => task'[t] = Preparing(task[t].conn, k)
                          /\ task[t].at # "opening" => task'[t] = task[t]
  BY <1>act, <1>w
<1>p. ASSUME NEW t \in Tasks, task[t].at = "opening"
      PROVE  /\ task'[t] \in Commands /\ task'[t].at = "snapshot" /\ task'[t].gen = k
             /\ task'[t].conn \in Conns
             /\ task'[t].rev = m.stateRevision /\ task'[t].snap = m.version
  <2>1. task[t].conn \in Conns
    BY <1>inv, <1>p, Zenon DEF Command, Follows
  <2>2. live[k].stateRevision \in Nat /\ live[k].version \in Nat
    BY <1>k, LiveTypes
  <2>3. /\ Preparing(task[t].conn, k) \in Commands
        /\ Preparing(task[t].conn, k).at = "snapshot"
        /\ Preparing(task[t].conn, k).conn \in Conns /\ Preparing(task[t].conn, k).gen = k
        /\ Preparing(task[t].conn, k).rev = live[k].stateRevision
        /\ Preparing(task[t].conn, k).snap = live[k].version
    BY <2>1, <2>2, Zenon DEF Preparing, Commands, Bound, Counting
  <2>. QED
    BY <2>3, <1>task, <1>p, <1>eff, Zenon DEF SameState
<1>type. task' \in [Tasks -> Commands]
  <2>1. \A t \in Tasks : task'[t] \in Commands
    BY <1>inv, <1>task, <1>p, Zenon DEF TypeInv
  <2>. QED
    BY <2>1, <1>act
<1>1. TypeInv'
  BY <1>inv, <1>act, <1>type, <1>live, <1>k, Zenon DEF TypeInv, bounds, NoOpening
<1>2. Opening' /\ Closing'
  BY <1>inv, <1>act DEF Opening, Closing, Gone, NoOpening
<1>3. References'
  <2>1. \A g \in Runtimes : live[g].ready => live'[g].ready
    BY <1>live, <1>eff
  <2>2. /\ remover'.at \in Handling \union {"disposal"} => remover' = remover
        /\ remover'.at = "none" \/ removes = 0 => remover' = remover
    BY <1>inv, <1>act DEF TypeInv, References, NotRemoving, Handling
  <2>. QED
    BY <1>inv, <1>act, <1>live, <1>eff, <2>1, <2>2, Zenon DEF References, bounds
<1>4. NeverIdle'
  BY <1>act, <1>live, <1>eff, <1>n, Zenon DEF NeverIdle, Disposable
<1>5. Counted'
  <2>1. Users(k)' = {t \in Tasks : task[t].at = "opening"}
    <3>1. \A t \in Tasks : ~(task[t].at \in Counting /\ task[t].gen = k)
      BY <1>inv, <1>k, Zenon DEF Command, Follows, Bound
    <3>. QED
      BY <3>1, <1>task, <1>p DEF Users, Counting
  <2>2. \A g \in Runtimes \ {k} : Users(g)' = Users(g)
    BY <1>task, <1>p, Zenon DEF Users, Counting
  <2>. QED
    BY <1>inv, <1>live, <1>eff, <1>c, <2>1, <2>2, ZenonT(30) DEF Counted
<1>6. ASSUME NEW v \in Tasks PROVE Command(task[v])'
  <2>1. CASE task[v].at = "opening"
    BY <2>1, <1>p, <1>live, <1>eff, LiveTypes DEF Command, Follows, Fresh
  <2>2. CASE task[v].at # "opening"
    <3>1. Follows(task[v]) /\ Fresh(task[v], live[task[v].gen]) /\ task'[v] = task[v]
      BY <2>2, <1>inv, <1>task, Zenon DEF Command
    <3>2. task[v].at \in Bound => live'[task[v].gen] = live[task[v].gen]
      BY <3>1, <1>live, <1>k, Zenon DEF Follows
    <3>. QED
      BY <2>2, <3>1, <3>2, Zenon DEF Command, Follows, Fresh, Bound, Counting
  <2>. QED
    BY <2>1, <2>2, Zenon
<1>7. ASSUME NEW g \in Runtimes PROVE Good(g)'
  <2>1. Good(g) /\ g # None /\ g \in Nat
    BY <1>inv, LiveAssumption DEF Runtimes, None
  <2>2. CASE g = k
    BY <2>1, <2>2, <1>act, <1>live, <1>k, <1>eff DEF Good, Published, Unused, Held, Listened, Once, Gone, NoOpening, bounds
  <2>3. CASE g # k
    BY <2>1, <2>3, <1>act, <1>live, <1>k, Zenon DEF Good, Published, Unused, Held, Listened, Once, Gone, NoOpening, bounds
  <2>. QED
    BY <2>2, <2>3
<1>. QED
  BY <1>1, <1>2, <1>3, <1>4, <1>5, <1>6, <1>7, Zenon DEF Inv
-----------------------------------------------------------------------------
(* Disposal, connections and events.                                        *)

LEMMA DisposeEndsStep ==
  ASSUME Inv, NEW k \in Runtimes, DisposeEnds(k)
  PROVE  Inv'
<1>inv. /\ TypeInv /\ Opening /\ References /\ Closing /\ NeverIdle /\ Counted
        /\ \A v \in Tasks : Command(task[v])
        /\ \A g \in Runtimes : Good(g)
  BY DEF Inv
<1>. DEFINE m == [live[k] EXCEPT !.disposing = "done", !.held = FALSE]
<1>k. live[k] \in Lives /\ live[k].disposing = "running" /\ live' = [live EXCEPT ![k] = m]
  BY <1>inv, Zenon DEF TypeInv, DisposeEnds
<1>eff. /\ m \in Lives /\ SameUse(live[k], m) /\ SameState(live[k], m) /\ m.disposing = "done"
        /\ m.held = FALSE /\ m.ready = live[k].ready /\ m.subscribed = live[k].subscribed
        /\ m.disposals = live[k].disposals
  BY <1>k, Zenon DEF Lives, SameUse, SameState
<1>. HIDE DEF m
<1>live. /\ live' \in [Runtimes -> Lives] /\ live'[k] = m
         /\ \A g \in Runtimes \ {k} : live'[g] = live[g]
  BY <1>inv, <1>eff, <1>k, RuntimeChange, Zenon
<1>act. /\ current' = IF current = k THEN None ELSE current
        /\ remover' = IF remover.at = "disposal" /\ remover.gen = k THEN NotRemoving
                      ELSE remover
        /\ UNCHANGED <<opening, stage, sessionIds, server, bounds>>
  BY Zenon DEF DisposeEnds, Unlisted
<1>task. ASSUME NEW t \in Tasks
         PROVE  /\ task'[t] \in Commands
                /\ \/ task'[t] = task[t]
                   \/ task'[t] = Free /\ task[t].at = "disposal"
                   \/ /\ task[t].at = "disposal" /\ task'[t].at = "retry"
                      /\ task'[t].conn = task[t].conn
  <2>1. task[t] \in Commands
    BY <1>inv DEF TypeInv
  <2>2. \/ task'[t] = task[t]
        \/ task'[t] = Free /\ task[t].at = "disposal"
        \/ /\ task[t].at = "disposal"
           /\ task'[t] = [task[t] EXCEPT !.at = "retry", !.gen = None]
    BY Zenon DEF DisposeEnds, Waiting
  <2>3. LET r == [task[t] EXCEPT !.at = "retry", !.gen = None] IN
        r \in Commands /\ r.at = "retry" /\ r.conn = task[t].conn
    BY <2>1, Zenon DEF Commands
  <2>. QED
    BY <2>1, <2>2, <2>3, FreeCommand, Zenon
<1>type. task' \in [Tasks -> Commands]
  <2>1. task' = [t \in Tasks |-> task'[t]]
    BY Zenon DEF DisposeEnds
  <2>. QED
    BY <2>1, <1>task
<1>1. TypeInv'
  BY <1>inv, <1>act, <1>type, <1>live, Zenon DEF TypeInv, bounds, NotRemoving
<1>2. Opening' /\ Closing'
  <2>1. \A t \in Tasks : task[t].at = "opening" => task'[t] = task[t]
    BY <1>task DEF Free
  <2>. QED
    BY <2>1, <1>inv, <1>act, Zenon DEF Opening, Closing, Gone, bounds
<1>3. References'
  <2>1. \A g \in Runtimes : live'[g].ready = live[g].ready
    BY <1>live, <1>eff, Zenon
  <2>. QED
    BY <1>inv, <1>act, <2>1, ZenonT(30) DEF TypeInv, References, bounds, NotRemoving, Handling
<1>4. NeverIdle'
  BY <1>inv, <1>act, <1>live, Zenon DEF TypeInv, NeverIdle, Disposable, IsClosing, Handled, NotRemoving, Handling
<1>5. Counted'
  <2>1. \A v \in Tasks : /\ task'[v].at \in Counting <=> task[v].at \in Counting
                         /\ task[v].at \in Counting => task'[v].gen = task[v].gen
    BY <1>task DEF Counting, Free
  <2>2. \A g \in Runtimes : live'[g].operationCount = live[g].operationCount
    BY <1>live, <1>eff, Zenon DEF SameUse
  <2>. QED
    BY <1>inv, <2>1, <2>2, CountedKept, Zenon
<1>6. ASSUME NEW v \in Tasks PROVE Command(task[v])'
  <2>1. CASE task'[v] = task[v]
    <3>1. \A g \in Runtimes : Quiet(live[g], live'[g])
      BY <1>live, <1>eff, Zenon DEF Quiet, SameState
    <3>. QED
      BY <2>1, <3>1, <1>inv, <1>act, CommandKept, Zenon
  <2>2. CASE task'[v] # task[v]
    <3>1. task[v].conn \in Conns
      BY <2>2, <1>inv, <1>task, Zenon DEF Command, Follows
    <3>. QED
      BY <2>2, <3>1, <1>task DEF Command, Follows, Fresh, Free, Bound, Counting
  <2>. QED
    BY <2>1, <2>2, Zenon
<1>7. ASSUME NEW g \in Runtimes PROVE Good(g)'
  <2>1. Good(g)
    BY <1>inv
  <2>2. CASE g = k
    BY <2>1, <2>2, <1>act, <1>live, <1>k, <1>eff, Zenon DEF Good, Published, Unused, Held, Listened, Once, Gone, SameUse, bounds
  <2>3. CASE g # k
    <3>1. remover.at \in Handling => remover' = remover
      BY <1>act DEF Handling
    <3>2. Listened(g)'
      BY <2>1, <2>3, <3>1, <1>act, <1>live, NoneFacts, Zenon DEF Good, Listened, Gone, Handled, bounds
    <3>. QED
      BY <2>1, <2>3, <3>2, <1>act, <1>live, Zenon DEF Good, Published, Unused, Held, Once, Gone, bounds
  <2>. QED
    BY <2>2, <2>3
<1>. QED
  BY <1>1, <1>2, <1>3, <1>4, <1>5, <1>6, <1>7, Zenon DEF Inv

\* A connection that an object knows, knows the listed session.
LEMMA Attached ==
  ASSUME Inv, removes = 0, NEW g \in Runtimes, NEW c \in live[g].connections
  PROVE  g = current /\ c \in sessionIds /\ stage[c] # "closed" /\ c \in Conns
<1>1. Good(g) /\ live[g] \in Lives /\ Closing
  BY Zenon DEF Inv, TypeInv
<1>2. c \in sessionIds /\ stage[c] # "closed" /\ c \in Conns
  BY <1>1, LiveTypes, Zenon DEF Good, Once
<1>3. live[g].ready /\ live[g].disposing = "no" /\ ~Gone
  BY <1>1, <1>2, Zenon DEF Good, Published, Unused, Closing
<1>. QED
  BY <1>1, <1>2, <1>3, Zenon DEF Good, Once

\* A runtime may lose connections, be settled, and be done with its error.
Shrinks(l, m) ==
  /\ m.connections \subseteq l.connections /\ m.operationCount = l.operationCount
  /\ SameState(l, m) /\ (SameEnd(l, m) \/ Ended(l, m))
  /\ m.ready = l.ready /\ m.held = l.held /\ m.terminal = l.terminal
  /\ l.terminating = "no" => m.terminating = "no"
  /\ m = l \/ ~Disposable(m)

LEMMA ShrinkStep ==
  ASSUME Inv, live' \in [Runtimes -> Lives],
         \A g \in Runtimes : Shrinks(live[g], live'[g]),
         removes = 0 => \A g \in Runtimes : \A c \in live'[g].connections :
                          c \in sessionIds' /\ stage'[c] # "closed",
         sessionIds' \subseteq Conns, stage' \in [Conns -> {"ready", "closing", "closed"}],
         \A c \in Conns : stage[c] = "closed" => stage'[c] = "closed",
         task' \in [Tasks -> Commands],
         \A t \in Tasks : \/ task'[t] = task[t]
                          \/ /\ task[t].at \in {"free", "detach"}
                             /\ task'[t].at \in {"free", "detach"} /\ Follows(task[t])',
         UNCHANGED <<current, opening, remover, server, bounds>>
  PROVE  Inv'
<1>inv. /\ TypeInv /\ Opening /\ References /\ Closing /\ NeverIdle /\ Counted
        /\ \A v \in Tasks : Command(task[v])
        /\ \A g \in Runtimes : Good(g)
  BY Zenon DEF Inv
<1>1. TypeInv'
  BY <1>inv DEF TypeInv, bounds
<1>2. Opening' /\ Closing'
  BY <1>inv, Zenon DEF Opening, Closing, Gone, bounds
<1>r. \A g \in Runtimes : live'[g].ready = live[g].ready
  <2>. TAKE g \in Runtimes
  <2>1. Shrinks(live[g], live'[g])
    BY Zenon
  <2>. QED
    BY <2>1, Zenon DEF Shrinks
<1>3. References'
  BY <1>inv, <1>r, Zenon DEF TypeInv, References, bounds
<1>4. NeverIdle'
  <2>1. CASE current = None
    BY <2>1, Zenon DEF NeverIdle
  <2>2. CASE current # None
    <3>1. Shrinks(live[current], live'[current])
      BY <2>2, <1>inv, Zenon DEF TypeInv
    <3>. QED
      BY <2>2, <3>1, <1>inv, Zenon DEF Shrinks, NeverIdle, Disposable, IsClosing, Handled
  <2>. QED
    BY <2>1, <2>2, Zenon
<1>5. Counted'
  <2>1. \A v \in Tasks : /\ task'[v].at \in Counting <=> task[v].at \in Counting
                         /\ task[v].at \in Counting => task'[v].gen = task[v].gen
    <3>. TAKE v \in Tasks
    <3>1. \/ task'[v] = task[v]
          \/ task[v].at \in {"free", "detach"} /\ task'[v].at \in {"free", "detach"}
      BY Zenon
    <3>. QED
      BY <3>1, Zenon DEF Counting
  <2>2. \A g \in Runtimes : live'[g].operationCount = live[g].operationCount
    <3>. TAKE g \in Runtimes
    <3>1. Shrinks(live[g], live'[g])
      BY Zenon
    <3>. QED
      BY <3>1, Zenon DEF Shrinks
  <2>. QED
    BY <1>inv, <2>1, <2>2, CountedKept, Zenon
<1>6. ASSUME NEW v \in Tasks PROVE Command(task[v])'
  <2>1. CASE task'[v] = task[v]
    <3>1. ASSUME NEW g \in Runtimes PROVE Quiet(live[g], live'[g])
      <4>1. Shrinks(live[g], live'[g])
        BY Zenon
      <4>2. /\ SameState(live[g], live'[g]) /\ live'[g].ready = live[g].ready
            /\ SameEnd(live[g], live'[g]) \/ Ended(live[g], live'[g])
        BY <4>1, Zenon DEF Shrinks
      <4>. QED
        BY <4>2, Zenon DEF Quiet, SameEnd, Ended
    <3>. QED
      BY <2>1, <3>1, <1>inv, CommandKept, Zenon
  <2>2. CASE task'[v] # task[v]
    <3>1. Follows(task[v])' /\ task'[v].at \in {"free", "detach"}
      BY <2>2, Zenon
    <3>. QED
      BY <3>1, Zenon DEF Command, Fresh
  <2>. QED
    BY <2>1, <2>2, Zenon
<1>7. ASSUME NEW g \in Runtimes PROVE Good(g)'
  <2>1. Good(g) /\ live[g] \in Lives /\ live'[g] \in Lives /\ Shrinks(live[g], live'[g])
    BY <1>inv, Zenon DEF TypeInv
  <2>2. Published(g)'
    <3>1. live'[g].ready = live[g].ready /\ opened' = opened /\ opening' = opening
      BY <2>1, Zenon DEF Shrinks, bounds
    <3>2. live[g].ready => g <= opened /\ g # opening.gen
      BY <2>1, Zenon DEF Good, Published
    <3>3. ASSUME ~live[g].ready
          PROVE  /\ live'[g].connections = {} /\ ~live'[g].subscribed
                 /\ live'[g].disposing = "no" /\ live'[g].terminating = "no"
      <4>1. /\ live[g].connections = {} /\ ~live[g].subscribed
            /\ live[g].disposing = "no" /\ live[g].terminating = "no"
        BY <2>1, <3>3, Zenon DEF Good, Published
      <4>2. SameEnd(live[g], live'[g])
        BY <2>1, <3>3, Zenon DEF Shrinks, Ended
      <4>. QED
        BY <2>1, <4>1, <4>2, Zenon DEF Shrinks, SameEnd
    <3>. QED
      BY <3>1, <3>2, <3>3, Zenon DEF Published
  <2>3. Unused(g)'
    BY <2>1, Zenon DEF Good, Unused, Shrinks, SameEnd, Ended
  <2>4. Held(g)' /\ Listened(g)'
    BY <2>1, Zenon DEF Good, Held, Listened, Shrinks, SameEnd, Ended, Gone, Handled, bounds
  <2>5. Once(g)'
    <3>1. SUFFICES ASSUME removes = 0 PROVE Once(g)'
      BY Zenon DEF Once, bounds
    <3>2. \A c \in live'[g].connections : c \in sessionIds' /\ stage'[c] # "closed"
      BY <3>1, Zenon
    <3>3. CASE SameEnd(live[g], live'[g])
      BY <2>1, <3>1, <3>2, <3>3, Zenon DEF Good, Once, Shrinks, SameEnd, Gone, bounds
    <3>4. CASE Ended(live[g], live'[g])
      <4>1. live[g].ready /\ live[g].disposing = "no" /\ ~Gone /\ g # opening.gen
        BY <2>1, <3>4, Zenon DEF Good, Published, Ended, Gone, IsClosing
      <4>2. live'[g].disposals = 0 + 1 /\ live'[g].disposing = "running"
        BY <2>1, <3>1, <3>4, <4>1, Zenon DEF Good, Once, Ended
      <4>. QED
        BY <3>2, <4>1, <4>2, FirstDisposal, Zenon DEF Once, Gone
    <3>. QED
      BY <2>1, <3>3, <3>4, Zenon DEF Shrinks
  <2>. QED
    BY <2>2, <2>3, <2>4, <2>5, Zenon DEF Good
<1>. QED
  BY <1>1, <1>2, <1>3, <1>4, <1>5, <1>6, <1>7, Zenon DEF Inv

LEMMA Unmoved ==
  ASSUME NEW l \in Lives
  PROVE  Shrinks(l, l)
BY DEF Shrinks, SameState, SameEnd

\* A runtime loses connections and is looked at.
LEMMA LoseEffect ==
  ASSUME NEW l \in Lives, NEW S
  PROVE  LET d == [l EXCEPT !.connections = @ \ S]
             m == MaybeDispose(d) IN
         /\ d \in Lives /\ m \in Lives /\ Shrinks(l, m)
         /\ d.connections = l.connections \ S /\ m.connections = l.connections \ S
         /\ SameState(l, d) /\ SameLife(l, d) /\ SameEnd(l, d)
         /\ d.operationCount = l.operationCount /\ SameLife(l, m)
<1>. DEFINE C == l.connections \ S
            n == l.operationCount
            e == [l EXCEPT !.connections = @ \ S]
            d == [l EXCEPT !.connections = C, !.operationCount = n]
            m == MaybeDispose(e)
<1>1. C \in SUBSET Conns /\ n \in Int
  BY LiveTypes
<1>2. d = e
  BY Zenon DEF Lives
<1>. HIDE DEF C, n
<1>3. /\ d \in Lives /\ d.connections = C /\ d.operationCount = n
      /\ SameState(l, d) /\ SameLife(l, d) /\ SameEnd(l, d)
  BY <1>1, UseEffect, Zenon
<1>. HIDE DEF d, e
<1>4. m \in Lives /\ SameUse(d, m) /\ SameState(d, m) /\ Settled(d, m)
  BY <1>2, <1>3, MaybeDisposeEffect, Zenon
<1>. HIDE DEF m
<1>5. m.connections = C /\ m.operationCount = l.operationCount /\ SameLife(l, m)
  BY <1>3, <1>4, Zenon DEF SameUse, n, Settled, SameLife
<1>6. SameState(l, m) /\ (SameEnd(l, m) \/ Ended(l, m)) /\ ~Disposable(m)
  BY <1>3, <1>4, Zenon DEF SameState, Settled, SameLife, SameEnd, Ended
<1>7. Shrinks(l, m)
  BY <1>5, <1>6, Zenon DEF Shrinks, SameLife, C
<1>. QED
  BY <1>2, <1>3, <1>4, <1>5, <1>7, Zenon DEF C, m, e, n

LEMMA WithoutEffect ==
  ASSUME Inv, NEW S
  PROVE  /\ Without(S) \in [Runtimes -> Lives]
         /\ \A g \in Runtimes :
              /\ Shrinks(live[g], Without(S)[g]) /\ SameLife(live[g], Without(S)[g])
              /\ g = current => Without(S)[g].connections \intersect S \intersect sessionIds = {}
              /\ g # current => Without(S)[g] = live[g]
<1>1. ASSUME NEW g \in Runtimes
      PROVE  /\ Without(S)[g] \in Lives
             /\ Shrinks(live[g], Without(S)[g]) /\ SameLife(live[g], Without(S)[g])
             /\ g = current => Without(S)[g].connections \intersect S \intersect sessionIds = {}
             /\ g # current => Without(S)[g] = live[g]
  <2>1. live[g] \in Lives
    BY DEF Inv, TypeInv
  <2>2. CASE g = current /\ S \intersect sessionIds # {}
    <3>. DEFINE X == S \intersect sessionIds
                w == Without(S)[g]
    <3>1. w = MaybeDispose([live[g] EXCEPT !.connections = @ \ X])
      BY <2>2 DEF Without
    <3>. HIDE DEF X, w
    <3>2. /\ w \in Lives /\ Shrinks(live[g], w) /\ SameLife(live[g], w)
          /\ w.connections = live[g].connections \ X
      BY <2>1, <3>1, LoseEffect, Zenon
    <3>. QED
      BY <2>2, <3>2, Zenon DEF X, w
  <2>3. CASE ~(g = current /\ S \intersect sessionIds # {})
    <3>1. Without(S)[g] = live[g]
      BY <2>3 DEF Without
    <3>. QED
      BY <2>1, <2>3, <3>1, Unmoved, Zenon DEF SameLife
  <2>. QED
    BY <2>2, <2>3, Zenon
<1>. QED
  BY <1>1 DEF Without

\* Nobody's connection but that of the listed session is lost.
LEMMA DetachStep ==
  ASSUME Inv, NEW t \in Tasks, NEW c \in Conns, Detach(t, c)
  PROVE  Inv'
<1>inv. TypeInv /\ References
  BY DEF Inv
<1>. DEFINE l == [live[current] EXCEPT !.connections = @ \ {c}]
            broadcasts == l.connections # {} /\ ~l.terminal /\ l.disposing = "no"
            m == IF broadcasts THEN l ELSE MaybeDispose(l)
            u == [Free EXCEPT !.at = "detach", !.conn = c, !.gen = current]
<1>act. /\ task[t].at = "free" /\ stage[c] = "ready" /\ sessionIds' = sessionIds \ {c}
        /\ UNCHANGED <<current, opening, stage, remover, server, bounds>>
        /\ IF current = None THEN UNCHANGED <<live, task>>
           ELSE /\ live' = [live EXCEPT ![current] = m]
                /\ task' = IF broadcasts THEN [task EXCEPT ![t] = u] ELSE task
  BY Zenon DEF Detach
<1>1. CASE current = None
  <2>1. \A g \in Runtimes : live[g] \in Lives /\ Shrinks(live[g], live'[g])
    BY <1>1, <1>inv, <1>act, Unmoved DEF TypeInv
  <2>2. removes = 0 => \A g \in Runtimes : \A x \in live'[g].connections :
                         x \in sessionIds' /\ stage'[x] # "closed"
    BY <1>1, <1>act, Attached, LiveAssumption DEF Runtimes, None
  <2>. QED
    BY <1>1, <1>inv, <1>act, <2>1, <2>2, ShrinkStep, Zenon DEF TypeInv
<1>2. CASE current # None
  <2>1. current \in Runtimes /\ live[current] \in Lives /\ live[current].ready
    BY <1>2, <1>inv, Zenon DEF TypeInv, References
  <2>. PICK k \in Runtimes : k = current
    BY <2>1
  <2>2. /\ m \in Lives /\ Shrinks(live[k], m) /\ m.connections = live[k].connections \ {c}
        /\ m.ready = live[k].ready
    <3>. DEFINE d == [live[k] EXCEPT !.connections = @ \ {c}]
    <3>1. /\ d \in Lives /\ MaybeDispose(d) \in Lives /\ Shrinks(live[k], MaybeDispose(d))
          /\ d.connections = live[k].connections \ {c}
          /\ MaybeDispose(d).connections = live[k].connections \ {c}
          /\ SameState(live[k], d) /\ SameLife(live[k], d) /\ SameEnd(live[k], d)
          /\ d.operationCount = live[k].operationCount
      <4>1. live[k] \in Lives
        BY <2>1
      <4>. QED
        BY <4>1, LoseEffect, Zenon
    <3>2. l = d
      OBVIOUS
    <3>. HIDE DEF d, l
    <3>3. l.connections # {} => Shrinks(live[k], d)
      BY <3>1, <3>2, Zenon DEF Shrinks, SameLife, Disposable
    <3>. QED
      BY <3>1, <3>2, <3>3, Zenon DEF Shrinks
  <2>. HIDE DEF m
  <2>3. /\ live' \in [Runtimes -> Lives] /\ live'[k] = m
        /\ \A g \in Runtimes \ {k} : live'[g] = live[g]
    BY <1>2, <1>inv, <1>act, <2>2, RuntimeChange, Zenon
  <2>4. \A g \in Runtimes : Shrinks(live[g], live'[g])
    BY <1>inv, <2>2, <2>3, Unmoved, Zenon DEF TypeInv
  <2>5. removes = 0 => \A g \in Runtimes : \A x \in live'[g].connections :
                         x \in sessionIds' /\ stage'[x] # "closed"
    BY <1>act, <2>2, <2>3, Attached
  <2>6. u \in Commands /\ u.at = "detach" /\ u.conn = c /\ u.gen = k
    BY <2>1, Zenon DEF Free, Commands, Bound, Counting
  <2>. HIDE DEF u
  <2>. HIDE DEF broadcasts
  <2>7. task' \in [Tasks -> Commands] /\ \A v \in Tasks : task'[v] = task[v] \/ (v = t /\ task'[v] = u)
    <3>0. task \in [Tasks -> Commands]
      BY <1>inv, Zenon DEF TypeInv
    <3>1. CASE task' = task
      BY <3>0, <3>1, Zenon
    <3>2. CASE task' = [task EXCEPT ![t] = u]
      <4>1. /\ task' \in [Tasks -> Commands] /\ task'[t] = u
            /\ \A v \in Tasks \ {t} : task'[v] = task[v]
        BY <3>2, <1>inv, <2>6, CommandChanges, Zenon
      <4>. QED
        BY <4>1, Zenon
    <3>. QED
      BY <3>1, <3>2, <1>2, <1>act, Zenon
  <2>8. \A v \in Tasks : \/ task'[v] = task[v]
                         \/ /\ task[v].at \in {"free", "detach"}
                            /\ task'[v].at \in {"free", "detach"} /\ Follows(task[v])'
    <3>. TAKE v \in Tasks
    <3>1. CASE task'[v] = task[v]
      BY <3>1, Zenon
    <3>2. CASE v = t /\ task'[v] = u
      BY <3>2, <1>act, <2>1, <2>2, <2>3, <2>6, ZenonT(30) DEF Follows
    <3>. QED
      BY <3>1, <3>2, <2>7, Zenon
  <2>. QED
    BY <1>inv, <1>act, <2>3, <2>4, <2>5, <2>7, <2>8, ShrinkStep, Zenon DEF TypeInv
<1>. QED
  BY <1>1, <1>2

LEMMA DetachEndsStep ==
  ASSUME Inv, NEW t \in Tasks, DetachEnds(t)
  PROVE  Inv'
<1>inv. TypeInv
  BY DEF Inv
<1>1. task[t].gen \in Runtimes /\ live[task[t].gen] \in Lives
  BY <1>inv, Zenon DEF Inv, TypeInv, Command, Follows, DetachEnds, Bound
<1>. PICK k \in Runtimes : k = task[t].gen
  BY <1>1, Zenon
<1>2. PICK m \in Lives :
        /\ live' = [live EXCEPT ![k] = m] /\ Shrinks(live[k], m)
        /\ m.connections = live[k].connections
  <2>1. CASE live' = live
    BY <2>1, <1>inv, <1>1, Unmoved, Zenon DEF TypeInv
  <2>2. CASE live' = [live EXCEPT ![k] = MaybeDispose(live[k])]
    <3>1. PICK m \in Lives : /\ m = MaybeDispose(live[k]) /\ SameUse(live[k], m)
                             /\ SameState(live[k], m) /\ Settled(live[k], m)
      BY <1>1, MaybeDisposeEffect, Zenon
    <3>2. Shrinks(live[k], m)
      BY <3>1, Zenon DEF Shrinks, SameUse, Settled, SameLife
    <3>. QED
      BY <2>2, <3>1, <3>2, Zenon DEF SameUse
  <2>. QED
    BY <2>1, <2>2, Zenon DEF DetachEnds
<1>3. /\ live' \in [Runtimes -> Lives] /\ live'[k] = m
      /\ \A g \in Runtimes \ {k} : live'[g] = live[g]
  BY <1>inv, <1>2, RuntimeChange, Zenon
<1>4. \A g \in Runtimes : Shrinks(live[g], live'[g])
  BY <1>inv, <1>2, <1>3, Unmoved, Zenon DEF TypeInv
<1>5. /\ task[t].at = "detach"
      /\ UNCHANGED <<current, opening, stage, sessionIds, remover, server, bounds>>
  BY Zenon DEF DetachEnds
<1>6. removes = 0 => \A g \in Runtimes : \A x \in live'[g].connections :
                       x \in sessionIds' /\ stage'[x] # "closed"
  BY <1>2, <1>3, <1>5, Attached, Zenon
<1>7. /\ task' \in [Tasks -> Commands] /\ task'[t] = Free
      /\ \A v \in Tasks \ {t} : task'[v] = task[v]
  BY <1>inv, FreeCommand, CommandChanges, Zenon DEF DetachEnds
<1>8. \A v \in Tasks : \/ task'[v] = task[v]
                       \/ /\ task[v].at \in {"free", "detach"}
                          /\ task'[v].at \in {"free", "detach"} /\ Follows(task[v])'
  <2>1. Follows(Free)'
    BY Zenon DEF Follows, Free, Bound, Counting
  <2>2. Free.at = "free"
    BY Zenon DEF Free
  <2>. QED
    BY <1>5, <1>7, <2>1, <2>2, Zenon
<1>. QED
  BY <1>inv, <1>3, <1>4, <1>5, <1>6, <1>7, <1>8, ShrinkStep, Zenon DEF TypeInv

LEMMA ConnectionStep ==
  ASSUME Inv, NEW c \in Conns, FailProtocol(c) \/ Disconnect(c)
  PROVE  Inv'
<1>inv. TypeInv
  BY DEF Inv
<1>1. CASE FailProtocol(c)
  <2>1. /\ stage[c] = "ready" /\ stage' = [stage EXCEPT ![c] = "closing"]
        /\ UNCHANGED <<live, current, opening, sessionIds, task, remover, server, bounds>>
    BY <1>1, Zenon DEF FailProtocol
  <2>2. \A g \in Runtimes : Shrinks(live[g], live'[g])
    BY <1>inv, <2>1, Unmoved, Zenon DEF TypeInv
  <2>3. /\ stage' \in [Conns -> {"ready", "closing", "closed"}]
        /\ \A x \in Conns : stage[x] = "closed" <=> stage'[x] = "closed"
    BY <1>inv, <2>1, Zenon DEF TypeInv
  <2>4. removes = 0 => \A g \in Runtimes : \A x \in live'[g].connections :
                         x \in sessionIds' /\ stage'[x] # "closed"
    BY <2>1, <2>3, Attached, Zenon
  <2>. QED
    BY <1>inv, <2>1, <2>2, <2>3, <2>4, ShrinkStep, Zenon DEF TypeInv
<1>2. CASE Disconnect(c)
  <2>1. /\ stage' = [stage EXCEPT ![c] = "closed"] /\ sessionIds' = sessionIds \ {c}
        /\ live' = Without({c})
        /\ UNCHANGED <<current, opening, task, remover, server, bounds>>
    BY <1>2, Zenon DEF Disconnect
  <2>2. /\ live' \in [Runtimes -> Lives]
        /\ \A g \in Runtimes : Shrinks(live[g], live'[g])
        /\ \A g \in Runtimes : g = current =>
             live'[g].connections \intersect {c} \intersect sessionIds = {}
    BY <2>1, WithoutEffect, Zenon
  <2>3. /\ stage' \in [Conns -> {"ready", "closing", "closed"}]
        /\ \A x \in Conns \ {c} : stage'[x] = stage[x]
        /\ stage'[c] = "closed"
    BY <1>inv, <2>1, Zenon DEF TypeInv
  <2>4. ASSUME removes = 0, NEW g \in Runtimes, NEW x \in live'[g].connections
        PROVE  x \in sessionIds' /\ stage'[x] # "closed"
    <3>1. Shrinks(live[g], live'[g])
      BY <2>2, Zenon
    <3>2. x \in live[g].connections
      BY <3>1, Zenon DEF Shrinks
    <3>3. g = current /\ x \in sessionIds /\ stage[x] # "closed" /\ x \in Conns
      BY <3>2, <2>4, Attached, Zenon
    <3>4. x # c
      BY <2>2, <3>3, Zenon
    <3>. QED
      BY <2>1, <2>3, <3>3, <3>4, Zenon
  <2>5. sessionIds' \subseteq Conns /\ task' \in [Tasks -> Commands]
    BY <1>inv, <2>1, Zenon DEF TypeInv
  <2>. QED
    BY <2>1, <2>2, <2>3, <2>4, <2>5, ShrinkStep, ZenonT(30)
<1>. QED
  BY <1>1, <1>2

LEMMA TerminateEndsStep ==
  ASSUME Inv, NEW k \in Runtimes, TerminateEnds(k)
  PROVE  Inv'
<1>inv. TypeInv
  BY DEF Inv
<1>. DEFINE T == live[k].targets
            w == Without(T)
            d == [w[k] EXCEPT !.terminating = "done", !.targets = {}]
            m == MaybeDispose(d)
<1>act. /\ live[k].terminating = "running"
        /\ stage' = [c \in Conns |-> IF c \in T THEN "closed" ELSE stage[c]]
        /\ sessionIds' = sessionIds \ T
        /\ live' = [w EXCEPT ![k] = m]
        /\ UNCHANGED <<current, opening, task, remover, server, bounds>>
  BY Zenon DEF TerminateEnds
<1>. HIDE DEF T
<1>w. /\ w \in [Runtimes -> Lives]
      /\ \A g \in Runtimes : Shrinks(live[g], w[g])
      /\ \A g \in Runtimes : SameLife(live[g], w[g])
      /\ \A g \in Runtimes : g = current => w[g].connections \intersect T \intersect sessionIds = {}
  BY WithoutEffect, Zenon
<1>. HIDE DEF w
<1>d. /\ d \in Lives /\ SameUse(w[k], d) /\ SameState(w[k], d) /\ SameEnd(w[k], d)
      /\ d.ready = w[k].ready /\ d.held = w[k].held /\ d.terminal = w[k].terminal
  BY <1>w, ZenonT(30) DEF Lives, SameUse, SameState, SameEnd
<1>. HIDE DEF d
<1>m. m \in Lives /\ SameUse(d, m) /\ SameState(d, m) /\ Settled(d, m)
  BY <1>d, MaybeDisposeEffect, Zenon
<1>. HIDE DEF m
<1>c. m.connections = w[k].connections /\ m.operationCount = w[k].operationCount
  BY <1>d, <1>m, Zenon DEF SameUse
<1>1. Shrinks(live[k], m)
  <2>1. Shrinks(live[k], w[k])
    BY <1>w, Zenon
  <2>2. SameState(live[k], m)
    BY <2>1, <1>d, <1>m, Zenon DEF Shrinks, SameState
  <2>3. /\ m.ready = live[k].ready /\ m.held = live[k].held /\ m.terminal = live[k].terminal
    BY <2>1, <1>d, <1>m, Zenon DEF Shrinks, Settled, SameLife
  <2>4. SameEnd(live[k], w[k]) \/ Ended(live[k], w[k])
    BY <2>1, Zenon DEF Shrinks
  <2>5. (SameEnd(d, m) \/ Ended(d, m)) /\ ~Disposable(m)
    BY <1>m DEF Settled
  <2>6. m.connections \subseteq live[k].connections /\ m.operationCount = live[k].operationCount
    BY <1>c, <2>1, Zenon DEF Shrinks
  <2>7. SameEnd(live[k], m) \/ Ended(live[k], m)
    BY <2>4, <2>5, <1>d, <1>c, <2>1, Zenon DEF SameEnd, Ended, Shrinks
  <2>. QED
    BY <2>2, <2>3, <2>5, <2>6, <2>7, <1>act, Zenon DEF Shrinks
<1>2. /\ live' \in [Runtimes -> Lives] /\ live'[k] = m
      /\ \A g \in Runtimes \ {k} : live'[g] = w[g]
  BY <1>act, <1>w, <1>m, Zenon
<1>3. /\ \A g \in Runtimes : Shrinks(live[g], live'[g])
      /\ \A g \in Runtimes : live'[g].connections = w[g].connections
  BY <1>1, <1>2, <1>w, <1>c, Zenon
<1>4. /\ stage' \in [Conns -> {"ready", "closing", "closed"}]
      /\ \A x \in Conns : stage[x] = "closed" => stage'[x] = "closed"
      /\ \A x \in Conns \ T : stage'[x] = stage[x]
  BY <1>inv, <1>act, Zenon DEF TypeInv
<1>5. ASSUME removes = 0, NEW g \in Runtimes, NEW x \in live'[g].connections
      PROVE  x \in sessionIds' /\ stage'[x] # "closed"
  <2>1. Shrinks(live[g], live'[g])
    BY <1>3, Zenon
  <2>2. x \in live[g].connections
    BY <2>1, Zenon DEF Shrinks
  <2>3. g = current /\ x \in sessionIds /\ stage[x] # "closed" /\ x \in Conns
    BY <2>2, <1>5, Attached, Zenon
  <2>4. x \notin T
    BY <1>w, <1>3, <2>3, Zenon
  <2>. QED
    BY <1>act, <1>4, <2>3, <2>4, Zenon
<1>6. sessionIds' \subseteq Conns /\ task' \in [Tasks -> Commands]
  BY <1>inv, <1>act, Zenon DEF TypeInv
<1>. QED
  BY <1>act, <1>2, <1>3, <1>4, <1>5, <1>6, ShrinkStep, Zenon

LEMMA RuntimeChangesStep ==
  ASSUME Inv, NEW k \in Runtimes, RuntimeChanges(k)
  PROVE  Inv'
<1>inv. /\ TypeInv /\ Opening /\ References /\ Closing /\ NeverIdle /\ Counted
        /\ \A v \in Tasks : Command(task[v])
        /\ \A g \in Runtimes : Good(g)
  BY DEF Inv
<1>act. /\ live[k] \in Lives /\ events' = events + 1
        /\ UNCHANGED <<current, opening, stage, sessionIds, task, remover, server,
                       opened, removes>>
  BY <1>inv DEF TypeInv, RuntimeChanges
<1>eff. PICK m \in Lives :
          /\ live' = [live EXCEPT ![k] = m] /\ SameUse(live[k], m) /\ SameLife(live[k], m)
          /\ SameEnd(live[k], m) \/ Ended(live[k], m)
          /\ IF live[k].subscribed
             THEN m.stateRevision = live[k].stateRevision + 1 /\ ~Disposable(m)
             ELSE SameEnd(live[k], m) /\ m.stateRevision = live[k].stateRevision
  <2>1. PICK idle \in BOOLEAN :
          LET l == [live[k] EXCEPT !.version = @ + 1, !.idle = idle] IN
          live' = [live EXCEPT ![k] = IF l.subscribed
                     THEN MaybeDispose([l EXCEPT !.stateRevision = @ + 1]) ELSE l]
    BY Zenon DEF RuntimeChanges
  <2>. DEFINE v == live[k].version + 1
              r == live[k].stateRevision + 1
              l == [live[k] EXCEPT !.version = v, !.idle = idle]
              d == [live[k] EXCEPT !.version = v, !.idle = idle, !.stateRevision = r]
  <2>2. v \in Nat /\ r \in Nat
    BY <1>act, LiveTypes
  <2>3. [l EXCEPT !.stateRevision = @ + 1] = d /\ l.subscribed = live[k].subscribed
    BY <1>act DEF Lives
  <2>4. live' = [live EXCEPT ![k] = IF live[k].subscribed THEN MaybeDispose(d) ELSE l]
    BY <2>1, <2>3
  <2>. HIDE DEF v, r
  <2>5. /\ l \in Lives /\ SameUse(live[k], l) /\ SameLife(live[k], l) /\ SameEnd(live[k], l)
        /\ l.stateRevision = live[k].stateRevision
    BY <1>act, <2>2, Zenon DEF Lives, SameUse, SameLife, SameEnd
  <2>6. /\ d \in Lives /\ SameUse(live[k], d) /\ SameLife(live[k], d) /\ SameEnd(live[k], d)
        /\ d.stateRevision = r
    BY <1>act, <2>2, Zenon DEF Lives, SameUse, SameLife, SameEnd
  <2>. HIDE DEF l, d
  <2>7. CASE live[k].subscribed
    <3>1. PICK m \in Lives : /\ m = MaybeDispose(d) /\ SameUse(d, m) /\ SameState(d, m)
                             /\ Settled(d, m)
      BY <2>6, MaybeDisposeEffect, Zenon
    <3>2. SameUse(live[k], m) /\ SameLife(live[k], m) /\ ~Disposable(m)
      BY <2>6, <3>1, Zenon DEF SameUse, SameLife, Settled
    <3>3. SameEnd(live[k], m) \/ Ended(live[k], m)
      BY <2>6, <3>1, Zenon DEF Settled, SameEnd, Ended, SameLife
    <3>4. m.stateRevision = live[k].stateRevision + 1
      BY <2>6, <3>1, Zenon DEF SameState, r
    <3>. QED
      BY <2>4, <2>7, <3>1, <3>2, <3>3, <3>4, ZenonT(30)
  <2>8. CASE ~live[k].subscribed
    BY <2>4, <2>5, <2>8, Zenon
  <2>. QED
    BY <2>7, <2>8, Zenon
<1>live. /\ live' \in [Runtimes -> Lives] /\ live'[k] = m
         /\ \A g \in Runtimes \ {k} : live'[g] = live[g]
  BY <1>inv, <1>eff, RuntimeChange, Zenon
<1>1. TypeInv'
  BY <1>inv, <1>act, <1>live DEF TypeInv
<1>2. Opening' /\ Closing'
  BY <1>inv, <1>act, Zenon DEF Opening, Closing, Gone
<1>3. References'
  BY <1>inv, <1>act, <1>live, <1>eff, Zenon DEF TypeInv, References, SameLife
<1>4. NeverIdle'
  <2>1. CASE live[k].subscribed
    BY <1>inv, <1>act, <1>live, <1>eff, <2>1, NeverIdleKept, Zenon
  <2>2. CASE current # k
    BY <2>2, <1>inv, <1>act, <1>live, Zenon DEF TypeInv, NeverIdle, Disposable, Handled, IsClosing
  <2>3. CASE ~live[k].subscribed /\ current = k
    <3>1. live[k].ready /\ Listened(k)
      BY <1>inv DEF RuntimeChanges, Good
    <3>2. \/ live[k].disposing # "no" \/ live[k].terminal \/ IsClosing
          \/ Handled(k)
      BY <2>3, <3>1, Zenon DEF Listened, Gone, IsClosing
    <3>3. live'[k] = m /\ SameEnd(live[k], m) /\ SameUse(live[k], m) /\ SameLife(live[k], m)
      BY <2>3, <1>eff, <1>live, Zenon
    <3>. QED
      BY <2>3, <3>2, <3>3, <1>inv, <1>act, Zenon DEF NeverIdle, Disposable, IsClosing, Handled, SameUse, SameLife, SameEnd
  <2>. QED
    BY <2>1, <2>2, <2>3, Zenon
<1>5. Counted'
  <2>2. \A g \in Runtimes : live'[g].operationCount = live[g].operationCount
    BY <1>live, <1>eff, Zenon DEF SameUse
  <2>. QED
    BY <1>inv, <1>act, <2>2, CountedKept, Zenon
<1>6. ASSUME NEW v \in Tasks PROVE Command(task[v])'
  <2>1. Follows(task[v]) /\ Fresh(task[v], live[task[v].gen]) /\ task'[v] = task[v]
        /\ task[v] \in Commands
    BY <1>inv, <1>act, Zenon DEF Command, TypeInv
  <2>2. Follows(task[v])'
    BY <2>1, <1>act, <1>live, <1>eff, Zenon DEF Follows, SameLife
  <2>3. Fresh(task[v], live[task[v].gen])'
    <3>1. CASE task[v].gen = k
      <4>1. /\ m.stateRevision \in Nat /\ live[k].stateRevision \in Nat /\ task[v].rev \in Nat
            /\ m.subscribed => live[k].subscribed
        BY <1>act, <1>eff, <2>1, LiveTypes, Zenon DEF Commands, SameEnd, Ended
      <4>2. \/ m.stateRevision = live[k].stateRevision + 1
            \/ m.stateRevision = live[k].stateRevision /\ ~m.subscribed
        BY <1>eff, Zenon DEF SameEnd
      <4>3. task'[v] = task[v] /\ live'[task[v].gen] = m /\ Fresh(task[v], live[k])
        BY <2>1, <3>1, <1>live
      <4>4. task[v].rev <= live[k].stateRevision =>
              /\ task[v].rev <= live[k].stateRevision + 1
              /\ task[v].rev # live[k].stateRevision + 1
        BY <4>1, Revisions
      <4>5. Fresh(task[v], m)
        BY <4>1, <4>2, <4>3, <4>4, Zenon DEF Fresh
      <4>. QED
        BY <4>3, <4>5, Zenon
    <3>2. CASE task[v].gen # k
      BY <3>2, <2>1, <1>live, Zenon DEF Fresh, Follows, Bound, Counting
    <3>. QED
      BY <3>1, <3>2, Zenon
  <2>. QED
    BY <2>2, <2>3, Zenon DEF Command
<1>7. ASSUME NEW g \in Runtimes PROVE Good(g)'
  <2>1. live[g] \in Lives /\ live'[g] \in Lives /\ Good(g)
    BY <1>inv, <1>live, Zenon DEF TypeInv
  <2>2. removes = 0 => \A c \in live[g].connections : c \in sessionIds' /\ stage'[c] # "closed"
    BY <2>1, <1>act, Zenon DEF Good, Once
  <2>3. CASE g = k
    BY <2>1, <2>2, <2>3, <1>act, <1>live, <1>eff, GoodKept, Zenon DEF SameUse
  <2>4. CASE g # k
    BY <2>1, <2>2, <2>4, <1>act, <1>live, GoodKept, Zenon DEF SameLife, SameEnd
  <2>. QED
    BY <2>3, <2>4, Zenon
<1>. QED
  BY <1>1, <1>2, <1>3, <1>4, <1>5, <1>6, <1>7, Zenon DEF Inv

LEMMA RuntimeErrorStep ==
  ASSUME Inv, NEW k \in Runtimes, RuntimeError(k)
  PROVE  Inv'
<1>inv. /\ TypeInv /\ Opening /\ References /\ Closing /\ NeverIdle /\ Counted
        /\ \A v \in Tasks : Command(task[v])
        /\ \A g \in Runtimes : Good(g)
  BY DEF Inv
<1>. DEFINE r == live[k].stateRevision + 1
            m == [live[k] EXCEPT !.stateRevision = r, !.terminal = TRUE, !.subscribed = FALSE,
                                 !.terminating = "running", !.targets = live[k].connections]
<1>act. /\ live[k] \in Lives /\ live[k].subscribed /\ events' = events + 1
        /\ live' = [live EXCEPT ![k] = m]
        /\ stage' = [c \in Conns |-> IF c \in live[k].connections /\ stage[c] = "ready"
                                     THEN "closing" ELSE stage[c]]
        /\ UNCHANGED <<current, opening, sessionIds, task, remover, server, opened, removes>>
  BY <1>inv, Zenon DEF TypeInv, RuntimeError
<1>r. r \in Nat /\ live[k].connections \in SUBSET Conns
  BY <1>act, LiveTypes
<1>s. r = live[k].stateRevision + 1
  OBVIOUS
<1>. HIDE DEF r
<1>eff. /\ m \in Lives /\ SameUse(live[k], m) /\ m.stateRevision = r /\ m.terminal = TRUE
        /\ m.subscribed = FALSE /\ m.terminating = "running" /\ m.ready = live[k].ready
        /\ m.held = live[k].held /\ m.disposing = live[k].disposing
        /\ m.disposals = live[k].disposals
  BY <1>act, <1>r, Zenon DEF Lives, SameUse
<1>. HIDE DEF m
<1>live. /\ live' \in [Runtimes -> Lives] /\ live'[k] = m
         /\ \A g \in Runtimes \ {k} : live'[g] = live[g]
  BY <1>inv, <1>act, <1>eff, RuntimeChange, Zenon
<1>stage. /\ stage' \in [Conns -> {"ready", "closing", "closed"}]
          /\ \A c \in Conns : stage[c] = "closed" <=> stage'[c] = "closed"
  BY <1>inv, <1>act, Zenon DEF TypeInv
<1>same. /\ current' = current /\ opening' = opening /\ sessionIds' = sessionIds /\ task' = task
         /\ remover' = remover /\ server' = server /\ opened' = opened /\ removes' = removes
  BY <1>act, Zenon
<1>1. TypeInv'
  <2>1. events' \in Nat
    BY <1>inv, <1>act DEF TypeInv
  <2>2. TypeInv
    BY <1>inv
  <2>. QED
    BY <1>same, <1>live, <1>stage, <2>1, <2>2 DEF TypeInv
<1>2. Opening' /\ Closing'
  BY <1>inv, <1>act, <1>stage, Zenon DEF Opening, Closing, Gone
<1>3. References'
  BY <1>inv, <1>act, <1>live, <1>eff, Zenon DEF TypeInv, References
<1>4. NeverIdle'
  BY <1>inv, <1>act, <1>live, <1>eff, Zenon DEF TypeInv, NeverIdle, Disposable, Handled, IsClosing
<1>5. Counted'
  <2>2. \A g \in Runtimes : live'[g].operationCount = live[g].operationCount
    BY <1>live, <1>eff, Zenon DEF SameUse
  <2>. QED
    BY <1>inv, <1>act, <2>2, CountedKept, Zenon
<1>6. ASSUME NEW v \in Tasks PROVE Command(task[v])'
  <2>1. Follows(task[v]) /\ Fresh(task[v], live[task[v].gen]) /\ task'[v] = task[v]
        /\ task[v].rev \in Nat
    BY <1>inv, <1>act, Zenon DEF Command, TypeInv, Commands
  <2>2. Follows(task[v])'
    BY <2>1, <1>act, <1>live, <1>eff, Zenon DEF Follows
  <2>3. Fresh(task[v], live[task[v].gen])'
    <3>1. CASE task[v].gen = k
      <4>1. live[k].stateRevision \in Nat
        BY <1>act, LiveTypes
      <4>2. task'[v] = task[v] /\ live'[task[v].gen] = m /\ Fresh(task[v], live[k])
        BY <2>1, <3>1, <1>live
      <4>3. task[v].rev <= live[k].stateRevision => task[v].rev <= r /\ task[v].rev # r
        BY <2>1, <1>s, <4>1, Revisions
      <4>4. Fresh(task[v], m)
        BY <1>eff, <4>2, <4>3, Zenon DEF Fresh
      <4>. QED
        BY <4>2, <4>4, Zenon
    <3>2. CASE task[v].gen # k
      BY <3>2, <2>1, <1>live, Zenon DEF Fresh, Follows, Bound, Counting
    <3>. QED
      BY <3>1, <3>2, Zenon
  <2>. QED
    BY <2>2, <2>3, Zenon DEF Command
<1>7. ASSUME NEW g \in Runtimes PROVE Good(g)'
  <2>1. Good(g)
    BY <1>inv
  <2>2. removes = 0 => \A c \in live[g].connections : c \in sessionIds' /\ stage'[c] # "closed"
    BY <2>1, <1>act, <1>stage, Attached, Zenon
  <2>3. CASE g = k
    BY <2>1, <2>2, <2>3, <1>act, <1>live, <1>eff, ZenonT(30) DEF Good, Published, Unused, Held, Listened, Once, Gone, SameUse
  <2>4. CASE g # k
    BY <2>1, <2>2, <2>4, <1>act, <1>live, Zenon DEF Good, Published, Unused, Held, Listened, Once, Gone, Handled
  <2>. QED
    BY <2>3, <2>4
<1>. QED
  BY <1>1, <1>2, <1>3, <1>4, <1>5, <1>6, <1>7, Zenon DEF Inv

LEMMA RemoveBeginsStep ==
  ASSUME Inv, Remove \/ RemoveLooksUp
  PROVE  Inv'
<1>inv. /\ TypeInv /\ Opening /\ References /\ Closing /\ NeverIdle /\ Counted
        /\ \A v \in Tasks : Command(task[v])
        /\ \A g \in Runtimes : Good(g)
  BY DEF Inv
<1>act. /\ UNCHANGED <<live, current, opening, stage, sessionIds, task, server, opened, events>>
        /\ \/ /\ remover.at = "none" /\ removes' = removes + 1
              /\ remover' = [remover EXCEPT
                               !.at = IF opening # NoOpening THEN "opening" ELSE "lookup"]
           \/ /\ remover.at = "lookup" /\ removes' = removes
              /\ \/ current = None /\ remover' = NotRemoving
                 \/ /\ current # None
                    /\ remover' = [at |-> "disposal", gen |-> current, targets |-> {}]
                 \/ /\ current # None
                    /\ remover' = [at |-> "sending", gen |-> current,
                                   targets |-> live[current].connections]
  BY DEF Remove, RemoveLooksUp, bounds
<1>rem. /\ ~(remover.at \in Handling)
        /\ ~(remover'.at \in {"draining", "disposing"})
        /\ remover'.at \in Handling \union {"disposal"} =>
             current # None /\ remover'.gen = current
        /\ remover'.at = "none" => remover' = NotRemoving
        /\ removes' # 0 /\ (removes = 0 => remover'.at \notin Handling)
  BY <1>inv, <1>act DEF TypeInv, References, Handling, NotRemoving
<1>con. current # None => current \in Runtimes /\ live[current].connections \in SUBSET Conns
  BY <1>inv, LiveTypes, Zenon DEF TypeInv
<1>1. TypeInv'
  <2>1. remover' \in [at : {"none", "opening", "lookup", "disposal"} \union Handling,
                      gen : Runtimes \union {None}, targets : SUBSET Conns]
    BY <1>inv, <1>act, <1>con DEF TypeInv, NotRemoving, Handling
  <2>2. removes' \in Nat
    BY <1>inv, <1>act DEF TypeInv
  <2>. QED
    BY <1>inv, <1>act, <2>1, <2>2, Zenon DEF TypeInv
<1>2. Opening' /\ Closing'
  BY <1>inv, <1>act DEF Opening, Closing, Gone
<1>3. References'
  BY <1>inv, <1>act, <1>rem, <1>con, Zenon DEF References
<1>4. NeverIdle'
  BY <1>inv, <1>act, <1>rem, Zenon DEF NeverIdle, Handled, Disposable, IsClosing
<1>5. Counted'
  BY <1>inv, <1>act, CountedKept
<1>6. ASSUME NEW v \in Tasks PROVE Command(task[v])'
  BY <1>inv, <1>act, Zenon DEF Command, Follows, Fresh
<1>7. ASSUME NEW g \in Runtimes PROVE Good(g)'
  BY <1>inv, <1>act, <1>rem, Zenon DEF Good, Published, Unused, Held, Listened, Once, Gone, Handled
<1>. QED
  BY <1>1, <1>2, <1>3, <1>4, <1>5, <1>6, <1>7, Zenon DEF Inv

\* What remove() does to its runtime: it may lose connections, its listener and
\* its hold.
Removed(l, m) ==
  /\ SameState(l, m) /\ m.ready = l.ready /\ m.operationCount = l.operationCount
  /\ m.disposing = l.disposing /\ m.terminating = l.terminating /\ m.terminal = l.terminal
  /\ m.connections \subseteq l.connections
  /\ m.subscribed => l.subscribed
  /\ m.held => l.held

LEMMA RemovingStep ==
  ASSUME Inv, remover.at \in Handling,
         NEW k \in Runtimes, k = remover.gen, NEW m \in Lives,
         live' = [live EXCEPT ![k] = m], Removed(live[k], m),
         m.subscribed = live[k].subscribed \/ remover'.at # "sending",
         remover'.at = "sending" => remover.at = "sending",
         sessionIds' \subseteq sessionIds,
         \/ /\ current' = current /\ m.held = live[k].held
            /\ remover' \in [at : Handling, gen : {k}, targets : SUBSET Conns]
         \/ current' = Unlisted(k) /\ remover' = NotRemoving /\ ~m.held,
         UNCHANGED <<opening, stage, task, server, bounds>>
  PROVE  Inv'
<1>inv. /\ TypeInv /\ Opening /\ References /\ Closing /\ NeverIdle /\ Counted
        /\ \A v \in Tasks : Command(task[v])
        /\ \A g \in Runtimes : Good(g)
  BY Zenon DEF Inv
<1>use. live[k] \in Lives /\ live[k].ready /\ removes # 0
  BY <1>inv DEF TypeInv, References, Handling, NotRemoving
<1>live. /\ live' \in [Runtimes -> Lives] /\ live'[k] = m
         /\ \A g \in Runtimes \ {k} : live'[g] = live[g]
  BY <1>inv, RuntimeChange, Zenon
<1>cur. /\ current' \in {current, None}
        /\ remover' = NotRemoving => current' # k
        /\ remover' # NotRemoving => /\ remover'.at \in Handling /\ remover'.gen = k
                                     /\ current' = current /\ m.held = live[k].held
  <2>1. NotRemoving.at \notin Handling /\ k # None
    BY NoneFacts, Zenon DEF Handling
  <2>2. CASE current' = current /\ remover'.at \in Handling /\ remover'.gen = k
                /\ m.held = live[k].held
    BY <2>1, <2>2, Zenon
  <2>3. CASE current' = Unlisted(k) /\ remover' = NotRemoving
    BY <2>1, <2>3, Zenon DEF Unlisted
  <2>. QED
    BY <2>2, <2>3, Zenon
<1>1. TypeInv'
  <2>1. remover' \in [at : {"none", "opening", "lookup", "disposal"} \union Handling,
                      gen : Runtimes \union {None}, targets : SUBSET Conns]
    <3>1. NotRemoving \in [at : {"none"}, gen : {None}, targets : SUBSET Conns]
      BY DEF NotRemoving
    <3>2. CASE remover' = NotRemoving
      BY <3>1, <3>2
    <3>3. CASE remover' \in [at : Handling, gen : {k}, targets : SUBSET Conns]
      BY <3>3
    <3>. QED
      BY <3>2, <3>3, Zenon
  <2>. QED
    BY <1>inv, <1>live, <1>cur, <2>1, Zenon DEF TypeInv, bounds
<1>2. Opening' /\ Closing'
  BY <1>inv, <1>cur, Zenon DEF Opening, Closing, Gone, bounds
<1>3. References'
  <2>1. \A g \in Runtimes : live'[g].ready = live[g].ready
    BY <1>live, Zenon DEF Removed
  <2>2. (remover'.at = "none" \/ removes' = 0) => remover' = NotRemoving
    BY <1>use, <1>cur, Zenon DEF Handling, bounds
  <2>3. remover'.at \in Handling \union {"disposal"} => remover'.gen = k
    BY <1>cur, NoneFacts, Zenon DEF Handling
  <2>4. current' # None => live'[current'].ready
    <3>1. current' # None => current' = current /\ current \in Runtimes /\ live[current].ready
      BY <1>inv, <1>cur, Zenon DEF TypeInv, References
    <3>. QED
      BY <2>1, <3>1, Zenon
  <2>5. live'[k].ready
    BY <1>use, <2>1, Zenon
  <2>. QED
    BY <2>2, <2>3, <2>4, <2>5, Zenon DEF References
<1>4. NeverIdle'
  <2>1. CASE current' = k
    BY <2>1, <1>cur, Zenon DEF NeverIdle, Handled
  <2>2. CASE current' # k
    <3>1. SUFFICES ASSUME current' # None PROVE NeverIdle'
      BY Zenon DEF NeverIdle
    <3>2. current' = current /\ current \in Runtimes /\ current # None
      BY <3>1, <1>inv, <1>cur, Zenon DEF TypeInv
    <3>3. live'[current'] = live[current] /\ ~Handled(current)
      BY <2>2, <3>2, <1>live, Zenon DEF Handled
    <3>. QED
      BY <3>2, <3>3, <1>inv, Zenon DEF NeverIdle, Disposable, IsClosing
  <2>. QED
    BY <2>1, <2>2, Zenon
<1>5. Counted'
  <2>2. \A g \in Runtimes : live'[g].operationCount = live[g].operationCount
    BY <1>live, Zenon DEF Removed
  <2>. QED
    BY <1>inv, <2>2, CountedKept, Zenon
<1>6. ASSUME NEW v \in Tasks PROVE Command(task[v])'
  <2>1. \A g \in Runtimes : Quiet(live[g], live'[g])
    BY <1>live, Zenon DEF Quiet, Removed, SameState
  <2>. QED
    BY <2>1, <1>inv, CommandKept, Zenon
<1>7. ASSUME NEW g \in Runtimes PROVE Good(g)'
  <2>1. Good(g)
    BY <1>inv, Zenon
  <2>2. CASE g = k
    <3>1. Published(g)' /\ Unused(g)' /\ Once(g)'
      BY <2>1, <2>2, <1>live, <1>use, Zenon DEF Good, Published, Unused, Once, Removed, bounds
    <3>2. Held(g)'
      BY <2>1, <2>2, <1>live, <1>cur, Zenon DEF Good, Held, Removed
    <3>3. Listened(g)'
      BY <2>1, <2>2, <1>live, <1>use, <1>cur, Zenon DEF Good, Listened, Removed, Handled, Gone, bounds
    <3>. QED
      BY <3>1, <3>2, <3>3, Zenon DEF Good
  <2>3. CASE g # k
    <3>0. live'[g] = live[g] /\ (g = current' => g = current)
      BY <2>3, <1>live, <1>cur DEF None, Runtimes
    <3>1. Published(g)' /\ Unused(g)' /\ Once(g)'
      BY <2>1, <3>0, <1>use, Zenon DEF Good, Published, Unused, Once, bounds
    <3>2. Held(g)'
      BY <2>1, <2>3, <3>0, Zenon DEF Good, Held, Unlisted
    <3>3. Listened(g)'
      BY <2>1, <2>3, <3>0, <1>use, Zenon DEF Good, Listened, Handled, Gone, bounds
    <3>. QED
      BY <3>1, <3>2, <3>3, Zenon DEF Good
  <2>. QED
    BY <2>2, <2>3, Zenon
<1>. QED
  BY <1>1, <1>2, <1>3, <1>4, <1>5, <1>6, <1>7, Zenon DEF Inv

LEMMA RemoveStepInv ==
  ASSUME Inv, RemoveUnsubscribes \/ RemoveDisposes \/ RemoveEnds
                \/ \E c \in Conns : RemoveSent(c)
  PROVE  Inv'
<1>. DEFINE k == remover.gen
<1>1. /\ remover.at \in Handling /\ k \in Runtimes /\ live[k] \in Lives
      /\ remover.targets \in SUBSET Conns
      /\ remover = [at |-> remover.at, gen |-> k, targets |-> remover.targets]
      /\ \A T \in SUBSET Conns : [remover EXCEPT !.targets = T]
                                   \in [at : Handling, gen : {k}, targets : SUBSET Conns]
      /\ \A a \in Handling : /\ [remover EXCEPT !.at = a]
                                  \in [at : Handling, gen : {k}, targets : SUBSET Conns]
                             /\ [remover EXCEPT !.at = a].at = a
  BY Zenon DEF Inv, TypeInv, References, Handling, RemoveUnsubscribes, RemoveDisposes,
         RemoveEnds, RemoveSent
<1>t. /\ live[k].connections \subseteq Conns /\ live[k].disposals \in Nat
  BY <1>1, LiveTypes
<1>2. ASSUME NEW c \in Conns, RemoveSent(c) PROVE Inv'
  <2>. DEFINE C == live[k].connections \ {c}
              m == [live[k] EXCEPT !.connections = C]
  <2>1. C \in SUBSET Conns /\ C \subseteq live[k].connections
    BY <1>t, Zenon
  <2>2. live' = [live EXCEPT ![k] = m]
    BY <1>2, Zenon DEF RemoveSent
  <2>. HIDE DEF C
  <2>3. m \in Lives /\ Removed(live[k], m) /\ m.held = live[k].held
        /\ m.subscribed = live[k].subscribed
    BY <1>1, <2>1, Zenon DEF Lives, Removed, SameState
  <2>4. remover' \in [at : Handling, gen : {k}, targets : SUBSET Conns]
    BY <1>1, <1>2, Zenon DEF RemoveSent
  <2>. HIDE DEF m, k
  <2>. QED
    BY <1>1, <1>2, <2>2, <2>3, <2>4, RemovingStep, Zenon DEF RemoveSent, k
<1>3. CASE RemoveUnsubscribes
  <2>. DEFINE m == [live[k] EXCEPT !.subscribed = FALSE]
  <2>2. live' = [live EXCEPT ![k] = m]
    BY <1>3 DEF RemoveUnsubscribes
  <2>3. m \in Lives /\ Removed(live[k], m) /\ m.held = live[k].held
    BY <1>1, Zenon DEF Lives, Removed, SameState
  <2>4. /\ remover' \in [at : Handling, gen : {k}, targets : SUBSET Conns]
        /\ remover'.at # "sending"
    BY <1>1, <1>3 DEF RemoveUnsubscribes, Handling
  <2>. HIDE DEF m, k
  <2>. QED
    BY <1>1, <1>3, <2>2, <2>3, <2>4, RemovingStep, Zenon DEF RemoveUnsubscribes, k
<1>4. CASE RemoveDisposes
  <2>. DEFINE n == live[k].disposals + 1
              m == [live[k] EXCEPT !.subscribed = FALSE, !.disposals = n]
  <2>1. n \in Nat
    BY <1>t
  <2>2. live' = [live EXCEPT ![k] = m]
    BY <1>1, <1>4, Zenon DEF RemoveDisposes, CallDispose, Inv, TypeInv, Lives
  <2>. HIDE DEF n
  <2>3. m \in Lives /\ Removed(live[k], m) /\ m.held = live[k].held
    BY <1>1, <2>1, Zenon DEF Lives, Removed, SameState
  <2>4. /\ remover' \in [at : Handling, gen : {k}, targets : SUBSET Conns]
        /\ remover'.at # "sending"
    BY <1>1, <1>4 DEF RemoveDisposes, Handling
  <2>. HIDE DEF m, k
  <2>. QED
    BY <1>1, <1>4, <2>2, <2>3, <2>4, RemovingStep, Zenon DEF RemoveDisposes, k
<1>5. CASE RemoveEnds
  <2>. DEFINE m == [live[k] EXCEPT !.held = FALSE]
  <2>2. live' = [live EXCEPT ![k] = m]
    BY <1>5 DEF RemoveEnds
  <2>3. m \in Lives /\ Removed(live[k], m) /\ ~m.held /\ m.subscribed = live[k].subscribed
    BY <1>1, Zenon DEF Lives, Removed, SameState
  <2>4. remover'.at # "sending"
    BY <1>5 DEF RemoveEnds, NotRemoving
  <2>. HIDE DEF m, k
  <2>. QED
    BY <1>1, <1>5, <2>2, <2>3, <2>4, RemovingStep, Zenon DEF RemoveEnds, k
<1>. QED
  BY <1>2, <1>3, <1>4, <1>5, Zenon

LEMMA CloseBeginsStep ==
  ASSUME Inv, Close \/ CloseConnections \/ CloseSessions
  PROVE  Inv'
<1>inv. /\ TypeInv /\ Opening /\ References /\ Closing /\ NeverIdle /\ Counted
        /\ \A v \in Tasks : Command(task[v])
        /\ \A g \in Runtimes : Good(g)
  BY DEF Inv
<1>act. /\ UNCHANGED <<live, current, opening, sessionIds, task, remover, bounds>>
        /\ \/ server.at = "open" /\ server' = [server EXCEPT !.at = "listeners"] /\ stage' = stage
           \/ /\ server.at = "listeners" /\ server' = [server EXCEPT !.at = "connections"]
              /\ stage' = [c \in Conns |-> IF stage[c] = "ready" THEN "closing" ELSE stage[c]]
           \/ /\ server.at = "connections" /\ \A c \in Conns : stage[c] = "closed"
              /\ server' = [at |-> "openings", gen |-> opening.gen] /\ stage' = stage
  BY DEF Close, CloseConnections, CloseSessions
<1>server. /\ server'.at \in {"listeners", "connections", "openings"} /\ ~Gone /\ ~Gone'
           /\ server'.at = "openings" => /\ server'.gen = opening.gen
                                         /\ \A c \in Conns : stage'[c] = "closed"
           /\ server' \in [at : {"open", "listeners", "connections", "openings",
                                 "sessions", "closed"}, gen : Runtimes \union {None}]
  BY <1>inv, <1>act DEF TypeInv, Gone
<1>stage. /\ stage' \in [Conns -> {"ready", "closing", "closed"}]
          /\ \A c \in Conns : stage[c] = "closed" <=> stage'[c] = "closed"
  BY <1>inv, <1>act DEF TypeInv
<1>1. TypeInv'
  BY <1>inv, <1>act, <1>server, <1>stage, Zenon DEF TypeInv, bounds
<1>2. Opening' /\ Closing' /\ References' /\ NeverIdle'
  BY <1>inv, <1>act, <1>server, Zenon DEF Opening, Closing, References, NeverIdle, Disposable, IsClosing, bounds
<1>5. Counted'
  BY <1>inv, <1>act, CountedKept, Zenon
<1>6. ASSUME NEW v \in Tasks PROVE Command(task[v])'
  BY <1>inv, <1>act, Zenon DEF Command, Follows, Fresh
<1>7. ASSUME NEW g \in Runtimes PROVE Good(g)'
  <2>1. Good(g) /\ server.at # "sessions"
    BY <1>inv, <1>server, Zenon DEF Gone
  <2>2. removes = 0 => \A c \in live[g].connections : c \in sessionIds' /\ stage'[c] # "closed"
    BY <1>act, <1>stage, Attached, Zenon
  <2>. QED
    BY <2>1, <2>2, <1>act, <1>server, Zenon DEF Good, Published, Unused, Held, Listened, Once, Handled, bounds
<1>. QED
  BY <1>1, <1>2, <1>5, <1>6, <1>7, Zenon DEF Inv

\* What close() does to a runtime.
Abandoned(l, m) ==
  /\ SameUse(l, m) /\ SameState(l, m) /\ m.ready = l.ready /\ m.terminal = l.terminal
  /\ m.terminating = l.terminating /\ m.disposing = l.disposing
  /\ m.subscribed => l.subscribed
  /\ m.held => l.held

LEMMA CloseEndsStep ==
  ASSUME Inv, CloseDisposes \/ CloseEnds
  PROVE  Inv'
<1>inv. /\ TypeInv /\ Opening /\ References /\ Closing /\ NeverIdle /\ Counted
        /\ \A v \in Tasks : Command(task[v])
        /\ \A g \in Runtimes : Good(g)
  BY DEF Inv
<1>act. /\ UNCHANGED <<opening, stage, sessionIds, task, remover, bounds>>
        /\ \/ /\ server.at = "openings" /\ (opening.gen # server.gen \/ server.gen = None)
              /\ server' = [at |-> "sessions", gen |-> current]
           \/ server.at = "sessions" /\ server' = [at |-> "closed", gen |-> None]
        /\ current' = None
  BY <1>inv DEF CloseDisposes, CloseEnds, Closing, Gone
<1>gone. /\ Gone' /\ \A c \in Conns : stage[c] = "closed"
         /\ server' \in [at : {"open", "listeners", "connections", "openings",
                                 "sessions", "closed"}, gen : Runtimes \union {None}]
         /\ opening.at # "snapshot"
  <2>1. /\ Gone' /\ \A c \in Conns : stage[c] = "closed"
        /\ server' \in [at : {"open", "listeners", "connections", "openings",
                                 "sessions", "closed"}, gen : Runtimes \union {None}]
    BY <1>inv, <1>act DEF TypeInv, Closing, Gone
  <2>2. opening.at = "snapshot" => opening.gen # None
    BY <1>inv, Zenon DEF Opening, None
  <2>. QED
    BY <1>inv, <1>act, <2>1, <2>2, Zenon DEF Closing, Gone
<1>eff. /\ live' \in [Runtimes -> Lives]
        /\ \A g \in Runtimes :
             /\ Abandoned(live[g], live'[g])
             /\ \/ live'[g].disposals = live[g].disposals
                \/ /\ g = current /\ live[g].disposing = "no" /\ ~Gone
                   /\ live'[g].disposals = live[g].disposals + 1
             /\ server.at = "sessions" /\ g = server.gen => ~live'[g].held
  <2>1. CASE CloseDisposes
    <3>1. ASSUME NEW g \in Runtimes
          PROVE  /\ live'[g] \in Lives /\ Abandoned(live[g], live'[g])
                 /\ \/ live'[g].disposals = live[g].disposals
                    \/ /\ g = current /\ live[g].disposing = "no"
                       /\ live'[g].disposals = live[g].disposals + 1
      <4>. DEFINE n == live[g].disposals + 1
                  m == [live[g] EXCEPT !.subscribed = FALSE, !.disposals = n]
      <4>0. live[g] \in Lives
        BY <1>inv, Zenon DEF TypeInv
      <4>1. n \in Nat
        BY <4>0, LiveTypes
      <4>2. CASE g = current /\ live[g].disposing = "no"
        <5>1. live'[g] = m
          BY <2>1, <4>0, <4>2, Zenon DEF CloseDisposes, CallDispose, Lives
        <5>2. n = live[g].disposals + 1
          OBVIOUS
        <5>. HIDE DEF n
        <5>3. m \in Lives /\ Abandoned(live[g], m) /\ m.disposals = n
          BY <4>0, <4>1, Zenon DEF Lives, Abandoned, SameUse, SameState
        <5>. QED
          BY <4>2, <5>1, <5>2, <5>3, Zenon
      <4>3. CASE ~(g = current /\ live[g].disposing = "no")
        BY <2>1, <4>0, <4>3, Zenon DEF CloseDisposes, Abandoned, SameUse, SameState
      <4>. QED
        BY <4>2, <4>3, Zenon
    <3>2. ~Gone /\ server.at # "sessions"
      BY <2>1, Zenon DEF CloseDisposes, Gone
    <3>3. live' \in [Runtimes -> Lives]
      BY <2>1, <3>1, Zenon DEF CloseDisposes
    <3>. QED
      BY <3>1, <3>2, <3>3, Zenon
  <2>2. CASE CloseEnds
    <3>0. \A g \in Runtimes : live[g] \in Lives
      BY <1>inv, Zenon DEF TypeInv
    <3>1. CASE server.gen = None
      BY <2>2, <3>0, <3>1, <1>inv DEF CloseEnds, TypeInv, Abandoned, SameUse, SameState, None, Runtimes
    <3>2. CASE server.gen # None
      <4>. DEFINE m == [live[server.gen] EXCEPT !.held = FALSE]
      <4>1. server.gen \in Runtimes /\ live' = [live EXCEPT ![server.gen] = m]
        BY <2>2, <3>2, <1>inv, Zenon DEF CloseEnds, TypeInv
      <4>0. live[server.gen] \in Lives
        BY <3>0, <4>1
      <4>2. m \in Lives /\ Abandoned(live[server.gen], m) /\ ~m.held
            /\ m.disposals = live[server.gen].disposals
        BY <4>0, Zenon DEF Lives, Abandoned, SameUse, SameState
      <4>. HIDE DEF m
      <4>3. /\ live' \in [Runtimes -> Lives] /\ live'[server.gen] = m
            /\ \A g \in Runtimes \ {server.gen} : live'[g] = live[g]
        BY <1>inv, <4>1, <4>2, Zenon DEF TypeInv
      <4>. QED
        BY <3>0, <4>1, <4>2, <4>3, Zenon DEF Abandoned, SameUse, SameState
    <3>. QED
      BY <3>1, <3>2, Zenon
  <2>. QED
    BY <2>1, <2>2, Zenon
<1>1. TypeInv'
  BY <1>inv, <1>act, <1>eff, <1>gone, Zenon DEF TypeInv, bounds
<1>2. Opening' /\ Closing' /\ NeverIdle'
  BY <1>inv, <1>act, <1>gone, Zenon DEF Opening, Closing, NeverIdle, bounds
<1>3. References'
  <2>1. \A g \in Runtimes : live'[g].ready = live[g].ready
    BY <1>eff, Zenon DEF Abandoned
  <2>. QED
    BY <1>inv, <1>act, <2>1, Zenon DEF References, bounds
<1>5. Counted'
  <2>2. \A g \in Runtimes : live'[g].operationCount = live[g].operationCount
    BY <1>eff, Zenon DEF Abandoned, SameUse
  <2>. QED
    BY <1>inv, <1>act, <2>2, CountedKept, Zenon
<1>6. ASSUME NEW v \in Tasks PROVE Command(task[v])'
  <2>1. \A g \in Runtimes : Quiet(live[g], live'[g])
    BY <1>eff, Zenon DEF Quiet, Abandoned, SameState
  <2>. QED
    BY <2>1, <1>inv, <1>act, CommandKept, Zenon
<1>7. ASSUME NEW g \in Runtimes PROVE Good(g)'
  <2>1. Good(g) /\ Abandoned(live[g], live'[g]) /\ live[g].disposals \in Nat
    BY <1>inv, <1>eff, LiveTypes, Zenon DEF TypeInv
  <2>2. Published(g)' /\ Unused(g)' /\ Listened(g)'
    BY <2>1, <1>act, <1>gone, Zenon DEF Good, Published, Unused, Listened, Abandoned, SameUse, bounds
  <2>3. Held(g)'
    <3>1. SUFFICES ASSUME live'[g].held PROVE Held(g)'
      BY Zenon DEF Held
    <3>2. /\ \/ g = current
             \/ g = opening.gen /\ opening.at \in {"snapshot", "dispose"}
             \/ server.at = "sessions" /\ g = server.gen
          /\ ~(server.at = "sessions" /\ g = server.gen) /\ opening' = opening
      BY <2>1, <3>1, <1>act, <1>eff, Zenon DEF Good, Held, Abandoned
    <3>3. CASE g = current
      <4>1. server.at = "openings"
        BY <3>3, <1>inv, <1>act, NoneFacts, Zenon DEF Closing, Gone
      <4>2. server'.at = "sessions" /\ server'.gen = current
        BY <4>1, <1>act
      <4>. QED
        BY <3>3, <4>2, Zenon DEF Held
    <3>4. CASE g = opening.gen /\ opening.at \in {"snapshot", "dispose"}
      BY <3>2, <3>4, Zenon DEF Held
    <3>. QED
      BY <3>2, <3>3, <3>4, Zenon
  <2>4. Once(g)'
    <3>1. removes = 0 => live'[g].disposals <= 1
      <4>1. CASE live'[g].disposals = live[g].disposals
        BY <2>1, <4>1, Zenon DEF Good, Once
      <4>2. CASE /\ g = current /\ live[g].disposing = "no" /\ ~Gone
                 /\ live'[g].disposals = live[g].disposals + 1
        <5>1. live[g].ready
          BY <4>2, <1>inv, NoneFacts, Zenon DEF References
        <5>2. removes = 0 => live[g].disposals = 0
          BY <2>1, <4>2, <5>1, Zenon DEF Good, Once
        <5>. QED
          BY <4>2, <5>2, FirstDisposal, Zenon
      <4>. QED
        BY <4>1, <4>2, <1>eff, Zenon
    <3>. QED
      BY <2>1, <3>1, <1>act, <1>gone, Zenon DEF Good, Once, Abandoned, SameUse, bounds
  <2>. QED
    BY <2>2, <2>3, <2>4, Zenon DEF Good
<1>. QED
  BY <1>1, <1>2, <1>3, <1>5, <1>6, <1>7, Zenon DEF Inv
-----------------------------------------------------------------------------
LEMMA InitInv == Init => Inv
<1>. SUFFICES ASSUME Init PROVE Inv
  OBVIOUS
<1>0. OpenSession \in Lives
  BY DEF OpenSession, Lives
<1>1. TypeInv
  <2>1. opened \in 0..MaxRuntimes /\ events \in Nat /\ removes \in Nat
    BY LiveAssumption DEF Init
  <2>. QED
    BY <1>0, <2>1, FreeCommand, Zenon DEF Init, TypeInv, NoOpening, NotRemoving
<1>2. Opening /\ References /\ Closing /\ NeverIdle
  BY Zenon DEF Init, Opening, References, Closing, Gone, NeverIdle, None, NoOpening,
         NotRemoving, Handling
<1>3. Counted
  <2>1. \A g : Users(g) = {}
    BY Zenon DEF Init, Users, Free, Counting
  <2>. QED
    BY <2>1, FS_EmptySet, Zenon DEF Init, Counted, OpenSession
<1>4. ASSUME NEW t \in Tasks PROVE Command(task[t])
  BY Zenon DEF Init, Command, Follows, Fresh, Free, Bound, Counting
<1>5. ASSUME NEW g \in Runtimes PROVE Good(g)
  <2>1. live[g] = OpenSession
    BY Zenon DEF Init
  <2>2. /\ OpenSession.connections = {} /\ OpenSession.operationCount = 0 /\ ~OpenSession.ready
        /\ ~OpenSession.subscribed /\ OpenSession.disposing = "no" /\ OpenSession.terminating = "no"
        /\ ~OpenSession.held /\ OpenSession.disposals = 0
    BY DEF OpenSession
  <2>. QED
    BY <2>1, <2>2, FirstDisposal, Zenon DEF Good, Published, Unused, Held, Listened, Once
<1>. QED
  BY <1>1, <1>2, <1>3, <1>4, <1>5, Zenon DEF Inv

LEMMA AcquireStep ==
  ASSUME Inv, NEW t \in Tasks, NEW c \in Conns, Acquire(t, c)
  PROVE  Inv'
BY AcquireExistingStep, AcquireWaitsStep, AcquireOpensStep, Zenon DEF Acquire

LEMMA NextInv == Inv /\ [Next]_vars => Inv'
<1>. SUFFICES ASSUME Inv, [Next]_vars PROVE Inv'
  OBVIOUS
<1>1. ASSUME NEW t \in Tasks, NEW c \in Conns,
             Request(t, c) \/ Operate(t, c) \/ Detach(t, c)
      PROVE  Inv'
  BY <1>1, AcquireStep, OperateStep, DetachStep, Zenon DEF Request
<1>2. ASSUME NEW c \in Conns, FailProtocol(c) \/ Disconnect(c) PROVE Inv'
  BY <1>2, ConnectionStep
<1>3. ASSUME NEW g \in Runtimes, RuntimeChanges(g) \/ RuntimeError(g) PROVE Inv'
  BY <1>3, RuntimeChangesStep, RuntimeErrorStep, Zenon
<1>4. CASE Remove \/ Close
  BY <1>4, RemoveBeginsStep, CloseBeginsStep, Zenon
<1>5. ASSUME NEW t \in Tasks, TaskStep(t) PROVE Inv'
  BY <1>5, SnapshotStep, OperationEndsStep, DetachEndsStep, AcquireStep, Zenon DEF TaskStep
<1>6. ASSUME NEW g \in Runtimes, DisposalStep(g) PROVE Inv'
  BY <1>6, DisposeEndsStep, TerminateEndsStep, Zenon DEF DisposalStep
<1>7. CASE OpeningStep
  BY <1>7, OpeningFailsStep, OpeningStays, OpenStep, Zenon DEF OpeningStep
<1>8. CASE RemoveStep
  BY <1>8, RemoveBeginsStep, RemoveStepInv, Zenon DEF RemoveStep
<1>9. CASE CloseStep
  BY <1>9, CloseBeginsStep, CloseEndsStep, Zenon DEF CloseStep
<1>10. CASE UNCHANGED vars
  <2>1. UNCHANGED <<live, current, opening, stage, sessionIds, task, remover, server,
                    opened, events, removes>>
    BY <1>10, Zenon DEF vars
  <2>2. /\ TypeInv /\ Opening /\ References /\ Closing /\ NeverIdle /\ Counted
        /\ \A v \in Tasks : Command(task[v])
        /\ \A g \in Runtimes : Good(g)
    BY DEF Inv
  <2>3. TypeInv' /\ Opening' /\ References' /\ Closing'
    <3>0. TypeInv /\ Opening /\ References /\ Closing
      BY <2>2
    <3>1. TypeInv'
      BY <2>1, <3>0 DEF TypeInv
    <3>2. Opening' /\ Closing'
      BY <2>1, <3>0, Zenon DEF Opening, Closing, Gone
    <3>3. References'
      BY <2>1, <3>0, Zenon DEF References
    <3>. QED
      BY <3>1, <3>2, <3>3
  <2>4. NeverIdle'
    BY <2>1, <2>2, Zenon DEF NeverIdle, Handled, Disposable, IsClosing
  <2>5. Counted'
    BY <2>1, <2>2, CountedKept, Zenon
  <2>6. \A v \in Tasks : Command(task[v])'
    BY <2>1, <2>2, Zenon DEF Command, Follows, Fresh
  <2>7. \A g \in Runtimes : Good(g)'
    <3>1. SUFFICES ASSUME NEW g \in Runtimes, Good(g) PROVE Good(g)'
      BY <2>2, Zenon
    <3>. QED
      BY <2>1, <3>1, Zenon DEF Good, Published, Unused, Held, Listened, Once, Gone, Handled
  <2>. QED
    BY <2>3, <2>4, <2>5, <2>6, <2>7, Zenon DEF Inv
<1>. QED
  BY <1>1, <1>2, <1>3, <1>4, <1>5, <1>6, <1>7, <1>8, <1>9, <1>10, Zenon DEF Next, Environment

\* The invariant holds of every behaviour of the manager.
THEOREM LiveInvariant == Spec => []Inv
BY InitInv, NextInv, PTL DEF Spec

\* acquire() never asks the service for a runtime while an earlier one of the
\* session is not disposed: the entry of liveSessions stays until its disposal
\* has ended and openingSessions holds back whoever comes meanwhile.
THEOREM RuntimeIsExclusive == Spec => []ExclusiveRuntime
<1>1. Inv => ExclusiveRuntime
  <2>. SUFFICES ASSUME Inv, ~IsClosing, NEW g \in Runtimes, live[g].held \/ opening.gen = g,
                       NEW h \in Runtimes \ {g}, live[h].held
                PROVE  FALSE
    BY Zenon DEF ExclusiveRuntime
  <2>1. Held(g) /\ Held(h)
    BY Zenon DEF Inv, Good
  <2>2. opening.at # "none" => current = None
    BY Zenon DEF Inv, Opening
  <2>3. opening.gen # None => opening.at # "none"
    BY DEF Inv, Opening, NoOpening
  <2>. QED
    BY <2>1, <2>2, <2>3 DEF Held, IsClosing, None, Runtimes
<1>. QED
  BY <1>1, LiveInvariant, PTL

\* When close() has returned, only a create() that is still in flight, and that
\* disposes its runtime itself, has one.
THEOREM ClosedServerHoldsNothing == Spec => []ClosedHoldsNothing
<1>1. Inv => ClosedHoldsNothing
  <2>. SUFFICES ASSUME Inv, server.at = "closed", NEW g \in Runtimes, live[g].held
                PROVE  opening = [at |-> "dispose", gen |-> g]
    BY Zenon DEF ClosedHoldsNothing
  <2>1. Held(g) /\ Closing /\ TypeInv
    BY Zenon DEF Inv, Good
  <2>2. current = None /\ opening.at # "snapshot"
    BY <2>1, Zenon DEF Closing, Gone
  <2>. QED
    BY <2>1, <2>2 DEF Held, TypeInv, None, Runtimes
<1>. QED
  BY <1>1, LiveInvariant, PTL

\* maybeDispose is called in every step that can make its guard true, so no
\* listed session that nobody uses stays undisposed.
THEOREM IdleIsDisposed == Spec => []NoIdleLeak
<1>1. Inv => NoIdleLeak
  BY DEF Inv, NeverIdle, NoIdleLeak, Handled, Handling, NotRemoving
<1>. QED
  BY <1>1, LiveInvariant, PTL

\* Until removeSession is called, runtime.dispose() is called at most once for a
\* runtime and, while the server is open, never under a connection or a command.
THEOREM RuntimeDisposedOnce == Spec => []DisposedOnceUnused
<1>1. Inv => DisposedOnceUnused
  <2>. SUFFICES ASSUME Inv, removes = 0, NEW g \in Runtimes
                PROVE  /\ live[g].disposals <= 1
                       /\ ~IsClosing /\ (live[g].connections # {} \/ live[g].operationCount > 0)
                            => live[g].disposals = 0
    BY Zenon DEF DisposedOnceUnused
  <2>1. Published(g) /\ Unused(g) /\ Once(g)
    BY Zenon DEF Inv, Good
  <2>2. live[g].operationCount > 0 => live[g].ready
    <3>1. live[g].operationCount = Cardinality(Users(g))
      BY DEF Inv, Counted
    <3>2. live[g].operationCount > 0 => Users(g) # {}
      BY <3>1, FS_EmptySet
    <3>. QED
      BY <3>2, InUse, Zenon DEF Users
  <2>3. live[g].connections # {} => live[g].ready
    BY <2>1, Zenon DEF Published
  <2>4. live[g].connections # {} \/ live[g].operationCount > 0 => live[g].disposing = "no"
    BY <2>1 DEF Unused
  <2>5. ~IsClosing => ~Gone
    BY DEF IsClosing, Gone
  <2>. QED
    BY <2>1, <2>2, <2>3, <2>4, <2>5, Zenon DEF Once
<1>. QED
  BY <1>1, LiveInvariant, PTL

\* Of the steps that end a command, only Attach ends one that holds a candidate.
LEMMA CandidateEnds ==
  ASSUME TypeInv, NEW t \in Tasks, task[t].at = "candidate", task'[t] = Free, [Next]_vars
  PROVE  Attach(t)
<1>. SUFFICES ASSUME ~Attach(t) PROVE task'[t].at # "free"
  BY DEF Free
<1>0. /\ task[t].at \notin {"free", "retry", "snapshot", "operation", "detach", "opening", "disposal"}
      /\ task \in [Tasks -> Commands]
  BY Zenon DEF TypeInv
<1>a. ASSUME NEW v \in Tasks, NEW c \in Conns, Acquire(v, c) PROVE task'[t] = task[t]
  <2>1. CASE AcquireExisting(v, c)
    BY <2>1, <1>0, Zenon DEF AcquireExisting, Acquiring
  <2>2. CASE AcquireRefused(v, c)
    BY <2>2, <1>0, Zenon DEF AcquireRefused, Acquiring
  <2>3. CASE AcquireAwaitsDisposal(v, c)
    BY <2>3, <1>0, Zenon DEF AcquireAwaitsDisposal, Acquiring
  <2>4. CASE AcquireAwaitsOpening(v, c)
    BY <2>4, <1>0, Zenon DEF AcquireAwaitsOpening, Acquiring
  <2>5. CASE AcquireOpens(v, c)
    BY <2>5, <1>0, Zenon DEF AcquireOpens, Acquiring, Create
  <2>. QED
    BY <1>a, <2>1, <2>2, <2>3, <2>4, <2>5, Zenon DEF Acquire
<1>1. ASSUME NEW v \in Tasks, NEW c \in Conns,
             Request(v, c) \/ Operate(v, c) \/ Detach(v, c)
      PROVE  task'[t] = task[t]
  BY <1>0, <1>1, <1>a, Zenon DEF Request, Operate, Detach
<1>2. ASSUME NEW c \in Conns, FailProtocol(c) \/ Disconnect(c) PROVE task'[t] = task[t]
  BY <1>2, Zenon DEF FailProtocol, Disconnect
<1>3. ASSUME NEW g \in Runtimes, RuntimeChanges(g) \/ RuntimeError(g) PROVE task'[t] = task[t]
  BY <1>3, Zenon DEF RuntimeChanges, RuntimeError
<1>4. CASE Remove \/ Close
  BY <1>4 DEF Remove, Close
<1>5. ASSUME NEW v \in Tasks, TaskStep(v) PROVE task'[t].at # "free"
  <2>1. CASE SnapshotReturns(v) \/ SnapshotFails(v) \/ OperateEnds(v) \/ DetachEnds(v)
    BY <2>1, <1>0, Zenon DEF SnapshotReturns, SnapshotFails, OperateEnds, DetachEnds
  <2>2. CASE Attach(v)
    BY <2>2, <1>0, Zenon DEF Attach, FinishAttach
  <2>3. CASE PrepareAgain(v)
    <3>1. task' = [task EXCEPT ![v] = Preparing(task[v].conn, task[v].gen)]
      BY <2>3, Zenon DEF PrepareAgain
    <3>2. Preparing(task[v].conn, task[v].gen).at = "snapshot"
      BY Zenon DEF Preparing, Free
    <3>. QED
      BY <1>0, <3>1, <3>2, Zenon
  <2>4. CASE \E c \in Conns : task[v].at = "retry" /\ Acquire(v, c)
    BY <1>0, <2>4, <1>a, Zenon
  <2>. QED
    BY <1>5, <2>1, <2>2, <2>3, <2>4, Zenon DEF TaskStep
<1>6. ASSUME NEW g \in Runtimes, DisposalStep(g) PROVE task'[t] = task[t]
  BY <1>0, <1>6, Zenon DEF DisposalStep, DisposeEnds, TerminateEnds, Waiting
<1>7. CASE OpeningStep
  <2>1. CASE RuntimeAcquired \/ OpenFails
    BY <2>1, <1>0, Zenon DEF RuntimeAcquired, OpenFails
  <2>2. CASE RuntimeRefused \/ OpeningDisposed
    BY <2>2, <1>0, Zenon DEF RuntimeRefused, OpeningDisposed, OpeningFails, Waiting
  <2>3. CASE Open
    BY <2>3, <1>0, Zenon DEF Open, Publish, Waiting
  <2>. QED
    BY <1>7, <1>0, <2>1, <2>2, <2>3, Zenon DEF OpeningStep
<1>8. CASE RemoveStep
  BY <1>8, Zenon DEF RemoveStep, RemoveLooksUp, RemoveUnsubscribes, RemoveDisposes, RemoveEnds, RemoveSent
<1>9. CASE CloseStep
  BY <1>9, Zenon DEF CloseStep, CloseConnections, CloseSessions, CloseDisposes, CloseEnds
<1>10. CASE UNCHANGED vars
  BY <1>10, Zenon DEF vars
<1>. QED
  BY <1>0, <1>1, <1>2, <1>3, <1>4, <1>5, <1>6, <1>7, <1>8, <1>9, <1>10, ZenonT(30) DEF Next, Environment

\* Until removeSession is called, the two revision checks around prepareAttach
\* give a connection the state the runtime has when it is registered.
THEOREM AttachAnswersFresh == Spec => AttachIsFresh
<1>1. Inv /\ Inv' /\ [Next]_vars =>
        (removes = 0 =>
           \A t \in Tasks :
             LET k == task[t] IN
             k.at = "candidate" /\ task'[t] = Free /\ ~live[k.gen].terminal
               /\ k.conn \in live'[k.gen].connections
             => k.snap = live[k.gen].version)
  <2>. SUFFICES ASSUME Inv, Inv', removes = 0, [Next]_vars, NEW t \in Tasks,
                       task[t].at = "candidate", task'[t] = Free,
                       ~live[task[t].gen].terminal,
                       task[t].conn \in live'[task[t].gen].connections
                PROVE  task[t].snap = live[task[t].gen].version
    BY Zenon
  <2>1. Attach(t)
    BY CandidateEnds, Zenon DEF Inv
  <2>2. PICK g \in Runtimes : g = task[t].gen
    BY InUse, Zenon DEF Counting
  <2>3. live[g].ready /\ live[g].disposing = "no"
    BY <2>2, InUse, Zenon DEF Counting
  <2>4. Fresh(task[t], live[g]) /\ Listened(g)
    BY <2>2, Zenon DEF Inv, Command, Good
  <2>5. stage'[task[t].conn] # "closed" /\ task[t].conn \in Conns
    <3>1. Once(g)' /\ live'[g] \in Lives
      BY Zenon DEF Inv, Good, TypeInv
    <3>2. removes' = 0
      BY <2>1, Zenon DEF Attach, FinishAttach, bounds
    <3>. QED
      BY <2>2, <3>1, <3>2, LiveTypes, Zenon DEF Once
  <2>6. ~Gone
    BY <2>1, <2>5, Zenon DEF Inv, Closing, Attach, FinishAttach
  <2>7. live[g].subscribed
    BY <2>2, <2>3, <2>4, <2>6, Zenon DEF Listened
  <2>8. task[t].rev = live[g].stateRevision
    BY <2>1, <2>2, Zenon DEF Attach
  <2>. QED
    BY <2>2, <2>4, <2>7, <2>8, Zenon DEF Fresh
<1>. QED
  BY <1>1, LiveInvariant, PTL DEF Spec, AttachIsFresh
=============================================================================
