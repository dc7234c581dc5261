-------------------------- MODULE HostStoreProofs ---------------------------
(***************************************************************************)
(* Theorems about HostStore, for any processes, ids and capacity, and any  *)
(* number of crashes and failures.                                         *)
(*                                                                         *)
(* None of the properties is inductive.  That a discard or a sweep leaves  *)
(* committed sessions alone depends on how far the call for the id has     *)
(* come and on nobody else writing to the root; that, on which phases of a *)
(* host go with the lock; and that close() lets go of the lock in time, on *)
(* the leases of the calls that may still begin while it drains.  Guarded  *)
(* says all of this of one host; a host that is down satisfies it whatever *)
(* happens to the root, so a step has to be examined for its own host only.*)
(***************************************************************************)
EXTENDS HostStore, FiniteSetTheorems, TLAPS

Phases == {"down", "starting", "serving", "closing", "draining", "stuck"}
Writing == {"open", "write", "rename"}
Removing == {"rollback", "discard", "sweep"}
Leasing == Writing \union {"read", "mkdir", "init"}

Dirs == [dir : BOOLEAN, manifest : {"none", "pending", "committed"},
         tmp : {"none", "torn", "pending", "committed"}, log : BOOLEAN]
Calls == [at : {"none"} \union Leasing \union Removing,
          status : {"none", "pending", "committed", "opened"}]
Hosts == [phase : Phases, sweep : SUBSET Ids, leases : SUBSET Ids,
          createdHere : SUBSET Ids, reserved : Int, runtimes : SUBSET Ids,
          stopping : SUBSET Ids, call : [Ids -> Calls]]

\* A manifest is in a directory.
Whole(d) == Listed(d) => d.dir

\* A call and the directory of its id: only an open works on a committed one.
Fits(c, d) ==
  /\ c.at \in Removing \union {"none"} => c.status = "none"
  /\ c.at \in Writing => c.status \in {"pending", "committed"}
  /\ c.at = "init" => c.status \in {"committed", "opened"}
  /\ c.at \in Writing \/ c.status = "committed" => d.dir /\ ~Listed(d)
  /\ c.at \in Removing => ~Listed(d)
  /\ c.status = "opened" => c.at = "init" /\ Listed(d)

Guarded(p, h, o, files) ==
  /\ h.phase # "down" => o = p
  /\ h.phase = "down" => h.runtimes = {} /\ \A i \in Ids : h.call[i] = Idle
  /\ h.phase = "starting" =>
       h.runtimes = {} /\ \A i \in Ids : h.call[i].at \in {"none", "sweep"}
  /\ h.phase \in {"draining", "stuck"} =>
       \A i \in Ids : h.call[i].at \in {"none", "read"} \/ h.call[i].status = "opened"
  /\ \A i \in Ids :
       /\ Fits(h.call[i], files[i])
       /\ h.call[i].at \in Leasing => i \in h.leases
       /\ h.call[i].at # "none" => i \notin h.runtimes
       /\ i \in h.runtimes => Listed(files[i])

TypeInv ==
  /\ disk \in [Ids -> Dirs]
  /\ owner \in Processes \union {Nobody}
  /\ host \in [Processes -> Hosts]

Inv ==
  /\ TypeInv
  /\ \A i \in Ids : Whole(disk[i])
  /\ \A p \in Processes : Guarded(p, host[p], owner, disk)
-----------------------------------------------------------------------------
(* A step changes one host: the others are down, before and after.         *)

LEMMA Frame ==
  ASSUME Inv, NEW p \in Processes, NEW h \in Hosts,
         host' = [host EXCEPT ![p] = h],
         host[p].phase # "down" \/ owner = Nobody,
         disk' \in [Ids -> Dirs], \A i \in Ids : Whole(disk'[i]),
         owner' \in Processes \union {Nobody},
         Guarded(p, h, owner', disk')
  PROVE  Inv'
<1>1. TypeInv'
  BY DEF Inv, TypeInv
<1>2. ASSUME NEW q \in Processes
      PROVE  Guarded(q, host'[q], owner', disk')
  <2>1. CASE q = p
    BY <2>1 DEF Inv, TypeInv
  <2>2. CASE q # p
    <3>1. host'[q] = host[q] /\ host[q] \in Hosts /\ Guarded(q, host[q], owner, disk)
      BY <2>2 DEF Inv, TypeInv
    <3>2. host[q].phase = "down"
      BY <2>2, <3>1, ProcessAssumption DEF Inv, TypeInv, Guarded
    <3>3. host[q].runtimes = {} /\ \A i \in Ids : host[q].call[i] = Idle
      BY <3>1, <3>2 DEF Guarded
    <3>4. \A i \in Ids : Fits(host[q].call[i], disk'[i])
      BY <3>3 DEF Fits, Idle, Writing, Removing
    <3>. QED
      BY <3>1, <3>2, <3>3, <3>4 DEF Guarded, Idle, Leasing, Writing
  <2>. QED
    BY <2>1, <2>2
<1>. QED
  BY <1>1, <1>2 DEF Inv

\* A host with a call or a runtime is up.
LEMMA Up ==
  ASSUME Inv, NEW p \in Processes, NEW id \in Ids,
         host[p].call[id].at # "none" \/ id \in host[p].runtimes
  PROVE  host[p].phase # "down"
BY DEF Inv, Guarded, Idle

\* A step that leaves the files and the lock alone.
LEMMA MemoryStep ==
  ASSUME Inv, NEW p \in Processes, NEW h \in Hosts,
         host[p].phase # "down", host' = [host EXCEPT ![p] = h],
         disk' = disk, owner' = owner, Guarded(p, h, owner, disk)
  PROVE  Inv'
BY Frame DEF Inv, TypeInv

\* A step that leaves the lock alone and changes one directory.
LEMMA DiskStep ==
  ASSUME Inv, NEW p \in Processes, NEW h \in Hosts, NEW id \in Ids, NEW d \in Dirs,
         host[p].phase # "down", host' = [host EXCEPT ![p] = h],
         disk' = [disk EXCEPT ![id] = d], owner' = owner,
         Whole(d), Guarded(p, h, owner, [disk EXCEPT ![id] = d])
  PROVE  Inv'
<1>1. disk' \in [Ids -> Dirs] /\ \A i \in Ids : Whole(disk'[i])
  BY DEF Inv, TypeInv
<1>. QED
  BY <1>1, Frame, Zenon DEF Inv, TypeInv

\* A host that gives up the root.
LEMMA LockStep ==
  ASSUME Inv, NEW p \in Processes, NEW h \in Hosts,
         host[p].phase # "down", host' = [host EXCEPT ![p] = h],
         disk' = disk, owner' = Nobody,
         h.phase = "down", h.runtimes = {}, \A i \in Ids : h.call[i] = Idle
  PROVE  Inv'
<1>1. Guarded(p, h, Nobody, disk)
  BY DEF Guarded, Fits, Idle, Writing, Removing, Leasing
<1>. QED
  BY <1>1, Frame, Zenon DEF Inv, TypeInv

-----------------------------------------------------------------------------
(* What the operators on a host return.                                    *)

LEMMA HostTypes ==
  ASSUME NEW h \in Hosts, NEW id \in Ids
  PROVE  /\ Released(h, id) \in Hosts
         /\ \A c \in Calls : [h EXCEPT !.call[id] = c] \in Hosts
         /\ Over(h, id) \in Hosts
         /\ Running(h, id) \in Hosts
<1>1. Released(h, id) \in Hosts
  BY DEF Hosts, Released
<1>2. ASSUME NEW c \in Calls
      PROVE  [h EXCEPT !.call[id] = c] \in Hosts
  BY DEF Hosts
<1>3. Idle \in Calls
  BY DEF Idle, Calls
<1>4. Over(h, id) \in Hosts
  <2>. DEFINE n == h.reserved - 1
              f == [h.call EXCEPT ![id] = Idle]
  <2>1. n \in Int /\ f \in [Ids -> Calls]
    BY <1>3 DEF Hosts
  <2>2. Over(h, id) = [h EXCEPT !.call = f, !.reserved = n]
    BY DEF Over
  <2>. HIDE DEF n, f
  <2>. QED
    BY <2>1, <2>2, Zenon DEF Hosts
<1>5. [Over(h, id) EXCEPT !.runtimes = @ \union {id}] \in Hosts
  BY <1>4 DEF Hosts
<1>. QED
  BY <1>1, <1>2, <1>4, <1>5 DEF Running

LEMMA DownType == Down \in Hosts
<1>1. Idle \in Calls
  BY DEF Idle, Calls
<1>2. [i \in Ids |-> Idle] \in [Ids -> Calls]
  BY <1>1
<1>. QED
  BY <1>2 DEF Down, Hosts, Phases

LEMMA MovedType ==
  ASSUME NEW h \in Hosts, NEW id \in Ids,
         NEW at \in {"none"} \union Leasing \union Removing,
         NEW status \in {"none", "pending", "committed", "opened"}
  PROVE  Moved(h, id, at, status) \in Hosts
<1>1. At(at, status) \in Calls
  BY DEF At, Calls
<1>. QED
  BY <1>1, HostTypes DEF Moved

LEMMA HostFields ==
  ASSUME NEW h \in Hosts, NEW id \in Ids
  PROVE  /\ Released(h, id).phase = h.phase /\ Released(h, id).runtimes = h.runtimes
         /\ Released(h, id).leases = h.leases \ {id} /\ Released(h, id).call = h.call
         /\ Over(h, id).phase = h.phase /\ Over(h, id).runtimes = h.runtimes
         /\ Over(h, id).leases = h.leases /\ Over(h, id).call = [h.call EXCEPT ![id] = Idle]
BY DEF Released, Over, Hosts

LEMMA IdleFits == Idle \in Calls /\ Idle.at = "none" /\ \A d : Fits(Idle, d)
BY DEF Idle, Calls, Fits, Writing, Removing

\* A call that moves on, with a lease where it needs one; only the directory
\* of its id may change.
LEMMA CallMoved ==
  ASSUME NEW p, NEW g \in Hosts, NEW h \in Hosts, NEW o, NEW files, NEW after,
         NEW id \in Ids, NEW c \in Calls,
         Guarded(p, g, o, files), g.phase # "down", id \notin g.runtimes,
         \A i \in Ids \ {id} : after[i] = files[i],
         h.phase = g.phase, h.runtimes = g.runtimes, g.leases \ {id} \subseteq h.leases,
         h.call = [g.call EXCEPT ![id] = c], Fits(c, after[id]),
         g.phase = "starting" => c.at \in {"none", "sweep"},
         g.phase \in {"draining", "stuck"} => c.at \in {"none", "read"} \/ c.status = "opened",
         c.at \in Leasing => id \in h.leases
  PROVE  Guarded(p, h, o, after)
<1>1. g.call \in [Ids -> Calls] /\ g.runtimes \subseteq Ids
  BY DEF Hosts
<1>2. h.call[id] = c /\ \A i \in Ids \ {id} : h.call[i] = g.call[i]
  BY <1>1
<1>3. h.phase = "starting" =>
        h.runtimes = {} /\ \A i \in Ids : h.call[i].at \in {"none", "sweep"}
  BY <1>2 DEF Guarded
<1>4. h.phase \in {"draining", "stuck"} =>
        \A i \in Ids : h.call[i].at \in {"none", "read"} \/ h.call[i].status = "opened"
  BY <1>2 DEF Guarded
<1>5. ASSUME NEW i \in Ids
      PROVE  /\ Fits(h.call[i], after[i])
             /\ h.call[i].at \in Leasing => i \in h.leases
             /\ h.call[i].at # "none" => i \notin h.runtimes
             /\ i \in h.runtimes => Listed(after[i])
  BY <1>2 DEF Guarded
<1>. QED
  BY <1>3, <1>4, <1>5 DEF Guarded

LEMMA MovedGuarded ==
  ASSUME NEW p, NEW g \in Hosts, NEW o, NEW files, NEW after, NEW id \in Ids,
         NEW at \in Leasing \union Removing,
         NEW status \in {"none", "pending", "committed", "opened"},
         Guarded(p, g, o, files), g.phase # "down", id \notin g.runtimes,
         \A i \in Ids \ {id} : after[i] = files[i], Fits(At(at, status), after[id]),
         g.phase = "starting" => at = "sweep",
         g.phase \in {"draining", "stuck"} => status = "opened",
         at \in Leasing => id \in g.leases
  PROVE  /\ Moved(g, id, at, status) \in Hosts
         /\ Guarded(p, Moved(g, id, at, status), o, after)
<1>. DEFINE h == Moved(g, id, at, status)
            c == At(at, status)
<1>1. h \in Hosts
  BY MovedType, Zenon
<1>2. c \in Calls /\ c.at = at /\ c.status = status
  BY DEF At, Calls
<1>3. /\ h.phase = g.phase /\ h.runtimes = g.runtimes /\ h.leases = g.leases
      /\ h.call = [g.call EXCEPT ![id] = c]
  BY DEF Moved, Hosts
<1>. HIDE DEF h, c
<1>4. Fits(c, after[id])
  BY DEF c
<1>5. Guarded(p, h, o, after)
  BY <1>1, <1>2, <1>3, <1>4, CallMoved
<1>. QED
  BY <1>1, <1>5 DEF h

LEMMA OverGuarded ==
  ASSUME NEW p, NEW g \in Hosts, NEW o, NEW files, NEW id \in Ids,
         Guarded(p, g, o, files), g.phase # "down", id \notin g.runtimes
  PROVE  /\ Over(g, id) \in Hosts /\ Guarded(p, Over(g, id), o, files)
         /\ Over(Released(g, id), id) \in Hosts
         /\ Guarded(p, Over(Released(g, id), id), o, files)
<1>1. ASSUME NEW k \in {g, Released(g, id)}
      PROVE  Over(k, id) \in Hosts /\ Guarded(p, Over(k, id), o, files)
  <2>. DEFINE h == Over(k, id)
  <2>1. k \in Hosts /\ h \in Hosts
    BY HostTypes
  <2>2. /\ h.phase = g.phase /\ h.runtimes = g.runtimes /\ g.leases \ {id} \subseteq h.leases
        /\ h.call = [g.call EXCEPT ![id] = Idle]
    BY <2>1, HostFields
  <2>. HIDE DEF h
  <2>3. Guarded(p, h, o, files)
    BY <2>1, <2>2, IdleFits, CallMoved, ZenonT(30) DEF Leasing, Writing
  <2>. QED
    BY <2>1, <2>3 DEF h
<1>. QED
  BY <1>1

\* A runtime joins a host that is up, for a session that is committed.
LEMMA RunningGuarded ==
  ASSUME NEW p, NEW g \in Hosts, NEW o, NEW files, NEW after, NEW id \in Ids,
         Guarded(p, g, o, files), g.phase \notin {"down", "starting"}, id \notin g.runtimes,
         \A i \in Ids \ {id} : after[i] = files[i], Listed(after[id])
  PROVE  Running(g, id) \in Hosts /\ Guarded(p, Running(g, id), o, after)
<1>. DEFINE k == Over(g, id)
            h == Running(g, id)
<1>1. k \in Hosts /\ h \in Hosts
  BY HostTypes
<1>2. Guarded(p, k, o, after)
  BY <1>1, HostFields, IdleFits, CallMoved, ZenonT(30) DEF Leasing, Writing
<1>3. /\ h.phase = k.phase /\ h.runtimes = k.runtimes \union {id} /\ h.leases = k.leases
      /\ h.call = k.call
  BY <1>1 DEF Running, Hosts
<1>4. k.phase = g.phase /\ k.call[id] = Idle /\ Idle.at = "none"
  <2>1. g.call \in [Ids -> Calls] /\ k.call = [g.call EXCEPT ![id] = Idle]
    BY HostFields DEF Hosts
  <2>. QED
    BY <2>1, HostFields, IdleFits
<1>. HIDE DEF h, k
<1>5. Guarded(p, h, o, after)
  BY <1>2, <1>3, <1>4 DEF Guarded
<1>. QED
  BY <1>1, <1>5 DEF h

\* A failed create or open gives back what it took.
LEMMA FailedGuarded ==
  ASSUME NEW p, NEW h \in Hosts, NEW o, NEW files, NEW id \in Ids, NEW built \in BOOLEAN,
         Guarded(p, h, o, files), h.phase # "down", h.call[id].at \in Writing \union {"init"}
  PROVE  Failed(h, id, built) \in Hosts /\ Guarded(p, Failed(h, id, built), o, files)
<1>. DEFINE g == IF built THEN Released(h, id) ELSE h
<1>1. g \in Hosts
  BY HostTypes
<1>2. /\ g.phase = h.phase /\ g.runtimes = h.runtimes /\ g.call = h.call
      /\ g.leases \in {h.leases, h.leases \ {id}}
  BY HostFields, Zenon
<1>3. h.phase # "starting" /\ id \notin h.runtimes
  BY DEF Guarded, Writing
<1>4. CASE h.call[id].status = "committed" /\ id \in h.createdHere
  <2>. DEFINE c == At("discard", "none")
              k == [Over(g, id) EXCEPT !.call[id] = c]
  <2>1. c \in Calls /\ c.at = "discard"
    BY DEF At, Calls, Removing
  <2>2. k \in Hosts
    BY <1>1, <2>1, HostTypes
  <2>3. /\ k.phase = g.phase /\ k.runtimes = g.runtimes /\ k.leases = g.leases
        /\ k.call = [g.call EXCEPT ![id] = c]
    BY <1>1 DEF Over, Hosts
  <2>4. Fits(c, files[id]) /\ h.phase \notin {"draining", "stuck"}
    BY <1>4 DEF Guarded, Fits, At, Writing, Removing
  <2>. HIDE DEF c, k, g
  <2>5. Guarded(p, k, o, files)
    BY <1>2, <1>3, <2>1, <2>2, <2>3, <2>4, CallMoved DEF Leasing, Writing
  <2>. QED
    BY <1>4, <2>2, <2>5 DEF Failed, k, c, g
<1>5. CASE ~(h.call[id].status = "committed" /\ id \in h.createdHere)
  <2>1. Released(g, id) = Released(h, id)
    BY Zenon DEF Released, Hosts
  <2>. QED
    BY <1>3, <1>5, <2>1, OverGuarded DEF Failed
<1>. QED
  BY <1>4, <1>5

\* Clients are claimed for while the host is up, and never for a runtime's id.
LEMMA ClaimedGuarded ==
  ASSUME NEW p, NEW h \in Hosts, NEW o, NEW files, NEW id \in Ids,
         NEW at \in {"mkdir", "read"},
         Guarded(p, h, o, files), h.phase \notin {"down", "starting"}, Free(h, id),
         at = "mkdir" => h.phase = "serving"
  PROVE  Claimed(h, id, at) \in Hosts /\ Guarded(p, Claimed(h, id, at), o, files)
<1>1. CASE id \in h.leases
  BY <1>1 DEF Claimed
<1>2. CASE id \notin h.leases
  <2>. DEFINE n == h.reserved + 1
              l == h.leases \union {id}
              f == [h.call EXCEPT ![id] = At(at, "pending")]
              k == [h EXCEPT !.reserved = n, !.leases = l, !.call = f]
  <2>1. Claimed(h, id, at) = k
    BY <1>2 DEF Claimed
  <2>2. n \in Int /\ l \in SUBSET Ids
    BY DEF Hosts
  <2>3. At(at, "pending") \in Calls
    BY DEF At, Calls, Leasing
  <2>4. f \in [Ids -> Calls]
    BY <2>3 DEF Hosts
  <2>5. k \in Hosts
    <3>. HIDE DEF n, l, f
    <3>. QED
      BY <2>2, <2>4, Zenon DEF Hosts
  <2>6. /\ k.phase = h.phase /\ k.runtimes = h.runtimes
        /\ k.leases = l /\ k.call = f
    BY DEF Hosts
  <2>7. Guarded(p, k, o, files)
    <3>. HIDE DEF k
    <3>. QED
      BY <2>6 DEF Free, At, Guarded, Fits, Hosts, Calls, Idle, Writing, Removing, Leasing
  <2>. QED
    BY <2>1, <2>5, <2>7
<1>. QED
  BY <1>1, <1>2

-----------------------------------------------------------------------------
(* The invariant holds at first and every step of every host keeps it.     *)

LEMMA InvInit == Init => Inv
<1>. SUFFICES ASSUME Init PROVE Inv
  OBVIOUS
<1>1. TypeInv
  BY DownType DEF Init, TypeInv, Absent, Dirs
<1>2. \A i \in Ids : Whole(disk[i])
  BY DEF Init, Whole, Listed, Absent
<1>3. ASSUME NEW p \in Processes
      PROVE  Guarded(p, host[p], owner, disk)
  BY DEF Init, Down, Guarded, Fits, Idle, Writing, Removing, Leasing
<1>. QED
  BY <1>1, <1>2, <1>3 DEF Inv

LEMMA HostStep ==
  ASSUME Inv, NEW p \in Processes,
         \/ Acquire(p) \/ Serve(p) \/ StartFails(p)
         \/ CloseHost(p) \/ CloseServer(p) \/ FinishClose(p) \/ Crash(p)
  PROVE  Inv'
<1>. DEFINE g == host[p]
<1>1. /\ g \in Hosts /\ Guarded(p, g, owner, disk)
      /\ disk \in [Ids -> Dirs] /\ \A i \in Ids : Whole(disk[i])
  BY DEF Inv, TypeInv
<1>2. CASE Acquire(p)
  <2>. DEFINE h == [Down EXCEPT !.phase = "starting", !.sweep = {i \in Ids : disk[i].dir}]
  <2>1. h \in Hosts
    BY DownType, Zenon DEF Hosts, Phases
  <2>2. Guarded(p, h, p, disk)
    BY DEF Down, Guarded, Fits, Idle, Writing, Removing, Leasing
  <2>. QED
    BY <1>1, <1>2, <2>1, <2>2, Frame, Zenon DEF Acquire, Set
<1>3. ASSUME NEW ph \in {"serving", "closing"}, g.phase \in {"starting", "serving"},
             host' = [host EXCEPT ![p] = [g EXCEPT !.phase = ph]],
             disk' = disk, owner' = owner
      PROVE  Inv'
  <2>. DEFINE h == [g EXCEPT !.phase = ph]
  <2>1. h \in Hosts /\ Guarded(p, h, owner, disk)
    BY <1>1, <1>3 DEF Guarded, Hosts, Phases
  <2>. QED
    BY <1>3, <2>1, MemoryStep, Zenon
<1>4. CASE Serve(p)
  BY <1>3, <1>4 DEF Serve, Set
<1>5. CASE CloseHost(p)
  BY <1>3, <1>5 DEF CloseHost, Set
<1>6. CASE StartFails(p)
  BY <1>6, DownType, LockStep, Zenon DEF StartFails, Refused, Set, Down
<1>7. CASE CloseServer(p)
  <2>. DEFINE h == [g EXCEPT !.phase = "draining", !.stopping = g.runtimes]
  <2>1. h \in Hosts
    BY <1>1, Zenon DEF Hosts, Phases
  <2>2. Guarded(p, h, owner, disk)
    BY <1>1, <1>7 DEF CloseServer, Is, Guarded, Hosts
  <2>. QED
    BY <1>7, <2>1, <2>2, MemoryStep, Zenon DEF CloseServer, Set
<1>8. CASE FinishClose(p)
  <2>1. CASE g.reserved = 0 /\ g.runtimes = {} /\ g.leases = {}
    <3>. DEFINE h == [g EXCEPT !.phase = "down", !.createdHere = {}]
    <3>1. h \in Hosts /\ h.phase = "down" /\ h.runtimes = {}
      BY <1>1, <2>1, Zenon DEF Hosts, Phases
    <3>2. ASSUME NEW i \in Ids PROVE g.call[i] = Idle
      BY <1>1, <1>8, <2>1 DEF FinishClose, Guarded, Fits, Hosts, Calls, Idle, Leasing
    <3>3. \A i \in Ids : h.call[i] = Idle
      BY <1>1, <3>2 DEF Hosts
    <3>. QED
      BY <1>8, <2>1, <3>1, <3>3, LockStep, Zenon DEF FinishClose, Set
  <2>2. CASE ~(g.reserved = 0 /\ g.runtimes = {} /\ g.leases = {})
    <3>. DEFINE h == [g EXCEPT !.phase = "stuck"]
    <3>1. h \in Hosts /\ Guarded(p, h, owner, disk)
      BY <1>1, <1>8 DEF FinishClose, Guarded, Hosts, Phases
    <3>. QED
      BY <1>8, <2>2, <3>1, MemoryStep DEF FinishClose, Set
  <2>. QED
    BY <2>1, <2>2
<1>9. CASE Crash(p)
  BY <1>1, <1>9, DownType, LockStep, Zenon DEF Crash, Set, Guarded, Down
<1>. QED
  BY <1>2, <1>4, <1>5, <1>6, <1>7, <1>8, <1>9

\* Calls that only change the memory of their host.
LEMMA CallStep ==
  ASSUME Inv, NEW p \in Processes, NEW id \in Ids,
         \/ SweepDir(p, id) \/ CreateSession(p, id) \/ OpenSession(p, id)
         \/ InitDone(p, id) \/ \E built \in BOOLEAN : InitFails(p, id, built)
         \/ ReadManifest(p, id) \/ Dispose(p, id)
  PROVE  Inv'
<1>. DEFINE g == host[p]
<1>1. /\ g \in Hosts /\ Guarded(p, g, owner, disk)
      /\ disk \in [Ids -> Dirs] /\ \A i \in Ids : Whole(disk[i])
  BY DEF Inv, TypeInv
<1>2. CASE SweepDir(p, id)
  <2>1. g.phase = "starting" /\ \A i \in Ids : g.call[i].at = "none"
    BY <1>2 DEF SweepDir, Is
  <2>2. CASE Removable(disk[id])
    <3>. DEFINE h == Moved(g, id, "sweep", "none")
    <3>1. Fits(At("sweep", "none"), disk[id])
      BY <2>2 DEF Removable, Listed, At, Fits, Writing, Removing
    <3>2. h \in Hosts /\ Guarded(p, h, owner, disk)
      <4>1. id \notin g.runtimes
        BY <1>1, <2>1 DEF Guarded
      <4>. QED
        BY <1>1, <2>1, <3>1, <4>1, MovedGuarded, ZenonT(30) DEF Removing, Leasing, Writing
    <3>. QED
      BY <1>2, <2>1, <2>2, <3>2, MemoryStep DEF SweepDir, Set
  <2>3. CASE ~Removable(disk[id]) /\ Listed(disk[id])
    <3>. DEFINE h == [g EXCEPT !.sweep = @ \ {id}]
    <3>1. h \in Hosts /\ Guarded(p, h, owner, disk)
      BY <1>1 DEF Guarded, Hosts
    <3>. QED
      BY <1>2, <2>1, <2>3, <3>1, MemoryStep, Zenon DEF SweepDir, Set
  <2>4. CASE ~Removable(disk[id]) /\ ~Listed(disk[id])
    BY <1>2, <2>1, <2>4, DownType, LockStep, Zenon DEF SweepDir, Refused, Set, Down
  <2>. QED
    BY <2>2, <2>3, <2>4
<1>3. CASE CreateSession(p, id)
  <2>1. g.phase = "serving" /\ Free(g, id)
    BY <1>3 DEF CreateSession
  <2>2. Claimed(g, id, "mkdir") \in Hosts /\ Guarded(p, Claimed(g, id, "mkdir"), owner, disk)
    BY <1>1, <2>1, ClaimedGuarded
  <2>. QED
    BY <1>3, <2>1, <2>2, MemoryStep, Zenon DEF CreateSession, Set
<1>4. CASE OpenSession(p, id)
  <2>1. g.phase \notin {"down", "starting"} /\ Free(g, id)
    BY <1>4 DEF OpenSession
  <2>2. Claimed(g, id, "read") \in Hosts /\ Guarded(p, Claimed(g, id, "read"), owner, disk)
    BY <1>1, <2>1, ClaimedGuarded
  <2>. QED
    BY <1>4, <2>1, <2>2, MemoryStep, Zenon DEF OpenSession, Set
<1>5. CASE InitDone(p, id)
  <2>1. /\ g.call[id].at = "init" /\ g.phase \notin {"down", "starting"}
        /\ id \in g.leases /\ id \notin g.runtimes /\ Fits(g.call[id], disk[id])
    BY <1>1, <1>5, Up DEF InitDone, Is, Guarded, Leasing
  <2>2. CASE g.call[id].status = "committed"
    <3>. DEFINE h == Moved(g, id, "open", "committed")
    <3>1. Fits(At("open", "committed"), disk[id]) /\ g.phase \notin {"draining", "stuck"}
      BY <1>1, <2>1, <2>2 DEF At, Guarded, Fits, Writing, Removing
    <3>2. h \in Hosts /\ Guarded(p, h, owner, disk)
      BY <1>1, <2>1, <3>1, MovedGuarded DEF Leasing, Writing
    <3>. QED
      BY <1>5, <2>1, <2>2, <3>2, MemoryStep, Zenon DEF InitDone, Set
  <2>3. CASE g.call[id].status # "committed"
    <3>. DEFINE h == Running(g, id)
    <3>1. Listed(disk[id])
      BY <2>1, <2>3 DEF Fits
    <3>2. h \in Hosts /\ Guarded(p, h, owner, disk)
      BY <1>1, <2>1, <3>1, RunningGuarded
    <3>. QED
      BY <1>5, <2>1, <2>3, <3>2, MemoryStep, Zenon DEF InitDone, Set
  <2>. QED
    BY <2>2, <2>3
<1>6. ASSUME NEW built \in BOOLEAN, InitFails(p, id, built)
      PROVE  Inv'
  <2>1. g.call[id].at = "init" /\ g.phase # "down"
    BY <1>6, Up DEF InitFails, Is
  <2>2. Failed(g, id, built) \in Hosts /\ Guarded(p, Failed(g, id, built), owner, disk)
    BY <1>1, <2>1, FailedGuarded
  <2>. QED
    BY <1>6, <2>1, <2>2, MemoryStep, Zenon DEF InitFails, Set
<1>7. CASE ReadManifest(p, id)
  <2>1. /\ g.call[id].at = "read" /\ g.phase \notin {"down", "starting"}
        /\ id \in g.leases /\ id \notin g.runtimes
    BY <1>1, <1>7, Up DEF ReadManifest, Is, Guarded, Leasing
  <2>2. CASE Openable(disk[id])
    <3>. DEFINE h == Moved(g, id, "init", "opened")
    <3>1. Fits(At("init", "opened"), disk[id])
      BY <2>2 DEF Openable, Listed, At, Fits, Writing, Removing
    <3>2. h \in Hosts /\ Guarded(p, h, owner, disk)
      BY <1>1, <2>1, <3>1, MovedGuarded DEF Leasing
    <3>. QED
      BY <1>7, <2>1, <2>2, <3>2, MemoryStep, Zenon DEF ReadManifest, Set
  <2>3. CASE ~Openable(disk[id])
    <3>. DEFINE h == Over(Released(g, id), id)
    <3>1. h \in Hosts /\ Guarded(p, h, owner, disk)
      BY <1>1, <2>1, OverGuarded
    <3>. QED
      BY <1>7, <2>1, <2>3, <3>1, MemoryStep, Zenon DEF ReadManifest, Set
  <2>. QED
    BY <2>2, <2>3
<1>8. CASE Dispose(p, id)
  <2>. DEFINE h == [Released(g, id) EXCEPT !.runtimes = @ \ {id}, !.stopping = @ \ {id}]
  <2>1. id \in g.runtimes /\ g.phase # "down"
    BY <1>8, Up DEF Dispose
  <2>2. h \in Hosts
    BY <1>1, Zenon DEF Released, Hosts
  <2>3. /\ h.phase = g.phase /\ h.runtimes = g.runtimes \ {id}
        /\ h.leases = g.leases \ {id} /\ h.call = g.call
    BY <1>1 DEF Released, Hosts
  <2>4. g.call[id].at \notin Leasing
    BY <1>1, <2>1 DEF Guarded, Leasing, Writing
  <2>5. Guarded(p, h, owner, disk)
    <3>. HIDE DEF h
    <3>. QED
      BY <1>1, <2>1, <2>3, <2>4 DEF Guarded
  <2>. QED
    BY <1>8, <2>1, <2>2, <2>5, MemoryStep, Zenon DEF Dispose, Set
<1>. QED
  BY <1>2, <1>3, <1>4, <1>5, <1>6, <1>7, <1>8

\* A directory that stays where it is with its manifest is as good as before.
LEMMA SameManifest ==
  ASSUME NEW p, NEW h, NEW o, NEW files \in [Ids -> Dirs], NEW id \in Ids, NEW d \in Dirs,
         Guarded(p, h, o, files), d.manifest = files[id].manifest, d.dir = files[id].dir
  PROVE  Guarded(p, h, o, [files EXCEPT ![id] = d])
BY DEF Guarded, Fits, Listed

LEMMA UnlinkedType ==
  ASSUME NEW d \in Dirs, ~Listed(d), NEW e \in Unlinked(d)
  PROVE  e \in Dirs /\ ~Listed(e)
<1>. DEFINE m == [d EXCEPT !.manifest = "none"]
            t == [d EXCEPT !.tmp = "none"]
            l == [d EXCEPT !.log = FALSE]
<1>1. m \in Dirs /\ t \in Dirs /\ l \in Dirs /\ Absent \in Dirs
  BY Zenon DEF Dirs, Absent
<1>2. m.manifest = "none" /\ t.manifest = d.manifest /\ l.manifest = d.manifest
  BY DEF Dirs
<1>3. e \in {m, t, l, Absent}
  BY DEF Unlinked
<1>4. Absent.manifest = "none"
  BY DEF Absent
<1>. HIDE DEF m, t, l
<1>. QED
  BY <1>1, <1>2, <1>3, <1>4 DEF Listed

\* Calls that change the directory of their id.
LEMMA FileStep ==
  ASSUME Inv, NEW p \in Processes, NEW id \in Ids,
         \/ Mkdir(p, id) \/ OpenTemporary(p, id) \/ WriteTemporary(p, id) \/ Rename(p, id)
         \/ WriteFails(p, id) \/ Purge(p, id) \/ PurgeFails(p, id) \/ Answer(p, id)
  PROVE  Inv'
<1>. DEFINE g == host[p]
            st == g.call[id].status
<1>1. /\ g \in Hosts /\ Guarded(p, g, owner, disk)
      /\ disk \in [Ids -> Dirs] /\ \A i \in Ids : Whole(disk[i])
  BY DEF Inv, TypeInv
<1>2. ASSUME g.call[id].at # "none"
      PROVE  /\ g.phase # "down" /\ id \notin g.runtimes /\ Fits(g.call[id], disk[id])
             /\ g.call[id].at \in Leasing => id \in g.leases
             /\ g.phase = "starting" => g.call[id].at = "sweep"
             /\ g.phase \in {"draining", "stuck"} => g.call[id].at = "read" \/ st = "opened"
  BY <1>1, <1>2, Up DEF Guarded
<1>3. ASSUME g.call[id].at \in Writing
      PROVE  /\ st \in {"pending", "committed"} /\ disk[id].dir /\ ~Listed(disk[id])
             /\ g.phase \notin {"down", "starting", "draining", "stuck"}
             /\ id \in g.leases /\ id \notin g.runtimes
  BY <1>2, <1>3 DEF Fits, Writing, Leasing
<1>4. \A d : /\ [disk EXCEPT ![id] = d][id] = d
             /\ \A i \in Ids \ {id} : [disk EXCEPT ![id] = d][i] = disk[i]
  BY <1>1
<1>5. CASE Mkdir(p, id)
  <2>1. g.call[id].at = "mkdir"
    BY <1>5 DEF Mkdir, Is
  <2>2. CASE disk[id].dir
    <3>. DEFINE h == Over(Released(g, id), id)
    <3>1. h \in Hosts /\ Guarded(p, h, owner, disk)
      BY <1>1, <1>2, <2>1, OverGuarded
    <3>. QED
      BY <1>2, <1>5, <2>1, <2>2, <3>1, MemoryStep DEF Mkdir, Set
  <2>3. CASE ~disk[id].dir
    <3>. DEFINE h == Moved(g, id, "open", "pending")
                f == [disk EXCEPT ![id] = Empty]
    <3>1. Empty \in Dirs /\ Whole(Empty) /\ Fits(At("open", "pending"), Empty)
      BY Zenon DEF Empty, Absent, Dirs, Whole, Listed, Fits, At, Writing, Removing
    <3>2. f[id] = Empty /\ \A i \in Ids \ {id} : f[i] = disk[i]
      BY <1>4
    <3>3. /\ g.phase \notin {"down", "starting", "draining", "stuck"}
          /\ id \in g.leases /\ id \notin g.runtimes
      BY <1>2, <2>1 DEF Fits, Leasing
    <3>. HIDE DEF f
    <3>4. h \in Hosts /\ Guarded(p, h, owner, f)
      BY <1>1, <3>1, <3>2, <3>3, MovedGuarded, Zenon DEF Leasing, Writing
    <3>. QED
      BY <1>5, <2>3, <3>1, <3>3, <3>4, DiskStep, Zenon DEF Mkdir, Set, OnDisk, f
  <2>. QED
    BY <2>2, <2>3
<1>6. ASSUME NEW t \in {"none", "torn", "pending", "committed"},
             NEW h \in Hosts, Guarded(p, h, owner, disk), g.phase # "down",
             host' = [host EXCEPT ![p] = h], owner' = owner,
             disk' = [disk EXCEPT ![id] = [disk[id] EXCEPT !.tmp = t]]
      PROVE  Inv'
  <2>. DEFINE d == [disk[id] EXCEPT !.tmp = t]
  <2>1. /\ d \in Dirs /\ Whole(d)
        /\ d.manifest = disk[id].manifest /\ d.dir = disk[id].dir
    BY <1>1 DEF Dirs, Whole, Listed
  <2>2. Guarded(p, h, owner, [disk EXCEPT ![id] = d])
    <3>. HIDE DEF d
    <3>. QED
      BY <1>1, <1>6, <2>1, SameManifest, Zenon
  <2>. QED
    BY <1>6, <2>1, <2>2, DiskStep, Zenon
<1>7. CASE OpenTemporary(p, id) \/ WriteTemporary(p, id)
  <2>1. g.call[id].at \in Writing
    BY <1>7 DEF OpenTemporary, WriteTemporary, Is, Writing
  <2>2. ASSUME NEW at \in {"write", "rename"}
        PROVE  Moved(g, id, at, st) \in Hosts /\ Guarded(p, Moved(g, id, at, st), owner, disk)
    <3>1. Fits(At(at, st), disk[id])
      BY <1>3, <2>1 DEF Fits, At, Writing, Removing
    <3>. QED
      BY <1>1, <1>3, <2>1, <3>1, MovedGuarded DEF Leasing, Writing
  <2>3. CASE OpenTemporary(p, id)
    BY <1>3, <1>6, <2>1, <2>2, <2>3, ZenonT(30) DEF OpenTemporary, Set, OnDisk
  <2>4. CASE WriteTemporary(p, id)
    BY <1>3, <1>6, <2>1, <2>2, <2>4, ZenonT(30) DEF WriteTemporary, Set, OnDisk
  <2>. QED
    BY <1>7, <2>3, <2>4
<1>8. CASE Rename(p, id)
  <2>. DEFINE d == [disk[id] EXCEPT !.manifest = st, !.tmp = "none"]
              f == [disk EXCEPT ![id] = d]
  <2>1. g.call[id].at \in Writing
    BY <1>8 DEF Rename, Is, Writing
  <2>2. d \in Dirs /\ d.manifest = st /\ d.dir
    BY <1>1, <1>3, <2>1, Zenon DEF Dirs
  <2>3. f[id] = d /\ (\A i \in Ids \ {id} : f[i] = disk[i]) /\ Whole(d)
    BY <1>4, <2>2, Zenon DEF Whole
  <2>4. ASSUME NEW k \in Hosts, Guarded(p, k, owner, f), NEW made \in SUBSET Ids,
               host' = [host EXCEPT ![p] = [k EXCEPT !.createdHere = made]]
        PROVE  Inv'
    <3>. DEFINE h == [k EXCEPT !.createdHere = made]
    <3>1. /\ h \in Hosts /\ h.phase = k.phase /\ h.runtimes = k.runtimes
          /\ h.leases = k.leases /\ h.call = k.call
      BY <2>4 DEF Hosts
    <3>. HIDE DEF h, f
    <3>2. Guarded(p, h, owner, f)
      BY <2>4, <3>1 DEF Guarded
    <3>3. host' = [host EXCEPT ![p] = h] /\ disk' = f /\ owner' = owner
      BY <1>8, <2>4 DEF Rename, OnDisk, h, f
    <3>. QED
      BY <1>3, <2>1, <2>2, <2>3, <3>1, <3>2, <3>3, DiskStep, Zenon DEF f
  <2>5. CASE st = "pending"
    <3>. DEFINE k == Moved(g, id, "init", "committed")
    <3>1. Fits(At("init", "committed"), d)
      BY <2>2, <2>5 DEF Fits, At, Listed, Writing, Removing
    <3>. HIDE DEF f, d
    <3>2. k \in Hosts /\ Guarded(p, k, owner, f)
      BY <1>1, <1>3, <2>1, <2>3, <3>1, MovedGuarded DEF Leasing
    <3>3. k.createdHere \union {id} \in SUBSET Ids
      BY <3>2 DEF Hosts
    <3>. QED
      BY <1>8, <2>4, <2>5, <3>2, <3>3, Zenon DEF Rename, Renamed, Set
  <2>6. CASE st = "committed"
    <3>. DEFINE k == Running(g, id)
    <3>1. Listed(d)
      BY <2>2, <2>6 DEF Listed
    <3>. HIDE DEF f, d
    <3>2. k \in Hosts /\ Guarded(p, k, owner, f)
      BY <1>1, <1>3, <2>1, <2>3, <3>1, RunningGuarded
    <3>3. k.createdHere \ {id} \in SUBSET Ids
      BY <3>2 DEF Hosts
    <3>. QED
      BY <1>8, <2>4, <2>6, <3>2, <3>3, Zenon DEF Rename, Renamed, Set
  <2>. QED
    BY <1>3, <2>1, <2>5, <2>6
<1>9. CASE WriteFails(p, id)
  <2>1. g.call[id].at \in Writing
    BY <1>9 DEF WriteFails, Is, Writing
  <2>2. CASE st = "pending"
    <3>. DEFINE c == At("rollback", "none")
                h == Moved(Released(g, id), id, "rollback", "none")
    <3>1. c \in Calls /\ c.at = "rollback" /\ Fits(c, disk[id])
      BY <1>3, <2>1 DEF At, Calls, Fits, Writing, Removing
    <3>2. h \in Hosts
      BY <1>1, HostTypes, MovedType DEF Removing
    <3>3. /\ h.phase = g.phase /\ h.runtimes = g.runtimes /\ h.leases = g.leases \ {id}
          /\ h.call = [g.call EXCEPT ![id] = c]
      BY <1>1 DEF Moved, Released, Hosts
    <3>. HIDE DEF h, c
    <3>4. Guarded(p, h, owner, disk)
      BY <1>1, <1>3, <2>1, <3>1, <3>2, <3>3, CallMoved DEF Leasing, Writing
    <3>. QED
      BY <1>3, <1>6, <1>9, <2>1, <2>2, <3>2, <3>4, Zenon DEF WriteFails, Set, OnDisk, h
  <2>3. CASE st # "pending"
    <3>1. Failed(g, id, TRUE) \in Hosts /\ Guarded(p, Failed(g, id, TRUE), owner, disk)
      BY <1>1, <1>3, <2>1, FailedGuarded, Zenon
    <3>. QED
      BY <1>3, <1>6, <1>9, <2>1, <2>3, <3>1, Zenon DEF WriteFails, Set, OnDisk
  <2>. QED
    BY <2>2, <2>3
<1>10. ASSUME NEW h \in Hosts, h.phase = g.phase, h.runtimes = g.runtimes,
              h.leases \in {g.leases, g.leases \ {id}},
              h.call = [g.call EXCEPT ![id] = Idle],
              g.call[id].at \in Removing, NEW d, NEW f, f = [disk EXCEPT ![id] = d]
       PROVE  Guarded(p, h, owner, f)
  <2>1. g.phase # "down" /\ id \notin g.runtimes
    BY <1>2, <1>10 DEF Removing
  <2>2. \A i \in Ids \ {id} : f[i] = disk[i]
    BY <1>4, <1>10
  <2>. QED
    BY <1>1, <1>10, <2>1, <2>2, IdleFits, CallMoved, ZenonT(30) DEF Leasing, Writing
<1>11. CASE Purge(p, id)
  <2>1. g.call[id].at \in Removing
    BY <1>11 DEF Purge, Purging, Is, Removing
  <2>2. PICK d \in Unlinked(disk[id]) :
          /\ disk' = [disk EXCEPT ![id] = d] /\ owner' = owner
          /\ host' = [host EXCEPT ![p] = IF d = Absent THEN Purged(g, id) ELSE g]
    BY <1>11, Zenon DEF Purge, OnDisk, Set
  <2>. DEFINE f == [disk EXCEPT ![id] = d]
  <2>3. /\ disk[id] \in Dirs /\ ~Listed(disk[id]) /\ g.phase # "down"
        /\ id \notin g.runtimes /\ st = "none"
    BY <1>1, <1>2, <2>1 DEF Fits, Removing
  <2>4. d \in Dirs /\ ~Listed(d) /\ Whole(d)
    BY <2>3, UnlinkedType DEF Whole
  <2>5. CASE d = Absent
    <3>1. Purged(g, id) \in Hosts
      <4>1. [Released(g, id) EXCEPT !.createdHere = @ \ {id}, !.call[id] = Idle] \in Hosts
        BY <1>1, IdleFits, Zenon DEF Released, Hosts
      <4>2. [g EXCEPT !.sweep = @ \ {id}, !.call[id] = Idle] \in Hosts
        BY <1>1, IdleFits, Zenon DEF Hosts
      <4>. QED
        BY <1>1, <4>1, <4>2, HostTypes DEF Purged
    <3>2. /\ Purged(g, id).phase = g.phase /\ Purged(g, id).runtimes = g.runtimes
          /\ Purged(g, id).leases \in {g.leases, g.leases \ {id}}
          /\ Purged(g, id).call = [g.call EXCEPT ![id] = Idle]
      BY <1>1 DEF Purged, Over, Released, Hosts
    <3>3. Guarded(p, Purged(g, id), owner, f)
      BY <1>10, <2>1, <3>1, <3>2
    <3>. QED
      BY <2>2, <2>3, <2>4, <2>5, <3>1, <3>3, DiskStep, Zenon
  <2>6. CASE d # Absent
    <3>1. f[id] = d /\ \A i \in Ids \ {id} : f[i] = disk[i]
      BY <1>4
    <3>2. Fits(g.call[id], d)
      BY <1>2, <2>1, <2>3, <2>4 DEF Fits, Removing, Writing
    <3>3. Guarded(p, g, owner, f)
      <4>. HIDE DEF f
      <4>. QED
        BY <1>1, <2>3, <3>1, <3>2 DEF Guarded
    <3>. QED
      BY <1>1, <2>2, <2>3, <2>4, <2>6, <3>3, DiskStep, Zenon
  <2>. QED
    BY <2>5, <2>6
<1>12. CASE PurgeFails(p, id)
  <2>1. g.call[id].at \in Removing
    BY <1>12 DEF PurgeFails, Purging, Is, Removing
  <2>2. g.phase # "down" /\ id \notin g.runtimes /\ disk = [disk EXCEPT ![id] = disk[id]]
    BY <1>1, <1>2, <2>1 DEF Removing
  <2>3. CASE g.call[id].at = "sweep"
    BY <1>12, <2>2, <2>3, DownType, LockStep, Zenon DEF PurgeFails, Is, Refused, Set, Down
  <2>4. CASE g.call[id].at = "rollback"
    <3>1. Over(g, id) \in Hosts /\ Guarded(p, Over(g, id), owner, disk)
      BY <1>1, <2>2, OverGuarded
    <3>. QED
      BY <1>12, <2>2, <2>4, <3>1, MemoryStep DEF PurgeFails, Is, Set
  <2>5. CASE g.call[id].at = "discard"
    <3>. DEFINE h == [Released(g, id) EXCEPT !.call[id] = Idle]
    <3>1. h \in Hosts
      BY <1>1, IdleFits, HostTypes
    <3>2. /\ h.phase = g.phase /\ h.runtimes = g.runtimes /\ h.leases = g.leases \ {id}
          /\ h.call = [g.call EXCEPT ![id] = Idle]
      BY <1>1 DEF Released, Hosts
    <3>. HIDE DEF h
    <3>3. Guarded(p, h, owner, disk)
      BY <1>10, <2>1, <2>2, <3>1, <3>2
    <3>. QED
      BY <1>12, <2>2, <2>5, <3>1, <3>3, MemoryStep DEF PurgeFails, Is, Set, h
  <2>. QED
    BY <2>1, <2>3, <2>4, <2>5 DEF Removing
<1>13. CASE Answer(p, id)
  <2>. DEFINE d == [disk[id] EXCEPT !.log = TRUE]
  <2>1. g.phase # "down" /\ host' = [host EXCEPT ![p] = g]
    BY <1>13, Up DEF Answer, Inv, TypeInv
  <2>2. /\ d \in Dirs /\ Whole(d)
        /\ d.manifest = disk[id].manifest /\ d.dir = disk[id].dir
    BY <1>1, Zenon DEF Dirs, Whole, Listed
  <2>3. Guarded(p, g, owner, [disk EXCEPT ![id] = d])
    <3>. HIDE DEF d
    <3>. QED
      BY <1>1, <2>2, SameManifest, Zenon
  <2>. QED
    BY <1>1, <1>13, <2>1, <2>2, <2>3, DiskStep, Zenon DEF Answer, OnDisk
<1>. QED
  BY <1>5, <1>7, <1>8, <1>9, <1>11, <1>12, <1>13

LEMMA InvHolds == Spec => []Inv
<1>1. Inv /\ [Next]_vars => Inv'
  <2>. SUFFICES ASSUME Inv, [Next]_vars PROVE Inv'
    OBVIOUS
  <2>1. CASE Next
    BY <2>1, HostStep, CallStep, FileStep DEF Next
  <2>2. CASE UNCHANGED vars
    BY <2>2 DEF vars, Inv, TypeInv
  <2>. QED
    BY <2>1, <2>2
<1>. QED
  BY <1>1, InvInit, PTL DEF Spec
-----------------------------------------------------------------------------
(* The properties.                                                         *)

\* close() and every failure path of coding-agent-server.ts: a host with a
\* call in flight or a runtime that may write holds the lock of the root.
THEOREM WorksUnderLockHolds == Spec => []WorksUnderLock
<1>1. Inv => WorksUnderLock
  BY DEF Inv, Guarded, WorksUnderLock, Working
<1>. QED
  BY <1>1, InvHolds, PTL

\* commitCreate, discardFailedCreate and sweepPendingCreates: a step changes
\* the directory of a committed session only by leaving its manifest there.
LEMMA StepKeepsCommitted ==
  ASSUME Inv, NEW p \in Processes, NEW id \in Ids, NEW i \in Ids, Listed(disk[i]),
         \/ Mkdir(p, id) \/ OpenTemporary(p, id) \/ WriteTemporary(p, id) \/ Rename(p, id)
         \/ WriteFails(p, id) \/ Purge(p, id) \/ Answer(p, id)
  PROVE  Listed(disk'[i])
<1>. DEFINE c == host[p].call[id]
<1>1. /\ disk \in [Ids -> Dirs] /\ disk[i] \in Dirs /\ Whole(disk[i])
      /\ Fits(c, disk[id])
  BY DEF Inv, TypeInv, Guarded
<1>2. ASSUME NEW d, disk' = [disk EXCEPT ![id] = d], d.manifest = disk[id].manifest
      PROVE  Listed(disk'[i])
  BY <1>1, <1>2 DEF Listed
<1>3. CASE Mkdir(p, id)
  BY <1>1, <1>3 DEF Mkdir, OnDisk, Whole
<1>4. ASSUME NEW t, disk' = [disk EXCEPT ![id] = [disk[id] EXCEPT !.tmp = t]]
      PROVE  Listed(disk'[i])
  BY <1>1, <1>2, <1>4, Zenon DEF Dirs
<1>5. CASE OpenTemporary(p, id) \/ WriteTemporary(p, id) \/ WriteFails(p, id)
  BY <1>4, <1>5, ZenonT(30) DEF OpenTemporary, WriteTemporary, WriteFails, OnDisk
<1>6. CASE Rename(p, id)
  <2>1. ~Listed(disk[id])
    BY <1>1, <1>6 DEF Rename, Is, Fits, Writing
  <2>. QED
    BY <1>1, <1>6, <2>1 DEF Rename, OnDisk
<1>7. CASE Purge(p, id)
  <2>1. ~Listed(disk[id])
    BY <1>1, <1>7 DEF Purge, Purging, Is, Fits, Removing
  <2>. QED
    BY <1>1, <1>7, <2>1 DEF Purge, OnDisk
<1>8. CASE Answer(p, id)
  BY <1>1, <1>2, <1>8, Zenon DEF Answer, OnDisk, Dirs
<1>. QED
  BY <1>3, <1>5, <1>6, <1>7, <1>8

\* No crash, sweep, rollback or discard removes a committed session.
THEOREM CommittedForeverHolds == Spec => CommittedForever
<1>1. Inv /\ [Next]_vars => [\A i \in Ids : Listed(disk[i]) => Listed(disk'[i])]_vars
  <2>. SUFFICES ASSUME Inv, [Next]_vars, NEW i \in Ids, Listed(disk[i])
                PROVE  Listed(disk'[i])
    BY DEF vars
  <2>1. CASE disk' = disk
    BY <2>1
  <2>2. ASSUME disk' # disk
        PROVE  Listed(disk'[i])
    <3>1. Next
      BY <2>2 DEF vars
    <3>2. \A p \in Processes :
            /\ ~Acquire(p) /\ ~Serve(p) /\ ~StartFails(p)
            /\ ~CloseHost(p) /\ ~CloseServer(p) /\ ~FinishClose(p) /\ ~Crash(p)
      BY <2>2 DEF Acquire, Serve, StartFails, CloseHost, CloseServer, FinishClose, Crash
    <3>3. \A p \in Processes, id \in Ids :
            /\ ~SweepDir(p, id) /\ ~CreateSession(p, id) /\ ~OpenSession(p, id)
            /\ ~InitDone(p, id) /\ \A built \in BOOLEAN : ~InitFails(p, id, built)
            /\ ~PurgeFails(p, id) /\ ~ReadManifest(p, id) /\ ~Dispose(p, id)
      BY <2>2 DEF SweepDir, CreateSession, OpenSession, InitDone, InitFails, PurgeFails,
                  ReadManifest, Dispose
    <3>4. PICK p \in Processes, id \in Ids :
            \/ Mkdir(p, id) \/ OpenTemporary(p, id) \/ WriteTemporary(p, id) \/ Rename(p, id)
            \/ WriteFails(p, id) \/ Purge(p, id) \/ Answer(p, id)
      BY <3>1, <3>2, <3>3 DEF Next
    <3>. QED
      BY <3>4, StepKeepsCommitted
  <2>. QED
    BY <2>1, <2>2
<1>. QED
  BY <1>1, InvHolds, PTL DEF Spec, CommittedForever

\* A runtime serves clients only from a session committed on disk, so a client
\* never holds a session that the next start would sweep away (commitCreate is
\* the last step of createSession).
THEOREM RuntimesAreCommitted ==
  Spec => [](\A p \in Processes : \A i \in host[p].runtimes : Listed(disk[i]))
<1>1. Inv => \A p \in Processes : \A i \in host[p].runtimes : Listed(disk[i])
  BY DEF Inv, TypeInv, Hosts, Guarded
<1>. QED
  BY <1>1, InvHolds, PTL

-----------------------------------------------------------------------------
(***************************************************************************)
(* NothingLeaks.  The property speaks of a host at rest; what makes it     *)
(* true is an account kept at every step: the reservations are as many as  *)
(* the calls that have come as far as to hold a slot, and a lease is that  *)
(* of a runtime or of a call that has yet to give it back.                 *)
(***************************************************************************)

Slotted == Leasing \union {"rollback"}
SlotsOf(call) == {i \in Ids : call[i].at \in Slotted}

Accounted(h) ==
  /\ h.runtimes \subseteq h.leases
  /\ \A i \in h.leases :
       i \in h.runtimes \/ h.call[i].at \in Leasing \union {"discard"}
  /\ h.phase = "starting" => h.leases = {}
  /\ h.reserved = Cardinality(SlotsOf(h.call))
  /\ Cardinality(h.runtimes) + h.reserved <= MaxActiveRuntimes

Accounts == \A p \in Processes : Accounted(host[p])
-----------------------------------------------------------------------------
(* Counting.                                                               *)

LEMMA Countable ==
  ASSUME NEW S \in SUBSET Ids
  PROVE  IsFiniteSet(S) /\ Cardinality(S) \in Nat
BY IdsAssumption, FS_Subset, FS_CardinalityType

LEMMA SlotsMove ==
  ASSUME NEW f \in [Ids -> Calls], NEW id \in Ids, NEW c \in Calls
  PROVE  LET S == SlotsOf(f)
             T == SlotsOf([f EXCEPT ![id] = c])
         IN /\ (f[id].at \in Slotted <=> c.at \in Slotted) => Cardinality(T) = Cardinality(S)
            /\ f[id].at \in Slotted /\ c.at \notin Slotted
                 => Cardinality(T) = Cardinality(S) - 1
            /\ f[id].at \notin Slotted /\ c.at \in Slotted
                 => Cardinality(T) = Cardinality(S) + 1
<1>. DEFINE S == SlotsOf(f)
            T == SlotsOf([f EXCEPT ![id] = c])
<1>1. S \in SUBSET Ids /\ IsFiniteSet(S) /\ Cardinality(S) \in Nat
  BY Countable DEF SlotsOf
<1>2. CASE f[id].at \in Slotted <=> c.at \in Slotted
  <2>1. T = S
    BY <1>2 DEF SlotsOf
  <2>. QED
    BY <1>2, <2>1
<1>3. CASE f[id].at \in Slotted /\ c.at \notin Slotted
  <2>1. T = S \ {id} /\ id \in S
    BY <1>3 DEF SlotsOf
  <2>. HIDE DEF S, T
  <2>2. Cardinality(T) = Cardinality(S) - 1
    BY <1>1, <2>1, FS_RemoveElement
  <2>. QED
    BY <1>3, <2>2 DEF S, T
<1>4. CASE f[id].at \notin Slotted /\ c.at \in Slotted
  <2>1. T = S \union {id} /\ id \notin S
    BY <1>4 DEF SlotsOf
  <2>. HIDE DEF S, T
  <2>2. Cardinality(T) = Cardinality(S) + 1
    BY <1>1, <2>1, FS_AddElement, Zenon
  <2>. QED
    BY <1>4, <2>2 DEF S, T
<1>. QED
  BY <1>2, <1>3, <1>4

LEMMA IdleSlots ==
  ASSUME NEW call, \A i \in Ids : call[i] = Idle
  PROVE  Cardinality(SlotsOf(call)) = 0
<1>1. SlotsOf(call) = {}
  BY DEF SlotsOf, Idle, Slotted, Leasing, Writing
<1>. QED
  BY <1>1, FS_EmptySet
-----------------------------------------------------------------------------
(* What keeps the account of one host.                                     *)

LEMMA DownAccounted ==
  ASSUME NEW h, h.runtimes = {}, h.leases = {}, h.reserved = 0,
         \A i \in Ids : h.call[i] = Idle
  PROVE  Accounted(h)
<1>1. Cardinality(SlotsOf(h.call)) = 0
  BY IdleSlots
<1>2. Cardinality(h.runtimes) = 0
  BY FS_EmptySet
<1>. QED
  BY <1>1, <1>2, ActiveAssumption DEF Accounted

LEMMA SameAccount ==
  ASSUME NEW g, NEW h, Accounted(g), h.runtimes = g.runtimes, h.leases = g.leases,
         h.reserved = g.reserved, h.call = g.call, h.phase # "starting"
  PROVE  Accounted(h)
BY DEF Accounted

\* A call that goes on, ends or fails, and keeps or gives back its slot.
LEMMA CallAccounted ==
  ASSUME NEW g \in Hosts, NEW h \in Hosts, NEW id \in Ids, NEW c \in Calls,
         Accounted(g), id \notin g.runtimes, h.phase = g.phase, h.runtimes = g.runtimes,
         h.call = [g.call EXCEPT ![id] = c],
         h.leases \in {g.leases, g.leases \ {id}},
         id \in h.leases => c.at \in Leasing \union {"discard"},
         \/ (g.call[id].at \in Slotted <=> c.at \in Slotted) /\ h.reserved = g.reserved
         \/ /\ g.call[id].at \in Slotted /\ c.at \notin Slotted
            /\ h.reserved = g.reserved - 1
  PROVE  Accounted(h)
<1>1. g.call \in [Ids -> Calls] /\ g.runtimes \in SUBSET Ids /\ g.leases \in SUBSET Ids
  BY DEF Hosts
<1>2. Cardinality(g.runtimes) \in Nat /\ g.reserved \in Int
  BY <1>1, Countable DEF Hosts
<1>3. h.reserved = Cardinality(SlotsOf(h.call))
  BY <1>1, SlotsMove DEF Accounted
<1>4. Cardinality(h.runtimes) + h.reserved <= MaxActiveRuntimes
  BY <1>2, ActiveAssumption DEF Accounted
<1>5. h.runtimes \subseteq h.leases /\ (h.phase = "starting" => h.leases = {})
  BY DEF Accounted
<1>6. \A i \in h.leases : i \in h.runtimes \/ h.call[i].at \in Leasing \union {"discard"}
  BY <1>1 DEF Accounted
<1>. QED
  BY <1>3, <1>4, <1>5, <1>6 DEF Accounted

\* A runtime takes the place of its reservation.
LEMMA RunningAccounted ==
  ASSUME NEW g \in Hosts, NEW h \in Hosts, NEW id \in Ids,
         Accounted(g), id \notin g.runtimes, id \in g.leases, g.call[id].at \in Slotted,
         h.phase = g.phase, h.runtimes = g.runtimes \union {id}, h.leases = g.leases,
         h.call = [g.call EXCEPT ![id] = Idle], h.reserved = g.reserved - 1
  PROVE  Accounted(h)
<1>1. g.call \in [Ids -> Calls] /\ g.runtimes \in SUBSET Ids /\ g.leases \in SUBSET Ids
  BY DEF Hosts
<1>2. IsFiniteSet(g.runtimes) /\ Cardinality(g.runtimes) \in Nat /\ g.reserved \in Int
  BY <1>1, Countable DEF Hosts
<1>3. Cardinality(h.runtimes) = Cardinality(g.runtimes) + 1
  BY <1>2, FS_AddElement, ZenonT(30)
<1>4. Idle \in Calls /\ Idle.at \notin Slotted
  BY DEF Idle, Calls, Slotted, Leasing, Writing
<1>5. h.reserved = Cardinality(SlotsOf(h.call))
  BY <1>1, <1>4, SlotsMove DEF Accounted
<1>6. Cardinality(h.runtimes) + h.reserved <= MaxActiveRuntimes
  BY <1>2, <1>3, ActiveAssumption DEF Accounted
<1>. QED
  BY <1>1, <1>5, <1>6 DEF Accounted

\* A slot is reserved only while one is free.
LEMMA ClaimedAccounted ==
  ASSUME NEW g \in Hosts, NEW id \in Ids, NEW at \in {"mkdir", "read"},
         Accounted(g), Free(g, id), Admitted(g), g.phase # "starting",
         Claimed(g, id, at) \in Hosts
  PROVE  Accounted(Claimed(g, id, at))
<1>1. CASE id \in g.leases
  BY <1>1 DEF Claimed
<1>2. CASE id \notin g.leases
  <2>. DEFINE h == Claimed(g, id, at)
              c == At(at, "pending")
  <2>1. /\ h.phase = g.phase /\ h.runtimes = g.runtimes
        /\ h.leases = g.leases \union {id} /\ h.reserved = g.reserved + 1
        /\ h.call = [g.call EXCEPT ![id] = c]
    BY <1>2 DEF Claimed, Hosts
  <2>2. g.call \in [Ids -> Calls] /\ g.runtimes \in SUBSET Ids /\ g.leases \in SUBSET Ids
    BY DEF Hosts
  <2>3. Cardinality(g.runtimes) \in Nat /\ g.reserved \in Int
    BY <2>2, Countable DEF Hosts
  <2>4. c \in Calls /\ c.at \in Slotted /\ c.at \in Leasing
    BY DEF At, Calls, Slotted, Leasing
  <2>5. g.call[id].at \notin Slotted
    BY DEF Free, Idle, Slotted, Leasing, Writing
  <2>. HIDE DEF h, c
  <2>6. h.reserved = Cardinality(SlotsOf(h.call))
    BY <2>1, <2>2, <2>4, <2>5, SlotsMove DEF Accounted
  <2>7. Cardinality(h.runtimes) + h.reserved <= MaxActiveRuntimes
    BY <2>1, <2>3, ActiveAssumption DEF Admitted
  <2>8. \A i \in h.leases : i \in h.runtimes \/ h.call[i].at \in Leasing \union {"discard"}
    BY <2>1, <2>2, <2>4 DEF Accounted
  <2>9. h.runtimes \subseteq h.leases /\ (h.phase = "starting" => h.leases = {})
    BY <2>1 DEF Accounted
  <2>10. Accounted(h)
    BY <2>6, <2>7, <2>8, <2>9 DEF Accounted
  <2>. QED
    BY <2>10 DEF h
<1>. QED
  BY <1>1, <1>2
-----------------------------------------------------------------------------
(* Every step keeps every account.                                         *)

LEMMA OneHost ==
  ASSUME Inv, Accounts, NEW p \in Processes, NEW h, host' = [host EXCEPT ![p] = h],
         Accounted(h)
  PROVE  Accounts'
<1>1. ASSUME NEW q \in Processes PROVE Accounted(host'[q])
  BY DEF Accounts, Inv, TypeInv
<1>. QED
  BY <1>1 DEF Accounts

LEMMA AccountsInit == Init => Accounts
<1>. SUFFICES ASSUME Init, NEW p \in Processes PROVE Accounted(host[p])
  BY DEF Accounts
<1>. QED
  BY DownAccounted DEF Init, Down

LEMMA HostAccounts ==
  ASSUME Inv, Accounts, NEW p \in Processes,
         \/ Acquire(p) \/ Serve(p) \/ StartFails(p)
         \/ CloseHost(p) \/ CloseServer(p) \/ FinishClose(p) \/ Crash(p)
  PROVE  Accounts'
<1>. DEFINE g == host[p]
<1>1. g \in Hosts /\ Accounted(g)
  BY DEF Inv, TypeInv, Accounts
<1>2. CASE Acquire(p)
  <2>. DEFINE h == [Down EXCEPT !.phase = "starting", !.sweep = {i \in Ids : disk[i].dir}]
  <2>1. Accounted(h)
    BY DownAccounted, Zenon DEF Down
  <2>. QED
    BY <1>2, <2>1, OneHost, Zenon DEF Acquire, Set
<1>3. Accounted(Down)
  BY DownAccounted DEF Down
<1>4. CASE StartFails(p) \/ Crash(p)
  BY <1>3, <1>4, OneHost DEF StartFails, Refused, Crash, Set
<1>5. ASSUME NEW ph, ph # "starting", host' = [host EXCEPT ![p] = [g EXCEPT !.phase = ph]]
      PROVE  Accounts'
  <2>1. Accounted([g EXCEPT !.phase = ph])
    BY <1>1, <1>5, SameAccount DEF Hosts
  <2>. QED
    BY <1>5, <2>1, OneHost, Zenon
<1>6. CASE Serve(p) \/ CloseHost(p)
  BY <1>5, <1>6 DEF Serve, CloseHost, Set
<1>7. CASE CloseServer(p)
  <2>1. Accounted([g EXCEPT !.phase = "draining", !.stopping = g.runtimes])
    BY <1>1, SameAccount, ZenonT(30) DEF Hosts
  <2>. QED
    BY <1>7, <2>1, OneHost, Zenon DEF CloseServer, Set
<1>8. CASE FinishClose(p)
  <2>1. Accounted([g EXCEPT !.phase = "down", !.createdHere = {}])
    BY <1>1, SameAccount, Zenon DEF Hosts
  <2>. QED
    BY <1>5, <1>8, <2>1, OneHost DEF FinishClose, Set
<1>. QED
  BY <1>2, <1>4, <1>6, <1>7, <1>8

\* The ends a call can come to, and its way there.
LEMMA MovedAccounted ==
  ASSUME NEW g \in Hosts, NEW id \in Ids, Accounted(g), id \notin g.runtimes,
         NEW at \in Leasing, NEW status \in {"none", "pending", "committed", "opened"},
         g.call[id].at \in Slotted
  PROVE  Accounted(Moved(g, id, at, status))
<1>. DEFINE h == Moved(g, id, at, status)
            c == At(at, status)
<1>1. h \in Hosts
  BY MovedType, Zenon
<1>2. c \in Calls /\ c.at = at /\ c.at \in Slotted
  BY DEF At, Calls, Slotted
<1>3. /\ h.phase = g.phase /\ h.runtimes = g.runtimes /\ h.leases = g.leases
      /\ h.reserved = g.reserved /\ h.call = [g.call EXCEPT ![id] = c]
  BY DEF Moved, Hosts
<1>. HIDE DEF h, c
<1>4. Accounted(h)
  BY <1>1, <1>2, <1>3, CallAccounted
<1>. QED
  BY <1>4 DEF h

LEMMA OverAccounted ==
  ASSUME NEW g \in Hosts, NEW id \in Ids, Accounted(g), id \notin g.runtimes,
         g.call[id].at \in Slotted
  PROVE  /\ Accounted(Over(Released(g, id), id))
         /\ id \notin g.leases => Accounted(Over(g, id))
<1>1. Idle \in Calls /\ Idle.at \notin Slotted
  BY DEF Idle, Calls, Slotted, Leasing, Writing
<1>2. ASSUME NEW k \in {g, Released(g, id)}, id \notin k.leases
      PROVE  Accounted(Over(k, id))
  <2>. DEFINE h == Over(k, id)
  <2>1. k \in Hosts /\ h \in Hosts
    BY HostTypes
  <2>2. /\ k.phase = g.phase /\ k.runtimes = g.runtimes /\ k.call = g.call
        /\ k.leases \in {g.leases, g.leases \ {id}} /\ k.reserved = g.reserved
    BY DEF Released, Hosts
  <2>3. /\ h.phase = k.phase /\ h.runtimes = k.runtimes /\ h.leases = k.leases
        /\ h.reserved = k.reserved - 1 /\ h.call = [k.call EXCEPT ![id] = Idle]
    BY <2>1 DEF Over, Hosts
  <2>. HIDE DEF h
  <2>4. Accounted(h)
    BY <1>1, <1>2, <2>1, <2>2, <2>3, CallAccounted
  <2>. QED
    BY <2>4 DEF h
<1>3. id \notin Released(g, id).leases
  BY DEF Released, Hosts
<1>. QED
  BY <1>2, <1>3

LEMMA FailedAccounted ==
  ASSUME NEW g \in Hosts, NEW id \in Ids, NEW built \in BOOLEAN, Accounted(g),
         id \notin g.runtimes, g.call[id].at \in Slotted
  PROVE  Accounted(Failed(g, id, built))
<1>. DEFINE k == IF built THEN Released(g, id) ELSE g
<1>1. k \in Hosts
  BY HostTypes
<1>2. /\ k.phase = g.phase /\ k.runtimes = g.runtimes /\ k.call = g.call
      /\ k.leases \in {g.leases, g.leases \ {id}} /\ k.reserved = g.reserved
  BY DEF Released, Hosts
<1>3. CASE g.call[id].status = "committed" /\ id \in g.createdHere
  <2>. DEFINE c == At("discard", "none")
              h == [Over(k, id) EXCEPT !.call[id] = c]
  <2>1. c \in Calls /\ c.at = "discard" /\ c.at \notin Slotted
    BY DEF At, Calls, Removing, Slotted, Leasing, Writing
  <2>2. h \in Hosts
    BY <1>1, <2>1, HostTypes
  <2>3. /\ h.phase = k.phase /\ h.runtimes = k.runtimes /\ h.leases = k.leases
        /\ h.reserved = k.reserved - 1 /\ h.call = [k.call EXCEPT ![id] = c]
    BY <1>1 DEF Over, Hosts
  <2>. HIDE DEF c, h, k
  <2>4. Accounted(h)
    BY <1>2, <2>1, <2>2, <2>3, CallAccounted
  <2>. QED
    BY <1>3, <2>4 DEF Failed, h, c, k
<1>4. CASE ~(g.call[id].status = "committed" /\ id \in g.createdHere)
  <2>1. Released(k, id) = Released(g, id)
    BY DEF Released, Hosts
  <2>. QED
    BY <1>4, <2>1, OverAccounted DEF Failed
<1>. QED
  BY <1>3, <1>4

LEMMA CallAccounts ==
  ASSUME Inv, Accounts, NEW p \in Processes, NEW id \in Ids,
         \/ SweepDir(p, id) \/ CreateSession(p, id) \/ OpenSession(p, id)
         \/ Mkdir(p, id) \/ OpenTemporary(p, id) \/ WriteTemporary(p, id) \/ Rename(p, id)
         \/ InitDone(p, id) \/ \E built \in BOOLEAN : InitFails(p, id, built)
         \/ WriteFails(p, id) \/ ReadManifest(p, id)
  PROVE  Accounts'
<1>. DEFINE g == host[p]
            st == g.call[id].status
<1>1. g \in Hosts /\ Accounted(g) /\ Guarded(p, g, owner, disk)
  BY DEF Inv, TypeInv, Accounts
<1>2. ASSUME g.call[id].at \in Leasing
      PROVE  /\ id \notin g.runtimes /\ id \in g.leases /\ g.call[id].at \in Slotted
             /\ st \in {"none", "pending", "committed", "opened"}
  BY <1>1, <1>2 DEF Guarded, Hosts, Calls, Slotted, Leasing, Writing
<1>3. CASE SweepDir(p, id)
  <2>1. g.phase = "starting" /\ g.call[id].at = "none"
    BY <1>3 DEF SweepDir, Is
  <2>. DEFINE h == Moved(g, id, "sweep", "none")
              c == At("sweep", "none")
  <2>2. Accounted(h)
    <3>1. h \in Hosts
      BY <1>1, MovedType DEF Removing
    <3>2. c \in Calls /\ c.at \notin Slotted /\ g.call[id].at \notin Slotted
      BY <2>1 DEF At, Calls, Removing, Slotted, Leasing, Writing
    <3>3. /\ h.phase = g.phase /\ h.runtimes = g.runtimes /\ h.leases = g.leases
          /\ h.reserved = g.reserved /\ h.call = [g.call EXCEPT ![id] = c]
      BY <1>1 DEF Moved, Hosts
    <3>4. g.runtimes = {} /\ g.leases = {}
      BY <1>1, <2>1 DEF Guarded, Accounted
    <3>. HIDE DEF h, c
    <3>. QED
      BY <1>1, <3>1, <3>2, <3>3, <3>4, CallAccounted, ZenonT(30)
  <2>3. Accounted([g EXCEPT !.sweep = @ \ {id}])
    BY <1>1 DEF Hosts, Accounted
  <2>4. Accounted(Down)
    BY DownAccounted DEF Down
  <2>. QED
    BY <1>3, <2>2, <2>3, <2>4, OneHost DEF SweepDir, Refused, Set
<1>4. CASE CreateSession(p, id)
  <2>1. g.phase = "serving" /\ Free(g, id) /\ Admitted(g)
    BY <1>4 DEF CreateSession
  <2>2. Claimed(g, id, "mkdir") \in Hosts
    BY <1>1, <2>1, ClaimedGuarded
  <2>3. Accounted(Claimed(g, id, "mkdir"))
    BY <1>1, <2>1, <2>2, ClaimedAccounted
  <2>. QED
    BY <1>4, <2>3, OneHost, Zenon DEF CreateSession, Set
<1>5. CASE OpenSession(p, id)
  <2>1. g.phase \notin {"down", "starting"} /\ Free(g, id) /\ Admitted(g)
    BY <1>5 DEF OpenSession
  <2>2. Claimed(g, id, "read") \in Hosts
    BY <1>1, <2>1, ClaimedGuarded
  <2>3. Accounted(Claimed(g, id, "read"))
    BY <1>1, <2>1, <2>2, ClaimedAccounted
  <2>. QED
    BY <1>5, <2>3, OneHost, Zenon DEF OpenSession, Set
<1>6. ASSUME g.call[id].at \in Leasing, NEW at \in Leasing,
             NEW s \in {"none", "pending", "committed", "opened"},
             host' = [host EXCEPT ![p] = Moved(g, id, at, s)]
      PROVE  Accounts'
  BY <1>1, <1>2, <1>6, MovedAccounted, OneHost, Zenon
<1>7. ASSUME g.call[id].at \in Leasing, host' = [host EXCEPT ![p] = Over(Released(g, id), id)]
      PROVE  Accounts'
  BY <1>1, <1>2, <1>7, OverAccounted, OneHost, Zenon
<1>8. CASE Mkdir(p, id)
  <2>1. g.call[id].at \in Leasing
    BY <1>8 DEF Mkdir, Is, Leasing
  <2>. QED
    BY <1>6, <1>7, <1>8, <2>1 DEF Mkdir, Set, Leasing, Writing
<1>9. CASE OpenTemporary(p, id) \/ WriteTemporary(p, id)
  <2>1. g.call[id].at \in Leasing
    BY <1>9 DEF OpenTemporary, WriteTemporary, Is, Leasing, Writing
  <2>2. {"write", "rename"} \subseteq Leasing
    BY DEF Leasing, Writing
  <2>. QED
    BY <1>2, <1>6, <1>9, <2>1, <2>2 DEF OpenTemporary, WriteTemporary, Set
<1>10. ASSUME g.call[id].at \in Leasing,
              NEW made \in SUBSET Ids, NEW h \in Hosts, h = [Running(g, id) EXCEPT !.createdHere = made],
              host' = [host EXCEPT ![p] = h]
       PROVE  Accounts'
  <2>1. /\ h.phase = g.phase /\ h.runtimes = g.runtimes \union {id} /\ h.leases = g.leases
        /\ h.call = [g.call EXCEPT ![id] = Idle] /\ h.reserved = g.reserved - 1
    BY <1>1, <1>10 DEF Running, Over, Hosts
  <2>2. Accounted(h)
    BY <1>1, <1>2, <1>10, <2>1, RunningAccounted, ZenonT(30)
  <2>. QED
    BY <1>10, <2>2, OneHost, Zenon
<1>11. CASE Rename(p, id)
  <2>1. g.call[id].at \in Leasing
    BY <1>11 DEF Rename, Is, Leasing, Writing
  <2>2. CASE st = "pending"
    <3>. DEFINE k == Moved(g, id, "init", "committed")
                h == [k EXCEPT !.createdHere = @ \union {id}]
    <3>1. k \in Hosts /\ Accounted(k)
      BY <1>1, <1>2, <2>1, MovedType, MovedAccounted DEF Leasing
    <3>2. Accounted(h)
      <4>. HIDE DEF k
      <4>. QED
        BY <3>1 DEF Hosts, Accounted
    <3>. QED
      BY <1>11, <2>2, <3>2, OneHost, Zenon DEF Rename, Renamed, Set
  <2>3. CASE st # "pending"
    <3>. DEFINE k == Running(g, id)
                h == [k EXCEPT !.createdHere = @ \ {id}]
    <3>1. k \in Hosts
      BY <1>1, HostTypes
    <3>2. k.createdHere \ {id} \in SUBSET Ids /\ h \in Hosts
      <4>. HIDE DEF k
      <4>. QED
        BY <3>1 DEF Hosts
    <3>. QED
      BY <1>10, <1>11, <2>1, <2>3, <3>2, Zenon DEF Rename, Renamed, Set
  <2>. QED
    BY <2>2, <2>3
<1>12. CASE InitDone(p, id)
  <2>1. g.call[id].at \in Leasing
    BY <1>12 DEF InitDone, Is, Leasing
  <2>2. CASE st = "committed"
    BY <1>6, <1>12, <2>1, <2>2 DEF InitDone, Set, Leasing, Writing
  <2>3. CASE st # "committed"
    <3>. DEFINE h == Running(g, id)
    <3>1. h \in Hosts
      BY <1>1, HostTypes
    <3>2. /\ h.phase = g.phase /\ h.runtimes = g.runtimes \union {id} /\ h.leases = g.leases
          /\ h.call = [g.call EXCEPT ![id] = Idle] /\ h.reserved = g.reserved - 1
      BY <1>1 DEF Running, Over, Hosts
    <3>3. Accounted(h)
      BY <1>1, <1>2, <2>1, <3>1, <3>2, RunningAccounted
    <3>. QED
      BY <1>12, <2>3, <3>3, OneHost, Zenon DEF InitDone, Set
  <2>. QED
    BY <2>2, <2>3
<1>13. ASSUME NEW built \in BOOLEAN, InitFails(p, id, built)
       PROVE  Accounts'
  <2>1. g.call[id].at \in Leasing
    BY <1>13 DEF InitFails, Is, Leasing
  <2>. QED
    BY <1>1, <1>2, <1>13, <2>1, FailedAccounted, OneHost, ZenonT(30) DEF InitFails, Set
<1>14. CASE WriteFails(p, id)
  <2>1. g.call[id].at \in Leasing
    BY <1>14 DEF WriteFails, Is, Leasing, Writing
  <2>2. CASE st = "pending"
    <3>. DEFINE k == Released(g, id)
                h == Moved(k, id, "rollback", "none")
                c == At("rollback", "none")
    <3>1. k \in Hosts
      BY <1>1, HostTypes
    <3>2. h \in Hosts
      BY <3>1, MovedType DEF Removing
    <3>3. c \in Calls /\ c.at \in Slotted
      BY DEF At, Calls, Removing, Slotted
    <3>4. /\ h.phase = g.phase /\ h.runtimes = g.runtimes /\ h.leases = g.leases \ {id}
          /\ h.reserved = g.reserved /\ h.call = [g.call EXCEPT ![id] = c]
      BY <1>1 DEF Moved, Released, Hosts
    <3>. HIDE DEF h, c
    <3>5. Accounted(h)
      BY <1>1, <1>2, <2>1, <3>2, <3>3, <3>4, CallAccounted
    <3>. QED
      BY <1>14, <2>2, <3>5, OneHost, Zenon DEF WriteFails, Set, h
  <2>3. CASE st # "pending"
    BY <1>1, <1>2, <1>14, <2>1, <2>3, FailedAccounted, OneHost, ZenonT(30) DEF WriteFails, Set
  <2>. QED
    BY <2>2, <2>3
<1>15. CASE ReadManifest(p, id)
  <2>1. g.call[id].at \in Leasing
    BY <1>15 DEF ReadManifest, Is, Leasing
  <2>. QED
    BY <1>6, <1>7, <1>15, <2>1, ZenonT(30) DEF ReadManifest, Set, Leasing
<1>. QED
  BY <1>3, <1>4, <1>5, <1>8, <1>9, <1>11, <1>12, <1>13, <1>14, <1>15

\* Removals, which end a call, and what happens to a runtime.
LEMMA EndAccounts ==
  ASSUME Inv, Accounts, NEW p \in Processes, NEW id \in Ids,
         Purge(p, id) \/ PurgeFails(p, id) \/ Answer(p, id) \/ Dispose(p, id)
  PROVE  Accounts'
<1>. DEFINE g == host[p]
<1>1. g \in Hosts /\ Accounted(g) /\ Guarded(p, g, owner, disk)
  BY DEF Inv, TypeInv, Accounts
<1>2. Idle \in Calls /\ Idle.at = "none" /\ Idle.at \notin Slotted
  BY DEF Idle, Calls, Slotted, Leasing, Writing
<1>3. ASSUME g.call[id].at \in Removing
      PROVE  id \notin g.runtimes /\ (g.call[id].at # "discard" => id \notin g.leases)
  BY <1>1, <1>3 DEF Guarded, Accounted, Removing, Leasing, Writing
<1>4. ASSUME g.call[id].at = "rollback"
      PROVE  Accounted(Over(g, id))
  BY <1>1, <1>3, <1>4, OverAccounted DEF Removing, Slotted
<1>5. ASSUME g.call[id].at \in {"discard", "sweep"}, NEW h \in Hosts,
             h.phase = g.phase, h.runtimes = g.runtimes, h.reserved = g.reserved,
             h.leases \in {g.leases, g.leases \ {id}}, id \notin h.leases,
             h.call = [g.call EXCEPT ![id] = Idle]
      PROVE  Accounted(h)
  <2>1. g.call[id].at \notin Slotted /\ id \notin g.runtimes
    BY <1>3, <1>5 DEF Removing, Slotted, Leasing, Writing
  <2>. QED
    BY <1>1, <1>2, <1>5, <2>1, CallAccounted
<1>6. ASSUME g.call[id].at = "discard", NEW made \in SUBSET Ids
      PROVE  Accounted([Released(g, id) EXCEPT !.createdHere = made, !.call[id] = Idle])
  <2>. DEFINE h == [Released(g, id) EXCEPT !.createdHere = made, !.call[id] = Idle]
  <2>1. h \in Hosts
    BY <1>1, <1>2, Zenon DEF Released, Hosts
  <2>2. /\ h.phase = g.phase /\ h.runtimes = g.runtimes /\ h.reserved = g.reserved
        /\ h.leases = g.leases \ {id} /\ h.call = [g.call EXCEPT ![id] = Idle]
    BY <1>1 DEF Released, Hosts
  <2>. HIDE DEF h
  <2>3. Accounted(h)
    BY <1>5, <1>6, <2>1, <2>2
  <2>. QED
    BY <2>3 DEF h
<1>7. ASSUME g.call[id].at = "sweep"
      PROVE  Accounted([g EXCEPT !.sweep = @ \ {id}, !.call[id] = Idle])
  <2>. DEFINE h == [g EXCEPT !.sweep = @ \ {id}, !.call[id] = Idle]
  <2>1. h \in Hosts
    BY <1>1, <1>2, Zenon DEF Hosts
  <2>2. /\ h.phase = g.phase /\ h.runtimes = g.runtimes /\ h.reserved = g.reserved
        /\ h.leases = g.leases /\ h.call = [g.call EXCEPT ![id] = Idle]
    BY <1>1 DEF Hosts
  <2>3. id \notin g.leases
    BY <1>3, <1>7 DEF Removing
  <2>. HIDE DEF h
  <2>4. Accounted(h)
    BY <1>5, <1>7, <2>1, <2>2, <2>3
  <2>. QED
    BY <2>4 DEF h
<1>8. CASE Purge(p, id)
  <2>1. g.call[id].at \in Removing
    BY <1>8 DEF Purge, Purging, Is, Removing
  <2>2. PICK d : host' = [host EXCEPT ![p] = IF d = Absent THEN Purged(g, id) ELSE g]
    BY <1>8, Zenon DEF Purge, Set
  <2>3. Accounted(Purged(g, id))
    <3>1. CASE g.call[id].at = "rollback"
      BY <1>4, <3>1 DEF Purged
    <3>2. CASE g.call[id].at = "discard"
      <4>1. Released(g, id).createdHere \ {id} \in SUBSET Ids
        BY <1>1 DEF Released, Hosts
      <4>. QED
        BY <1>6, <3>2, <4>1, Zenon DEF Purged
    <3>3. CASE g.call[id].at = "sweep"
      BY <1>7, <3>3 DEF Purged
    <3>. QED
      BY <2>1, <3>1, <3>2, <3>3 DEF Removing
  <2>. QED
    BY <1>1, <2>2, <2>3, OneHost, Zenon
<1>9. CASE PurgeFails(p, id)
  <2>1. g.call[id].at \in Removing
    BY <1>9 DEF PurgeFails, Purging, Is, Removing
  <2>2. CASE g.call[id].at = "sweep"
    <3>1. Accounted(Down)
      BY DownAccounted DEF Down
    <3>. QED
      BY <1>9, <2>2, <3>1, OneHost DEF PurgeFails, Is, Refused, Set
  <2>3. CASE g.call[id].at = "rollback"
    BY <1>4, <1>9, <2>3, OneHost DEF PurgeFails, Is, Set
  <2>4. CASE g.call[id].at = "discard"
    <3>. DEFINE h == [Released(g, id) EXCEPT !.call[id] = Idle]
    <3>1. h \in Hosts
      BY <1>1, <1>2, HostTypes
    <3>2. /\ h.phase = g.phase /\ h.runtimes = g.runtimes /\ h.reserved = g.reserved
          /\ h.leases = g.leases \ {id} /\ h.call = [g.call EXCEPT ![id] = Idle]
      BY <1>1 DEF Released, Hosts
    <3>. HIDE DEF h
    <3>3. Accounted(h)
      BY <1>5, <2>4, <3>1, <3>2
    <3>. QED
      BY <1>9, <2>4, <3>3, OneHost DEF PurgeFails, Is, Set, h
  <2>. QED
    BY <2>1, <2>2, <2>3, <2>4 DEF Removing
<1>10. CASE Answer(p, id)
  BY <1>10 DEF Answer, Accounts
<1>11. CASE Dispose(p, id)
  <2>. DEFINE h == [Released(g, id) EXCEPT !.runtimes = @ \ {id}, !.stopping = @ \ {id}]
  <2>1. /\ h.phase = g.phase /\ h.runtimes = g.runtimes \ {id} /\ h.reserved = g.reserved
        /\ h.leases = g.leases \ {id} /\ h.call = g.call
    BY <1>1 DEF Released, Hosts
  <2>2. g.runtimes \in SUBSET Ids /\ id \in g.runtimes /\ g.reserved \in Int
    BY <1>1, <1>11 DEF Dispose, Hosts
  <2>3. IsFiniteSet(g.runtimes) /\ Cardinality(g.runtimes) \in Nat
    BY <2>2, Countable
  <2>. HIDE DEF h
  <2>4. Cardinality(h.runtimes) = Cardinality(g.runtimes) - 1
    <3>1. Cardinality(g.runtimes \ {id}) = Cardinality(g.runtimes) - 1
      BY <2>2, <2>3, FS_RemoveElement
    <3>. QED
      BY <2>1, <3>1
  <2>5. Cardinality(h.runtimes) + h.reserved <= MaxActiveRuntimes
    BY <1>1, <2>1, <2>2, <2>3, <2>4, ActiveAssumption DEF Accounted
  <2>6. Accounted(h)
    BY <1>1, <2>1, <2>5 DEF Accounted
  <2>. QED
    BY <1>11, <2>6, OneHost DEF Dispose, Set, h
<1>. QED
  BY <1>8, <1>9, <1>10, <1>11

LEMMA AccountsHold == Spec => []Accounts
<1>1. Inv /\ Accounts /\ [Next]_vars => Accounts'
  <2>. SUFFICES ASSUME Inv, Accounts, [Next]_vars PROVE Accounts'
    OBVIOUS
  <2>1. CASE Next
    BY <2>1, HostAccounts, CallAccounts, EndAccounts DEF Next
  <2>2. CASE UNCHANGED vars
    BY <2>2 DEF vars, Accounts
  <2>. QED
    BY <2>1, <2>2
<1>. QED
  BY <1>1, AccountsInit, InvHolds, PTL DEF Spec
-----------------------------------------------------------------------------
\* reserveCapacity, releaseReservation, claim and release: whichever way the
\* calls of a host ended, nothing but a runtime keeps a slot or a lease, and
\* there are never more slots taken than maxActiveRuntimes.
THEOREM NothingLeaksHolds == Spec => []NothingLeaks
<1>1. Inv /\ Accounts => NothingLeaks
  <2>. SUFFICES ASSUME Inv, Accounts, NEW p \in Processes
                PROVE  LET h == host[p] IN
                         /\ Cardinality(h.runtimes) + h.reserved <= MaxActiveRuntimes
                         /\ (\A i \in Ids : h.call[i] = Idle)
                              => h.reserved = 0 /\ h.leases = h.runtimes
    BY DEF NothingLeaks
  <2>1. host[p] \in Hosts /\ Accounted(host[p])
    BY DEF Inv, TypeInv, Accounts
  <2>2. ASSUME \A i \in Ids : host[p].call[i] = Idle
        PROVE  host[p].reserved = 0 /\ host[p].leases = host[p].runtimes
    <3>1. host[p].reserved = 0
      BY <2>1, <2>2, IdleSlots DEF Accounted
    <3>2. host[p].leases \subseteq host[p].runtimes
      BY <2>1, <2>2 DEF Accounted, Hosts, Idle, Leasing, Writing
    <3>. QED
      BY <2>1, <3>1, <3>2 DEF Accounted
  <2>. QED
    BY <2>1, <2>2 DEF Accounted
<1>. QED
  BY <1>1, InvHolds, AccountsHold, PTL
=============================================================================
