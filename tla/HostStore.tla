----------------------------- MODULE HostStore ------------------------------
(***************************************************************************)
(* The durable sessions of a coding-agent host: FileCodingAgentServer-     *)
(* SessionStore (a directory per session under one root, with a manifest   *)
(* that is pending until the session is committed and a transcript written *)
(* with the first answer), the root lock that admits one process, and the  *)
(* service of coding-agent-server.ts that reserves capacity, creates and   *)
(* opens runtimes over the store and closes the host.                      *)
(*                                                                         *)
(* Every file operation is a step; between two of them another call of the *)
(* same process may run, or the process may die.  A process that dies      *)
(* loses its memory and the root lock; the files stay as they are.         *)
(***************************************************************************)
EXTENDS Integers, FiniteSets

CONSTANTS Processes, Ids,
          MaxActiveRuntimes,  \* the host's maxActiveRuntimes option
          MaxCrashes,         \* bound: processes that die
          MaxFaults           \* bound: file operations and set-ups that fail

Nobody == "nobody"

ASSUME ActiveAssumption == MaxActiveRuntimes \in Nat \ {0}
ASSUME ProcessAssumption == Nobody \notin Processes
ASSUME IdsAssumption == IsFiniteSet(Ids)

VARIABLES disk,    \* the directory of every session id under the root
          owner,   \* the process whose SQLite transaction holds the root
          host,    \* the memory of every process
          crashes, faults

vars == <<disk, owner, host, crashes, faults>>
-----------------------------------------------------------------------------
(* A session directory: its manifest, the temporary file of a manifest     *)
(* being written ("torn" until its contents are whole), its transcript.    *)

Absent == [dir |-> FALSE, manifest |-> "none", tmp |-> "none", log |-> FALSE]
Empty == [Absent EXCEPT !.dir = TRUE]

\* One step of a recursive rm: a file goes, in no particular order, and the
\* directory when it is empty.
Unlinked(d) ==
  IF d = Empty THEN {Absent}
  ELSE {e \in {[d EXCEPT !.manifest = "none"], [d EXCEPT !.tmp = "none"],
               [d EXCEPT !.log = FALSE]} : e # d}

\* listSessions() shows the committed manifests.
Listed(d) == d.manifest = "committed"

\* open() needs a committed manifest and the transcript it names.
Openable(d) == d.manifest = "committed" /\ d.log

\* What the sweep removes: a pending session whose temporary manifests are
\* whole, or a directory of nothing but pending temporary manifests.
RemovableWhole(d) == d.dir /\ d.tmp # "torn"
Removable(d) ==
  \/ d.manifest = "pending" /\ d.tmp # "torn"
  \/ d.manifest = "none" /\ d.tmp = "pending" /\ ~d.log
-----------------------------------------------------------------------------
(* The memory of a process: the store's leases and createdHere, the        *)
(* reservations and runtimes of the service, and how far the call for each *)
(* session id has come.  PiServer makes one call per id at a time and none *)
(* while it holds a runtime of that id.                                    *)

Idle == [at |-> "none", status |-> "none"]
At(at, status) == [at |-> at, status |-> status]

Down == [phase |-> "down", sweep |-> {}, leases |-> {}, createdHere |-> {},
         reserved |-> 0, runtimes |-> {}, stopping |-> {},
         call |-> [i \in Ids |-> Idle]]

Init ==
  /\ disk = [i \in Ids |-> Absent]
  /\ owner = Nobody
  /\ host = [p \in Processes |-> Down]
  /\ crashes = 0 /\ faults = 0

\* The call for id moves on; one that ends gives its reservation back.
Moved(h, id, at, status) == [h EXCEPT !.call[id] = At(at, status)]
Over(h, id) == [h EXCEPT !.call[id] = Idle, !.reserved = @ - 1]
Released(h, id) == [h EXCEPT !.leases = @ \ {id}]

Is(p, id, at) == host[p].call[id].at = at
Set(p, h) == host' = [host EXCEPT ![p] = h]
Fault == faults < MaxFaults /\ faults' = faults + 1
OnDisk(id, d) == disk' = [disk EXCEPT ![id] = d]
-----------------------------------------------------------------------------
(* The host comes up: the root lock, then the sweep of what creates that   *)
(* never committed left behind.                                            *)

Acquire(p) ==
  /\ host[p].phase = "down" /\ owner = Nobody
  /\ owner' = p
  /\ Set(p, [Down EXCEPT !.phase = "starting",
                         !.sweep = {i \in Ids : disk[i].dir}])
  /\ UNCHANGED <<disk, crashes, faults>>

\* A sweep that throws closes the lock again: the host does not start.
Refused(p) == owner' = Nobody /\ Set(p, Down)

SweepDir(p, id) ==
  /\ host[p].phase = "starting" /\ id \in host[p].sweep
  /\ \A i \in Ids : Is(p, i, "none")
  /\ IF Removable(disk[id])
     THEN Set(p, Moved(host[p], id, "sweep", "none")) /\ UNCHANGED owner
     ELSE IF Listed(disk[id])
     THEN Set(p, [host[p] EXCEPT !.sweep = @ \ {id}]) /\ UNCHANGED owner
     ELSE Refused(p)
  /\ UNCHANGED <<disk, crashes, faults>>

\* createCodingAgentPiServer goes on to the model runtime and the listeners.
Serve(p) ==
  /\ host[p].phase = "starting" /\ host[p].sweep = {}
  /\ Set(p, [host[p] EXCEPT !.phase = "serving"])
  /\ UNCHANGED <<disk, owner, crashes, faults>>

StartFails(p) ==
  /\ host[p].phase = "starting" /\ host[p].sweep = {}
  /\ Fault /\ Refused(p)
  /\ UNCHANGED <<disk, crashes>>
-----------------------------------------------------------------------------
(* createSession and openSession reserve a slot and claim the writer lease *)
(* before the first file operation.                                        *)

Free(h, id) == h.call[id] = Idle /\ id \notin h.runtimes

Admitted(h) == Cardinality(h.runtimes) + h.reserved < MaxActiveRuntimes

Claimed(h, id, at) ==
  IF id \in h.leases THEN h
  ELSE [h EXCEPT !.reserved = @ + 1, !.leases = @ \union {id},
                 !.call[id] = At(at, "pending")]

CreateSession(p, id) ==
  /\ host[p].phase = "serving" /\ Free(host[p], id) /\ Admitted(host[p])
  /\ Set(p, Claimed(host[p], id, "mkdir"))
  /\ UNCHANGED <<disk, owner, crashes, faults>>

\* An attach that waited for a disposal opens the session anew even though
\* the server closes meanwhile.
OpenSession(p, id) ==
  /\ host[p].phase \in {"serving", "closing", "draining", "stuck"}
  /\ Free(host[p], id) /\ Admitted(host[p])
  /\ Set(p, Claimed(host[p], id, "read"))
  /\ UNCHANGED <<disk, owner, crashes, faults>>

\* A directory that exists belongs to another session: session_locked.
Mkdir(p, id) ==
  /\ Is(p, id, "mkdir")
  /\ IF disk[id].dir
     THEN Set(p, Over(Released(host[p], id), id)) /\ UNCHANGED disk
     ELSE Set(p, Moved(host[p], id, "open", "pending")) /\ OnDisk(id, Empty)
  /\ UNCHANGED <<owner, crashes, faults>>
-----------------------------------------------------------------------------
(* writeManifest: a temporary file, its contents, the rename.              *)

OpenTemporary(p, id) ==
  /\ Is(p, id, "open")
  /\ OnDisk(id, [disk[id] EXCEPT !.tmp = "torn"])
  /\ Set(p, Moved(host[p], id, "write", host[p].call[id].status))
  /\ UNCHANGED <<owner, crashes, faults>>

WriteTemporary(p, id) ==
  /\ Is(p, id, "write")
  /\ OnDisk(id, [disk[id] EXCEPT !.tmp = host[p].call[id].status])
  /\ Set(p, Moved(host[p], id, "rename", host[p].call[id].status))
  /\ UNCHANGED <<owner, crashes, faults>>

\* A runtime joins the host's runtimes in place of its reservation.
Running(h, id) == [Over(h, id) EXCEPT !.runtimes = @ \union {id}]

\* The pending manifest makes the create this store's to discard; the
\* committed one makes it nobody's, and createSession answers.
Renamed(h, id) ==
  IF h.call[id].status = "pending"
  THEN [Moved(h, id, "init", "committed")
          EXCEPT !.createdHere = @ \union {id}]
  ELSE [Running(h, id) EXCEPT !.createdHere = @ \ {id}]

Rename(p, id) ==
  /\ Is(p, id, "rename")
  /\ OnDisk(id, [disk[id] EXCEPT !.manifest = host[p].call[id].status,
                                 !.tmp = "none"])
  /\ Set(p, Renamed(host[p], id))
  /\ UNCHANGED <<owner, crashes, faults>>
-----------------------------------------------------------------------------
(* acquireRuntime builds the session over what the store returned.  A      *)
(* failure after the runtime exists disposes it, which releases the lease. *)

InitDone(p, id) ==
  /\ Is(p, id, "init")
  /\ Set(p, IF host[p].call[id].status = "committed"
            THEN Moved(host[p], id, "open", "committed")
            ELSE Running(host[p], id))
  /\ UNCHANGED <<disk, owner, crashes, faults>>

\* createSession gives the slot back, then discards what it created and
\* releases the lease; openSession only releases.
FailedKeepsLease(h, id, built) ==
  LET g == IF built THEN Released(h, id) ELSE h
  IN IF h.call[id].status = "committed" /\ id \in h.createdHere
     THEN [Over(g, id) EXCEPT !.call[id] = At("discard", "none")]
     ELSE Over(g, id)
Failed(h, id, built) ==
  LET g == IF built THEN Released(h, id) ELSE h
  IN IF h.call[id].status = "committed" /\ id \in h.createdHere
     THEN [Over(g, id) EXCEPT !.call[id] = At("discard", "none")]
     ELSE Over(Released(g, id), id)

InitFails(p, id, built) ==
  /\ Is(p, id, "init") /\ Fault
  /\ Set(p, Failed(host[p], id, built))
  /\ UNCHANGED <<disk, owner, crashes>>

\* A manifest that cannot be written: the temporary file goes; create()
\* releases the lease and removes the directory, a commit is a failed
\* create whose runtime exists.
WriteFails(p, id) ==
  /\ \/ Is(p, id, "open") \/ Is(p, id, "write") \/ Is(p, id, "rename")
  /\ Fault
  /\ OnDisk(id, [disk[id] EXCEPT !.tmp = "none"])
  /\ Set(p, IF host[p].call[id].status = "pending"
            THEN Moved(Released(host[p], id), id, "rollback", "none")
            ELSE Failed(host[p], id, TRUE))
  /\ UNCHANGED <<owner, crashes>>

\* The recursive rm of a rollback, of discardFailedCreate and of the sweep,
\* and what follows when it has come to its end.
Purged(h, id) ==
  CASE h.call[id].at = "rollback" -> Over(h, id)
    [] h.call[id].at = "discard" ->
         [Released(h, id) EXCEPT !.createdHere = @ \ {id}, !.call[id] = Idle]
    [] OTHER -> [h EXCEPT !.sweep = @ \ {id}, !.call[id] = Idle]

Purging(p, id) ==
  Is(p, id, "rollback") \/ Is(p, id, "discard") \/ Is(p, id, "sweep")

Purge(p, id) ==
  /\ Purging(p, id)
  /\ \E d \in Unlinked(disk[id]) :
       /\ OnDisk(id, d)
       /\ Set(p, IF d = Absent THEN Purged(host[p], id) ELSE host[p])
  /\ UNCHANGED <<owner, crashes, faults>>

\* An rm that throws leaves the rest: of a discard the lease is released all
\* the same, and a sweep refuses the start.
PurgeFails(p, id) ==
  /\ Purging(p, id) /\ Fault
  /\ IF Is(p, id, "sweep") THEN Refused(p)
     ELSE /\ Set(p, IF Is(p, id, "rollback") THEN Over(host[p], id)
                    ELSE [Released(host[p], id) EXCEPT !.call[id] = Idle])
          /\ UNCHANGED owner
  /\ UNCHANGED <<disk, crashes>>

\* open() reads the manifest and opens the transcript, or says not_found.
ReadManifest(p, id) ==
  /\ Is(p, id, "read")
  /\ Set(p, IF Openable(disk[id])
            THEN Moved(host[p], id, "init", "opened")
            ELSE Over(Released(host[p], id), id))
  /\ UNCHANGED <<disk, owner, crashes, faults>>
-----------------------------------------------------------------------------
(* A runtime writes its transcript with the first answer, and is disposed  *)
(* when PiServer has no more use for it.                                   *)

Answer(p, id) ==
  /\ id \in host[p].runtimes /\ ~disk[id].log
  /\ OnDisk(id, [disk[id] EXCEPT !.log = TRUE])
  /\ UNCHANGED <<owner, host, crashes, faults>>

Dispose(p, id) ==
  /\ id \in host[p].runtimes
  /\ Set(p, [Released(host[p], id) EXCEPT !.runtimes = @ \ {id},
                                          !.stopping = @ \ {id}])
  /\ UNCHANGED <<disk, owner, crashes, faults>>
-----------------------------------------------------------------------------
(* close(): PiServer waits for the calls in flight and disposes what is    *)
(* live; the root is unlocked only when nothing is left.                   *)

CloseHost(p) ==
  /\ host[p].phase = "serving"
  /\ Set(p, [host[p] EXCEPT !.phase = "closing"])
  /\ UNCHANGED <<disk, owner, crashes, faults>>

CloseServerAtOnce(p) ==
  /\ host[p].phase = "closing"
  /\ Set(p, [host[p] EXCEPT !.phase = "draining",
                            !.stopping = host[p].runtimes])
  /\ UNCHANGED <<disk, owner, crashes, faults>>
CloseServer(p) ==
  /\ host[p].phase = "closing" /\ \A i \in Ids : Is(p, i, "none")
  /\ Set(p, [host[p] EXCEPT !.phase = "draining",
                            !.stopping = host[p].runtimes])
  /\ UNCHANGED <<disk, owner, crashes, faults>>

\* A reservation, a runtime or a lease that is left keeps the root locked
\* for as long as the process lives.
FinishClose(p) ==
  /\ host[p].phase = "draining" /\ host[p].stopping = {}
  /\ IF host[p].reserved = 0 /\ host[p].runtimes = {} /\ host[p].leases = {}
     THEN /\ Set(p, [host[p] EXCEPT !.phase = "down", !.createdHere = {}])
          /\ owner' = Nobody
     ELSE /\ Set(p, [host[p] EXCEPT !.phase = "stuck"])
          /\ UNCHANGED owner
  /\ UNCHANGED <<disk, crashes, faults>>

Crash(p) ==
  /\ host[p].phase # "down" /\ crashes < MaxCrashes
  /\ crashes' = crashes + 1
  /\ Set(p, Down)
  /\ owner' = IF owner = p THEN Nobody ELSE owner
  /\ UNCHANGED <<disk, faults>>
-----------------------------------------------------------------------------
Next ==
  \E p \in Processes :
    \/ Acquire(p) \/ Serve(p) \/ StartFails(p)
    \/ CloseHost(p) \/ CloseServer(p) \/ FinishClose(p) \/ Crash(p)
    \/ \E id \in Ids :
         \/ SweepDir(p, id)
         \/ CreateSession(p, id) \/ Mkdir(p, id)
         \/ OpenTemporary(p, id) \/ WriteTemporary(p, id) \/ Rename(p, id)
         \/ InitDone(p, id)
         \/ \E built \in BOOLEAN : InitFails(p, id, built)
         \/ WriteFails(p, id)
         \/ Purge(p, id) \/ PurgeFails(p, id)
         \/ OpenSession(p, id) \/ ReadManifest(p, id)
         \/ Answer(p, id) \/ Dispose(p, id)

Spec == Init /\ [][Next]_vars
-----------------------------------------------------------------------------
(* Safety.                                                                 *)

\* No crash, sweep, rollback or discard ever takes a committed session away:
\* commitCreate makes a session nobody's to remove.
CommittedForever ==
  [][\A i \in Ids : Listed(disk[i]) => Listed(disk'[i])]_vars

\* A process that still has a call in flight, a directory half removed or a
\* runtime that may write holds the root: close() lets go of the lock only
\* when nothing that touches the files is left behind.
Working(h) == h.runtimes # {} \/ \E i \in Ids : h.call[i] # Idle
WorksUnderLock == \A p \in Processes : Working(host[p]) => owner = p

\* Whichever way the calls of a host ended, once none is in flight the slots
\* and leases that are taken are exactly those of its runtimes, and slots
\* were never overbooked: nothing but a runtime can keep a session locked,
\* the capacity used up or the host from closing.
NothingLeaks ==
  \A p \in Processes :
    LET h == host[p] IN
      /\ Cardinality(h.runtimes) + h.reserved <= MaxActiveRuntimes
      /\ (\A i \in Ids : h.call[i] = Idle)
           => h.reserved = 0 /\ h.leases = h.runtimes

\* "After disposal, an existing durable ID may reopen": whenever openSession
\* reads the directory of a session that listSessions shows, it can open it.
ListedReopens ==
  \A p \in Processes, i \in Ids :
    Is(p, i, "read") /\ Listed(disk[i]) => Openable(disk[i])
=============================================================================
