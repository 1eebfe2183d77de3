------------------------------ MODULE CliLock ------------------------------
(***************************************************************************)
(* The global mutation lock of proxy-unifi: acquire_lock and release_lock  *)
(* of src/src/proxy-unifi, and the same loop in install.sh. The lock is a  *)
(* directory that holds the pid of its owner. A process that meets a lock  *)
(* whose owner is gone, or that stays without a pid for too long, removes  *)
(* the directory and tries again.                                          *)
(*                                                                         *)
(* Every process takes the lock once and ends. It may die at any step; a   *)
(* signal before LOCK_HELD is set has the same effect, a later one is a    *)
(* normal release by on_exit. Nothing makes the read of a pid, kill -0 and *)
(* the two halves of rm -rf one step: what they remove may be another lock *)
(* by then, which the history variables behind and raced tell.             *)
(***************************************************************************)
EXTENDS Naturals

CONSTANTS Procs,        \* the processes: commands, menu actions, the installer
          NoDir,        \* there is no lock directory
          NoPid,        \* the lock directory holds no pid
          Gone,         \* the pid of an owner from before, which has ended
          Stranger,     \* a pid from before that another program has now
          InitDirs,     \* what is there at first, say after a reboot
          MaxEmpty,     \* polls of a lock without a pid before it is removed
          MaxTries      \* polls of a lock with a live owner before giving up

Pids == Procs \cup {Gone, Stranger}
Dirs == Pids \cup {NoDir, NoPid}

ASSUME PidsAssumption == /\ {Gone, Stranger, NoDir, NoPid} \cap Procs = {}
                         /\ NoDir # NoPid
                         /\ {NoDir, NoPid} \cap {Gone, Stranger} = {}
                         /\ Gone # Stranger
ASSUME InitDirsAssumption == InitDirs \subseteq Dirs \ Procs
ASSUME BoundsAssumption == MaxEmpty \in Nat \ {0} /\ MaxTries \in Nat \ {0}

VARIABLES dir,      \* the lock directory: NoDir, NoPid or the pid in it
          pc,       \* the step of each process
          ret,      \* where it goes on after rm -rf of the directory
          seen,     \* the pid it read
          empties,  \* _uninitialized
          tries,    \* _tries
          behind,   \* history: those that are about to remove a lock which was taken
                    \* again after they read it
          raced     \* history: one of them did, or one took an owner for gone that
                    \* was still between mkdir and printf

vars == <<dir, pc, ret, seen, empties, tries, behind, raced>>

Ended == {"done", "failed", "dead"}
\* From the read of a pid to the end of the rm -rf that it leads to.
Breaking == {"probe", "unlink", "rmdir"}
Steps == {"mkdir", "read", "write", "critical"} \cup Breaking \cup Ended

Init == /\ dir \in InitDirs
        /\ pc = [p \in Procs |-> "mkdir"]
        /\ ret = [p \in Procs |-> "mkdir"]
        /\ seen = [p \in Procs |-> NoPid]
        /\ empties = [p \in Procs |-> 0]
        /\ tries = [p \in Procs |-> 0]
        /\ behind = {} /\ raced = FALSE

\* A slip of Alive: a process that was killed still counts.
AliveIfKilled(pid) ==
    IF pid \in Procs THEN pc[pid] \notin {"done", "failed"} ELSE pid = Stranger

\* kill -0
Alive(pid) == IF pid \in Procs THEN pc[pid] \notin Ended ELSE pid = Stranger

Goto(p, step) ==
    /\ pc' = [pc EXCEPT ![p] = step]
    /\ behind' = IF {pc[p], step} \subseteq Breaking THEN behind ELSE behind \ {p}
\* rm -rf "$LOCK_DIR": first the file in it, then the directory itself.
Remove(p, then) == Goto(p, "unlink") /\ ret' = [ret EXCEPT ![p] = then]
Return(p) == Goto(p, ret[p]) /\ ret' = [ret EXCEPT ![p] = "mkdir"]
Strikes(p) == raced' = (raced \/ (p \in behind /\ dir' # dir))

\* mkdir "$LOCK_DIR". What is not read any more, here the counters of the loop, is
\* forgotten.
TakeDir(p) ==
    /\ pc[p] = "mkdir"
    /\ dir = NoDir
    /\ dir' = NoPid
    /\ pc' = [pc EXCEPT ![p] = "write"]
    /\ behind' = {q \in Procs : pc[q] \in Breaking}
    /\ empties' = [empties EXCEPT ![p] = 0]
    /\ tries' = [tries EXCEPT ![p] = 0]
    /\ UNCHANGED <<ret, seen, raced>>

Blocked(p) ==
    /\ pc[p] = "mkdir"
    /\ dir # NoDir
    /\ Goto(p, "read")
    /\ UNCHANGED <<dir, ret, seen, empties, tries, raced>>

ReadPid(p) ==
    /\ pc[p] = "read"
    /\ dir \in Pids
    /\ seen' = [seen EXCEPT ![p] = dir]
    /\ empties' = [empties EXCEPT ![p] = 0]
    /\ Goto(p, "probe")
    /\ UNCHANGED <<dir, ret, tries, raced>>

\* A slip of ReadNothing: a lock without a pid is never removed.
ReadNothingForever(p) ==
    /\ pc[p] = "read"
    /\ dir \in {NoDir, NoPid}
    /\ Goto(p, "mkdir")
    /\ UNCHANGED <<dir, ret, seen, empties, tries, raced>>

\* No pid to read, or no directory any more: it may be between mkdir and printf.
ReadNothing(p) ==
    /\ pc[p] = "read"
    /\ dir \in {NoDir, NoPid}
    /\ \/ /\ empties[p] + 1 < MaxEmpty
          /\ empties' = [empties EXCEPT ![p] = empties[p] + 1]
          /\ Goto(p, "mkdir")
          /\ UNCHANGED <<ret, raced>>
       \/ /\ empties[p] + 1 >= MaxEmpty
          /\ empties' = [empties EXCEPT ![p] = 0]
          /\ Remove(p, "mkdir")
          /\ raced' = (raced \/ \E q \in Procs : pc[q] = "write")
    /\ UNCHANGED <<dir, seen, tries>>

\* Slips of Probe: it removes the lock when it should give up; it does not remove
\* a stale one.
ProbeThenBreak(p) ==
    /\ pc[p] = "probe"
    /\ IF Alive(seen[p]) /\ tries[p] + 1 < MaxTries
       THEN /\ tries' = [tries EXCEPT ![p] = tries[p] + 1]
            /\ Goto(p, "mkdir")
            /\ UNCHANGED ret
       ELSE Remove(p, "mkdir") /\ UNCHANGED tries
    /\ seen' = [seen EXCEPT ![p] = NoPid]
    /\ UNCHANGED <<dir, empties, raced>>

ProbeKeepsStale(p) ==
    /\ pc[p] = "probe"
    /\ \/ ~Alive(seen[p]) /\ Goto(p, "mkdir") /\ UNCHANGED tries
       \/ /\ Alive(seen[p])
          /\ tries[p] + 1 < MaxTries
          /\ tries' = [tries EXCEPT ![p] = tries[p] + 1]
          /\ Goto(p, "mkdir")
       \/ Alive(seen[p]) /\ tries[p] + 1 >= MaxTries /\ Goto(p, "failed") /\ UNCHANGED tries
    /\ seen' = [seen EXCEPT ![p] = NoPid]
    /\ UNCHANGED <<dir, ret, empties, raced>>

Probe(p) ==
    /\ pc[p] = "probe"
    /\ \/ /\ ~Alive(seen[p])
          /\ Remove(p, "mkdir")
          /\ UNCHANGED tries
       \/ /\ Alive(seen[p])
          /\ tries[p] + 1 < MaxTries
          /\ tries' = [tries EXCEPT ![p] = tries[p] + 1]
          /\ Goto(p, "mkdir")
          /\ UNCHANGED ret
       \/ /\ Alive(seen[p])
          /\ tries[p] + 1 >= MaxTries
          /\ Goto(p, "failed")
          /\ tries' = [tries EXCEPT ![p] = 0]
          /\ UNCHANGED ret
    /\ seen' = [seen EXCEPT ![p] = NoPid]
    /\ UNCHANGED <<dir, empties, raced>>

Unlink(p) ==
    /\ pc[p] = "unlink"
    /\ \/ dir = NoDir /\ Return(p) /\ UNCHANGED dir
       \/ dir # NoDir /\ Goto(p, "rmdir") /\ dir' = NoPid /\ UNCHANGED ret
    /\ Strikes(p)
    /\ UNCHANGED <<seen, empties, tries>>

\* It fails if a pid was written in between; rm -rf || true goes on all the same.
Rmdir(p) ==
    /\ pc[p] = "rmdir"
    /\ dir' = IF dir = NoPid THEN NoDir ELSE dir
    /\ Return(p)
    /\ Strikes(p)
    /\ UNCHANGED <<seen, empties, tries>>

\* A slip of WritePid: it writes the pid of a $(...) child that has ended.
WriteChildPid(p) ==
    /\ pc[p] = "write"
    /\ dir' = Gone
    /\ Goto(p, "critical")
    /\ UNCHANGED <<ret, seen, empties, tries, raced>>

\* printf > "$LOCK_DIR/pid": into whatever directory has that name now.
WritePid(p) ==
    /\ pc[p] = "write"
    /\ \/ /\ dir # NoDir
          /\ dir' = p
          /\ Goto(p, "critical")
          /\ UNCHANGED ret
       \/ /\ dir = NoDir
          /\ Remove(p, "failed")
          /\ UNCHANGED dir
    /\ UNCHANGED <<seen, empties, tries, raced>>

\* release_lock
Release(p) ==
    /\ pc[p] = "critical"
    /\ \/ dir = p /\ Remove(p, "done")
       \/ dir # p /\ Goto(p, "done") /\ UNCHANGED ret
    /\ UNCHANGED <<dir, seen, empties, tries, raced>>

Die(p) ==
    /\ pc[p] \notin Ended
    /\ Goto(p, "dead")
    /\ ret' = [ret EXCEPT ![p] = "mkdir"]
    /\ seen' = [seen EXCEPT ![p] = NoPid]
    /\ empties' = [empties EXCEPT ![p] = 0]
    /\ tries' = [tries EXCEPT ![p] = 0]
    /\ UNCHANGED <<dir, raced>>

Acquire(p) == \/ TakeDir(p) \/ Blocked(p) \/ ReadPid(p) \/ ReadNothing(p) \/ Probe(p)
              \/ Unlink(p) \/ Rmdir(p) \/ WritePid(p)

Next == \E p \in Procs : Acquire(p) \/ Release(p) \/ Die(p)

Spec == Init /\ [][Next]_vars

\* A process is scheduled; how long it keeps the lock is its own affair.
FairSpec == Spec /\ \A p \in Procs : WF_vars(Acquire(p))

-----------------------------------------------------------------------------
(***************************************************************************)
(* Properties                                                              *)
(***************************************************************************)

\* Every variable holds what its declaration says.
TypeOK == /\ dir \in Dirs
          /\ pc \in [Procs -> Steps]
          /\ ret \in [Procs -> {"mkdir", "done", "failed"}]
          /\ seen \in [Procs -> Pids \cup {NoPid}]
          /\ empties \in [Procs -> 0..(MaxEmpty - 1)]
          /\ tries \in [Procs -> 0..(MaxTries - 1)]
          /\ behind \subseteq {p \in Procs : pc[p] \in Breaking}
          /\ raced \in BOOLEAN

\* At most one process at a time runs an operation under the lock, which on_boot.sh
\* and locked_call call the global mutation lock. The code does not give that (proxy-unifi:336).
MutualExclusion ==
    \A p, q \in Procs : pc[p] = "critical" /\ pc[q] = "critical" => p = q

\* It gives this: two owners come only of a removal that was decided before the lock
\* was taken again, or in the moment before an owner's pid was there; not of a death, a
\* release, a leftover or another waiter.
Exclusive == raced \/ MutualExclusion

\* A pid leaves the lock directory only when its owner releases the lock or has
\* ended: nobody else removes, or writes over, the lock of a process that works, but
\* in such a race.
StealsNothing ==
    dir \in Procs /\ dir' # dir => pc[dir] \in Ended \cup {"unlink"}

NeverStolen == [][raced' \/ StealsNothing]_vars

\* A process that gives up with "another proxy-unifi operation is still running"
\* is right: some other process has the lock, raced or not, unless it is the pid of
\* another program: the directory is under /data, where a pid from before a reboot
\* is found when another program has that number.
Busy(p) == \E q \in Procs \ {p} : pc[q] \in {"critical", "unlink", "rmdir"}
GivesUpIfBusy ==
    \A p \in Procs : pc[p] = "probe" /\ pc'[p] = "failed" => seen[p] = Stranger \/ Busy(p)

BusyIsTrue == [][GivesUpIfBusy]_vars

\* The lock does what its users rely on: one at a time, safe from the others, and
\* refused only for a reason.
LockHolds == []Exclusive /\ NeverStolen /\ BusyIsTrue

\* Nobody waits for ever: each gets the lock or is told that it is busy, even if the
\* owner died with the lock, or between mkdir and the write of its pid.
NoWaiterHangs == <>(\A p \in Procs : pc[p] \in {"critical"} \cup Ended)

-----------------------------------------------------------------------------
(***************************************************************************)
(* The strengthening that makes them inductive.                            *)
(***************************************************************************)
\* Who has the directory: from mkdir on, to the removal of the pid in it.
Owns(p) == \/ pc[p] \in {"write", "critical"}
           \/ pc[p] = "unlink" /\ ret[p] = "done" /\ dir = p

\* Until the lock is raced, the directory is that of the one who took it.
OwnerInv ==
    \A p \in Procs :
        /\ pc[p] = "write" => dir = NoPid /\ \A q \in Procs : pc[q] = "write" => q = p
        /\ pc[p] = "critical" => dir = p

\* Who is about to remove the lock and is not behind is right: nobody else owns it.
BreakInv ==
    \A p \in Procs \ behind :
        /\ pc[p] = "probe" => \A q \in Procs : Owns(q) => q = seen[p] /\ pc[q] # "write"
        /\ pc[p] \in {"unlink", "rmdir"} => \A q \in Procs \ {p} : ~Owns(q)

\* A pid in the directory, or one that was read there, is that of a process that has
\* the lock, releases it or has ended.
Wrote(q) == q \in Procs => \/ pc[q] \in Ended \cup {"critical"}
                           \/ pc[q] \in {"unlink", "rmdir"} /\ ret[q] = "done"
PidInv == /\ Wrote(dir) /\ (dir \in Procs => pc[dir] # "rmdir")
          /\ \A p \in Procs : Wrote(seen[p])

LockInv == PidInv /\ (raced \/ (OwnerInv /\ BreakInv))
=============================================================================
