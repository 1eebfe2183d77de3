--------------------------- MODULE InstallerProofs ---------------------------
(***************************************************************************)
(* Proofs about CliLock, for every number of processes, polls and deaths,  *)
(* and about Installer, which extends it: what the lock gives among the    *)
(* installer, the CLIs that it starts and the commands of others, wherever *)
(* a signal or a death comes, and what the installer does with it.         *)
(***************************************************************************)
EXTENDS Installer, TLAPS

(***************************************************************************)
(* The lock                                                                *)
(***************************************************************************)
LEMMA InitTyped == Init => TypeOK
<1> SUFFICES ASSUME Init PROVE TypeOK
  OBVIOUS
<1>1. 0 \in 0..(MaxEmpty - 1) /\ 0 \in 0..(MaxTries - 1)
  BY BoundsAssumption
<1>2. dir \in Dirs /\ "mkdir" \in Steps
  BY InitDirsAssumption DEF Init, Steps
<1> QED
  BY <1>1, <1>2 DEF Init, TypeOK

\* One process p moves; the others keep their step, return point and pid.
Others(p) == \A q \in Procs \ {p} : pc'[q] = pc[q] /\ ret'[q] = ret[q] /\ seen'[q] = seen[q]

LEMMA StepFrame ==
  ASSUME TypeOK, NEW p \in Procs, Acquire(p) \/ Release(p) \/ Die(p)
  PROVE  Others(p)
BY DEF TypeOK, Acquire, TakeDir, Blocked, ReadPid, ReadNothing, Probe, Unlink, Rmdir,
       WritePid, Release, Die, Goto, Remove, Return, Others

\* A removal that is behind stays so to its end; a new one begins when the lock is
\* taken.
LEMMA BehindStep ==
  ASSUME TypeOK, NEW p \in Procs, Acquire(p) \/ Release(p) \/ Die(p)
  PROVE  /\ behind' \subseteq {q \in Procs : pc'[q] \in Breaking}
         /\ TakeDir(p) => \A q \in Procs : pc'[q] \in Breaking => q \in behind'
         /\ ~TakeDir(p) => /\ \A q \in Procs \ {p} : q \in behind' <=> q \in behind
                           /\ pc[p] \in Breaking /\ pc'[p] \in Breaking =>
                                (p \in behind' <=> p \in behind)
                           /\ pc[p] \notin Breaking => p \notin behind'
<1>1. CASE TakeDir(p)
  BY <1>1 DEF TakeDir, TypeOK, Breaking
<1>2. ASSUME NEW s \in Steps, Goto(p, s)
      PROVE  /\ behind' \subseteq {q \in Procs : pc'[q] \in Breaking}
             /\ \A q \in Procs \ {p} : q \in behind' <=> q \in behind
             /\ pc[p] \in Breaking /\ pc'[p] \in Breaking => (p \in behind' <=> p \in behind)
             /\ pc[p] \notin Breaking => p \notin behind'
  BY <1>2 DEF Goto, TypeOK
<1>3. \/ TakeDir(p) \/ \E s \in Steps : Goto(p, s)
  <2>1. ret[p] \in Steps
    BY DEF TypeOK, Steps, Ended
  <2> QED
    BY <2>1 DEF Acquire, Blocked, ReadPid, ReadNothing, Probe, Unlink, Rmdir, WritePid, Release,
           Die, Remove, Return, Steps, Breaking, Ended
<1>4. TakeDir(p) \/ ~TakeDir(p)
  OBVIOUS
<1>5. TakeDir(p) => pc'[p] = "write"
  BY DEF TakeDir, TypeOK
<1> QED
  BY <1>1, <1>2, <1>3

LEMMA TypeStep == TypeOK /\ [Next]_vars => TypeOK'
<1> SUFFICES ASSUME TypeOK, [Next]_vars PROVE TypeOK'
  OBVIOUS
<1> DEFINE Typed == /\ dir \in Dirs
                    /\ pc \in [Procs -> Steps]
                    /\ ret \in [Procs -> {"mkdir", "done", "failed"}]
                    /\ seen \in [Procs -> Pids \cup {NoPid}]
                    /\ empties \in [Procs -> 0..(MaxEmpty - 1)]
                    /\ tries \in [Procs -> 0..(MaxTries - 1)]
                    /\ raced \in BOOLEAN
<1>0. Typed
  BY DEF TypeOK
<1>b. \A p \in Procs : Acquire(p) \/ Release(p) \/ Die(p) =>
        behind' \subseteq {q \in Procs : pc'[q] \in Breaking}
  BY BehindStep
<1>t. ASSUME Typed', behind' \subseteq {q \in Procs : pc'[q] \in Breaking} PROVE TypeOK'
  BY <1>t DEF TypeOK
<1> USE DEF Steps, Breaking, Ended, Goto
<1>1. ASSUME NEW p \in Procs, TakeDir(p) PROVE Typed'
  BY <1>0, <1>1, BoundsAssumption DEF TakeDir, Dirs
<1>2. ASSUME NEW p \in Procs, Blocked(p) PROVE Typed'
  BY <1>0, <1>2 DEF Blocked
<1>3. ASSUME NEW p \in Procs, ReadPid(p) PROVE Typed'
  BY <1>0, <1>3, BoundsAssumption DEF ReadPid
<1>4. ASSUME NEW p \in Procs, ReadNothing(p) PROVE Typed'
  <2>1. CASE empties[p] + 1 < MaxEmpty
    BY <1>0, <1>4, <2>1, BoundsAssumption DEF ReadNothing
  <2>2. CASE empties[p] + 1 >= MaxEmpty
    <3>0. /\ empties' = [empties EXCEPT ![p] = 0] /\ pc' = [pc EXCEPT ![p] = "unlink"]
          /\ ret' = [ret EXCEPT ![p] = "mkdir"]
          /\ raced' = (raced \/ \E q \in Procs : pc[q] = "write")
          /\ UNCHANGED <<dir, seen, tries>>
      <4>1. empties[p] \in Nat /\ ~(empties[p] + 1 < MaxEmpty)
        BY <1>0, <2>2, BoundsAssumption
      <4> QED
        BY <1>4, <4>1 DEF ReadNothing, Remove
    <3>1. raced' \in BOOLEAN
      BY <3>0
    <3>2. 0 \in 0..(MaxEmpty - 1)
      BY BoundsAssumption
    <3> QED
      BY <1>0, <3>0, <3>1, <3>2
  <2> QED
    BY <2>1, <2>2, <1>4 DEF ReadNothing
<1>5. ASSUME NEW p \in Procs, Probe(p) PROVE Typed'
  BY <1>0, <1>5, BoundsAssumption DEF Probe, Remove
<1>6. ASSUME NEW p \in Procs, Unlink(p) PROVE Typed'
  BY <1>0, <1>6 DEF Unlink, Return, Strikes, Dirs
<1>7. ASSUME NEW p \in Procs, Rmdir(p) PROVE Typed'
  BY <1>0, <1>7 DEF Rmdir, Return, Strikes, Dirs
<1>8. ASSUME NEW p \in Procs, WritePid(p) PROVE Typed'
  BY <1>0, <1>8 DEF WritePid, Remove, Dirs, Pids
<1>9. ASSUME NEW p \in Procs, Release(p) PROVE Typed'
  BY <1>0, <1>9 DEF Release, Remove
<1>10. ASSUME NEW p \in Procs, Die(p) PROVE Typed'
  BY <1>0, <1>10, BoundsAssumption DEF Die
<1>11. CASE UNCHANGED vars
  BY <1>11 DEF vars, TypeOK
<1>12. ASSUME NEW p \in Procs, Acquire(p) \/ Release(p) \/ Die(p) PROVE TypeOK'
  <2>1. Typed'
    BY <1>1, <1>2, <1>3, <1>4, <1>5, <1>6, <1>7, <1>8, <1>9, <1>10, <1>12 DEF Acquire
  <2> HIDE DEF Typed
  <2> QED
    BY <1>b, <1>t, <1>12, <2>1
<1> QED
  BY <1>11, <1>12 DEF Next

\* Type correctness, for every set of processes and all bounds.
THEOREM TypeCorrect == Spec => []TypeOK
BY InitTyped, TypeStep, PTL DEF Spec

(***************************************************************************)
(* The lock is exclusive until it is raced, and a pid in it, or one that   *)
(* was read there, is of who has it or had it, raced or not.               *)
(***************************************************************************)
Inv == TypeOK /\ LockInv

LEMMA InitInv == Init => Inv
<1> SUFFICES ASSUME Init PROVE Inv
  OBVIOUS
<1>1. \A p \in Procs : pc[p] = "mkdir" /\ ~Owns(p) /\ seen[p] = NoPid
  BY DEF Init, Owns
<1>2. dir \notin Procs /\ NoPid \notin Procs
  BY InitDirsAssumption, PidsAssumption DEF Init
<1> QED
  BY <1>1, <1>2, InitTyped DEF Inv, LockInv, OwnerInv, BreakInv, PidInv, Wrote

\* What has the lock, releases it or has ended does not wait for it again.
LEMMA WroteStep ==
  ASSUME TypeOK, NEW p \in Procs, Acquire(p) \/ Release(p) \/ Die(p),
         NEW d, Wrote(d)
  PROVE  d \in Procs => \/ pc'[d] \in Ended \cup {"critical"}
                        \/ pc'[d] \in {"unlink", "rmdir"} /\ ret'[d] = "done"
<1> SUFFICES ASSUME d \in Procs
             PROVE  \/ pc'[d] \in Ended \cup {"critical"}
                    \/ pc'[d] \in {"unlink", "rmdir"} /\ ret'[d] = "done"
  OBVIOUS
<1>1. CASE d # p
  BY <1>1, StepFrame DEF Others, Wrote
<1>2. CASE d = p
  <2>1. Unlink(p) \/ Rmdir(p) \/ Release(p) \/ Die(p)
    BY <1>2 DEF Wrote, Ended, Acquire, TakeDir, Blocked, ReadPid, ReadNothing, Probe, WritePid
  <2>2. CASE Release(p) \/ Die(p)
    BY <1>2, <2>2 DEF TypeOK, Release, Die, Goto, Remove, Ended
  <2>3. CASE Unlink(p) \/ Rmdir(p)
    BY <1>2, <2>3 DEF TypeOK, Wrote, Unlink, Rmdir, Goto, Return, Ended
  <2> QED
    BY <2>1, <2>2, <2>3
<1> QED
  BY <1>1, <1>2

\* What a step of one process does to the directory and to what it has read.
LEMMA DirStep ==
  ASSUME TypeOK, NEW p \in Procs, Acquire(p) \/ Release(p) \/ Die(p)
  PROVE  /\ seen'[p] \in {seen[p], NoPid} \/ (ReadPid(p) /\ seen'[p] = dir)
         /\ dir' \in {dir, NoDir, NoPid} \/ (WritePid(p) /\ dir' = p /\ pc'[p] = "critical")
         /\ pc'[p] = "rmdir" => dir' = NoPid
BY DEF TypeOK, Acquire, TakeDir, Blocked, ReadPid, ReadNothing, Probe, Unlink, Rmdir,
       WritePid, Release, Die, Goto, Remove, Return

LEMMA PidStep ==
  ASSUME TypeOK, PidInv, NEW p \in Procs, Acquire(p) \/ Release(p) \/ Die(p)
  PROVE  PidInv'
<1>a. NoPid \notin Procs /\ NoDir \notin Procs
  BY PidsAssumption
<1>0. /\ Others(p)
      /\ seen'[p] \in {seen[p], NoPid} \/ seen'[p] = dir
      /\ dir' \in {dir, NoDir, NoPid} \/ (dir' = p /\ pc'[p] = "critical")
      /\ pc'[p] = "rmdir" => dir' = NoPid
  BY StepFrame, DirStep
<1>1. Wrote(dir)'
  <2>1. CASE dir' = dir
    BY <2>1, WroteStep DEF PidInv, Wrote
  <2>2. CASE dir' # dir
    BY <1>0, <1>a, <2>2 DEF Wrote
  <2> QED
    BY <2>1, <2>2
<1>2. dir' \in Procs => pc'[dir'] # "rmdir"
  <2>1. CASE dir' # p /\ dir' = dir
    BY <1>0, <2>1 DEF Others, PidInv
  <2> QED
    BY <1>0, <1>a, <2>1
<1>3. ASSUME NEW q \in Procs PROVE Wrote(seen[q])'
  <2>1. seen'[q] \in {seen[q], dir, NoPid}
    BY <1>0 DEF Others
  <2>2. ASSUME NEW d, Wrote(d), d = seen'[q] PROVE Wrote(seen[q])'
    BY <2>2, WroteStep DEF Wrote
  <2> QED
    BY <1>a, <2>1, <2>2 DEF PidInv, Wrote
<1> QED
  BY <1>1, <1>2, <1>3 DEF PidInv

\* Until it is raced, the lock is its owner's.
LEMMA OwnerStep ==
  ASSUME TypeOK, OwnerInv, BreakInv, ~raced', NEW p \in Procs, Acquire(p) \/ Release(p) \/ Die(p)
  PROVE  OwnerInv' /\ BreakInv'
<1>a. /\ NoPid # NoDir /\ NoPid \notin Procs /\ NoDir \notin Procs
      /\ NoPid \notin Pids /\ NoDir \notin Pids
  BY PidsAssumption DEF Pids
<1>0. Others(p)
  BY StepFrame
<1>f. /\ TakeDir(p) => \A q \in Procs : pc'[q] \in Breaking => q \in behind'
      /\ ~TakeDir(p) => /\ \A q \in Procs \ {p} : q \in behind' <=> q \in behind
                        /\ pc[p] \in Breaking /\ pc'[p] \in Breaking =>
                             (p \in behind' <=> p \in behind)
  BY BehindStep
<1>1. CASE TakeDir(p)
  <2>1. pc'[p] = "write" /\ dir = NoDir /\ dir' = NoPid
    BY <1>1 DEF TakeDir, TypeOK
  <2>2. \A q \in Procs : pc[q] \notin {"write", "critical"}
    BY <1>a, <2>1 DEF OwnerInv
  <2>3. OwnerInv'
    BY <1>0, <2>1, <2>2 DEF Others, OwnerInv
  <2>4. BreakInv'
    BY <1>1, <1>f DEF BreakInv, Breaking
  <2> QED
    BY <2>3, <2>4
\* The steps that leave the directory, and what the others own, as it is.
<1>n. ASSUME ~TakeDir(p), dir' = dir,
             Owns(p)' => Owns(p), pc'[p] = "write" => pc[p] = "write",
             pc'[p] = "critical" => pc[p] = "critical",
             pc'[p] \in Breaking /\ p \notin behind' =>
                \/ pc'[p] = "probe" /\ \A q \in Procs : Owns(q)' => q = seen'[p] /\ pc'[q] # "write"
                \/ pc'[p] # "probe" /\ \A q \in Procs \ {p} : ~Owns(q)'
      PROVE  OwnerInv' /\ BreakInv'
  <2>1. \A q \in Procs : Owns(q)' => Owns(q)
    BY <1>0, <1>n DEF Others, Owns
  <2>2. \A q \in Procs : /\ pc'[q] = "write" => pc[q] = "write"
                         /\ pc'[q] = "critical" => pc[q] = "critical"
    BY <1>0, <1>n DEF Others
  <2>3. OwnerInv'
    BY <1>n, <2>2 DEF OwnerInv
  <2>4. ASSUME NEW r \in Procs \ behind', r # p
        PROVE  /\ pc'[r] = "probe" => \A q \in Procs : Owns(q)' => q = seen'[r] /\ pc'[q] # "write"
               /\ pc'[r] \in {"unlink", "rmdir"} => \A q \in Procs \ {r} : ~Owns(q)'
    <3>1. r \notin behind /\ pc'[r] = pc[r] /\ seen'[r] = seen[r]
      BY <1>0, <1>f, <1>n, <2>4 DEF Others
    <3> QED
      BY <2>1, <2>2, <3>1 DEF BreakInv
  <2>5. BreakInv'
    BY <1>n, <2>4 DEF BreakInv, Breaking
  <2> QED
    BY <2>3, <2>5
<1>2. CASE Blocked(p)
  <2>1. ~TakeDir(p) /\ dir' = dir /\ pc'[p] = "read"
    BY <1>2 DEF Blocked, TakeDir, Goto, TypeOK
  <2> QED
    BY <1>n, <2>1 DEF Owns, Breaking
<1>3. CASE ReadPid(p)
  <2>1. ~TakeDir(p) /\ dir' = dir /\ pc'[p] = "probe" /\ seen'[p] = dir /\ dir \in Pids
    BY <1>3 DEF ReadPid, TakeDir, Goto, TypeOK
  <2>2. ASSUME NEW q \in Procs, Owns(q)' PROVE q = seen'[p] /\ pc'[q] # "write"
    <3>1. q # p /\ Owns(q) /\ pc'[q] = pc[q]
      BY <1>0, <2>1, <2>2 DEF Others, Owns
    <3>2. pc[q] # "write"
      BY <1>a, <2>1 DEF OwnerInv
    <3> QED
      BY <2>1, <3>1, <3>2 DEF Owns, OwnerInv
  <2> QED
    BY <1>n, <2>1, <2>2 DEF Owns
<1>4. CASE ReadNothing(p)
  <2>1. /\ ~TakeDir(p) /\ dir' = dir /\ dir \notin Procs
        /\ \/ pc'[p] = "mkdir"
           \/ pc'[p] = "unlink" /\ ret'[p] = "mkdir" /\ \A q \in Procs : pc[q] # "write"
    BY <1>4, <1>a DEF ReadNothing, TakeDir, Goto, Remove, TypeOK
  <2>2. ASSUME pc'[p] = "unlink", NEW q \in Procs \ {p} PROVE ~Owns(q)'
    BY <1>0, <2>1, <2>2 DEF Others, Owns, OwnerInv
  <2> QED
    BY <1>n, <2>1, <2>2 DEF Owns, Breaking
<1>5. CASE Probe(p)
  <2>1. /\ ~TakeDir(p) /\ dir' = dir /\ pc[p] = "probe"
        /\ \/ pc'[p] \in {"mkdir", "failed"}
           \/ pc'[p] = "unlink" /\ ret'[p] = "mkdir" /\ ~Alive(seen[p])
    BY <1>5 DEF Probe, TakeDir, Goto, Remove, TypeOK
  <2>2. ASSUME pc'[p] = "unlink", p \notin behind', NEW q \in Procs \ {p} PROVE ~Owns(q)'
    <3>1. p \notin behind
      BY <1>f, <2>1, <2>2 DEF Breaking
    <3>2. Owns(q) => q = seen[p]
      BY <2>1, <3>1 DEF BreakInv
    <3>3. Owns(q) => Alive(q)
      BY DEF Owns, Alive, Ended
    <3> QED
      BY <1>0, <2>1, <2>2, <3>2, <3>3 DEF Others, Owns
  <2> QED
    BY <1>n, <2>1, <2>2 DEF Owns, Breaking
\* A removal: that of who is behind finds nothing to remove any more.
<1>r. ASSUME ~TakeDir(p), pc[p] \in {"unlink", "rmdir"},
             pc'[p] \in {"mkdir", "done", "failed", "rmdir"},
             dir' \in {dir, NoDir, NoPid}, dir' = dir \/ p \notin behind, dir' # p
      PROVE  OwnerInv' /\ BreakInv'
  <2>1. ~Owns(p)'
    BY <1>r DEF Owns
  <2>2. CASE dir' = dir /\ pc'[p] # "rmdir"
    BY <1>n, <1>r, <2>1, <2>2 DEF Breaking
  <2>3. CASE p \in behind /\ pc'[p] = "rmdir"
    <3>1. p \in behind' /\ dir' = dir
      BY <1>f, <1>r, <2>3 DEF Breaking
    <3> QED
      BY <1>n, <1>r, <2>1, <2>3, <3>1
  <2>4. CASE p \notin behind
    <3>1. \A q \in Procs \ {p} : ~Owns(q)
      BY <1>r, <2>4 DEF BreakInv
    <3>2. \A q \in Procs : ~Owns(q)'
      BY <1>0, <1>a, <1>r, <2>1, <3>1 DEF Others, Owns
    <3> QED
      BY <3>2 DEF OwnerInv, BreakInv, Owns
  <2> QED
    BY <1>r, <2>2, <2>3, <2>4
<1>6. CASE Unlink(p)
  <2>1. /\ ~TakeDir(p) /\ pc[p] = "unlink"
        /\ \/ dir = NoDir /\ dir' = NoDir /\ pc'[p] \in {"mkdir", "done", "failed"}
           \/ dir' = NoPid /\ pc'[p] = "rmdir"
    BY <1>6 DEF Unlink, TakeDir, Goto, Return, TypeOK
  <2>2. dir' = dir \/ p \notin behind
    BY <1>6 DEF Unlink, Strikes
  <2> QED
    BY <1>a, <1>r, <2>1, <2>2
<1>7. CASE Rmdir(p)
  <2>1. /\ ~TakeDir(p) /\ pc[p] = "rmdir" /\ pc'[p] \in {"mkdir", "done", "failed"}
        /\ dir' \in {dir, NoDir}
    BY <1>7 DEF Rmdir, TakeDir, Goto, Return, TypeOK
  <2>2. dir' = dir \/ p \notin behind
    BY <1>7 DEF Rmdir, Strikes
  <2>3. CASE dir' # p
    BY <1>r, <2>1, <2>2, <2>3
  <2>4. CASE dir' = p
    <3>1. dir' = dir /\ ~Owns(p)'
      BY <1>a, <2>1, <2>4 DEF Owns
    <3> QED
      BY <1>n, <2>1, <3>1 DEF Breaking
  <2> QED
    BY <2>3, <2>4
<1>8. CASE WritePid(p)
  <2>0. pc[p] = "write" /\ dir = NoPid /\ Owns(p)
    BY <1>8 DEF WritePid, OwnerInv, Owns
  <2>1. ~TakeDir(p) /\ pc'[p] = "critical" /\ dir' = p
    BY <1>a, <1>8, <2>0 DEF WritePid, TakeDir, Goto, TypeOK
  <2>2. \A q \in Procs \ {p} : pc'[q] \notin {"write", "critical"}
    BY <1>0, <1>a, <2>0 DEF OwnerInv, Others
  <2>3. OwnerInv'
    BY <2>1, <2>2 DEF OwnerInv
  <2>4. \A r \in Procs \ behind' : pc'[r] \notin Breaking
    <3>1. \A r \in Procs \ behind : pc[r] \in Breaking => r = p
      BY <2>0 DEF BreakInv, Breaking
    <3> QED
      BY <1>0, <1>f, <2>1, <3>1 DEF Others, Breaking
  <2>5. BreakInv'
    BY <2>4 DEF BreakInv, Breaking
  <2> QED
    BY <2>3, <2>5
<1>9. CASE Release(p)
  <2>0. pc[p] = "critical" /\ dir = p /\ Owns(p)
    BY <1>9 DEF Release, OwnerInv, Owns
  <2>1. ~TakeDir(p) /\ pc'[p] = "unlink" /\ ret'[p] = "done" /\ dir' = dir
    BY <1>9, <2>0 DEF Release, TakeDir, Goto, Remove, TypeOK
  <2>2. \A q \in Procs \ {p} : ~Owns(q)'
    BY <1>0, <1>a, <2>0, <2>1 DEF Others, OwnerInv, Owns
  <2> QED
    BY <1>n, <2>0, <2>1, <2>2 DEF Owns
<1>10. CASE Die(p)
  <2>1. ~TakeDir(p) /\ pc'[p] = "dead" /\ dir' = dir
    BY <1>10 DEF Die, TakeDir, Goto, TypeOK, Ended
  <2> QED
    BY <1>n, <2>1 DEF Owns, Breaking
<1> QED
  BY <1>1, <1>2, <1>3, <1>4, <1>5, <1>6, <1>7, <1>8, <1>9, <1>10 DEF Acquire

LEMMA RacedStays ==
  ASSUME NEW p \in Procs, Acquire(p) \/ Release(p) \/ Die(p), raced
  PROVE  raced'
BY DEF Acquire, TakeDir, Blocked, ReadPid, ReadNothing, Probe, Unlink, Rmdir, Strikes, WritePid,
       Release, Die

LEMMA InvStep == Inv /\ [Next]_vars => Inv'
<1> SUFFICES ASSUME Inv, [Next]_vars PROVE Inv'
  OBVIOUS
<1>1. TypeOK /\ TypeOK' /\ PidInv /\ (raced \/ (OwnerInv /\ BreakInv))
  BY TypeStep DEF Inv, LockInv
<1>2. CASE UNCHANGED vars
  BY <1>1, <1>2 DEF Inv, vars, LockInv, OwnerInv, BreakInv, PidInv, Wrote, Owns
<1>3. CASE Next
  <2>1. PICK p \in Procs : Acquire(p) \/ Release(p) \/ Die(p)
    BY <1>3 DEF Next
  <2>2. PidInv'
    BY <1>1, <2>1, PidStep
  <2>3. ~raced' => OwnerInv' /\ BreakInv'
    BY <1>1, <2>1, OwnerStep, RacedStays
  <2> QED
    BY <1>1, <2>2, <2>3 DEF Inv, LockInv
<1> QED
  BY <1>2, <1>3

LEMMA InvExclusive == Inv => Exclusive
BY DEF Inv, LockInv, OwnerInv, Exclusive, MutualExclusion

\* At most one process works under the lock, for any number of processes and wherever
\* they die, until a removal comes too late or hits who has yet to write its pid.
THEOREM LockIsExclusive == Spec => []Exclusive
BY InitInv, InvStep, InvExclusive, PTL DEF Spec

\* No other step takes the directory from an owner that works.
LEMMA StealStep == Inv /\ [Next]_vars => [raced' \/ StealsNothing]_vars
<1> SUFFICES ASSUME Inv, Next, ~raced', dir \in Procs, dir' # dir
             PROVE  pc[dir] \in Ended \cup {"unlink"}
  BY DEF StealsNothing
<1>a. /\ dir # NoDir /\ dir # NoPid
  BY PidsAssumption
<1>1. PICK p \in Procs : Acquire(p) \/ Release(p) \/ Die(p)
  BY DEF Next
<1>0. TypeOK /\ OwnerInv /\ BreakInv /\ PidInv
  BY <1>1, RacedStays DEF Inv, LockInv
<1>2. Unlink(p)
  BY <1>0, <1>1, <1>a DEF Acquire, TakeDir, Blocked, ReadPid, ReadNothing, Probe, Rmdir,
                          WritePid, Release, Die, OwnerInv
<1>3. p \notin behind
  BY <1>2 DEF Unlink, Strikes
<1>4. CASE p = dir
  BY <1>2, <1>4 DEF Unlink
<1>5. CASE p # dir
  <2>1. ~Owns(dir)
    BY <1>2, <1>3, <1>0, <1>5 DEF Unlink, BreakInv
  <2> QED
    BY <1>0, <2>1 DEF PidInv, Wrote, Owns
<1> QED
  BY <1>4, <1>5

\* Until then no process removes or overwrites the lock of one that works.
THEOREM LockIsNotStolen == Spec => NeverStolen
BY InitInv, InvStep, StealStep, PTL DEF Spec, NeverStolen

\* Who gives up at a pid that is alive has met an owner of the lock, raced or not, or
\* the pid of another program.
LEMMA BusyStep == Inv /\ [Next]_vars => [GivesUpIfBusy]_vars
<1> SUFFICES ASSUME Inv, Next, NEW p \in Procs, pc[p] = "probe", pc'[p] = "failed",
                    seen[p] # Stranger
             PROVE  Busy(p)
  BY DEF GivesUpIfBusy, vars
<1>0. TypeOK /\ PidInv
  BY DEF Inv, LockInv
<1>1. PICK r \in Procs : Acquire(r) \/ Release(r) \/ Die(r)
  BY DEF Next
<1>2. r = p
  BY <1>0, <1>1, StepFrame DEF Others
<1>3. Probe(p)
  BY <1>0, <1>1, <1>2 DEF Acquire, TakeDir, Blocked, ReadPid, ReadNothing, Unlink, Rmdir,
                          WritePid, Release, Die, Goto, TypeOK
<1>4. Alive(seen[p])
  BY <1>0, <1>3 DEF Probe, Remove, Goto, TypeOK
<1>5. seen[p] \in Procs /\ pc[seen[p]] \notin Ended /\ Wrote(seen[p])
  BY <1>0, <1>4 DEF Alive, PidInv
<1> QED
  BY <1>5 DEF Wrote, Busy

\* A process that gives up as busy is right, unless the lock directory, which outlives
\* a reboot, names a pid that another program has now.
THEOREM BusyIsRight == Spec => BusyIsTrue
BY InitInv, InvStep, BusyStep, PTL DEF Spec, BusyIsTrue

\* The three together, which is what the installer and every command can rely on.
THEOREM LockIsSound == Spec => LockHolds
BY LockIsExclusive, LockIsNotStolen, BusyIsRight DEF LockHolds

(***************************************************************************)
(* The installer                                                           *)
(***************************************************************************)
\* The steps of install_files at which it has the lock for sure.
Filed == {"snapshot", "backup", "promote", "undo"}
\* The steps at which the lock is no longer the installer's.
Unlocked == {"update", "updating", "recover", "recovering", "commit", "record",
             "installed", "failed"}
\* The steps before it starts boot_recover, and before it starts _update.
NoRecoverer == {"preflight", "update", "updating", "recover"} \cup Filing
NoUpdater == {"preflight", "update"} \cup Filing

\* What is done, or has given up, has no directory in its name, and neither has an
\* installer that was stopped; only one that is killed leaves it.
EndedInv ==
  /\ \A p \in Procs : pc[p] \in {"done", "failed"} => dir # p
  /\ phase # "crashed" /\ pc[Main] \in Ended => dir # Main

\* Where the installer and its children are at each of its steps.
PhaseInv ==
  /\ phase = "preflight" => pc[Main] = "done"
  /\ phase \in Filed => pc[Main] = "critical"
  /\ phase \in Filing => pc[Main] # "dead"
  /\ phase \in Unlocked => pc[Main] \in Ended
  /\ phase \in NoUpdater => pc[Updater] = "done"
  /\ phase \in NoRecoverer => pc[Recoverer] = "done"

\* What has not begun has written no pid that anybody could have read.
Unbegun(p) == \/ p = Main /\ phase = "preflight"
              \/ p = Updater /\ phase \in NoUpdater
              \/ p = Recoverer /\ phase \in NoRecoverer
UnseenInv == \A p \in Procs : Unbegun(p) => dir # p /\ \A q \in Procs : seen[q] # p

SharedInv == Inv /\ EndedInv /\ PhaseInv /\ UnseenInv

(***************************************************************************)
(* The steps of the lock itself.                                           *)
(***************************************************************************)
LEMMA LockFrame ==
  ASSUME Inv, NEW p \in Procs, Acquire(p) \/ Release(p) \/ (Die(p) /\ p # Main)
  PROVE  /\ pc[p] \notin Ended
         /\ Others(p)
         /\ dir' \in {dir, NoDir, NoPid, p}
         /\ \A q \in Procs : seen'[q] \in {seen[q], NoPid, dir}
         /\ pc'[p] = "dead" => p # Main
         /\ pc'[p] \in {"done", "failed"} => dir' # p
<1>0. TypeOK /\ PidInv /\ NoPid \notin Procs /\ NoDir \notin Procs
  BY PidsAssumption DEF Inv, LockInv
<1>1. Others(p) /\ \A q \in Procs : seen'[q] \in {seen[q], NoPid, dir}
  BY <1>0, StepFrame, DirStep DEF Others
<1>2. dir = p => \/ pc[p] \in Ended \cup {"critical"}
                 \/ pc[p] = "unlink" /\ ret[p] = "done"
  BY <1>0 DEF PidInv, Wrote
<1>3. CASE TakeDir(p) \/ Blocked(p) \/ ReadPid(p) \/ ReadNothing(p) \/ Probe(p)
  BY <1>0, <1>1, <1>2, <1>3 DEF TakeDir, Blocked, ReadPid, ReadNothing, Probe, Goto, Remove,
                                TypeOK, Ended
<1>4. CASE Unlink(p) \/ Rmdir(p)
  BY <1>0, <1>1, <1>2, <1>4 DEF Unlink, Rmdir, Goto, Return, TypeOK, Ended
<1>5. CASE WritePid(p) \/ Release(p)
  BY <1>0, <1>1, <1>5 DEF WritePid, Release, Goto, Remove, TypeOK, Ended
<1>6. CASE Die(p) /\ p # Main
  BY <1>0, <1>1, <1>6 DEF Die, Goto, TypeOK, Ended
<1> QED
  BY <1>3, <1>4, <1>5, <1>6 DEF Acquire

\* No step of the lock: the directory and what was read stay, and no removal gets
\* behind, or up.
Aside == /\ UNCHANGED <<dir, ret, seen, empties, tries, raced>>
         /\ behind' \subseteq {q \in Procs : pc'[q] \in Breaking}
         /\ \A q \in Procs : pc'[q] \in Breaking => (q \in behind' <=> q \in behind)

LEMMA AsideInv ==
  ASSUME Inv, Aside, pc' \in [Procs -> Steps], PidInv',
         \A q \in Procs : /\ Owns(q)' => Owns(q)
                          /\ pc'[q] \in {"write"} \cup Breaking => pc'[q] = pc[q]
                          /\ pc'[q] = "critical" => pc[q] = "critical" \/ dir = q
  PROVE  Inv'
<1>1. TypeOK'
  BY DEF Inv, TypeOK, Aside
<1>2. OwnerInv => OwnerInv'
  BY DEF OwnerInv, Aside
<1>3. BreakInv => BreakInv'
  BY DEF BreakInv, Aside, Breaking
<1>4. LockInv'
  BY <1>2, <1>3 DEF Inv, LockInv, Aside
<1> QED
  BY <1>1, <1>4 DEF Inv

LEMMA AsideTakesNothing ==
  ASSUME Aside, \A q \in Procs : pc'[q] = "failed" => pc[q] = "failed"
  PROVE  StealsNothing /\ GivesUpIfBusy
BY DEF Aside, StealsNothing, GivesUpIfBusy

\* A CLI or the installer begins.
LEMMA BeginStep ==
  ASSUME SharedInv, NEW p \in Procs, pc[p] = "done", Unbegun(p), Begins(p)
  PROVE  /\ Inv' /\ UNCHANGED <<dir, seen>>
         /\ pc'[p] = "mkdir" /\ \A q \in Procs \ {p} : pc'[q] = pc[q]
         /\ StealsNothing /\ GivesUpIfBusy
<1>0. /\ Inv /\ TypeOK /\ PidInv
      /\ dir # p /\ \A q \in Procs : seen[q] # p
  BY DEF SharedInv, Inv, LockInv, UnseenInv
<1>1. /\ pc'[p] = "mkdir" /\ \A q \in Procs \ {p} : pc'[q] = pc[q]
      /\ pc' \in [Procs -> Steps]
  BY <1>0 DEF Begins, Goto, TypeOK, Steps
<1>2. Aside
  <2>1. behind' = behind \ {p} /\ p \notin behind
    BY <1>0 DEF Begins, Goto, TypeOK, Breaking
  <2> QED
    BY <1>0, <1>1, <2>1 DEF Begins, Aside, TypeOK
<1>3. PidInv'
  BY <1>0, <1>1, <1>2 DEF PidInv, Wrote, Aside
<1>4. \A q \in Procs : Owns(q)' => Owns(q)
  BY <1>1, <1>2 DEF Owns, Aside
<1>5. Inv'
  BY <1>0, <1>1, <1>2, <1>3, <1>4, AsideInv DEF Breaking
<1> QED
  BY <1>1, <1>2, <1>5, AsideTakesNothing DEF Aside

\* Some processes end where they are.
LEMMA DeathsStep ==
  ASSUME Inv, Aside, pc' \in [Procs -> Steps],
         \A q \in Procs : pc'[q] \in {pc[q], "dead"}
  PROVE  Inv' /\ StealsNothing /\ GivesUpIfBusy
<1>1. PidInv'
  BY DEF Inv, LockInv, PidInv, Wrote, Aside, Ended
<1>2. \A q \in Procs : Owns(q)' => Owns(q)
  BY DEF Owns, Aside
<1>3. Inv'
  BY <1>1, <1>2, AsideInv DEF Breaking
<1> QED
  BY <1>3, AsideTakesNothing

\* The shell that runs install_files ends, and its parent goes on with the lock.
LEMMA StopFilingStep ==
  ASSUME SharedInv, StopFiling, Aside
  PROVE  /\ Inv' /\ StealsNothing /\ GivesUpIfBusy
         /\ \A q \in Procs \ {Main} : pc'[q] = pc[q]
         /\ pc'[Main] = IF dir = Main THEN "critical" ELSE "dead"
<1>0. /\ Inv /\ TypeOK /\ PidInv
      /\ Main \in Procs /\ pc[Main] # "dead"
      /\ pc[Main] \in {"done", "failed"} => dir # Main
  BY ProcsAssumption DEF SharedInv, Inv, LockInv, EndedInv, PhaseInv, StopFiling
<1>1. /\ \A q \in Procs \ {Main} : pc'[q] = pc[q]
      /\ pc'[Main] = IF dir = Main THEN "critical" ELSE "dead"
      /\ pc' \in [Procs -> Steps]
  BY <1>0 DEF StopFiling, TypeOK, Steps, Ended
<1>2. CASE dir # Main
  BY <1>0, <1>1, <1>2, DeathsStep
<1>3. CASE dir = Main
  <2>1. Owns(Main)
    BY <1>0, <1>3 DEF PidInv, Wrote, Owns, Ended
  <2>2. \A q \in Procs : Owns(q)' => Owns(q)
    BY <1>1, <2>1 DEF Owns, Aside
  <2>3. PidInv'
    BY <1>0, <1>1, <1>3 DEF PidInv, Wrote, Aside
  <2>4. Inv'
    BY <1>0, <1>1, <1>3, <2>2, <2>3, AsideInv DEF Breaking
  <2> QED
    BY <1>1, <1>3, <2>4, AsideTakesNothing
<1> QED
  BY <1>2, <1>3

(***************************************************************************)
(* The steps of the installer.                                             *)
(***************************************************************************)
\* Steps at which the lock is left alone.
Apart == \/ Stage \/ GivesUp \/ Snapshot \/ Backup \/ Promote \/ RestoreFile \/ Restored
         \/ FilesEnd \/ ChildEnds(Updater, "updating", "recover")
         \/ ChildEnds(Recoverer, "recovering", "commit")
         \/ Commit \/ Record \/ Cleanup \/ RestoreUnits \/ Leave
         \/ (Preflight /\ UNCHANGED vars)

\* What no step of boot_recover changes.
LEMMA RecoverFrame ==
  ASSUME Recover
  PROVE  /\ pc[Recoverer] = "critical" /\ work[Recoverer] \in {"todo", "unit", "config"}
         /\ UNCHANGED <<vars, phase, at, ok, disk, autostart, healthy, fails, pending,
                        partial, meddled>>
BY DEF Recover, RecoverUnit, RecoverConfig, RecoverCore, RecoverFails, RecoverAt

LEMMA Moves ==
  ASSUME TypeOK, [NextInstaller]_allVars
  PROVE  \/ \E p \in Procs : /\ Acquire(p) \/ Release(p) \/ (Die(p) /\ p # Main)
                             /\ p = Main => phase \in {"files", "free", "release"}
                             /\ UNCHANGED setup
         \/ Apart
         \/ UNCHANGED <<vars, phase>>
         \/ Begins(Main) /\ Step("preflight", "files")
         \/ Begins(Updater) /\ Step("update", "updating")
         \/ Begins(Recoverer) /\ Step("recover", "recovering")
         \/ Aside /\ StopFiling
         \/ Aside /\ StopChild
         \/ /\ Aside /\ UNCHANGED pc /\ phase' = "cleanup"
            /\ phase \in {"preflight", "recovering", "commit", "record"}
         \/ Aside /\ Crash
<1>1. CASE Advance
  <2>1. CASE LetsGo
    BY <2>1, ProcsAssumption DEF LetsGo
  <2>2. CASE Preflight \/ StartChild
    BY <2>2 DEF Preflight, StartChild, Apart
  <2> QED
    BY <1>1, <2>1, <2>2 DEF Advance, Apart
<1>2. CASE Update \/ Recover \/ Settle
  BY <1>2, RecoverFrame DEF Update, Settle
<1>3. CASE Signal
  <2>1. Aside
    BY <1>3 DEF Signal, Aside, TypeOK
  <2> QED
    BY <1>3, <2>1 DEF Signal, StopRecovery
<1>4. CASE Crash
  <2>1. \A q \in Procs \ {Main} : pc'[q] = pc[q]
    BY <1>4 DEF Crash, TypeOK
  <2>2. pc'[Main] \notin Breaking
    BY <1>4, ProcsAssumption DEF Crash, TypeOK, Ended, Breaking
  <2>3. Aside
    BY <1>4, <2>1, <2>2 DEF Crash, Aside, TypeOK
  <2> QED
    BY <1>4, <2>3
<1>5. ASSUME NEW p \in Procs, LockStep(p) \/ Unlock(p) \/ Command(p) \/ Dies(p)
      PROVE  \/ /\ Acquire(p) \/ Release(p) \/ (Die(p) /\ p # Main)
                /\ p = Main => phase \in {"files", "free", "release"}
                /\ UNCHANGED setup
             \/ UNCHANGED <<vars, phase>>
  BY <1>5 DEF LockStep, MayLock, Unlock, Command, Dies
<1>6. CASE UNCHANGED allVars
  BY <1>6 DEF allVars, setup
<1> QED
  BY <1>1, <1>2, <1>3, <1>4, <1>5, <1>6 DEF NextInstaller

LEMMA ApartFrame == Apart => UNCHANGED vars /\ phase # "crashed"
BY DEF Apart, Stage, GivesUp, Snapshot, Backup, Promote, RestoreFile, Restored, FilesEnd,
       ChildEnds, Commit, Record, Cleanup, RestoreUnits, Leave, Leaves, Preflight, Step

LEMMA ApartPhase == PhaseInv /\ Apart => PhaseInv'
<1> SUFFICES ASSUME PhaseInv, Apart PROVE PhaseInv'
  OBVIOUS
<1>0. pc' = pc
  BY ApartFrame DEF vars
<1> USE <1>0 DEF PhaseInv, Filed, Filing, Unlocked, NoUpdater, NoRecoverer, Step
<1>1. CASE Stage \/ GivesUp \/ Snapshot \/ Backup
  BY <1>1 DEF Stage, GivesUp, Snapshot, Backup
<1>2. CASE Promote
  <2>1. phase = "promote" /\ phase' \in {"free", "promote", "undo"}
    BY <1>2 DEF Promote, Promoting
  <2> QED
    BY <2>1
<1>3. CASE RestoreFile \/ Restored
  BY <1>3 DEF RestoreFile, Restored
<1>4. CASE FilesEnd
  BY <1>4 DEF FilesEnd, Ended
<1>5. CASE ChildEnds(Updater, "updating", "recover")
  BY <1>5 DEF ChildEnds
<1>6. CASE ChildEnds(Recoverer, "recovering", "commit")
  BY <1>6 DEF ChildEnds
<1>7. CASE Commit \/ Record \/ Cleanup \/ RestoreUnits
  BY <1>7 DEF Commit, Record, Cleanup, RestoreUnits
<1>8. CASE Leave \/ (Preflight /\ UNCHANGED vars)
  <2>1. \/ phase' = "failed" /\ pc[Main] \in Ended
        \/ phase' = "cleanup"
        \/ Begins(Main)
    BY <1>8 DEF Leave, Leaves, Preflight
  <2>2. CASE Begins(Main)
    BY <1>8, <2>2 DEF Leave, Leaves, Preflight, Begins
  <2> QED
    BY <2>1, <2>2
<1> QED
  BY <1>1, <1>2, <1>3, <1>4, <1>5, <1>6, <1>7, <1>8 DEF Apart

LEMMA InitShared == InitInstaller => SharedInv
<1> SUFFICES ASSUME InitInstaller PROVE SharedInv
  OBVIOUS
<1>0. /\ Main \in Procs \ Commands /\ Updater \in Procs \ Commands
      /\ Recoverer \in Procs \ Commands
      /\ dir \notin Procs /\ dir \in Dirs /\ NoPid \notin Procs
      /\ \A q \in Procs : seen[q] = NoPid
  BY ProcsAssumption, InitDirsAssumption, PidsAssumption DEF InitInstaller, Commands, Children, Dirs
<1>1. \A p \in Procs : pc[p] \in {"mkdir", "done"} /\ ~Owns(p)
  <2>1. pc = [p \in Procs |-> IF p \in Commands THEN "mkdir" ELSE "done"]
    BY DEF InitInstaller
  <2>2. \A p \in Procs : pc[p] = "mkdir" \/ pc[p] = "done"
    BY <2>1
  <2> QED
    BY <2>2 DEF Owns
<1>2. TypeOK
  <2>1. 0 \in 0..(MaxEmpty - 1) /\ 0 \in 0..(MaxTries - 1)
    BY BoundsAssumption
  <2> QED
    BY <1>0, <2>1 DEF InitInstaller, TypeOK, Steps, Ended
<1>3. LockInv
  BY <1>0, <1>1 DEF LockInv, OwnerInv, BreakInv, PidInv, Wrote
<1>4. EndedInv /\ PhaseInv /\ UnseenInv
  BY <1>0, <1>1 DEF InitInstaller, EndedInv, PhaseInv, UnseenInv, Filed, Filing, Unlocked
<1> QED
  BY <1>2, <1>3, <1>4 DEF SharedInv, Inv

\* Nobody begins twice.
LEMMA UnbegunStays ==
  ASSUME TypeOK, [NextInstaller]_allVars, NEW p \in Procs, Unbegun(p)'
  PROVE  Unbegun(p)
<1> DEFINE Forward == /\ phase' = "files" => phase = "preflight"
                      /\ phase' \in {"snapshot", "backup", "promote", "undo", "free"} =>
                           phase \in Filing
                      /\ phase' = "update" => phase \in Filing
                      /\ phase' # "preflight"
                      /\ phase' = "updating" => phase = "update"
                      /\ phase' = "recover" => phase = "updating"
<1>1. phase' = phase \/ Forward
  <2>1. CASE Apart
    BY <2>1 DEF Apart, Stage, GivesUp, Snapshot, Backup, Promote, Promoting, RestoreFile,
                Restored, FilesEnd, ChildEnds, Commit, Record, Cleanup, RestoreUnits, Leave,
                Leaves, Preflight, Step, Filing
  <2>2. CASE StopFiling \/ StopChild \/ Crash
    BY <2>2 DEF StopFiling, StopChild, Crash, Filing
  <2> QED
    BY <2>1, <2>2, Moves DEF setup, Step, Filing
<1>2. phase \in NoUpdater \/ phase' \notin NoUpdater
  BY <1>1 DEF NoUpdater, Filing
<1>3. phase \in NoRecoverer \/ phase' \notin NoRecoverer
  BY <1>1 DEF NoRecoverer, Filing
<1>4. phase' = "preflight" => phase = "preflight"
  BY <1>1
<1> QED
  BY <1>2, <1>3, <1>4 DEF Unbegun

\* Every step keeps what the lock gives, and takes it from nobody.
LEMMA SharedStep ==
  SharedInv /\ [NextInstaller]_allVars =>
    SharedInv' /\ [raced' \/ StealsNothing]_vars /\ [GivesUpIfBusy]_vars
<1> SUFFICES ASSUME SharedInv, [NextInstaller]_allVars
             PROVE  SharedInv' /\ [raced' \/ StealsNothing]_vars /\ [GivesUpIfBusy]_vars
  OBVIOUS
<1>0. /\ Inv /\ TypeOK /\ EndedInv /\ PhaseInv /\ UnseenInv
      /\ Main \in Procs /\ Updater \in Procs /\ Recoverer \in Procs
      /\ Main \notin Children /\ Updater # Main /\ Recoverer # Main /\ Updater # Recoverer
      /\ NoPid \notin Procs /\ NoDir \notin Procs
  BY ProcsAssumption, PidsAssumption DEF SharedInv, Inv, Children
<1>u. /\ \A p \in Procs : Unbegun(p)' => Unbegun(p)
      /\ \A p \in Procs : Unbegun(p) => pc[p] = "done" /\ dir # p /\ \A q \in Procs : seen[q] # p
  BY <1>0, UnbegunStays DEF Unbegun, PhaseInv, UnseenInv
<1>s. UNCHANGED <<dir, seen>> => UnseenInv'
  BY <1>u DEF UnseenInv
<1>1. ASSUME NEW p \in Procs, Acquire(p) \/ Release(p) \/ (Die(p) /\ p # Main),
             p = Main => phase \in {"files", "free", "release"}, UNCHANGED setup
      PROVE  SharedInv' /\ [raced' \/ StealsNothing]_vars /\ [GivesUpIfBusy]_vars
  <2>1. Next /\ phase' = phase
    BY <1>1 DEF Next, setup
  <2>2. /\ pc[p] \notin Ended
        /\ \A q \in Procs \ {p} : pc'[q] = pc[q]
        /\ dir' \in {dir, NoDir, NoPid, p}
        /\ \A q \in Procs : seen'[q] \in {seen[q], NoPid, dir}
        /\ p = Main => pc'[p] # "dead"
        /\ pc'[p] \in {"done", "failed"} => dir' # p
    BY <1>0, <1>1, LockFrame DEF Others
  <2>3. EndedInv'
    BY <1>0, <2>1, <2>2 DEF EndedInv, Ended
  <2>4. PhaseInv'
    BY <1>0, <1>1, <2>1, <2>2 DEF PhaseInv, Ended, Filed, Filing, Unlocked, NoUpdater, NoRecoverer
  <2>5. UnseenInv'
    <3>1. ASSUME NEW q \in Procs, Unbegun(q)' PROVE dir' # q /\ \A r \in Procs : seen'[r] # q
      <4>1. pc[q] = "done" /\ dir # q /\ \A r \in Procs : seen[r] # q
        BY <1>u, <3>1
      <4> QED
        BY <1>0, <2>2, <4>1 DEF Ended
    <3> QED
      BY <3>1 DEF UnseenInv
  <2> QED
    BY <1>0, <2>1, <2>3, <2>4, <2>5, InvStep, StealStep, BusyStep DEF SharedInv
<1>2. CASE Apart \/ UNCHANGED <<vars, phase>>
  <2>1. UNCHANGED vars /\ UNCHANGED <<dir, seen>>
    BY <1>2, ApartFrame DEF vars
  <2>2. Inv'
    BY <1>0, <2>1, InvStep
  <2>3. EndedInv'
    BY <1>0, <1>2, <2>1, ApartFrame DEF vars, EndedInv
  <2>4. PhaseInv'
    BY <1>0, <1>2, ApartPhase DEF vars, PhaseInv
  <2> QED
    BY <1>s, <2>1, <2>2, <2>3, <2>4 DEF SharedInv
<1>3. ASSUME NEW p \in {Main, Updater, Recoverer}, Begins(p),
             \/ p = Main /\ Step("preflight", "files")
             \/ p = Updater /\ Step("update", "updating")
             \/ p = Recoverer /\ Step("recover", "recovering")
      PROVE  SharedInv' /\ StealsNothing /\ GivesUpIfBusy
  <2>1. Unbegun(p) /\ p \in Procs
    BY <1>0, <1>3 DEF Unbegun, NoUpdater, NoRecoverer, Step
  <2>2. /\ Inv' /\ UNCHANGED <<dir, seen>> /\ pc'[p] = "mkdir"
        /\ \A q \in Procs \ {p} : pc'[q] = pc[q]
        /\ StealsNothing /\ GivesUpIfBusy
    BY <1>3, <1>u, <2>1, BeginStep
  <2>3. EndedInv'
    BY <1>0, <1>3, <2>1, <2>2 DEF EndedInv, Ended, Step
  <2>4. PhaseInv'
    BY <1>0, <1>3, <2>1, <2>2 DEF PhaseInv, Filed, Filing, Unlocked, NoUpdater, NoRecoverer, Step
  <2> QED
    BY <1>s, <2>2, <2>3, <2>4 DEF SharedInv
<1>4. CASE Aside /\ StopFiling
  <2>1. /\ Inv' /\ StealsNothing /\ GivesUpIfBusy
        /\ \A q \in Procs \ {Main} : pc'[q] = pc[q]
        /\ pc'[Main] = IF dir = Main THEN "critical" ELSE "dead"
    BY <1>4, StopFilingStep
  <2>2. UNCHANGED <<dir, seen>> /\ phase' = "cleanup" /\ phase # "crashed"
    BY <1>4 DEF Aside, StopFiling, Filing
  <2>3. EndedInv'
    BY <1>0, <2>1, <2>2 DEF EndedInv, Ended
  <2>4. PhaseInv'
    BY <2>2 DEF PhaseInv, Filed, Filing, Unlocked, NoUpdater, NoRecoverer
  <2> QED
    BY <1>s, <2>1, <2>2, <2>3, <2>4 DEF SharedInv
<1>5. CASE Aside /\ StopChild
  <2>1. /\ pc' \in [Procs -> Steps] /\ \A q \in Procs : pc'[q] \in {pc[q], "dead"}
        /\ pc'[Main] = pc[Main]
    BY <1>0, <1>5 DEF StopChild, TypeOK, Steps, Ended
  <2>2. UNCHANGED <<dir, seen>> /\ phase' = "stopping" /\ phase # "crashed"
    BY <1>5 DEF Aside, StopChild
  <2>3. EndedInv'
    BY <1>0, <2>1, <2>2 DEF EndedInv
  <2>4. PhaseInv'
    BY <2>2 DEF PhaseInv, Filed, Filing, Unlocked, NoUpdater, NoRecoverer
  <2> QED
    BY <1>0, <1>5, <1>s, <2>1, <2>2, <2>3, <2>4, DeathsStep DEF SharedInv
<1>6. CASE /\ Aside /\ UNCHANGED pc /\ phase' = "cleanup"
           /\ phase \in {"preflight", "recovering", "commit", "record"}
  <2>1. Inv' /\ StealsNothing /\ GivesUpIfBusy
    BY <1>0, <1>6, DeathsStep DEF TypeOK
  <2>2. UNCHANGED <<dir, seen>>
    BY <1>6 DEF Aside
  <2>3. EndedInv' /\ PhaseInv'
    BY <1>0, <1>6, <2>2 DEF EndedInv, PhaseInv, Filed, Filing, Unlocked, NoUpdater, NoRecoverer
  <2> QED
    BY <1>s, <2>1, <2>2, <2>3 DEF SharedInv
<1>7. CASE Aside /\ Crash
  <2>1. /\ pc' \in [Procs -> Steps] /\ \A q \in Procs : pc'[q] \in {pc[q], "dead"}
        /\ UNCHANGED <<dir, seen>> /\ phase' = "crashed"
    BY <1>0, <1>7 DEF Crash, Aside, TypeOK, Steps, Ended
  <2>2. EndedInv' /\ PhaseInv'
    BY <1>0, <2>1 DEF EndedInv, PhaseInv, Filed, Filing, Unlocked, NoUpdater, NoRecoverer
  <2> QED
    BY <1>0, <1>7, <1>s, <2>1, <2>2, DeathsStep DEF SharedInv
<1> QED
  BY <1>0, <1>1, <1>2, <1>3, <1>4, <1>5, <1>6, <1>7, Moves

\* Among an installer, what it starts and leaves behind, and the commands of others the
\* lock gives what CliLock proves of its own processes; with signals to the installer,
\* and kills anywhere.
THEOREM LockServesAll == InstallerSpec => LockHolds
<1>1. SharedInv => Exclusive
  BY InvExclusive DEF SharedInv
<1> QED
  BY InitShared, SharedStep, <1>1, PTL DEF InstallerSpec, LockHolds, NeverStolen, BusyIsTrue

\* While an operation works under the lock the scripts that it runs from stay those
\* of one version, unless a clean-up puts them back, a mv is on its way or the lock was
\* raced.
THEOREM ScriptsStay == InstallerSpec => ScriptsHoldStill
<1>1. SharedInv /\ [NextInstaller]_allVars =>
        [/\ \E p \in Procs \ {Main} : pc[p] = "critical"
         /\ ~raced /\ phase # "restore" /\ pending = Nothing
         => \A f \in Scripts : files'[f] = files[f]]_allVars
  <2> SUFFICES ASSUME SharedInv, NextInstaller,
                      NEW p \in Procs \ {Main}, pc[p] = "critical",
                      ~raced, phase # "restore", pending = Nothing, NEW f \in Scripts
               PROVE  files'[f] = files[f]
    OBVIOUS
  <2>1. phase \notin Filed
    BY ProcsAssumption DEF SharedInv, Inv, LockInv, OwnerInv, PhaseInv
  <2>2. ASSUME Promote \/ RestoreFile \/ Settle PROVE FALSE
    BY <2>1, <2>2 DEF Promote, RestoreFile, Settle, Filed
  <2>3. CASE UNCHANGED files
    BY <2>3
  <2>4. CASE files' = [files EXCEPT !["cores"] = "new"]
    BY <2>4 DEF Scripts
  <2>5. CASE Advance
    BY <2>2, <2>3, <2>5 DEF Advance, Preflight, Stage, GivesUp, Snapshot, Backup, Restored, LetsGo,
                      FilesEnd, StartChild, ChildEnds, Commit, Record, Cleanup, RestoreUnits,
                      Leave, setup, disk
  <2>6. CASE Update \/ Recover
    BY <2>3, <2>4, <2>6, RecoverFrame DEF Update, disk
  <2>7. CASE Signal \/ Crash
    BY <2>3, <2>7 DEF Signal, Crash, disk
  <2>8. ASSUME NEW q \in Procs, LockStep(q) \/ Unlock(q) \/ Command(q) \/ Dies(q)
        PROVE  files'[f] = files[f]
    BY <2>3, <2>4, <2>8 DEF LockStep, Unlock, Command, Import, UpdateCores, Stop, Dies, setup, disk
  <2> QED
    BY <2>2, <2>5, <2>6, <2>7, <2>8 DEF NextInstaller
<1> QED
  BY InitShared, SharedStep, <1>1, PTL DEF InstallerSpec, ScriptsHoldStill

(***************************************************************************)
(* What an installer that ends has left of the old and the new version.    *)
(***************************************************************************)
Early == {"preflight", "files", "snapshot", "backup"}
\* The steps at which the new version is in place and may still be undone.
Placed == {"update", "updating", "recover", "recovering", "commit"}
Committed == {"record", "installed"}

\* Only the hook is copied in place, where half of it may be left.
TypedInv == /\ InstallerTypeOK
            /\ \A f \in Files \ {"hook"} : files[f] \in Versions
            /\ work \in [Procs -> {"todo", "unit", "config", "done", "failed"}]

\* The clean-up, next to which a boot_recover may go on that was left behind.
Cleaning == {"cleanup", "restore", "units", "release", "failed"}

\* _update works only while the installer waits for it.
ChildInv ==
  /\ phase \notin {"updating", "stopping", "crashed"} => pc[Updater] \in Ended
  /\ phase \notin {"recovering", "crashed"} \cup Cleaning => pc[Recoverer] \in Ended

CoresKept == ~meddled /\ backup # Nothing => files["cores"] = backup["cores"]
OneVersion == All("new") \/ (All("old") /\ CoresKept)

\* Which files each step finds, as long as nothing has failed to be put back.
FilesInv ==
  /\ backup # Nothing => \A f \in Scripts : backup[f] = "old"
  /\ phase \in Early \cup {"promote", "free"} \cup Placed \cup Committed =>
       ~partial /\ pending = Nothing
  /\ phase \in Early => ok /\ backup = Nothing /\ ~marked /\ All("old")
  /\ phase = "promote" => /\ ok /\ marked /\ at \in 1 .. 3 /\ CoresKept
                          /\ \A i \in 1 .. 3 :
                               files[Promoted[i]] = IF i < at THEN "new" ELSE "old"
  /\ phase = "undo" => marked /\ (ok <=> ~partial) /\ pending = Nothing /\ CoresKept
  /\ phase \in {"restore", "stopping"} => marked
  /\ phase \in {"undo", "restore"} /\ ~partial =>
       /\ ok
       /\ \A i \in {1, 2, 4} : i < at => files[RestoreOrder[i]] = backup[RestoreOrder[i]]
       /\ 3 < at => CoresKept
  /\ phase = "free" => /\ CoresKept
                       /\ IF ok THEN marked /\ All("new") ELSE ~marked /\ All("old")
  /\ phase \in Placed => marked /\ All("new")
  /\ phase \in Committed => ~marked /\ All("new")
  /\ phase = "cleanup" /\ ~partial /\ ~marked => pending = Nothing /\ OneVersion
  /\ phase \in {"units", "release", "failed"} /\ ~partial => ~marked /\ OneVersion

\* The unit is put back as the last thing that the clean-up does.
UnitInv ==
  phase \in {"release", "failed"} /\ ~partial /\ ~meddled /\ ~outlived /\ saved # Nothing =>
    unit = saved.unit

\* The steps at which boot_recover has yet to begin.
Before == Early \cup Filing \cup {"update", "updating", "recover"}
Partway == phase = "recovering" /\ work[Recoverer] \in {"unit", "config"}
Ready == \/ phase = "recovering" /\ work[Recoverer] = "done"
         \/ phase \in {"commit"} \cup Committed
Renewed == backup # Nothing /\ (~meddled => unit = "new")
Working == Renewed /\ (~meddled /\ autostart => /\ running \in healthy
                                                /\ running = <<files["cores"], config>>)

\* From its first step on the unit is the new one, and from its end on the service.
ServedInv ==
  /\ phase \in Before => work[Recoverer] = "todo"
  /\ Partway => Renewed
  /\ Ready => Working

VersionInv == TypedInv /\ ChildInv /\ FilesInv /\ UnitInv /\ ServedInv

LEMMA Orders ==
  /\ Len(Promoted) = 3
  /\ Promoted[1] = "cli" /\ Promoted[2] = "helpers" /\ Promoted[3] = "hook"
  /\ Len(RestoreOrder) = 4
  /\ RestoreOrder[1] = "cli" /\ RestoreOrder[2] = "helpers"
  /\ RestoreOrder[3] = "cores" /\ RestoreOrder[4] = "hook"
  /\ Scripts = {"cli", "helpers", "hook"}
  /\ Files = {"cli", "helpers", "cores", "hook"}
BY DEF Promoted, RestoreOrder, Scripts, Files

LEMMA InitVersion == InitInstaller => VersionInv
<1> SUFFICES ASSUME InitInstaller PROVE VersionInv
  OBVIOUS
<1>1. PICK g \in Gateways :
        running = g.running /\ autostart = g.autostart /\ healthy = g.healthy
  BY DEF InitInstaller
<1>2. running \in Tunnels \cup {Nothing}
  BY <1>1, GatewaysAssumption DEF Tunnels, Versions
<1>3. TypedInv
  <2>1. /\ files = [f \in Files |-> "old"] /\ work = [p \in Procs |-> "todo"]
        /\ at = 1 /\ ok = TRUE /\ backup = Nothing /\ saved = Nothing /\ marked = FALSE
        /\ recorded = "old" /\ unit = "old" /\ config = "old" /\ partial = FALSE
        /\ meddled = FALSE /\ outlived = FALSE /\ fails = 0 /\ pending = Nothing
    BY DEF InitInstaller
  <2>2. files \in [Files -> Versions] /\ fails \in 0 .. MaxFails
    BY <2>1, FailsAssumption DEF Versions
  <2>3. at \in 1 .. Len(RestoreOrder) + 1
    BY <2>1, Orders
  <2>4. /\ files \in [Files -> Versions \cup {"torn"}]
        /\ \A f \in Files \ {"hook"} : files[f] \in Versions
    BY <2>2
  <2>5. work \in [Procs -> {"todo", "unit", "config", "done", "failed"}]
    BY <2>1
  <2>6. unit \in Versions /\ config \in Versions /\ recorded \in Versions
    BY <2>1 DEF Versions
  <2> QED
    BY <1>2, <2>1, <2>2, <2>3, <2>4, <2>5, <2>6 DEF TypedInv, InstallerTypeOK
<1>4. ChildInv
  <2>1. pc = [p \in Procs |-> IF p \in Commands THEN "mkdir" ELSE "done"]
    BY DEF InitInstaller
  <2>2. \A p \in Children : p \in Procs /\ p \notin Commands
    BY ProcsAssumption DEF Commands
  <2>3. \A p \in Children : pc[p] = "done"
    BY <2>1, <2>2
  <2> QED
    BY <2>3 DEF Children, ChildInv, Ended
<1>5. FilesInv /\ UnitInv /\ ServedInv
  <2>1. Recoverer \in Procs
    BY ProcsAssumption DEF Children
  <2> QED
    BY <2>1 DEF InitInstaller, FilesInv, UnitInv, ServedInv, Partway, Ready, All, Scripts,
                Early, Placed, Committed, Filing
<1> QED
  BY <1>3, <1>4, <1>5 DEF VersionInv

LEMMA ChildStep == SharedInv /\ ChildInv /\ [NextInstaller]_allVars => ChildInv'
<1> SUFFICES ASSUME SharedInv, ChildInv, [NextInstaller]_allVars PROVE ChildInv'
  OBVIOUS
<1>0. /\ Inv /\ PhaseInv /\ TypeOK
      /\ Updater \in Procs /\ Recoverer \in Procs /\ Main \in Procs
      /\ Updater # Main /\ Recoverer # Main /\ Updater # Recoverer
      /\ Updater \in Children /\ Recoverer \in Children
  BY ProcsAssumption DEF SharedInv, Inv, Children
<1>1. ASSUME NEW p \in Procs, Acquire(p) \/ Release(p) \/ (Die(p) /\ p # Main), UNCHANGED setup
      PROVE  ChildInv'
  BY <1>0, <1>1, LockFrame DEF ChildInv, Others, setup
<1>2. CASE Apart
  <2>1. pc' = pc /\ phase # "crashed"
    BY <1>2, ApartFrame DEF vars
  <2>2. /\ phase' \notin {"updating", "stopping"}
        /\ phase = "updating" \/ phase = "stopping" => pc[Updater] \in Ended
    BY <1>0, <1>2 DEF Apart, Stage, GivesUp, Snapshot, Backup, Promote, Promoting, RestoreFile,
                Restored, FilesEnd, ChildEnds, Commit, Record, Cleanup, RestoreUnits, Leave,
                Leaves, Preflight, Step
  <2>3. phase' \notin {"recovering"} \cup Cleaning =>
           phase \notin {"recovering"} \cup Cleaning \/ pc[Recoverer] \in Ended
    BY <1>2 DEF Apart, Stage, GivesUp, Snapshot, Backup, Promote, Promoting, RestoreFile,
                Restored, FilesEnd, ChildEnds, Commit, Record, Cleanup, RestoreUnits, Leave,
                Leaves, Preflight, Step, Cleaning
  <2> QED
    BY <2>1, <2>2, <2>3 DEF ChildInv
<1>3. CASE UNCHANGED <<vars, phase>>
  BY <1>3 DEF vars, ChildInv
<1>4. ASSUME NEW p \in {Main, Updater, Recoverer}, Begins(p),
             \/ p = Main /\ Step("preflight", "files")
             \/ p = Updater /\ Step("update", "updating")
             \/ p = Recoverer /\ Step("recover", "recovering")
      PROVE  ChildInv'
  <2>1. \A q \in Procs \ {p} : pc'[q] = pc[q]
    BY <1>0, <1>4 DEF Begins, Goto, TypeOK
  <2> QED
    BY <1>0, <1>4, <2>1 DEF Step, ChildInv, Cleaning
<1>5. CASE StopFiling
  <2>1. pc'[Updater] = pc[Updater] /\ pc'[Recoverer] = pc[Recoverer]
    BY <1>0, <1>5 DEF StopFiling, TypeOK
  <2> QED
    BY <1>5, <2>1 DEF StopFiling, Filing, ChildInv, Cleaning
<1>6. CASE StopChild
  <2>1. pc[Recoverer] = "done"
    BY <1>0, <1>6 DEF StopChild, PhaseInv, NoRecoverer
  <2>2. pc'[Recoverer] = "done"
    BY <1>0, <1>6, <2>1 DEF StopChild, Ended
  <2> QED
    BY <1>6, <2>2 DEF StopChild, ChildInv, Ended
<1>7. CASE Crash
  BY <1>7 DEF Crash, ChildInv
<1>8. CASE /\ UNCHANGED pc /\ phase' = "cleanup"
           /\ phase \in {"preflight", "recovering", "commit", "record"}
  BY <1>8 DEF ChildInv, Cleaning
<1> QED
  BY <1>0, <1>1, <1>2, <1>3, <1>4, <1>5, <1>6, <1>7, <1>8, Moves

\* The steps that change the phase, and where and how far it is, alone.
Onward == \/ Preflight \/ Stage \/ GivesUp \/ FilesEnd \/ StartChild
          \/ ChildEnds(Updater, "updating", "recover")
          \/ ChildEnds(Recoverer, "recovering", "commit")
          \/ Cleanup \/ Leave \/ Signal \/ Crash

LEMMA Acts ==
  ASSUME [NextInstaller]_allVars
  PROVE  \/ UNCHANGED setup \/ Onward
         \/ Snapshot \/ Backup \/ Promote \/ RestoreFile \/ Restored \/ Commit \/ Record
         \/ RestoreUnits \/ Update \/ Recover \/ Settle \/ \E p \in Procs : Command(p)
<1>1. CASE Advance
  BY <1>1 DEF Advance, LetsGo, Onward
<1>2. CASE Update \/ Recover \/ Signal \/ Settle \/ Crash
  BY <1>2 DEF Onward
<1>3. ASSUME NEW p \in Procs, LockStep(p) \/ Unlock(p) \/ Command(p) \/ Dies(p)
      PROVE  UNCHANGED setup \/ Command(p)
  BY <1>3 DEF LockStep, Unlock, Dies
<1>4. CASE UNCHANGED allVars
  BY <1>4 DEF allVars
<1> QED
  BY <1>1, <1>2, <1>3, <1>4 DEF NextInstaller

LEMMA FailsTyped ==
  ASSUME TypedInv, Works \/ Fails
  PROVE  fails' \in 0 .. MaxFails
<1>1. fails \in 0 .. MaxFails
  BY DEF TypedInv, InstallerTypeOK
<1> QED
  BY <1>1, FailsAssumption DEF Works, Fails

LEMMA OnwardFrame ==
  ASSUME TypedInv, Onward
  PROVE  /\ UNCHANGED <<disk, service, work, history>> \/ Crash
         /\ UNCHANGED <<disk, service, work, meddled, outlived>>
         /\ at' \in 1 .. Len(RestoreOrder) + 1 /\ ok' \in BOOLEAN /\ fails' \in 0 .. MaxFails
         /\ pending' \in {Nothing} \cup Scripts /\ partial' \in BOOLEAN
<1>0. /\ at \in 1 .. Len(RestoreOrder) + 1 /\ ok \in BOOLEAN /\ fails \in 0 .. MaxFails
      /\ pending \in {Nothing} \cup Scripts /\ partial \in BOOLEAN
      /\ 1 \in 1 .. Len(RestoreOrder) + 1
      /\ \A i \in DOMAIN Promoted : Promoted[i] \in Scripts
  BY Orders DEF TypedInv, InstallerTypeOK, Promoted
<1>1. CASE Preflight \/ Stage
  <2>1. fails' \in 0 .. MaxFails
    BY <1>1, FailsTyped DEF Preflight, Stage
  <2> QED
    BY <1>0, <1>1, <2>1 DEF Preflight, Stage, history
<1>2. CASE GivesUp \/ FilesEnd \/ StartChild \/ Leave \/ Cleanup
  BY <1>0, <1>2 DEF GivesUp, FilesEnd, StartChild, Leave, Cleanup, history
<1>3. CASE \/ ChildEnds(Updater, "updating", "recover")
           \/ ChildEnds(Recoverer, "recovering", "commit")
  BY <1>0, <1>3 DEF ChildEnds, history
<1>4. CASE Signal
  BY <1>0, <1>4 DEF Signal, StopFiling, StopChild, StopRecovery, history
<1>5. CASE Crash
  BY <1>0, <1>5 DEF Crash
<1> QED
  BY <1>1, <1>2, <1>3, <1>4, <1>5 DEF Onward

LEMMA TypedStep == TypedInv /\ FilesInv /\ [NextInstaller]_allVars => TypedInv'
<1> SUFFICES ASSUME TypedInv, FilesInv, [NextInstaller]_allVars PROVE TypedInv'
  OBVIOUS
<1> USE DEF TypedInv, InstallerTypeOK
<1>0. /\ 1 .. Len(RestoreOrder) + 1 = 1 .. 5
      /\ "old" \in Versions /\ "new" \in Versions
      /\ "cli" \in Files \ {"hook"} /\ "helpers" \in Files \ {"hook"}
      /\ "cores" \in Files \ {"hook"}
      /\ \A v, w \in Versions : <<v, w>> \in Tunnels
  BY Orders DEF Versions, Tunnels
<1>1. CASE UNCHANGED setup
  BY <1>1 DEF setup, disk, service, history
<1>2. CASE Onward
  BY <1>2, OnwardFrame DEF disk, service, history
<1>3. CASE Snapshot
  <2>1. fails' \in 0 .. MaxFails
    BY <1>3, FailsTyped DEF Snapshot
  <2>2. saved' = Nothing \/ saved' \in [unit : Versions, running : Tunnels \cup {Nothing}]
    BY <1>3 DEF Snapshot
  <2>3. /\ ok' \in BOOLEAN
        /\ UNCHANGED <<at, files, backup, marked, recorded, service, work, pending, history>>
    BY <1>3 DEF Snapshot
  <2> QED
    BY <2>1, <2>2, <2>3 DEF service, history
<1>4. CASE Backup
  <2>1. files \in [Files -> Versions] /\ Nothing \notin [Files -> Versions]
    BY <1>0, <1>4, Orders, NothingAssumption DEF Backup, Step, FilesInv, Early, All
  <2>2. fails' \in 0 .. MaxFails
    BY <1>4, FailsTyped DEF Backup
  <2>3. \/ backup' = files /\ marked' = TRUE /\ ok' = ok
        \/ backup' = backup /\ marked' = marked /\ ok' = FALSE
    BY <1>4 DEF Backup
  <2>4. at' = 1 /\ UNCHANGED <<files, saved, recorded, service, work, pending, history>>
    BY <1>4 DEF Backup
  <2>5. /\ backup' \in [Files -> Versions] \cup {Nothing}
        /\ marked' \in BOOLEAN /\ ok' \in BOOLEAN
        /\ marked' => backup' # Nothing
    <3>1. /\ backup \in [Files -> Versions] \cup {Nothing} /\ marked \in BOOLEAN
          /\ ok \in BOOLEAN /\ marked => backup # Nothing
      OBVIOUS
    <3>2. files # Nothing
      BY <2>1
    <3>3. CASE backup' = files /\ marked' = TRUE /\ ok' = ok
      BY <2>1, <3>1, <3>2, <3>3
    <3>4. CASE backup' = backup /\ marked' = marked /\ ok' = FALSE
      BY <3>1, <3>4
    <3> QED
      BY <2>3, <3>3, <3>4
  <2> QED
    BY <1>0, <2>2, <2>4, <2>5 DEF service, history
<1>5. CASE Promote
  <2>1. at \in 1 .. 3 /\ Promoted[at] \in Files
    BY <1>5, Orders DEF Promote, FilesInv
  <2>2. /\ files' \in [Files -> Versions \cup {"torn"}]
        /\ \A f \in Files \ {"hook"} : files'[f] \in Versions
    BY <1>0, <1>5, <2>1 DEF Promote, Promoting
  <2>3. at' \in {1, 2, 3}
    BY <1>5, <2>1, Orders DEF Promote, Promoting
  <2>5. ok' \in BOOLEAN
    BY <1>5 DEF Promote, Promoting
  <2>4. fails' \in 0 .. MaxFails
    BY <1>5, FailsTyped DEF Promote, Promoting
  <2> QED
    BY <1>0, <1>5, <2>2, <2>3, <2>4, <2>5 DEF Promote, service, history
<1>6. CASE RestoreFile
  <2>1. /\ at \in 1 .. 4 /\ RestoreOrder[at] \in Files /\ backup \in [Files -> Versions]
    BY <1>6, Orders DEF RestoreFile, FilesInv
  <2>2. /\ files' \in [Files -> Versions \cup {"torn"}]
        /\ \A f \in Files \ {"hook"} : files'[f] \in Versions
    BY <1>0, <1>6, <2>1 DEF RestoreFile
  <2>3. at' \in 1 .. 5
    BY <1>6, <2>1 DEF RestoreFile
  <2>5. ok' \in BOOLEAN /\ partial' \in BOOLEAN
    BY <1>6 DEF RestoreFile
  <2>4. fails' \in 0 .. MaxFails
    BY <1>6, FailsTyped DEF RestoreFile
  <2> QED
    BY <1>0, <1>6, <2>2, <2>3, <2>4, <2>5 DEF RestoreFile, service
<1>7. CASE Restored
  <2>1. marked
    BY <1>7 DEF Restored, Step, FilesInv
  <2>2. marked' \in BOOLEAN /\ ok' \in BOOLEAN /\ backup # Nothing
    BY <1>7, <2>1 DEF Restored
  <2>3. /\ at' = 1
        /\ UNCHANGED <<files, backup, saved, recorded, service, work, fails, pending, history>>
    BY <1>7 DEF Restored
  <2> QED
    BY <1>0, <2>2, <2>3 DEF service, history
<1>8. CASE Commit \/ Record
  <2>1. fails' \in 0 .. MaxFails
    BY <1>8, FailsTyped DEF Commit, Record
  <2>2. CASE Commit
    <3>1. marked
      BY <2>2 DEF Commit, Step, FilesInv, Placed
    <3> QED
      BY <2>1, <2>2, <3>1 DEF Commit, service, history
  <2>3. CASE Record
    BY <1>0, <2>1, <2>3 DEF Record, service, history
  <2> QED
    BY <1>8, <2>2, <2>3
<1>9. CASE RestoreUnits
  <2>1. unit' \in Versions /\ running' \in Tunnels \cup {Nothing}
    BY <1>0, <1>9 DEF RestoreUnits, Starts
  <2>2. fails' \in 0 .. MaxFails
    BY <1>9, FailsTyped DEF RestoreUnits
  <2> QED
    BY <1>9, <2>1, <2>2 DEF RestoreUnits, disk
<1>10. CASE Update
  <2>1. /\ files' \in [Files -> Versions \cup {"torn"}]
        /\ \A f \in Files \ {"hook"} : files'[f] \in Versions
        /\ unit' \in Versions /\ running' \in Tunnels \cup {Nothing}
    BY <1>0, <1>10 DEF Update, Restarts
  <2>2. work' \in [Procs -> {"todo", "unit", "config", "done", "failed"}]
    BY <1>10 DEF Update, Did
  <2> QED
    BY <1>10, <2>1, <2>2 DEF Update, history
<1>11. CASE Recover
  <2>1. unit' \in Versions /\ config' \in Versions /\ running' \in Tunnels \cup {Nothing}
    BY <1>0, <1>11 DEF Recover, RecoverUnit, RecoverConfig, RecoverCore, RecoverFails
  <2>2. \E w \in {"todo", "unit", "config", "done", "failed"} : Did(Recoverer, w)
    BY <1>11 DEF Recover, RecoverUnit, RecoverConfig, RecoverCore, RecoverFails, RecoverAt
  <2>3. work' \in [Procs -> {"todo", "unit", "config", "done", "failed"}]
    BY <2>2 DEF Did
  <2>4. outlived' \in BOOLEAN
    BY <1>11 DEF Recover, RecoverUnit, RecoverConfig, RecoverCore, RecoverFails, RecoverAt
  <2>5. UNCHANGED <<at, ok, disk, autostart, healthy, fails, pending, partial, meddled>>
    BY <1>11, RecoverFrame
  <2> QED
    BY <2>1, <2>3, <2>4, <2>5 DEF disk
<1>12. CASE Settle
  BY <1>0, <1>12, Orders DEF Settle, service
<1>13. ASSUME NEW p \in Procs, Command(p) PROVE TypedInv'
  <2>1. /\ files' \in [Files -> Versions \cup {"torn"}]
        /\ \A f \in Files \ {"hook"} : files'[f] \in Versions
        /\ unit' \in Versions /\ config' \in Versions /\ running' \in Tunnels \cup {Nothing}
    BY <1>0, <1>13 DEF Command, Import, UpdateCores, Stop, Restarts
  <2>2. work' \in [Procs -> {"todo", "unit", "config", "done", "failed"}] /\ meddled' \in BOOLEAN
    BY <1>13 DEF Command, Did
  <2> QED
    BY <1>13, <2>1, <2>2 DEF Command
<1> QED
  BY <1>1, <1>2, <1>3, <1>4, <1>5, <1>6, <1>7, <1>8, <1>9, <1>10, <1>11, <1>12, <1>13, Acts

\* Steps that leave the files alone.
LEMMA FilesKept ==
  ASSUME UNCHANGED <<files, backup, meddled>>
  PROVE  /\ All("old")' = All("old") /\ All("new")' = All("new")
         /\ CoresKept' = CoresKept /\ OneVersion' = OneVersion
BY DEF All, CoresKept, OneVersion

\* An operation of a command touches no script, and one that has changed the assets
\* after the backup is known to have.
LEMMA CommandKeeps ==
  ASSUME TypedInv, NEW p \in Procs, Command(p)
  PROVE  /\ \A f \in Scripts : files'[f] = files[f]
         /\ CoresKept => CoresKept'
         /\ meddled => meddled'
<1>0. /\ files \in [Files -> Versions \cup {"torn"}] /\ "cores" \in Files
      /\ Scripts \subseteq Files \ {"cores"}
      /\ work \in [Procs -> {"todo", "unit", "config", "done", "failed"}]
  BY Orders DEF TypedInv, InstallerTypeOK
<1>1. \A f \in Scripts : files'[f] = files[f]
  BY <1>0 DEF Command, Import, UpdateCores, Stop
<1>2. meddled => meddled'
  BY DEF Command
<1>3. ASSUME CoresKept, ~meddled', backup' # Nothing PROVE files'["cores"] = backup'["cores"]
  <2>1. backup' = backup /\ ~meddled /\ work'[p] # "done"
    BY <1>3 DEF Command
  <2>2. files' = files
    BY <1>0, <2>1 DEF Command, Did
  <2> QED
    BY <1>3, <2>1, <2>2 DEF CoresKept
<1> QED
  BY <1>1, <1>2, <1>3 DEF CoresKept

LEMMA OnwardFiles == TypedInv /\ FilesInv /\ Onward => FilesInv'
<1> SUFFICES ASSUME TypedInv, FilesInv, Onward PROVE FilesInv'
  OBVIOUS
<1>0. UNCHANGED <<files, backup, marked, meddled>>
  BY OnwardFrame DEF disk
<1>1. CASE Crash
  BY <1>0, <1>1 DEF Crash, FilesInv, Early, Placed, Committed
<1>2. /\ All("old")' = All("old") /\ All("new")' = All("new")
      /\ CoresKept' = CoresKept /\ OneVersion' = OneVersion
  BY <1>0, FilesKept
<1>3. All("old") /\ backup = Nothing => OneVersion
  BY DEF OneVersion, CoresKept
<1>4. All("old") /\ CoresKept => OneVersion
  BY DEF OneVersion
<1>5. All("new") => OneVersion
  BY DEF OneVersion
<1>6. backup = Nothing => CoresKept
  BY DEF CoresKept
<1>7. CASE Preflight \/ Stage \/ GivesUp
  <2>1. partial' = partial
    BY <1>7 DEF Preflight, Stage, GivesUp, history
  <2> QED
    BY <1>0, <1>2, <1>3, <1>6, <1>7, <2>1
       DEF Preflight, Stage, GivesUp, Step, FilesInv, Early, Placed, Committed
<1>8. CASE FilesEnd \/ StartChild
  <2>1. partial' = partial
    BY <1>8 DEF FilesEnd, StartChild, history
  <2> QED
    BY <1>0, <1>2, <1>4, <1>8, <2>1
       DEF FilesEnd, StartChild, Step, FilesInv, Early, Placed, Committed
<1>9. CASE \/ ChildEnds(Updater, "updating", "recover")
            \/ ChildEnds(Recoverer, "recovering", "commit")
  <2>1. partial' = partial
    BY <1>9 DEF ChildEnds, history
  <2> QED
    BY <1>0, <1>2, <1>9, <2>1 DEF ChildEnds, Step, FilesInv, Early, Placed, Committed
<1>10. CASE Cleanup
  <2>1. partial' = partial
    BY <1>10 DEF Cleanup, history
  <2>2. at' = 1 /\ ok' /\ \A i \in {1, 2, 4} : ~(i < 1) /\ ~(3 < 1)
    BY <1>10 DEF Cleanup
  <2> QED
    BY <1>0, <1>2, <1>10, <2>1, <2>2 DEF Cleanup, FilesInv, Early, Placed, Committed
<1>11. CASE Leave
  <2>1. partial' = partial
    BY <1>11 DEF Leave, Leaves, history
  <2> QED
    BY <1>0, <1>2, <1>11, <2>1 DEF Leave, Leaves, Step, FilesInv, Early, Placed, Committed
<1>12. CASE Signal
  <2>1. partial' = partial
    BY <1>12 DEF Signal, history
  <2>2. CASE StopFiling
    <3>1. phase' = "cleanup" /\ (phase # "promote" => pending' = Nothing)
      BY <2>2 DEF StopFiling
    <3>2. ~marked => pending' = Nothing /\ OneVersion
      BY <1>3, <1>4, <2>2, <3>1 DEF StopFiling, Filing, FilesInv, Early
    <3> QED
      BY <1>0, <1>2, <2>1, <3>1, <3>2 DEF FilesInv, Early, Placed, Committed
  <2>3. CASE StopChild
    BY <1>0, <1>2, <2>1, <2>3 DEF StopChild, FilesInv, Early, Placed, Committed
  <2>4. CASE /\ phase \in {"preflight", "recovering", "commit", "record"}
             /\ phase' = "cleanup" /\ UNCHANGED pending
    BY <1>0, <1>2, <1>3, <1>5, <2>1, <2>4 DEF FilesInv, Early, Placed, Committed
  <2> QED
    BY <1>12, <2>2, <2>3, <2>4 DEF Signal, StopRecovery
<1> QED
  BY <1>1, <1>7, <1>8, <1>9, <1>10, <1>11, <1>12 DEF Onward

LEMMA FilesStep == TypedInv /\ ChildInv /\ FilesInv /\ [NextInstaller]_allVars => FilesInv'
<1> SUFFICES ASSUME TypedInv, ChildInv, FilesInv, [NextInstaller]_allVars
             PROVE  FilesInv'
  OBVIOUS
<1>0. /\ files \in [Files -> Versions \cup {"torn"}]
      /\ backup \in [Files -> Versions] \cup {Nothing}
      /\ marked => backup # Nothing
      /\ at \in 1 .. 5
  BY Orders DEF TypedInv, InstallerTypeOK
<1>1. CASE UNCHANGED setup
  <2>1. UNCHANGED <<phase, at, ok, files, backup, marked, pending, partial, meddled>>
    BY <1>1 DEF setup, disk, history
  <2> QED
    BY <2>1 DEF FilesInv, CoresKept, OneVersion, All
<1>2. CASE Onward
  BY <1>2, OnwardFiles
<1>3. CASE Snapshot
  <2>1. UNCHANGED <<files, backup, marked, pending, partial, meddled>>
    BY <1>3 DEF Snapshot, history
  <2>2. backup = Nothing => CoresKept
    BY DEF CoresKept
  <2>3. /\ ok /\ backup = Nothing /\ ~marked /\ All("old") /\ ~partial /\ pending = Nothing
        /\ \/ phase' = "backup" /\ ok'
           \/ phase' = "free" /\ ~ok'
    BY <1>3 DEF Snapshot, Step, FilesInv, Early
  <2>4. All("old")' /\ CoresKept'
    BY <2>1, <2>2, <2>3, FilesKept
  <2>5. ~partial' /\ pending' = Nothing /\ ~marked' /\ backup' = Nothing
    BY <2>1, <2>3
  <2>6. CASE phase' = "backup" /\ ok'
    BY <2>4, <2>5, <2>6 DEF FilesInv, Early, Placed, Committed
  <2>7. CASE phase' = "free" /\ ~ok'
    BY <2>4, <2>5, <2>7 DEF FilesInv, Early, Placed, Committed
  <2> QED
    BY <2>3, <2>6, <2>7
<1>4. CASE Backup
  <2>1. UNCHANGED <<files, pending, partial, meddled>> /\ phase = "backup"
    BY <1>4 DEF Backup, Step, history
  <2>2. ok /\ All("old") /\ ~marked /\ backup = Nothing /\ ~partial /\ pending = Nothing
    BY <2>1 DEF FilesInv, Early
  <2>3. CASE phase' = "promote" /\ backup' = files /\ marked' /\ at' = 1 /\ ok' = ok
    <3>1. \A i \in 1 .. 3 : ~(i < 1) /\ files'[Promoted[i]] = "old"
      BY <2>1, <2>2, Orders DEF All
    <3>2. CoresKept'
      BY <2>1, <2>3 DEF CoresKept
    <3>3. \A f \in Scripts : backup'[f] = "old"
      BY <2>2, <2>3 DEF All
    <3> QED
      BY <2>1, <2>2, <2>3, <3>1, <3>2, <3>3 DEF FilesInv, Early, Placed, Committed
  <2>4. CASE phase' = "free" /\ ok' = FALSE /\ UNCHANGED <<backup, marked>>
    <3>1. CoresKept' /\ All("old")'
      BY <2>1, <2>2, <2>4 DEF CoresKept, All
    <3> QED
      BY <2>1, <2>2, <2>4, <3>1 DEF FilesInv, Early, Placed, Committed
  <2> QED
    BY <1>4, <2>3, <2>4 DEF Backup, Step
<1>5. CASE Promote
  <2>1. /\ UNCHANGED <<backup, marked, pending, partial, meddled>> /\ phase = "promote"
        /\ ok /\ marked /\ ~partial /\ pending = Nothing /\ CoresKept /\ at \in 1 .. 3
        /\ \A i \in 1 .. 3 : files[Promoted[i]] = IF i < at THEN "new" ELSE "old"
    BY <1>5 DEF Promote, history, FilesInv
  <2>2. /\ \A i \in 1 .. 3 : Promoted[i] \in Files /\ Promoted[i] # "cores"
        /\ Promoted[at] \in Files /\ Promoted[at] # "cores" /\ "cores" \in Files
    BY <2>1, Orders
  <2>3. files' \in {files, [files EXCEPT ![Promoted[at]] = "new"]}
    BY <1>5 DEF Promote, Promoting
  <2>4. files'["cores"] = files["cores"]
    BY <1>0, <2>1, <2>2, <2>3
  <2>5. CoresKept'
    BY <2>1, <2>4 DEF CoresKept
  <2>6. CASE phase' = "undo" /\ at' = 1 /\ ok' = TRUE
    <3>1. \A i \in {1, 2, 4} : ~(i < 1) /\ ~(3 < 1)
      OBVIOUS
    <3> QED
      BY <2>1, <2>5, <2>6, <3>1 DEF FilesInv, Early, Placed, Committed
  <2>7. CASE /\ files' = [files EXCEPT ![Promoted[at]] = "new"] /\ UNCHANGED ok
             /\ at' = IF at = Len(Promoted) THEN 1 ELSE at + 1
             /\ phase' = IF at = Len(Promoted) THEN "free" ELSE "promote"
    <3>1. \A i \in 1 .. 3 : files'[Promoted[i]] = IF i < at + 1 THEN "new" ELSE "old"
      <4>1. CASE at = 1
        BY <1>0, <2>1, <2>2, <2>7, <4>1, Orders
      <4>2. CASE at = 2
        BY <1>0, <2>1, <2>2, <2>7, <4>2, Orders
      <4>3. CASE at = 3
        BY <1>0, <2>1, <2>2, <2>7, <4>3, Orders
      <4> QED
        BY <2>1, <4>1, <4>2, <4>3
    <3>2. CASE at # 3
      <4>1. at' = at + 1 /\ at' \in 1 .. 3 /\ phase' = "promote"
        BY <2>1, <2>7, <3>2, Orders
      <4>2. ok' /\ marked' /\ ~partial' /\ pending' = Nothing
        BY <2>1, <2>7
      <4>3. backup' # Nothing => \A f \in Scripts : backup'[f] = "old"
        BY <2>1 DEF FilesInv
      <4>4. \A i \in 1 .. 3 : files'[Promoted[i]] = IF i < at' THEN "new" ELSE "old"
        BY <3>1, <4>1
      <4> QED
        BY <2>5, <4>1, <4>2, <4>3, <4>4 DEF FilesInv, Early, Placed, Committed
    <3>3. CASE at = 3
      <4>1. phase' = "free" /\ All("new")'
        BY <2>7, <3>1, <3>3, Orders DEF All
      <4>2. ok' /\ marked' /\ ~partial' /\ pending' = Nothing
        BY <2>1, <2>7
      <4>3. backup' # Nothing => \A f \in Scripts : backup'[f] = "old"
        BY <2>1 DEF FilesInv
      <4>4. IF ok' THEN marked' /\ All("new")' ELSE ~marked' /\ All("old")'
        BY <4>1, <4>2
      <4> QED
        BY <2>5, <4>1, <4>2, <4>3, <4>4 DEF FilesInv, Early, Placed, Committed
    <3> QED
      BY <3>2, <3>3
  <2> QED
    BY <1>5, <2>6, <2>7 DEF Promote, Promoting
<1>6. CASE RestoreFile
  <2>1. /\ UNCHANGED <<backup, marked, pending, meddled, phase>> /\ at' = at + 1
        /\ at \in 1 .. 4 /\ phase \in {"undo", "restore"} /\ marked /\ backup # Nothing
        /\ backup \in [Files -> Versions] /\ RestoreOrder[at] \in Files
    BY <1>0, <1>6, Orders DEF RestoreFile, FilesInv
  <2>2. CASE /\ ok' = FALSE /\ partial' = TRUE
             /\ \/ files' = files
                \/ RestoreOrder[at] = "hook" /\ files' = [files EXCEPT !["hook"] = "torn"]
    <3>1. files'["cores"] = files["cores"]
      BY <1>0, <2>2, Orders
    <3>2. CoresKept => CoresKept'
      BY <2>1, <3>1 DEF CoresKept
    <3> QED
      BY <2>1, <2>2, <3>2 DEF FilesInv, Early, Placed, Committed
  <2>3. CASE /\ files' = [files EXCEPT ![RestoreOrder[at]] = backup[RestoreOrder[at]]]
             /\ UNCHANGED <<ok, partial>>
    <3>1. \A f \in Files : files'[f] = IF f = RestoreOrder[at] THEN backup[f] ELSE files[f]
      BY <1>0, <2>1, <2>3
    <3>2. CoresKept => CoresKept'
      BY <2>1, <3>1, Orders DEF CoresKept
    <3>3. at = 3 => CoresKept'
      BY <2>1, <3>1, Orders DEF CoresKept
    <3>4. ASSUME ~partial, NEW i \in {1, 2, 4}, i < at'
          PROVE  files'[RestoreOrder[i]] = backup'[RestoreOrder[i]]
      <4>1. i < at \/ i = at
        BY <2>1, <3>4
      <4>2. i < at => files[RestoreOrder[i]] = backup[RestoreOrder[i]]
        BY <2>1, <3>4 DEF FilesInv
      <4>3. RestoreOrder[i] \in Files
        BY <3>4, Orders
      <4> QED
        BY <2>1, <3>1, <4>1, <4>2, <4>3
    <3>5. ASSUME ~partial, 3 < at' PROVE CoresKept'
      <4>1. at = 3 \/ 3 < at
        BY <2>1, <3>5
      <4> QED
        BY <2>1, <3>2, <3>3, <3>5, <4>1 DEF FilesInv
    <3> QED
      BY <2>1, <2>3, <3>2, <3>4, <3>5 DEF FilesInv, Early, Placed, Committed
  <2>4. CASE /\ ok' = FALSE /\ partial' = TRUE
             /\ files' \in {files} \cup
                           {[files EXCEPT ![g] = "torn"] : g \in {RestoreOrder[at]} \cap {"hook"}}
    <3>1. CASE files' = files
      <4>1. ok' = FALSE /\ partial' = TRUE
        BY <2>4
      <4> QED
        BY <2>2, <3>1, <4>1
    <3>2. ASSUME NEW g \in {RestoreOrder[at]} \cap {"hook"}, files' = [files EXCEPT ![g] = "torn"]
          PROVE  FilesInv'
      <4>1. g = "hook" /\ RestoreOrder[at] = "hook"
        BY <3>2
      <4> QED
        BY <2>2, <2>4, <3>2, <4>1
    <3>3. \/ files' = files
          \/ \E g \in {RestoreOrder[at]} \cap {"hook"} : files' = [files EXCEPT ![g] = "torn"]
      BY <2>4
    <3> QED
      BY <3>1, <3>2, <3>3
  <2> QED
    BY <1>6, <2>3, <2>4 DEF RestoreFile
<1>7. CASE Restored
  <2>1. /\ UNCHANGED <<files, backup, pending, partial, meddled>> /\ at > 4 /\ ok' = FALSE
        /\ marked' = ~ok /\ phase \in {"undo", "restore"} /\ backup # Nothing
    BY <1>0, <1>7, Orders DEF Restored, Step, history, FilesInv
  <2>2. ASSUME ~partial PROVE ok /\ All("old") /\ CoresKept /\ OneVersion
    <3>1. /\ ok /\ CoresKept
          /\ \A i \in {1, 2, 4} : files[RestoreOrder[i]] = backup[RestoreOrder[i]]
      BY <1>0, <2>1, <2>2 DEF FilesInv
    <3>2. All("old")
      BY <2>1, <3>1, Orders DEF FilesInv, All
    <3> QED
      BY <3>1, <3>2 DEF OneVersion
  <2>3. /\ All("old")' = All("old") /\ CoresKept' = CoresKept /\ OneVersion' = OneVersion
    BY <2>1, FilesKept
  <2>4. CASE phase = "undo" /\ ok /\ phase' = "free"
    <3>1. ~partial /\ pending = Nothing
      BY <2>4 DEF FilesInv
    <3> QED
      BY <2>1, <2>2, <2>3, <2>4, <3>1 DEF FilesInv, Early, Placed, Committed
  <2>5. CASE phase = "undo" /\ ~ok /\ phase' = "cleanup"
    <3>1. partial
      BY <2>5 DEF FilesInv
    <3> QED
      BY <2>1, <2>5, <3>1 DEF FilesInv, Early, Placed, Committed
  <2>6. CASE phase = "restore" /\ phase' = "units"
    BY <2>1, <2>2, <2>3, <2>6 DEF FilesInv, Early, Placed, Committed
  <2> QED
    BY <1>7, <2>4, <2>5, <2>6 DEF Restored, Step
<1>8. CASE Commit
  <2>1. /\ UNCHANGED <<files, backup, pending, partial, meddled>> /\ phase = "commit"
        /\ All("new") /\ ~partial /\ pending = Nothing
    BY <1>8 DEF Commit, Step, history, FilesInv, Placed
  <2>2. All("new")' /\ OneVersion'
    BY <2>1, FilesKept DEF OneVersion
  <2>3. \/ phase' = "record" /\ ~marked'
        \/ phase' = "cleanup"
    BY <1>8 DEF Commit, Step
  <2> QED
    BY <2>1, <2>2, <2>3 DEF FilesInv, Early, Placed, Committed
<1>9. CASE Record
  <2>1. UNCHANGED <<files, backup, marked, pending, partial, meddled>>
        /\ phase = "record" /\ phase' = "installed"
    BY <1>9 DEF Record, Step, history
  <2> QED
    BY <2>1, FilesKept DEF FilesInv, Early, Placed, Committed
<1>10. CASE RestoreUnits
  <2>1. UNCHANGED <<files, backup, marked, pending, meddled>>
        /\ phase = "units" /\ phase' = "release" /\ (partial => partial')
    BY <1>10 DEF RestoreUnits, Step, disk
  <2> QED
    BY <2>1, FilesKept DEF FilesInv, Early, Placed, Committed
<1>11. CASE Update
  <2>1. pc[Updater] \notin Ended
    BY <1>11 DEF Update, CanWork, Ended
  <2>2. phase \in {"updating", "stopping", "crashed"}
    BY <1>0, <2>1 DEF ChildInv
  <2>3. UNCHANGED <<phase, at, ok, backup, marked, pending, partial, meddled>>
    BY <1>11 DEF Update, history
  <2>4. files' = files \/ files' = [files EXCEPT !["cores"] = "new"]
    BY <1>11 DEF Update
  <2>5. All("new") => All("new")'
    BY <1>0, <2>4, Orders DEF All
  <2> QED
    BY <2>2, <2>3, <2>5 DEF FilesInv, Early, Placed, Committed
<1>12. CASE Recover
  <2>1. UNCHANGED <<phase, at, ok, files, backup, marked, pending, partial, meddled>>
    BY <1>12, RecoverFrame DEF disk
  <2> QED
    BY <2>1 DEF FilesInv, CoresKept, OneVersion, All
<1>13. CASE Settle
  <2>1. /\ UNCHANGED <<phase, at, ok, backup, marked>> /\ pending # Nothing
        /\ partial' = (partial \/ phase # "cleanup")
    BY <1>13 DEF Settle
  <2>2. phase \notin Early \cup {"promote", "undo", "free"} \cup Placed \cup Committed
    BY <2>1 DEF FilesInv
  <2>3. phase = "cleanup" => marked \/ partial'
    BY <2>1 DEF FilesInv
  <2> QED
    BY <2>1, <2>2, <2>3 DEF FilesInv
<1>14. ASSUME NEW p \in Procs, Command(p) PROVE FilesInv'
  <2>1. /\ \A f \in Scripts : files'[f] = files[f]
        /\ CoresKept => CoresKept'
    BY <1>14, CommandKeeps
  <2>2. UNCHANGED <<phase, at, ok, backup, marked, pending, partial>>
    BY <1>14 DEF Command
  <2>3. All("old")' = All("old") /\ All("new")' = All("new") /\ (OneVersion => OneVersion')
    BY <2>1 DEF All, OneVersion
  <2>4. /\ \A i \in 1 .. 3 : files'[Promoted[i]] = files[Promoted[i]]
        /\ \A i \in {1, 2, 4} : files'[RestoreOrder[i]] = files[RestoreOrder[i]]
    BY <2>1, Orders
  <2> QED
    BY <2>1, <2>2, <2>3, <2>4 DEF FilesInv, Early, Placed, Committed
<1> QED
  BY <1>1, <1>2, <1>3, <1>4, <1>5, <1>6, <1>7, <1>8, <1>9, <1>10, <1>11, <1>12, <1>13, <1>14, Acts

\* A command that does something is known to, once there is a backup of what it changes.
LEMMA CommandTold ==
  ASSUME TypedInv, NEW p \in Procs, Command(p), ~meddled', saved # Nothing \/ backup # Nothing
  PROVE  UNCHANGED <<files, unit, config, running, meddled>>
<1>1. /\ meddled' = (meddled \/ (work'[p] = "done" /\ {saved, backup} # {Nothing}))
      /\ meddled \in BOOLEAN /\ work' \in {[work EXCEPT ![p] = w] : w \in {"done", "failed"}}
  BY DEF Command, Did, TypedInv, InstallerTypeOK
<1>2. ~meddled /\ work'[p] # "done"
  BY <1>1
<1>3. \/ Did(p, "done")
      \/ Did(p, "failed") /\ UNCHANGED <<files, unit, config, running>>
  BY DEF Command
<1>4. ~Did(p, "done")
  BY <1>2 DEF Did, TypedInv
<1> QED
  BY <1>1, <1>2, <1>3, <1>4

\* What a boot_recover that was left behind changes after the clean-up is known.
LEMMA RecoverTold ==
  ASSUME Recover
  PROVE  /\ outlived => outlived'
         /\ phase \in {"release", "failed"} /\ ~outlived' => UNCHANGED <<unit, running>>
<1>1. outlived' = (outlived \/ (/\ phase \in {"release", "failed"}
                                /\ <<unit, running>>' # <<unit, running>>))
  BY DEF Recover, RecoverUnit, RecoverConfig, RecoverCore, RecoverFails, RecoverAt
<1> QED
  BY <1>1

LEMMA UnitStep == TypedInv /\ ChildInv /\ UnitInv /\ [NextInstaller]_allVars => UnitInv'
<1> SUFFICES ASSUME TypedInv, ChildInv, UnitInv, [NextInstaller]_allVars,
                    phase' \in {"release", "failed"}, ~partial', ~meddled', ~outlived',
                    saved' # Nothing
             PROVE  unit' = saved'.unit
  BY DEF UnitInv
<1>1. CASE UNCHANGED setup
  BY <1>1 DEF setup, disk, service, history, UnitInv
<1>2. CASE Onward
  <2>1. phase \in {"release", "failed"} /\ ~Crash
    BY <1>2 DEF Onward, Preflight, Stage, GivesUp, FilesEnd, StartChild, ChildEnds, Cleanup,
                Leave, Leaves, Signal, StopFiling, StopChild, StopRecovery, Crash, Step
  <2>2. UNCHANGED <<unit, saved, partial, meddled, outlived>>
    BY <1>2, <2>1, OnwardFrame DEF disk, service, history
  <2> QED
    BY <2>1, <2>2 DEF UnitInv
<1>3. CASE \/ Snapshot \/ Backup \/ Promote \/ RestoreFile \/ Restored \/ Commit \/ Record
  BY <1>3 DEF Snapshot, Backup, Promote, Promoting, RestoreFile, Restored, Commit, Record, Step
<1>4. CASE RestoreUnits
  BY <1>4 DEF RestoreUnits, disk
<1>5. CASE Update
  <2>1. UNCHANGED phase /\ pc[Updater] \notin Ended
    BY <1>5 DEF Update, CanWork, Ended
  <2> QED
    BY <2>1 DEF ChildInv
<1>6. CASE Recover
  BY <1>6, RecoverFrame, RecoverTold DEF UnitInv, disk
<1>7. CASE Settle
  <2>1. UNCHANGED <<phase, saved, unit, meddled, outlived>> /\ (~partial' => ~partial)
    BY <1>7 DEF Settle, service
  <2> QED
    BY <2>1 DEF UnitInv
<1>8. ASSUME NEW p \in Procs, Command(p) PROVE unit' = saved'.unit
  <2>1. UNCHANGED <<phase, saved, partial, outlived>>
    BY <1>8 DEF Command
  <2>2. UNCHANGED <<unit, meddled>>
    BY <1>8, <2>1, CommandTold
  <2> QED
    BY <2>1, <2>2 DEF UnitInv
<1> QED
  BY <1>1, <1>2, <1>3, <1>4, <1>5, <1>6, <1>7, <1>8, Acts

LEMMA ServedStep ==
  PhaseInv /\ TypedInv /\ ChildInv /\ FilesInv /\ ServedInv /\ [NextInstaller]_allVars => ServedInv'
<1> SUFFICES ASSUME PhaseInv, TypedInv, ChildInv, FilesInv, ServedInv, [NextInstaller]_allVars
             PROVE  ServedInv'
  OBVIOUS
<1>0. /\ phase \in Before => work[Recoverer] = "todo"
      /\ Partway => Renewed
      /\ Ready => Working
      /\ Recoverer \in Procs /\ Updater \in Procs /\ Updater # Recoverer
      /\ Recoverer \notin Commands
      /\ work \in [Procs -> {"todo", "unit", "config", "done", "failed"}]
  BY ProcsAssumption DEF ServedInv, Children, Commands, TypedInv
<1> SUFFICES /\ phase' \in Before => work'[Recoverer] = "todo"
             /\ Partway' => Renewed'
             /\ Ready' => Working'
  BY DEF ServedInv
<1>1. CASE UNCHANGED <<phase, work, backup, meddled, unit, autostart, running, healthy, files,
                       config>>
  BY <1>0, <1>1 DEF Partway, Ready, Renewed, Working
<1>2. CASE Onward
  <2>1. UNCHANGED <<work, backup, meddled, unit, autostart, running, healthy, files, config>>
    BY <1>2, OnwardFrame DEF disk, service
  <2>2. phase' \in Before => phase \in Before
    BY <1>2 DEF Onward, Preflight, Stage, GivesUp, FilesEnd, StartChild, ChildEnds, Cleanup,
                Leave, Leaves, Signal, StopFiling, StopChild, StopRecovery, Crash, Step, Before,
                Early, Filing
  <2>3. CASE phase' = "recovering"
    <3>1. phase = "recover"
      BY <1>2, <2>3 DEF Onward, Preflight, Stage, GivesUp, FilesEnd, StartChild, ChildEnds,
                Cleanup, Leave, Leaves, Signal, StopFiling, StopChild, StopRecovery, Crash, Step
    <3>2. work'[Recoverer] = "todo"
      BY <1>0, <2>1, <3>1 DEF Before
    <3> QED
      BY <2>3, <3>2 DEF Partway, Ready, Before, Early, Filing, Committed
  <2>4. CASE phase' \in {"commit"} \cup Committed
    <3>1. phase = "recovering" /\ work[Recoverer] = "done"
      BY <1>2, <2>4 DEF Onward, Preflight, Stage, GivesUp, FilesEnd, StartChild, ChildEnds,
                Cleanup, Leave, Leaves, Signal, StopFiling, StopChild, StopRecovery, Crash, Step,
                Committed
    <3>2. Working'
      BY <1>0, <2>1, <3>1 DEF Ready, Renewed, Working
    <3> QED
      BY <2>4, <3>2 DEF Partway, Before, Early, Filing, Committed
  <2>5. CASE phase' \notin {"recovering", "commit"} \cup Committed
    BY <1>0, <2>1, <2>2, <2>5 DEF Partway, Ready
  <2> QED
    BY <2>3, <2>4, <2>5
<1>3. CASE Snapshot \/ Backup \/ Promote \/ RestoreFile \/ Restored \/ RestoreUnits
  <2>1. UNCHANGED work
    BY <1>3 DEF Snapshot, Backup, Promote, RestoreFile, Restored, RestoreUnits
  <2>2. phase' \notin {"recovering", "commit"} \cup Committed
    BY <1>3 DEF Snapshot, Backup, Promote, Promoting, RestoreFile, Restored, RestoreUnits, Step,
                Committed
  <2>3. phase' \in Before => phase \in Before
    BY <1>3 DEF Snapshot, Backup, Promote, Promoting, RestoreFile, Restored, RestoreUnits, Step,
                Before, Early, Filing
  <2> QED
    BY <1>0, <2>1, <2>2, <2>3 DEF Partway, Ready
<1>4. CASE Commit \/ Record
  <2>1. UNCHANGED <<work, backup, meddled, unit, autostart, running, healthy, files, config>>
    BY <1>4 DEF Commit, Record, service, history
  <2>2. /\ phase \in {"commit"} \cup Committed /\ phase' \notin Before
        /\ phase' # "recovering"
    BY <1>4 DEF Commit, Record, Step, Before, Early, Filing, Committed
  <2> QED
    BY <1>0, <2>1, <2>2 DEF Partway, Ready, Renewed, Working
<1>5. CASE Update
  <2>1. pc[Updater] \notin Ended /\ UNCHANGED phase
    BY <1>5 DEF Update, CanWork, Ended
  <2>2. phase \in {"updating", "stopping", "crashed"}
    BY <2>1 DEF ChildInv
  <2>3. work'[Recoverer] = work[Recoverer]
    BY <1>0, <1>5 DEF Update, Did
  <2> QED
    BY <1>0, <2>1, <2>2, <2>3 DEF Partway, Ready, Committed
<1>6. CASE Recover
  <2>1. /\ pc[Recoverer] = "critical"
        /\ UNCHANGED <<phase, files, backup, meddled, autostart, healthy>>
    BY <1>6, RecoverFrame DEF disk
  <2>2. phase \in {"recovering", "crashed"} \cup Cleaning
    BY <2>1 DEF ChildInv, Ended
  <2>3. phase' \notin Before \cup {"commit"} \cup Committed
    BY <2>1, <2>2 DEF Before, Early, Filing, Committed, Cleaning
  <2>4. CASE phase # "recovering"
    BY <2>1, <2>3, <2>4 DEF Partway, Ready
  <2>5. CASE phase = "recovering"
    <3>1. backup # Nothing
      BY <2>5 DEF FilesInv, Placed, TypedInv, InstallerTypeOK
    <3>2. CASE RecoverUnit
      <4>1. work'[Recoverer] = "unit" /\ unit' = "new"
        BY <1>0, <3>2 DEF RecoverUnit, RecoverAt, Did
      <4> QED
        BY <2>1, <2>3, <3>1, <4>1 DEF Partway, Ready, Renewed
    <3>3. CASE RecoverConfig
      <4>1. work[Recoverer] = "unit" /\ work'[Recoverer] = "config" /\ unit' = unit
        BY <1>0, <3>3 DEF RecoverConfig, RecoverAt, Did
      <4> QED
        BY <1>0, <2>1, <2>3, <2>5, <4>1 DEF Partway, Ready, Renewed
    <3>4. CASE RecoverCore
      <4>1. work[Recoverer] = "config" /\ unit' = unit /\ config' = config
        BY <3>4 DEF RecoverCore, RecoverAt
      <4>2. \/ work'[Recoverer] = "failed"
            \/ /\ work'[Recoverer] = "done"
               /\ autostart => running' \in healthy /\ running' = <<files["cores"], config>>
        BY <1>0, <3>4 DEF RecoverCore, RecoverAt, Did
      <4> QED
        BY <1>0, <2>1, <2>3, <2>5, <4>1, <4>2 DEF Partway, Ready, Renewed, Working
    <3>5. CASE RecoverFails
      <4>1. work'[Recoverer] = "failed"
        BY <1>0, <3>5 DEF RecoverFails, RecoverAt, Did
      <4> QED
        BY <2>3, <4>1 DEF Partway, Ready
    <3> QED
      BY <1>6, <3>2, <3>3, <3>4, <3>5 DEF Recover
  <2> QED
    BY <2>4, <2>5
<1>7. CASE Settle
  <2>1. /\ UNCHANGED <<phase, work>>
        /\ phase \notin Placed \cup Committed
    BY <1>7 DEF Settle, FilesInv
  <2> QED
    BY <1>0, <2>1 DEF Partway, Ready, Placed
<1>8. ASSUME NEW p \in Procs, Command(p)
      PROVE  /\ phase' \in Before => work'[Recoverer] = "todo"
             /\ Partway' => Renewed'
             /\ Ready' => Working'
  <2>1. UNCHANGED <<phase, backup, autostart, healthy>> /\ p # Recoverer
    BY <1>0, <1>8 DEF Command
  <2>2. work'[Recoverer] = work[Recoverer]
    BY <1>0, <1>8, <2>1 DEF Command, Did
  <2>3. backup' # Nothing /\ ~meddled' => UNCHANGED <<files, unit, config, running, meddled>>
    BY <1>8, <2>1, CommandTold
  <2>4. Renewed => Renewed'
    BY <2>1, <2>3 DEF Renewed
  <2>5. Working => Working'
    BY <2>1, <2>3, <2>4 DEF Working, Renewed
  <2>6. Ready' = Ready /\ Partway' = Partway
    BY <2>1, <2>2 DEF Ready, Partway
  <2> QED
    BY <1>0, <2>1, <2>2, <2>4, <2>5, <2>6
<1>9. CASE UNCHANGED setup
  BY <1>1, <1>9 DEF setup, disk, service, history
<1> QED
  BY <1>2, <1>3, <1>4, <1>5, <1>6, <1>7, <1>8, <1>9, Acts

(***************************************************************************)
(* The tunnel that ran before, through the update and back.                *)
(***************************************************************************)
\* What runs is what is there, and passed its health check.
Fits == running # Nothing => running \in healthy /\ running = <<files["cores"], config>>
\* The service ran before, and nobody else has changed it.
RanBefore == saved # Nothing /\ saved.running # Nothing /\ ~meddled /\ phase # "crashed"
\* A tunnel that works runs, and with the config of before so would one of the cores that
\* are there and of those that may be put back.
OldWorks ==
  /\ running # Nothing /\ running \in healthy
  /\ <<files["cores"], "old">> \in healthy
  /\ backup # Nothing => <<backup["cores"], "old">> \in healthy

\* A tunnel that ran keeps working as long as the config is the one of before, whatever
\* the children did to the cores; and in the end it runs if it ran.
TunnelInv ==
  /\ phase \in Early => Fits /\ config = "old"
  /\ RanBefore /\ work[Recoverer] \in {"todo", "unit"} => config = "old"
  /\ RanBefore /\ config = "old" => OldWorks
  /\ phase \in {"release", "failed"} /\ ~partial /\ ~meddled /\ ~outlived /\ saved # Nothing =>
       (running = Nothing <=> saved.running = Nothing)

LEMMA InitTunnel == InitInstaller => TunnelInv
<1> SUFFICES ASSUME InitInstaller PROVE TunnelInv
  OBVIOUS
<1>1. PICK g \in Gateways : running = g.running /\ healthy = g.healthy
  BY DEF InitInstaller
<1>2. running # Nothing => running = <<"old", "old">> /\ <<"old", "old">> \in healthy
  BY <1>1, GatewaysAssumption
<1>3. files["cores"] = "old" /\ config = "old"
  BY Orders DEF InitInstaller
<1> QED
  BY <1>2, <1>3 DEF InitInstaller, TunnelInv, Fits, RanBefore

\* An update, or the undoing of one, leaves a tunnel that worked one that works.
LEMMA UpdateWorks ==
  ASSUME TypedInv, Update, OldWorks, config = "old"
  PROVE  OldWorks'
<1>0. /\ files \in [Files -> Versions \cup {"torn"}] /\ "cores" \in Files
      /\ \A v, w \in Versions : <<v, w>> # Nothing
      /\ "new" \in Versions /\ "old" \in Versions /\ files["cores"] \in Versions
  BY Orders, NothingAssumption DEF TypedInv, InstallerTypeOK, Tunnels, Versions
<1>1. UNCHANGED <<backup, config, healthy>> /\ running # Nothing /\ running \in healthy
  BY DEF Update, OldWorks
<1>2. CASE files["cores"] = "new" /\ UNCHANGED running /\ files' = [files EXCEPT !["cores"] = "new"]
  BY <1>0, <1>1, <1>2 DEF OldWorks
<1>3. CASE /\ files' = [files EXCEPT !["cores"] = "new"] /\ Restarts("new", config)
           /\ running' \in healthy \cup {Nothing}
  <2>1. running' = <<"new", "old">> /\ running' # Nothing /\ running' \in healthy
    BY <1>0, <1>1, <1>3 DEF Restarts
  <2> QED
    BY <1>0, <1>1, <1>3, <2>1 DEF OldWorks
<1>4. CASE UNCHANGED <<files, running>>
  BY <1>1, <1>4 DEF OldWorks
<1>5. CASE UNCHANGED files /\ Restarts(files["cores"], config)
  BY <1>0, <1>1, <1>5 DEF OldWorks, Restarts
<1> QED
  BY <1>2, <1>3, <1>4, <1>5 DEF Update

LEMMA TunnelStep ==
  SharedInv /\ VersionInv /\ TunnelInv /\ [NextInstaller]_allVars => TunnelInv'
<1> SUFFICES ASSUME SharedInv, VersionInv, TunnelInv, [NextInstaller]_allVars
             PROVE  TunnelInv'
  OBVIOUS
<1>0. /\ PhaseInv /\ TypedInv /\ ChildInv /\ FilesInv
      /\ Recoverer \in Procs /\ Updater \in Procs /\ Recoverer # Updater /\ Recoverer \notin Commands
      /\ work \in [Procs -> {"todo", "unit", "config", "done", "failed"}]
      /\ files \in [Files -> Versions \cup {"torn"}] /\ "cores" \in Files
  BY ProcsAssumption, Orders
     DEF SharedInv, VersionInv, Children, Commands, TypedInv, InstallerTypeOK
<1>1. CASE UNCHANGED setup
  BY <1>1 DEF setup, disk, service, history, TunnelInv, RanBefore, OldWorks, Fits
<1>2. CASE Onward
  <2>1. UNCHANGED <<saved, backup, running, config, healthy, meddled, outlived, files, work>>
    BY <1>0, <1>2, OnwardFrame DEF disk, service
  <2>2. /\ phase' = "failed" => phase = "release" /\ partial' = partial
        /\ phase' # "release"
        /\ phase = "crashed" => phase' = "crashed"
        /\ phase' \in Early => phase \in Early
    BY <1>2 DEF Onward, Preflight, Stage, GivesUp, FilesEnd, StartChild, ChildEnds, Cleanup,
                Leave, Leaves, Signal, StopFiling, StopChild, StopRecovery, Crash, Step, Early,
                Filing, Over, history
  <2> QED
    BY <2>1, <2>2 DEF TunnelInv, RanBefore, OldWorks, Fits
<1>3. CASE Snapshot
  <2>1. /\ UNCHANGED <<backup, running, config, healthy, meddled, outlived, files, work>>
        /\ phase = "snapshot" /\ phase' \in {"backup", "free"}
        /\ saved' \in {saved, [unit |-> unit, running |-> running]}
    BY <1>3 DEF Snapshot, Step, service, history
  <2>2. Fits /\ config = "old" /\ backup = Nothing
    BY <1>0, <2>1 DEF TunnelInv, FilesInv, Early
  <2>3. ASSUME RanBefore' PROVE OldWorks'
    <3>1. CASE saved' = saved
      BY <2>1, <2>2, <2>3, <3>1 DEF TunnelInv, RanBefore, OldWorks
    <3>2. CASE saved' = [unit |-> unit, running |-> running]
      BY <2>1, <2>2, <2>3, <3>2 DEF RanBefore, OldWorks, Fits
    <3> QED
      BY <2>1, <3>1, <3>2
  <2>4. Fits' /\ config' = "old" /\ phase' \notin {"release", "failed"}
    BY <2>1, <2>2 DEF Fits
  <2> QED
    BY <2>3, <2>4 DEF TunnelInv
<1>4. CASE Backup \/ Promote
  <2>1. /\ UNCHANGED <<running, config, healthy, saved, meddled, work>>
        /\ phase' \notin {"release", "failed"} /\ phase # "crashed"
        /\ files'["cores"] = files["cores"] /\ backup' \in {files, backup}
        /\ phase' \in Early => phase \in Early
    BY <1>0, <1>4, Orders DEF Backup, Promote, Promoting, Step, service, history, FilesInv, Early
  <2>2. RanBefore' /\ config' = "old" => RanBefore /\ config = "old"
    BY <2>1 DEF RanBefore
  <2>3. OldWorks => OldWorks'
    BY <2>1 DEF OldWorks
  <2>4. Fits => Fits'
    BY <2>1 DEF Fits
  <2>5. RanBefore' /\ work'[Recoverer] \in {"todo", "unit"} => config' = "old"
    BY <2>1 DEF TunnelInv, RanBefore
  <2> QED
    BY <2>1, <2>2, <2>3, <2>4, <2>5 DEF TunnelInv
<1>5. CASE RestoreFile \/ Restored
  <2>1. /\ UNCHANGED <<running, config, healthy, saved, meddled, backup, work>>
        /\ phase' \notin {"release", "failed"} \cup Early /\ phase # "crashed"
    BY <1>5 DEF RestoreFile, Restored, Step, service, history, Early
  <2>2. files'["cores"] = files["cores"]
        \/ (backup # Nothing /\ files'["cores"] = backup["cores"])
    <3>1. CASE Restored
      BY <3>1 DEF Restored
    <3>2. CASE RestoreFile
      <4>1. backup # Nothing
        BY <1>0, <3>2 DEF RestoreFile, FilesInv, TypedInv, InstallerTypeOK
      <4>2. \/ files' = [files EXCEPT ![RestoreOrder[at]] = backup[RestoreOrder[at]]]
            \/ files' = files
            \/ \E g \in {"hook"} : files' = [files EXCEPT ![g] = "torn"]
        BY <3>2 DEF RestoreFile
      <4> QED
        BY <1>0, <4>1, <4>2
    <3> QED
      BY <1>5, <3>1, <3>2
  <2>3. OldWorks => OldWorks'
    BY <2>1, <2>2 DEF OldWorks
  <2>4. RanBefore' => RanBefore
    BY <2>1 DEF RanBefore
  <2> QED
    BY <2>1, <2>3, <2>4 DEF TunnelInv
<1>6. CASE Commit \/ Record
  <2>1. /\ UNCHANGED <<running, config, healthy, meddled, files, backup, work>>
        /\ phase' \in {"record", "cleanup", "installed"} /\ phase # "crashed"
        /\ saved' \in {saved, Nothing}
    BY <1>6 DEF Commit, Record, Step, service, history
  <2> QED
    BY <2>1 DEF TunnelInv, RanBefore, OldWorks, Early
<1>7. CASE RestoreUnits
  <2>1. /\ UNCHANGED <<config, healthy, saved, meddled, outlived, files, backup, work>>
        /\ phase = "units" /\ phase' = "release"
    BY <1>7 DEF RestoreUnits, Step, disk
  <2>2. <<files["cores"], config>> # Nothing
    <3>1. files["cores"] \in Versions /\ config \in Versions
      BY <1>0, Orders DEF TypedInv, InstallerTypeOK
    <3> QED
      BY <3>1, NothingAssumption DEF Tunnels
  <2>3. ~partial' /\ saved # Nothing => (running' = Nothing <=> saved.running = Nothing)
    BY <1>7, <2>2 DEF RestoreUnits, Starts
  <2>4. ASSUME saved # Nothing, saved.running # Nothing, running # Nothing
        PROVE  running' = running
    BY <1>7, <2>4 DEF RestoreUnits, Starts
  <2>5. RanBefore' => RanBefore
    BY <2>1 DEF RanBefore
  <2>6. RanBefore /\ OldWorks => OldWorks'
    BY <2>1, <2>4 DEF RanBefore, OldWorks
  <2> QED
    BY <2>1, <2>3, <2>5, <2>6 DEF TunnelInv, Early
<1>8. CASE Update
  <2>1. /\ UNCHANGED <<phase, config, healthy, saved, meddled, partial, backup>>
        /\ pc[Updater] \notin Ended /\ work'[Recoverer] = work[Recoverer]
    BY <1>0, <1>8 DEF Update, CanWork, Ended, Did, history
  <2>2. phase \in {"updating", "stopping", "crashed"}
    BY <1>0, <2>1 DEF ChildInv
  <2>3. RanBefore' => RanBefore
    BY <2>1 DEF RanBefore
  <2> QED
    BY <1>0, <1>8, <2>1, <2>2, <2>3, UpdateWorks DEF TunnelInv, Early
<1>9. CASE Recover
  <2>1. /\ UNCHANGED <<phase, files, backup, healthy, saved, meddled, partial>>
        /\ pc[Recoverer] = "critical"
    BY <1>9, RecoverFrame DEF disk
  <2>2. phase \notin Early
    BY <1>0, <2>1 DEF PhaseInv, NoRecoverer, Filing, Early
  <2>3. RanBefore' = RanBefore
    BY <2>1 DEF RanBefore
  <2>4. /\ config' = "old" /\ RanBefore => config = "old"
        /\ work'[Recoverer] \in {"todo", "unit"} => work[Recoverer] = "todo" /\ config' = config
    <3>1. CASE RecoverConfig
      BY <1>0, <3>1 DEF RecoverConfig, RecoverAt, Did, TunnelInv
    <3>2. CASE RecoverUnit \/ RecoverCore \/ RecoverFails
      BY <1>0, <3>2 DEF RecoverUnit, RecoverCore, RecoverFails, RecoverAt, Did
    <3> QED
      BY <1>9, <3>1, <3>2 DEF Recover
  <2>5. ASSUME RanBefore, config' = "old" PROVE OldWorks'
    <3>1. OldWorks /\ config = "old"
      BY <2>4, <2>5 DEF TunnelInv
    <3>2. <<files["cores"], config>> # Nothing
      <4>1. files["cores"] \in Versions /\ config \in Versions
        BY <1>0, Orders DEF TypedInv, InstallerTypeOK
      <4> QED
        BY <4>1, NothingAssumption DEF Tunnels
    <3>3. running' \in {running, <<files["cores"], config>>}
      BY <1>9, <3>1 DEF Recover, RecoverUnit, RecoverConfig, RecoverCore, RecoverFails, OldWorks
    <3> QED
      BY <2>1, <3>1, <3>2, <3>3 DEF OldWorks
  <2>6. phase \in {"release", "failed"} /\ ~outlived' => ~outlived /\ running' = running
    BY <1>9, RecoverTold
  <2> QED
    BY <2>1, <2>2, <2>3, <2>4, <2>5, <2>6 DEF TunnelInv
<1>10. CASE Settle
  <2>1. /\ UNCHANGED <<phase, running, config, healthy, saved, backup, meddled, outlived, work>>
        /\ files'["cores"] = files["cores"] /\ (partial => partial')
    <3>1. pending \in Scripts
      BY <1>0, <1>10 DEF Settle, TypedInv, InstallerTypeOK
    <3> QED
      BY <1>0, <1>10, <3>1, Orders DEF Settle, service
  <2> QED
    BY <2>1 DEF TunnelInv, RanBefore, OldWorks, Fits
<1>11. ASSUME NEW p \in Procs, Command(p) PROVE TunnelInv'
  <2>1. /\ UNCHANGED <<phase, saved, backup, partial, healthy, outlived>>
        /\ work'[Recoverer] = work[Recoverer]
    BY <1>0, <1>11 DEF Command, Did
  <2>2. phase \in Early => Fits' /\ config' = "old"
    <3>1. ASSUME phase \in Early PROVE files["helpers"] = "old" /\ Fits /\ config = "old"
      BY <1>0, <3>1, Orders DEF FilesInv, All, TunnelInv
    <3>2. Fits => Fits'
      BY <1>0, <1>11 DEF Command, Import, UpdateCores, Stop, Restarts, Fits
    <3>3. config' \in {config, files["helpers"]}
      BY <1>11 DEF Command, Import, UpdateCores, Stop
    <3> QED
      BY <3>1, <3>2, <3>3
  <2>3. saved # Nothing /\ ~meddled' => UNCHANGED <<files, unit, config, running, meddled>>
    BY <1>0, <1>11, CommandTold
  <2>4. /\ RanBefore' => RanBefore /\ UNCHANGED <<files, config, running>>
        /\ (saved # Nothing /\ ~meddled' => ~meddled /\ UNCHANGED running)
    BY <2>1, <2>3 DEF RanBefore
  <2>5. RanBefore' /\ OldWorks => OldWorks'
    BY <2>1, <2>4 DEF OldWorks
  <2> QED
    BY <2>1, <2>2, <2>4, <2>5 DEF TunnelInv
<1> QED
  BY <1>1, <1>2, <1>3, <1>4, <1>5, <1>6, <1>7, <1>8, <1>9, <1>10, <1>11, Acts

LEMMA InstalledInv == InstallerSpec => [](SharedInv /\ VersionInv /\ TunnelInv)
<1>1. InitInstaller => SharedInv /\ VersionInv /\ TunnelInv
  BY InitShared, InitVersion, InitTunnel
<1>2. SharedInv /\ VersionInv /\ TunnelInv /\ [NextInstaller]_allVars =>
        (SharedInv /\ VersionInv /\ TunnelInv)'
  <2>1. SharedInv => PhaseInv
    BY DEF SharedInv
  <2>2. SharedInv /\ VersionInv /\ [NextInstaller]_allVars => SharedInv' /\ VersionInv'
    BY <2>1, SharedStep, TypedStep, ChildStep, FilesStep, UnitStep, ServedStep DEF VersionInv
  <2> QED
    BY <2>2, TunnelStep
<1> QED
  BY <1>1, <1>2, PTL DEF InstallerSpec

\* An installer that ends leaves the scripts of one version, and the assets and the
\* unit of before if it failed, unless a boot_recover outlived it, and no lock in its
\* name.
THEOREM OneVersionLeft == InstallerSpec => []LeavesOneVersion
<1>1. SharedInv => NoLockLeft
  BY DEF SharedInv, EndedInv, PhaseInv, Unlocked, NoLockLeft
<1>2. VersionInv => InstallerTypeOK
  BY DEF VersionInv, TypedInv
<1>3. VersionInv => AllOrNothing
  <2> SUFFICES ASSUME VersionInv, phase \in {"installed", "failed"}, ~partial
               PROVE  \/ All("new") /\ ~marked
                      \/ /\ phase = "failed" /\ All("old")
                         /\ saved # Nothing /\ Undisturbed /\ ~outlived => unit = saved.unit
                         /\ backup # Nothing /\ Undisturbed => files["cores"] = backup["cores"]
    BY DEF AllOrNothing
  <2>1. CASE phase = "installed"
    BY <2>1 DEF VersionInv, FilesInv, Committed
  <2>2. CASE phase = "failed"
    BY <2>2 DEF VersionInv, FilesInv, UnitInv, OneVersion, CoresKept, Undisturbed
  <2> QED
    BY <2>1, <2>2
<1> QED
  BY InstalledInv, <1>1, <1>2, <1>3, PTL DEF LeavesOneVersion

\* What calls itself installed runs the new unit, and serves if the user wants it to; and
\* where the install was undone the service runs if it ran, with a tunnel that works,
\* unless a boot_recover outlived the installer.
THEOREM ServiceIsLeft == InstallerSpec => []ServiceSurvives
<1>1. VersionInv => InstalledServes
  BY DEF VersionInv, ServedInv, Ready, Renewed, Working, Committed, InstalledServes, Undisturbed
<1>2. TunnelInv => UndoneServes
  BY DEF TunnelInv, RanBefore, OldWorks, UndoneServes, Undisturbed
<1> QED
  BY InstalledInv, <1>1, <1>2, PTL DEF ServiceSurvives
=============================================================================
