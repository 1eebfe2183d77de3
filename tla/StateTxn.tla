----------------------------- MODULE StateTxn -----------------------------
(***************************************************************************)
(* The state transaction of the proxy-unifi CLI (src/src/proxy-unifi):     *)
(* txn_begin snapshots the state directory ETC_DIR and the units' runtime  *)
(* state, then names the snapshot in TXN_MARKER; txn_commit removes the    *)
(* marker; txn_rollback (run by on_exit) and recover_transaction (run by   *)
(* the next command, the boot hook or the 30 s guard timer) copy the       *)
(* snapshot back.                                                          *)
(*                                                                         *)
(* One process at a time runs the CLI under its lock (module CliLock). It  *)
(* may be interrupted at any step: a command of it fails or a signal comes *)
(* (Fault: on_exit runs), the function that locked_call runs fails         *)
(* (CallFails), it is killed (Kill: nothing runs), or the power goes       *)
(* (PowerLoss: also what was not yet on disk may be lost).                 *)
(*                                                                         *)
(* The core is systemd's: when it dies its unit waits (RestartSec=5),      *)
(* inactive for who asks, and systemd then starts it at any step of a      *)
(* command.                                                                *)
(*                                                                         *)
(* The disk. fs is the file system the process sees, img the images that a *)
(* power cut could leave: every state fs has had since the last fsync. The *)
(* journal of the gateway's file system keeps operations in order, so a    *)
(* power cut leaves a prefix of them.                                      *)
(***************************************************************************)
EXTENDS Naturals, Functions

CONSTANTS Parts,      \* the files of ETC_DIR that one operation changes together
          Gens,       \* the versions an operation may install
          NoDir,      \* the directory does not exist
          NoTxn,      \* the transaction directory does not exist
          InitEtc,    \* what ETC_DIR holds at first
          InitUnits,  \* what systemd reports at first: a set of sets of flags
          Switches,   \* the flags that an operation may switch
          FaultAt,    \* the steps at which a command may fail or a signal come
          MaxFaults   \* how many interruptions a behaviour may have

\* A directory is a partial function from its files to the version of each.
Content == UNION {[S -> Gens] : S \in SUBSET Parts}
Whole(g) == [p \in Parts |-> g]
Versions == {Whole(g) : g \in Gens}
Stable == Versions \cup {NoDir}

ASSUME SentinelsAssumption == NoDir \notin Content
ASSUME InitEtcAssumption == InitEtc \subseteq Stable
ASSUME MaxFaultsAssumption == MaxFaults \in Nat

\* What systemd reports of the two units; the snapshot keeps one file for each.
ServiceFlags == {"service-active", "service-enabled"}
TimerFlags == {"timer-active", "timer-enabled"}
Flags == ServiceFlags \cup TimerFlags

\* The steps of txn_begin, of the operation and of txn_commit ...
BeginSteps == {"begin", "had", "copy", "flags", "sync", "mark"}
BodySteps == {"body", "restart", "unmark"}
CommitSteps == {"unmarkSync", "drop", "forget", "release"}
OpSteps == BeginSteps \cup BodySteps \cup CommitSteps
\* ... and those of a rollback or a recovery.
RestoreSteps == {"clean", "candidate", "candSync", "aside", "swap", "erase",
                 "rootSync", "discard", "enable", "service", "timer", "clear"}
ClearedSteps == {"clearSync", "remove", "unset"}
Steps == {"idle"} \cup OpSteps \cup RestoreSteps \cup ClearedSteps

\* The steps at which TXN_DIR, if it is set, is what the marker names.
SafePoints == {"begin", "release"} \cup BodySteps \cup RestoreSteps

ASSUME UnitsAssumption == InitUnits \subseteq SUBSET Flags /\ Switches \subseteq Flags
ASSUME FaultAtAssumption == FaultAt \subseteq Steps \ {"idle"}

VARIABLES fs,         \* the file system: etc, txn (the snapshot) and marker
          img,        \* the images of it that a power cut may leave
          pc,         \* the step of the running process, "idle" if none runs
          mode,       \* "op", "tick" (recovers, then ends), or who rolls back:
                      \* "call" (locked_call) or "rollback" (on_exit, no traps)
          owned,      \* TXN_DIR is set in the running process
          gen,        \* the version that the operation installs
          lapsed,     \* the flags that this restore could not put back
          rt,         \* the flags that systemd reports now
          running,    \* the state the core was started from, NoDir if none
          waiting,    \* the core died and its unit waits for RestartSec
          stray,      \* history: systemd started the core behind an operation's
                      \* back, or a restore's systemctl failed and left it running
          faults      \* interruptions so far

vars == <<fs, img, pc, mode, owned, gen, lapsed, rt, running, waiting, stray, faults>>
proc == <<mode, owned, gen, lapsed>>
core == <<running, waiting, stray>>
units == <<rt, core>>
Modes == {"op", "tick", "call", "rollback"}

Txn == [hadEtc : BOOLEAN, etc : Content \cup {NoDir}, cand : Content \cup {NoDir},
        failed : Content \cup {NoDir}, files : SUBSET (Flags \cup {"runtime-state"})]
FileSystem == [etc : Content \cup {NoDir}, txn : Txn \cup {NoTxn}, marker : BOOLEAN]

ASSUME NoTxnAssumption == NoTxn \notin Txn

Fresh == [hadEtc |-> FALSE, etc |-> NoDir, cand |-> NoDir, failed |-> NoDir,
          files |-> {}]

Empty == [p \in {} |-> p]
Files(c) == IF c = NoDir THEN {} ELSE DOMAIN c
Put(c, p, g) == [q \in Files(c) \cup {p} |-> IF q = p THEN g ELSE c[q]]

HadEtc(f) == f.txn # NoTxn /\ f.txn.hadEtc
Snapshot(f) == IF HadEtc(f) THEN f.txn.etc ELSE NoDir
\* The state a reader gets once the next recovery has run.
Logical(f) == IF f.marker THEN Snapshot(f) ELSE f.etc

-----------------------------------------------------------------------------

Init == /\ \E c \in InitEtc : fs = [etc |-> c, txn |-> NoTxn, marker |-> FALSE]
        /\ img = {fs}
        /\ pc = "idle"
        /\ mode = "op"
        /\ owned = FALSE
        /\ gen \in Gens
        /\ rt \in InitUnits
        /\ "service-active" \in rt => fs.etc # NoDir
        /\ running = IF "service-active" \in rt THEN fs.etc ELSE NoDir
        /\ waiting = FALSE
        /\ stray = FALSE
        /\ lapsed = {}
        /\ faults = 0

\* A file operation: seen at once, on disk some time before the next fsync.
Change(f) == fs' = f /\ img' = img \cup {f}
\* A file operation and the fsync after it (atomic_write), or the fsync alone.
Persist(f) == fs' = f /\ img' = {f}
KeepDisk == UNCHANGED <<fs, img>>

At(here, next) == pc = here /\ pc' = next
\* The process ends and with it the shell variables.
Exit == pc' = "idle" /\ owned' = FALSE /\ mode' = "op" /\ lapsed' = {} /\ UNCHANGED gen
\* txn_rollback begins, from locked_call or on_exit.
RollBack(m) == pc' = "clean" /\ mode' = m /\ lapsed' = {} /\ UNCHANGED <<owned, gen>>
\* A restore fails and leaves the marker: the process ends. That of locked_call may,
\* on its way out, roll back once more.
GiveUp == Exit \/ (mode = "call" /\ RollBack("rollback"))
Interrupted == faults < MaxFaults /\ faults' = faults + 1

\* A slip of Start: only operations recover, the guard timer never does.
StartByOpsOnly(m) ==
    /\ pc = "idle"
    /\ m = "op"
    /\ mode' = m
    /\ pc' = IF fs.marker THEN "clean" ELSE "begin"
    /\ KeepDisk
    /\ UNCHANGED <<owned, gen, lapsed, units, faults>>

\* A locked command starts. One that finds a marker recovers first; the guard
\* timer and the boot hook end there, an operation goes on to txn_begin.
Start(m) ==
    /\ pc = "idle"
    /\ mode' = m
    /\ \/ /\ fs.marker
          /\ fs.txn # NoTxn
          /\ pc' = "clean"
       \/ /\ ~fs.marker
          /\ m = "op"
          /\ pc' = "begin"
    /\ KeepDisk
    /\ UNCHANGED <<owned, gen, lapsed, units, faults>>

(***************************************************************************)
(* txn_begin                                                               *)
(***************************************************************************)
MakeDir ==
    /\ At("begin", "had")
    /\ Change([fs EXCEPT !.txn = Fresh])
    /\ owned' = TRUE
    /\ gen' \in Gens
    /\ UNCHANGED <<mode, lapsed, units, faults>>

\* A slip of NoteEtc: the snapshot does not say that there was a directory.
NoteEtcNever ==
    /\ At("had", IF fs.etc = NoDir THEN "flags" ELSE "copy")
    /\ KeepDisk
    /\ UNCHANGED <<proc, units, faults>>

NoteEtc ==
    /\ pc = "had"
    /\ \/ /\ fs.etc # NoDir
          /\ Change([fs EXCEPT !.txn.hadEtc = TRUE])
          /\ pc' = "copy"
       \/ /\ fs.etc = NoDir
          /\ KeepDisk
          /\ pc' = "flags"
    /\ UNCHANGED <<proc, units, faults>>

\* cp -Rp creates the directory, then one file after the other.
CopyEtc ==
    /\ pc = "copy"
    /\ \/ /\ fs.txn.etc = NoDir
          /\ Change([fs EXCEPT !.txn.etc = Empty])
          /\ pc' = "copy"
       \/ /\ fs.txn.etc # NoDir
          /\ \E p \in DOMAIN fs.etc \ Files(fs.txn.etc) :
                Change([fs EXCEPT !.txn.etc = Put(fs.txn.etc, p, fs.etc[p])])
          /\ pc' = "copy"
       \/ /\ fs.txn.etc = fs.etc
          /\ KeepDisk
          /\ pc' = "flags"
    /\ UNCHANGED <<proc, units, faults>>

\* A unit that waits for its restart is not active.
NoteUnits ==
    /\ At("flags", "sync")
    /\ Change([fs EXCEPT !.txn.files = rt \cup {"runtime-state"}])
    /\ UNCHANGED <<proc, units, faults>>

SyncSnapshot ==
    /\ At("sync", "mark")
    /\ Persist(fs)
    /\ UNCHANGED <<proc, units, faults>>

SetMarker ==
    /\ At("mark", "body")
    /\ Persist([fs EXCEPT !.marker = TRUE])
    /\ UNCHANGED <<proc, units, faults>>

(***************************************************************************)
(* The operation: it replaces every part (atomic_write: durable at once;   *)
(* mv: later), may remove parts and switch units, then restarts the        *)
(* service, or leaves it or makes it stopped.                              *)
(***************************************************************************)
WritePart ==
    /\ At("body", "body")
    /\ \E p \in Parts : LET f == [fs EXCEPT !.etc = Put(fs.etc, p, gen)] IN
          Persist(f) \/ Change(f)
    /\ UNCHANGED <<proc, units, faults>>

RemovePart ==
    /\ At("body", "body")
    /\ \E p \in Files(fs.etc) :
          Change([fs EXCEPT !.etc = Restrict(fs.etc, DOMAIN fs.etc \ {p})])
    /\ UNCHANGED <<proc, units, faults>>

SwitchUnit ==
    /\ At("body", "body")
    /\ \E f \in Switches \ {"service-active"} :
          rt' \in {rt \cup {f}, rt \ {f}}
    /\ KeepDisk
    /\ UNCHANGED <<proc, core, faults>>

\* A slip of BodyDone: the operation commits before its last file is written.
BodyDoneEarly ==
    /\ At("body", "restart")
    /\ KeepDisk
    /\ UNCHANGED <<proc, units, faults>>

BodyDone ==
    /\ At("body", "restart")
    /\ fs.etc = Whole(gen)
    /\ KeepDisk
    /\ UNCHANGED <<proc, units, faults>>

\* systemctl restart: the core reads what is there. Without a state directory the
\* unit's condition on the configuration file fails and nothing starts.
RestartCore ==
    /\ rt' = IF fs.etc # NoDir THEN rt \cup {"service-active"}
                               ELSE rt \ {"service-active"}
    /\ running' = fs.etc
    /\ waiting' = FALSE
    /\ stray' = FALSE

StopCore ==
    /\ rt' = rt \ {"service-active"}
    /\ running' = NoDir
    /\ waiting' = FALSE
    /\ stray' = FALSE

\* restart_service (an import), restart_if_previously_active (a setting: it
\* leaves a service alone that the snapshot has as stopped) or systemctl stop.
Apply ==
    /\ At("restart", "unmark")
    /\ \/ RestartCore
       \/ "service-active" \notin fs.txn.files /\ UNCHANGED units
       \/ StopCore
    /\ KeepDisk
    /\ UNCHANGED <<proc, faults>>

(***************************************************************************)
(* txn_commit                                                              *)
(***************************************************************************)
\* A slip of Unmark: the snapshot goes first, the marker second.
UnmarkAfterDrop ==
    /\ At("unmark", "unmarkSync")
    /\ Change([fs EXCEPT !.txn = NoTxn])
    /\ UNCHANGED <<proc, units, faults>>

Unmark ==
    /\ At("unmark", "unmarkSync")
    /\ Change([fs EXCEPT !.marker = FALSE])
    /\ UNCHANGED <<proc, units, faults>>

\* A slip of SyncUnmark: the fsync is left out.
SyncUnmarkNot ==
    /\ At("unmarkSync", "drop")
    /\ KeepDisk
    /\ UNCHANGED <<proc, units, faults>>

SyncUnmark ==
    /\ At("unmarkSync", "drop")
    /\ Persist(fs)
    /\ UNCHANGED <<proc, units, faults>>

DropDir ==
    /\ At("drop", "forget")
    /\ Change([fs EXCEPT !.txn = NoTxn])
    /\ UNCHANGED <<proc, units, faults>>

Forget ==
    /\ At("forget", "release")
    /\ owned' = FALSE
    /\ KeepDisk
    /\ UNCHANGED <<mode, gen, lapsed, units, faults>>

Release ==
    /\ At("release", "idle")
    /\ KeepDisk
    /\ UNCHANGED <<proc, units, faults>>

(***************************************************************************)
(* restore_transaction_files and restore_runtime_state, as txn_rollback    *)
(* and recover_transaction run them. A file operation that fails here ends *)
(* the process with the marker still set, as Kill does, or makes on_exit   *)
(* roll back once more after locked_call, as Fault does. A systemctl that  *)
(* fails changes nothing of that: the restore goes on.                     *)
(***************************************************************************)
CleanLeftovers ==
    /\ pc = "clean"
    /\ IF fs.txn = NoTxn THEN KeepDisk
       ELSE Change([fs EXCEPT !.txn.cand = NoDir, !.txn.failed = NoDir])
    /\ pc' = IF HadEtc(fs) THEN "candidate" ELSE "erase"
    /\ UNCHANGED <<proc, units, faults>>

CopyCandidate ==
    /\ At("candidate", "candSync")
    /\ fs.txn.etc # NoDir
    /\ Change([fs EXCEPT !.txn.cand = fs.txn.etc])
    /\ UNCHANGED <<proc, units, faults>>

\* [ -d etc ] || return 1: there is nothing to restore from.
NoSnapshot ==
    /\ pc = "candidate"
    /\ fs.txn.etc = NoDir
    /\ GiveUp
    /\ KeepDisk
    /\ UNCHANGED <<units, faults>>

SyncCandidate ==
    /\ At("candSync", "aside")
    /\ Persist(fs)
    /\ UNCHANGED <<proc, units, faults>>

MoveAside ==
    /\ At("aside", "swap")
    /\ IF fs.etc = NoDir THEN KeepDisk
       ELSE Change([fs EXCEPT !.txn.failed = fs.etc, !.etc = NoDir])
    /\ UNCHANGED <<proc, units, faults>>

SwapIn ==
    /\ At("swap", "rootSync")
    /\ Change([fs EXCEPT !.etc = fs.txn.cand, !.txn.cand = NoDir])
    /\ UNCHANGED <<proc, units, faults>>

\* The second mv fails: the directory moved aside is put back.
SwapFails ==
    /\ pc = "swap"
    /\ Interrupted
    /\ Change([fs EXCEPT !.etc = fs.txn.failed, !.txn.failed = NoDir,
                         !.txn.cand = NoDir])
    /\ GiveUp
    /\ UNCHANGED units

\* There was no state directory when the transaction began.
EraseEtc ==
    /\ At("erase", "rootSync")
    /\ Change([fs EXCEPT !.etc = NoDir])
    /\ UNCHANGED <<proc, units, faults>>

SyncRoot ==
    /\ At("rootSync", "discard")
    /\ Persist(fs)
    /\ UNCHANGED <<proc, units, faults>>

SavedFiles == IF fs.txn = NoTxn THEN {} ELSE fs.txn.files

\* The snapshot says nothing of the units if its last file is missing.
DiscardFailed ==
    /\ pc = "discard"
    /\ IF HadEtc(fs) THEN Change([fs EXCEPT !.txn.failed = NoDir]) ELSE KeepDisk
    /\ pc' = IF "runtime-state" \in SavedFiles THEN "enable" ELSE "service"
    /\ UNCHANGED <<proc, units, faults>>

\* systemctl makes the flags F what the snapshot says. What it reports is thrown away
\* (|| true): a flag for which it fails stays as it is.
PutBack(F) ==
    \E failing \in SUBSET F :
        /\ IF failing = {} THEN UNCHANGED faults ELSE Interrupted
        /\ rt' = (rt \ (F \ failing)) \cup (SavedFiles \cap (F \ failing))
        /\ lapsed' = lapsed \cup failing

RestoreEnabled ==
    /\ At("enable", "service")
    /\ PutBack({"service-enabled"})
    /\ KeepDisk
    /\ UNCHANGED <<mode, owned, gen, core>>

\* The restart or stop of the service fails, which nobody notices: the core goes on
\* with what it has read, or is down, for RestartSec or for good.
ServiceLapses ==
    /\ Interrupted
    /\ lapsed' = lapsed \cup {"service-active"}
    /\ \/ stray' = TRUE /\ UNCHANGED <<rt, running, waiting>>
       \/ /\ rt' = rt \ {"service-active"}
          /\ running' = NoDir
          /\ waiting' \in BOOLEAN
          /\ stray' = FALSE

\* A slip of RestoreService: a core that is active is not restarted.
RestoreServiceByStart ==
    /\ pc = "service"
    /\ pc' = IF "runtime-state" \in SavedFiles THEN "timer" ELSE "clear"
    /\ IF "service-active" \in SavedFiles
       THEN IF "service-active" \in rt THEN UNCHANGED units ELSE RestartCore
       ELSE StopCore
    /\ KeepDisk
    /\ UNCHANGED <<proc, faults>>

\* A slip of RestoreService: the timer is left as the operation made it.
RestoreServiceOnly ==
    /\ At("service", "clear")
    /\ IF "service-active" \in SavedFiles THEN RestartCore ELSE StopCore
    /\ KeepDisk
    /\ UNCHANGED <<proc, faults>>

\* The service: as the snapshot says, or just restarted if it does not say.
RestoreService ==
    /\ pc = "service"
    /\ pc' = IF "runtime-state" \in SavedFiles THEN "timer" ELSE "clear"
    /\ \/ /\ IF "service-active" \in SavedFiles \/ "runtime-state" \notin SavedFiles
             THEN RestartCore ELSE StopCore
          /\ UNCHANGED <<lapsed, faults>>
       \/ ServiceLapses
    /\ KeepDisk
    /\ UNCHANGED <<mode, owned, gen>>

RestoreTimer ==
    /\ At("timer", "clear")
    /\ PutBack(TimerFlags)
    /\ KeepDisk
    /\ UNCHANGED <<mode, owned, gen, core>>

ClearMarker ==
    /\ At("clear", "clearSync")
    /\ Change([fs EXCEPT !.marker = FALSE])
    /\ lapsed' = {}
    /\ UNCHANGED <<mode, owned, gen, units, faults>>

SyncClear ==
    /\ At("clearSync", "remove")
    /\ Persist(fs)
    /\ UNCHANGED <<proc, units, faults>>

\* A recovery ends here, or goes on with the operation; a rollback has TXN_DIR yet.
RemoveDir ==
    /\ pc = "remove"
    /\ Change([fs EXCEPT !.txn = NoTxn])
    /\ \/ owned /\ pc' = "unset" /\ UNCHANGED proc
       \/ ~owned /\ mode = "op" /\ pc' = "begin" /\ UNCHANGED proc
       \/ ~owned /\ mode # "op" /\ Exit
    /\ UNCHANGED <<units, faults>>

\* TXN_DIR="", and the process ends.
Unset ==
    /\ pc = "unset"
    /\ Exit
    /\ KeepDisk
    /\ UNCHANGED <<units, faults>>

(***************************************************************************)
(* Interruptions                                                           *)
(***************************************************************************)
\* The function that locked_call runs returns with the transaction open, as where
\* errexit is off (menu_updates): locked_call rolls back, with its traps set.
CallFails ==
    /\ Interrupted
    /\ pc \in {"body", "restart"}
    /\ RollBack("call")
    /\ KeepDisk
    /\ UNCHANGED units

\* A command fails or INT, TERM or HUP comes: the EXIT trap rolls back if TXN_DIR
\* is set. During its own rollback the traps are off (see Kill).
Fault ==
    /\ Interrupted
    /\ pc \in FaultAt
    /\ mode # "rollback"
    /\ IF owned THEN RollBack("rollback") ELSE Exit
    /\ KeepDisk
    /\ UNCHANGED units

Kill ==
    /\ Interrupted
    /\ pc # "idle"
    /\ Exit
    /\ KeepDisk
    /\ UNCHANGED units

\* After a power cut systemd starts what is enabled, from whatever is there.
PowerLoss ==
    /\ Interrupted
    /\ \E i \in img :
          /\ Persist(i)
          /\ running' = IF "service-enabled" \in rt THEN i.etc ELSE NoDir
          /\ rt' = (rt \ {"service-active", "timer-active"})
                   \cup {f \in {"service-active"} : "service-enabled" \in rt /\ i.etc # NoDir}
                   \cup {f \in {"timer-active"} : "timer-enabled" \in rt}
    /\ waiting' = FALSE
    /\ stray' = FALSE
    /\ Exit

\* The core dies, at any moment (also at once after a start, from a configuration
\* that it does not take): its unit is inactive and waits.
CoreDies ==
    /\ Interrupted
    /\ "service-active" \in rt
    /\ rt' = rt \ {"service-active"}
    /\ running' = NoDir
    /\ waiting' = TRUE
    /\ stray' = FALSE
    /\ KeepDisk
    /\ UNCHANGED <<pc, proc>>

\* From the moment txn_begin noted the units until the last file is written.
Changing == {"sync", "mark", "body"}

\* systemd starts a waiting unit, whatever command runs. It is a stray one if an
\* operation, which has noted the service as stopped, is still to change the files.
CoreRestarts ==
    /\ waiting
    /\ waiting' = FALSE
    /\ rt' = IF fs.etc # NoDir THEN rt \cup {"service-active"} ELSE rt
    /\ running' = fs.etc
    /\ stray' = (pc \in Changing /\ "service-active" \notin fs.txn.files)
    /\ KeepDisk
    /\ UNCHANGED <<pc, proc, faults>>

-----------------------------------------------------------------------------

Begin == MakeDir \/ NoteEtc \/ CopyEtc \/ NoteUnits \/ SyncSnapshot \/ SetMarker
Body == WritePart \/ RemovePart \/ SwitchUnit \/ BodyDone \/ Apply
Commit == Unmark \/ SyncUnmark \/ DropDir \/ Forget \/ Release
RestoreFiles == CleanLeftovers \/ CopyCandidate \/ NoSnapshot \/ SyncCandidate
                \/ MoveAside \/ SwapIn \/ EraseEtc \/ SyncRoot \/ DiscardFailed
RestoreRuntime == RestoreEnabled \/ RestoreService \/ RestoreTimer
Finish == ClearMarker \/ SyncClear \/ RemoveDir \/ Unset
Restore == RestoreFiles \/ RestoreRuntime \/ Finish
Environment == SwapFails \/ CallFails \/ Fault \/ Kill \/ PowerLoss
               \/ CoreDies \/ CoreRestarts

Next == Start("op") \/ Start("tick") \/ Begin \/ Body \/ Commit \/ Restore \/ Environment

Spec == Init /\ [][Next]_vars

\* The guard timer runs every 30 s and the boot hook at every boot; a recovery
\* that runs is not suspended for ever.
Fairness == WF_vars(Start("tick")) /\ WF_vars(Restore)

FairSpec == Spec /\ Fairness

-----------------------------------------------------------------------------
(***************************************************************************)
(* Properties                                                              *)
(***************************************************************************)

\* Every variable holds what its declaration says, and the state of the file
\* system that the process sees is one that a power cut may leave.
TypeOK == /\ fs \in FileSystem
          /\ img \subseteq FileSystem
          /\ fs \in img
          /\ pc \in Steps
          /\ mode \in Modes
          /\ owned \in BOOLEAN
          /\ gen \in Gens
          /\ rt \in SUBSET Flags
          /\ lapsed \in SUBSET Flags
          /\ running \in Content \cup {NoDir}
          /\ waiting \in BOOLEAN
          /\ stray \in BOOLEAN
          /\ faults \in 0..MaxFaults

\* A marker always names a snapshot that is complete and on disk, on every image
\* that a power cut may leave and wherever the process is interrupted: txn_begin
\* syncs the snapshot before it sets the marker, and no rollback, recovery or
\* commit consumes it before the marker is gone from the disk. So recovery is
\* always possible and may be repeated.
MarkedIsRecoverable ==
    \A i \in img : i.marker =>
        /\ i.txn # NoTxn
        /\ "runtime-state" \in i.txn.files
        /\ i.txn.hadEtc => i.txn.etc # NoDir

\* What recovery finds is never torn and never lost: the snapshot that a marker
\* names, and without a marker the state directory itself, is one complete
\* version that an operation installed, or what there was at first.
NeverTorn == \A i \in img : Logical(i) \in Versions \cup InitEtc

\* An operation that txn_commit lets return has its version on disk: no power
\* cut, no later recovery takes it back.
CommittedIsDurable ==
    pc = "release" => \A i \in img : Logical(i) = Whole(gen)

\* What the user is told is what the disk keeps: complete versions only, and the new
\* one from the moment that an operation returns.
VersionsAreSafe == NeverTorn /\ CommittedIsDurable

\* When nothing runs and nothing waits for recovery, an active core runs the
\* state that is stored, whatever interrupted the operations before: operations and
\* restores restart what they change, as the comment on the guard timer's runs has it.
\* That is not so of a stray core, whose unit waited when txn_begin looked and which
\* systemd started before the files changed, until it is next started, stopped or dies.
ServedIsStored ==
    (pc = "idle" /\ ~fs.marker /\ "service-active" \in rt /\ ~stray) => running = fs.etc

\* No sequence of operations and interruptions removes the state directory of
\* a gateway that had one ("failed starts restore the prior working state").
StateNeverErased ==
    (NoDir \notin InitEtc /\ pc = "idle" /\ ~fs.marker) => fs.etc # NoDir

\* What the snapshot says of the units (a service without configuration does not
\* start), and what they are, a service that waits for its restart taken for active.
Due == IF fs.etc = NoDir THEN SavedFiles \ {"service-active"} ELSE SavedFiles
Present == IF waiting THEN rt \cup {"service-active"} ELSE rt

\* A restore clears the marker only when the state directory is the snapshot and
\* every unit is again what the snapshot says, those aside whose systemctl failed in
\* this restore: it says nothing of them and the marker goes all the same.
RestoreIsComplete ==
    [][(fs.marker /\ ~fs'.marker /\ pc = "clear") =>
          /\ Present \ lapsed = (Due \cap Flags) \ lapsed
          /\ fs.etc = Snapshot(fs)]_vars

\* A transaction that lost its process does not stay open for ever.
EventuallyRecovered == (fs.marker /\ pc = "idle") ~> ~fs.marker

\* StateTxn implements AtomicStore: what a reader finds after recovery, and what
\* a power cut could make of it, change as the atomic store allows.
Store == INSTANCE AtomicStore WITH
            Versions <- Versions, Blank <- NoDir,
            store <- Logical(fs),
            outcomes <- {Logical(i) : i \in img},
            intent <- Whole(gen)

AtomicUpdates == Store!Spec

-----------------------------------------------------------------------------
(***************************************************************************)
(* The strengthening that makes the invariants inductive: what each step   *)
(* of the process may rely on.                                             *)
(***************************************************************************)
SnapshotDone == {"flags", "sync", "mark"}
CandidateReady == {"candSync", "aside", "swap"}
FilesRestored == {"rootSync", "discard", "enable", "service", "timer", "clear"}

SnapshotInv ==
    /\ pc \in BeginSteps \cup CommitSteps \cup ClearedSteps => ~fs.marker
    /\ pc \in BeginSteps \ {"begin"} => fs.txn # NoTxn
    /\ pc = "had" => ~fs.txn.hadEtc
    /\ pc = "copy" => fs.txn.hadEtc /\ fs.etc # NoDir
    /\ pc \in SnapshotDone => (fs.txn.hadEtc => fs.txn.etc # NoDir)
    /\ pc \in {"sync", "mark"} => "runtime-state" \in fs.txn.files
    /\ pc \in CandidateReady \cup {"candidate"} => HadEtc(fs)

\* The next conjuncts need that no fault comes outside the safe points.
OwnedInv ==
    /\ pc \in {"idle", "begin", "release"} => ~owned
    /\ (pc \in RestoreSteps \cup ClearedSteps /\ mode \in {"op", "tick"}) => ~owned

MarkerInv ==
    /\ pc \in BodySteps \cup RestoreSteps => fs.marker
    /\ pc \in SnapshotDone => Snapshot(fs) = fs.etc

TargetInv ==
    /\ pc \in {"restart", "unmark"} \cup CommitSteps => fs.etc = Whole(gen)
    /\ pc \in {"drop", "forget", "release"} => \A i \in img : Logical(i) = Whole(gen)

RestoreInv ==
    /\ pc = "erase" => ~HadEtc(fs)
    /\ pc \in CandidateReady => fs.txn.cand = fs.txn.etc
    /\ pc \in FilesRestored => fs.etc = Snapshot(fs)

RecoveryInv == MarkedIsRecoverable /\ SnapshotInv
AtomicInv == NeverTorn /\ OwnedInv /\ MarkerInv /\ TargetInv /\ RestoreInv
=============================================================================
