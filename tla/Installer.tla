------------------------------ MODULE Installer ------------------------------
(***************************************************************************)
(* src/install.sh, next to the commands of a user and of the timers: it    *)
(* promotes the files of a new version under the lock, releases it, runs   *)
(* the new CLI's _update and boot-recover, which each take the lock, and   *)
(* commits; or it puts everything back, without the lock. A boot-recover   *)
(* that a signal to the installer left behind works on meanwhile. CliLock  *)
(* is the lock itself. One installer runs once.                            *)
(*                                                                         *)
(* The five assets of bin/ are one file, "cores", the seven helpers are    *)
(* one, and of the units only that of the service is followed. What        *)
(* _update does in detail is CoreUpdate's: here it works or is undone. A   *)
(* tunnel is the pair <<version of the core, version that made the         *)
(* config>>.                                                               *)
(***************************************************************************)
EXTENDS CliLock, Sequences

CONSTANTS Main, Updater, Recoverer, \* the installer and the two CLIs that it starts
          Gateways,  \* what runs at first, whether the user wants that, and which
                     \* tunnels pass the health check
          MaxFails,  \* commands of the installer that fail
          Nothing    \* no core runs; no backup; no command is on its way

Children == {Updater, Recoverer}
Commands == Procs \ ({Main} \cup Children)
Versions == {"old", "new"}
Promoted == <<"cli", "helpers", "hook">>
RestoreOrder == <<"cli", "helpers", "cores", "hook">>
Files == {"cli", "helpers", "cores", "hook"}
Scripts == Files \ {"cores"}
Tunnels == Versions \X Versions

ASSUME ProcsAssumption == Children \cup {Main} \subseteq Procs /\ Main \notin Children
                          /\ Updater # Recoverer
ASSUME GatewaysAssumption ==
    Gateways \subseteq [running : {<<"old", "old">>, Nothing}, autostart : BOOLEAN,
                        healthy : {h \in SUBSET Tunnels : <<"old", "old">> \in h}]
ASSUME FailsAssumption == MaxFails \in Nat
ASSUME NothingAssumption == Nothing \notin Tunnels \cup Files \cup [Files -> Versions]

VARIABLES phase,     \* the installer's step
          at,        \* the file it is at
          ok,        \* _rc = 0, later _restore_rc = 0
          files,     \* the version of each file
          backup,    \* PROMOTION_BACKUP
          marked,    \* PROMOTION_MARKER exists
          saved,     \* the service's state in SERVICE_STATE_BACKUP, with its marker
          recorded,  \* the commit in the version file
          unit,      \* the version of the unit file
          config,    \* the version of the generators that made the config
          running,   \* the tunnel that the core was started with, or Nothing
          autostart, \* the user's choice
          healthy,   \* the tunnels that pass the health check
          work,      \* what each process has done under the lock: "todo", boot-recover's
                     \* "unit" and "config", "done" or "failed"
          fails,
          pending,   \* a mv that outlives the shell that a signal ended, or Nothing
          partial,   \* it could not put everything back (history)
          meddled,   \* a command changed something after the backup (history)
          outlived   \* boot-recover wrote to what cleanup had put back (history)

disk == <<files, backup, marked, saved, recorded>>
service == <<unit, config, running, autostart, healthy>>
history == <<partial, meddled, outlived>>
setup == <<phase, at, ok, disk, service, work, fails, pending, history>>
allVars == <<vars, setup>>

\* Steps in which the child that run_step waits for is install_files.
Filing == {"files", "snapshot", "backup", "promote", "undo", "free"}
Over == {"installed", "failed", "crashed"}

InitInstaller ==
    /\ dir \in InitDirs
    /\ pc = [p \in Procs |-> IF p \in Commands THEN "mkdir" ELSE "done"]
    /\ ret = [p \in Procs |-> "mkdir"]
    /\ seen = [p \in Procs |-> NoPid]
    /\ empties = [p \in Procs |-> 0]
    /\ tries = [p \in Procs |-> 0]
    /\ behind = {} /\ raced = FALSE
    /\ phase = "preflight" /\ at = 1 /\ ok = TRUE
    /\ files = [f \in Files |-> "old"]
    /\ backup = Nothing /\ marked = FALSE /\ saved = Nothing /\ recorded = "old"
    /\ unit = "old" /\ config = "old"
    /\ \E g \in Gateways :
           running = g.running /\ autostart = g.autostart /\ healthy = g.healthy
    /\ work = [p \in Procs |-> "todo"]
    /\ fails = 0 /\ pending = Nothing
    /\ partial = FALSE /\ meddled = FALSE /\ outlived = FALSE

-----------------------------------------------------------------------------
(* The installer *)

Step(from, to) == phase = from /\ phase' = to
Fails == fails < MaxFails /\ fails' = fails + 1
Works == UNCHANGED fails

\* A child begins with the first call of acquire_lock.
Begins(p) == Goto(p, "mkdir") /\ UNCHANGED <<dir, ret, seen, empties, tries, raced>>

\* preflight and ensure_unifi_common
Preflight ==
    /\ \/ Step("preflight", "files") /\ Works /\ Begins(Main)
       \/ Step("preflight", "cleanup") /\ Fails /\ UNCHANGED vars
    /\ UNCHANGED <<at, ok, disk, service, work, pending, history>>

\* A slip of Stage: without the lock it goes on.
StageAnyway ==
    /\ pc[Main] \in {"critical", "failed"}
    /\ \/ Step("files", "snapshot") /\ Works /\ UNCHANGED ok
       \/ Step("files", "free") /\ Fails /\ ok' = FALSE
    /\ UNCHANGED <<vars, at, disk, service, work, pending, history>>

\* The files are fetched and checked before anything changes.
Stage ==
    /\ pc[Main] = "critical"
    /\ \/ Step("files", "snapshot") /\ Works /\ UNCHANGED ok
       \/ Step("files", "free") /\ Fails /\ ok' = FALSE
    /\ UNCHANGED <<vars, at, disk, service, work, pending, history>>

GivesUp ==
    /\ pc[Main] = "failed"
    /\ Step("files", "cleanup")
    /\ UNCHANGED <<vars, at, ok, disk, service, work, fails, pending, history>>

\* snapshot_service_state
Snapshot ==
    /\ \/ /\ Step("snapshot", "backup") /\ Works
          /\ saved' = [unit |-> unit, running |-> running]
          /\ UNCHANGED ok
       \/ Step("snapshot", "free") /\ Fails /\ ok' = FALSE /\ UNCHANGED saved
    /\ UNCHANGED <<vars, at, files, backup, marked, recorded, service, work, pending, history>>

\* A slip of Backup: the marker is there before the copies.
BackupMarked ==
    /\ \/ /\ Step("backup", "promote") /\ Works
          /\ backup' = files
          /\ UNCHANGED ok
       \/ Step("backup", "free") /\ Fails /\ ok' = FALSE /\ UNCHANGED backup
    /\ marked' = TRUE /\ at' = 1
    /\ UNCHANGED <<vars, files, saved, recorded, service, work, pending, history>>

Backup ==
    /\ \/ /\ Step("backup", "promote") /\ Works
          /\ backup' = files /\ marked' = TRUE
          /\ UNCHANGED ok
       \/ Step("backup", "free") /\ Fails /\ ok' = FALSE /\ UNCHANGED <<backup, marked>>
    /\ at' = 1
    /\ UNCHANGED <<vars, files, saved, recorded, service, work, pending, history>>

\* A slip of Promoting: the failure of one mv is passed over.
PromotingOn ==
    /\ at' = at + 1 /\ UNCHANGED ok
    /\ phase' = IF at = Len(Promoted) THEN "free" ELSE "promote"
    /\ \/ files' = [files EXCEPT ![Promoted[at]] = "new"] /\ Works
       \/ Fails /\ UNCHANGED files

\* mv -f and chmod, of which either may fail.
Promoting ==
    \/ /\ files' = [files EXCEPT ![Promoted[at]] = "new"] /\ Works
       /\ at' = IF at = Len(Promoted) THEN 1 ELSE at + 1
       /\ phase' = IF at = Len(Promoted) THEN "free" ELSE "promote"
       /\ UNCHANGED ok
    \/ /\ Fails
       /\ files' \in {files, [files EXCEPT ![Promoted[at]] = "new"]}
       /\ phase' = "undo" /\ at' = 1 /\ ok' = TRUE

Promote ==
    /\ phase = "promote"
    /\ Promoting
    /\ UNCHANGED <<vars, backup, marked, saved, recorded, service, work, pending, history>>

\* One file of restore_promotion. The hook is copied in place: half of it may be there.
RestoreFile ==
    /\ phase \in {"undo", "restore"} /\ at <= Len(RestoreOrder)
    /\ LET f == RestoreOrder[at] IN
       \/ files' = [files EXCEPT ![f] = backup[f]] /\ Works /\ UNCHANGED <<ok, partial>>
       \/ /\ Fails /\ ok' = FALSE /\ partial' = TRUE
          /\ files' \in {files} \cup {[files EXCEPT ![g] = "torn"] : g \in {f} \cap {"hook"}}
    /\ at' = at + 1
    /\ UNCHANGED <<vars, phase, backup, marked, saved, recorded, service, work, pending, meddled, outlived>>

\* The end of restore_promotion. In install_files a restore that failed keeps the lock.
Restored ==
    /\ at > Len(RestoreOrder)
    /\ \/ Step("undo", IF ok THEN "free" ELSE "cleanup")
       \/ Step("restore", "units")
    /\ marked' = ~ok /\ ok' = FALSE /\ at' = 1
    /\ UNCHANGED <<vars, files, backup, saved, recorded, service, work, fails, pending, history>>

\* install_files and cleanup release the lock if the pid in it is $$.
LetsGo ==
    /\ phase \in {"free", "release"}
    /\ pc[Main] = "critical"
    /\ Release(Main)
    /\ UNCHANGED setup

FilesEnd ==
    /\ Step("free", IF ok THEN "update" ELSE "cleanup")
    /\ pc[Main] = "done"
    /\ UNCHANGED <<vars, at, ok, disk, service, work, fails, pending, history>>

StartChild ==
    /\ \/ Step("update", "updating") /\ Begins(Updater)
       \/ Step("recover", "recovering") /\ Begins(Recoverer)
    /\ UNCHANGED <<at, ok, disk, service, work, fails, pending, history>>

\* A slip of ChildEnds: the exit status of the child is not looked at.
ChildEndsAnyway(p, from, to) ==
    /\ pc[p] \in Ended
    /\ Step(from, to)
    /\ UNCHANGED <<vars, at, ok, disk, service, work, fails, pending, history>>

ChildEnds(p, from, to) ==
    /\ pc[p] \in Ended
    /\ Step(from, IF pc[p] = "done" /\ work[p] = "done" THEN to ELSE "cleanup")
    /\ UNCHANGED <<vars, at, ok, disk, service, work, fails, pending, history>>

\* rm -f of both markers, which makes the new version the installed one. It goes on
\* after a failure.
Commit ==
    /\ \/ Step("commit", "record") /\ Works /\ marked' = FALSE /\ saved' = Nothing
       \/ /\ Step("commit", "cleanup") /\ Fails
          /\ marked' \in BOOLEAN /\ saved' \in {saved, Nothing}
          /\ marked' \/ saved' # Nothing
    /\ UNCHANGED <<vars, at, ok, files, backup, recorded, service, work, pending, history>>

\* The exit trap has nothing left to do then.
Record ==
    /\ Step("record", "installed")
    /\ \/ Works /\ recorded' = "new"
       \/ Fails /\ UNCHANGED recorded
    /\ UNCHANGED <<vars, at, ok, files, backup, marked, saved, service, work, pending, history>>

\* cleanup waits for the process that it stopped: install_files or _update itself, but
\* of boot-recover only the subshell that had started it.
Cleanup ==
    /\ \A p \in Children : phase = "stopping" => pc[p] \in Ended
    /\ phase \in {"cleanup", "stopping"}
    /\ phase' = IF marked THEN "restore" ELSE "units"
    /\ at' = 1 /\ ok' = TRUE
    /\ UNCHANGED <<vars, disk, service, work, fails, pending, history>>

\* systemctl start does nothing for a unit that is active.
Starts == running' = IF running = Nothing THEN <<files["cores"], config>> ELSE running

\* A slip of RestoreUnits: it puts the unit back and does not start what ran.
RestoreUnitsOnly ==
    /\ Step("units", "release") /\ Works
    /\ unit' = IF saved = Nothing THEN unit ELSE saved.unit
    /\ UNCHANGED <<vars, at, ok, disk, config, running, autostart, healthy, work, pending, history>>

\* restore_service_state
RestoreUnits ==
    /\ Step("units", "release")
    /\ \/ /\ saved = Nothing
          /\ Works /\ UNCHANGED <<unit, running, partial>>
       \/ /\ saved # Nothing /\ Works
          /\ unit' = saved.unit
          /\ IF saved.running = Nothing THEN running' = Nothing ELSE Starts
          /\ UNCHANGED partial
       \/ saved # Nothing /\ Fails /\ partial' = TRUE /\ UNCHANGED <<unit, running>>
    /\ UNCHANGED <<vars, at, ok, disk, config, autostart, healthy, work, pending, meddled,
                   outlived>>

\* A slip of Leaves: cleanup does not release the lock.
LeavesAnyway ==
    /\ Step("release", "failed")
    /\ pc[Main] \in Ended \cup {"critical"}

Leaves ==
    /\ Step("release", "failed")
    /\ pc[Main] \in Ended

Leave ==
    /\ Leaves
    /\ UNCHANGED <<vars, at, ok, disk, service, work, fails, pending, history>>

-----------------------------------------------------------------------------
(* The children and the commands of others *)

CanWork(p) == pc[p] = "critical" /\ work[p] = "todo"
Did(p, how) == work' = [work EXCEPT ![p] = how]
\* systemctl restart, of a service that was active.
Restarts(core, made) == running' = IF running = Nothing THEN Nothing ELSE <<core, made>>

\* cmd_update writes the unit and restarts what ran; or all is undone but the
\* unit, if it came that far, which its own CLI writes again.
Update ==
    /\ CanWork(Updater)
    /\ \/ /\ Did(Updater, "done")
          /\ files' = [files EXCEPT !["cores"] = "new"]
          /\ \/ files["cores"] = "new" /\ UNCHANGED <<unit, running>>
             \/ /\ files["cores"] # "new"
                /\ unit' = files["cli"]
                /\ Restarts("new", config)
                /\ running' \in healthy \cup {Nothing}
       \/ /\ Did(Updater, "failed") /\ UNCHANGED files
          /\ \/ UNCHANGED <<unit, running>>
             \/ unit' = files["cli"] /\ Restarts(files["cores"], config)
    /\ UNCHANGED <<vars, phase, at, ok, backup, marked, saved, recorded, config,
                   autostart, healthy, fails, pending, history>>

\* boot_recover: the unit, the config, the restart with its health check. It may fail,
\* or be stopped, before each; a config may be kept. A core that fails its check is
\* up, or down for good.
RecoverAt(from, to) ==
    /\ pc[Recoverer] = "critical" /\ work[Recoverer] = from
    /\ Did(Recoverer, to)
    /\ outlived' = (outlived \/ (/\ phase \in {"release", "failed"}
                                 /\ <<unit, running>>' # <<unit, running>>))
    /\ UNCHANGED <<vars, phase, at, ok, disk, autostart, healthy, fails, pending,
                   partial, meddled>>

RecoverUnit == unit' = "new" /\ UNCHANGED <<config, running>> /\ RecoverAt("todo", "unit")
RecoverConfig == /\ config' \in {config, files["helpers"]}
                 /\ UNCHANGED <<unit, running>>
                 /\ RecoverAt("unit", "config")
RecoverCore ==
    LET tunnel == <<files["cores"], config>> IN
    /\ UNCHANGED <<unit, config>>
    /\ \/ ~autostart /\ UNCHANGED running /\ RecoverAt("config", "done")
       \/ /\ autostart /\ tunnel \in healthy
          /\ running' = tunnel
          /\ RecoverAt("config", "done")
       \/ /\ autostart /\ tunnel \notin healthy
          /\ running' \in {tunnel, Nothing}
          /\ RecoverAt("config", "failed")
RecoverFails == /\ UNCHANGED <<unit, config, running>>
                /\ \E w \in {"todo", "unit", "config"} : RecoverAt(w, "failed")
Recover == RecoverUnit \/ RecoverConfig \/ RecoverCore \/ RecoverFails

\* Other operations, each a transaction: an import by a session whose code may be of
\* before, an update of the cores, a stop, or nothing that matters here.
Import == /\ config' = files["helpers"]
          /\ unit' \in {"old", files["cli"]}
          /\ running' = <<files["cores"], config'>> /\ running' \in healthy
          /\ UNCHANGED files
UpdateCores == /\ files' = [files EXCEPT !["cores"] = "new"]
               /\ Restarts("new", config) /\ running' \in healthy \cup {Nothing}
               /\ UNCHANGED <<unit, config>>
Stop == running' = Nothing /\ UNCHANGED <<files, unit, config>>

Command(p) ==
    /\ p \in Commands /\ CanWork(p)
    /\ \/ Import /\ Did(p, "done")
       \/ UpdateCores /\ Did(p, "done")
       \/ Stop /\ Did(p, "done")
       \/ Did(p, "failed") /\ UNCHANGED <<files, unit, config, running>>
    /\ meddled' = (meddled \/ (work'[p] = "done" /\ {saved, backup} # {Nothing}))
    /\ UNCHANGED <<vars, phase, at, ok, backup, marked, saved, recorded,
                   autostart, healthy, fails, pending, partial, outlived>>

\* The calls of acquire_lock and release_lock.
MayLock(p) == p = Main => phase \in {"files", "free", "release"}
LockStep(p) == MayLock(p) /\ Acquire(p) /\ UNCHANGED setup
Unlock(p) == p # Main /\ work[p] \in {"done", "failed"} /\ Release(p) /\ UNCHANGED setup

-----------------------------------------------------------------------------
(* Signals and deaths *)

\* TERM to run_step's child. The shell that runs install_files ends at once, while
\* the lock stays in the name of its parent and the mv that it waited for goes on.
StopFiling ==
    /\ phase \in Filing
    /\ phase' = "cleanup"
    /\ pc' = [pc EXCEPT ![Main] = IF dir = Main THEN "critical" ELSE "dead"]
    /\ pending' \in {Nothing} \cup {Promoted[i] : i \in {at} \cap (IF phase = "promote" THEN DOMAIN Promoted ELSE {})}

\* A CLI that waits for the lock ends; one that has it undoes or ends its operation.
StopChild ==
    /\ phase \in {"update", "updating", "recover"}
    /\ phase' = "stopping"
    /\ pc' = [p \in Procs |-> IF p \in Children /\ pc[p] \notin Ended \cup {"critical"}
                                 /\ ~(pc[p] \in Breaking /\ ret[p] = "done")
                              THEN "dead" ELSE pc[p]]
    /\ UNCHANGED pending

\* The child is the subshell of install_and_verify_service, which ends at once. The
\* boot-recover that it waited for is not told, and not waited for.
StopRecovery ==
    /\ phase = "recovering"
    /\ phase' = "cleanup"
    /\ UNCHANGED <<pc, pending>>

\* INT, TERM or HUP to the installer, once: cleanup lets the next one kill it.
Signal ==
    /\ \/ StopFiling
       \/ StopChild \/ StopRecovery
       \/ phase \in {"preflight", "commit", "record"} /\ phase' = "cleanup" /\ UNCHANGED <<pc, pending>>
    /\ behind' = {p \in behind : pc'[p] \in Breaking}
    /\ UNCHANGED <<dir, ret, seen, empties, tries, raced, at, ok, disk, service, work, fails,
                   history>>

Settle ==
    /\ pending # Nothing
    /\ files' = [files EXCEPT ![pending] = "new"]
    /\ pending' = Nothing
    /\ partial' = (partial \/ phase # "cleanup")
    /\ UNCHANGED <<vars, phase, at, ok, backup, marked, saved, recorded, service, work, fails, meddled,
                   outlived>>

\* The installer is killed, with install_files if that is running.
Crash ==
    /\ phase \notin Over
    /\ phase' = "crashed" /\ partial' = TRUE
    /\ pc' = [pc EXCEPT ![Main] = IF @ \in Ended THEN @ ELSE "dead"]
    /\ behind' = behind \ {Main}
    /\ at' = 1 /\ ok' = TRUE
    /\ UNCHANGED <<dir, ret, seen, empties, tries, raced, disk, service, work, fails, pending,
                   meddled, outlived>>

\* A command or a child is killed.
Dies(p) == p # Main /\ Die(p) /\ UNCHANGED setup

Advance == \/ Preflight \/ Stage \/ GivesUp \/ Snapshot \/ Backup \/ Promote \/ RestoreFile
           \/ Restored \/ LetsGo \/ FilesEnd \/ StartChild
           \/ ChildEnds(Updater, "updating", "recover")
           \/ ChildEnds(Recoverer, "recovering", "commit")
           \/ Commit \/ Record \/ Cleanup \/ RestoreUnits \/ Leave

NextInstaller == \/ Advance \/ Update \/ Recover \/ Signal \/ Settle \/ Crash
                 \/ \E p \in Procs : LockStep(p) \/ Unlock(p) \/ Command(p) \/ Dies(p)

InstallerSpec == InitInstaller /\ [][NextInstaller]_allVars

-----------------------------------------------------------------------------
(* Properties *)

InstallerTypeOK ==
    /\ files \in [Files -> Versions \cup {"torn"}]
    /\ backup \in [Files -> Versions] \cup {Nothing}
    /\ marked \in BOOLEAN /\ ok \in BOOLEAN
    /\ partial \in BOOLEAN /\ meddled \in BOOLEAN /\ outlived \in BOOLEAN
    /\ saved = Nothing \/ saved \in [unit : Versions, running : Tunnels \cup {Nothing}]
    /\ marked => backup # Nothing
    /\ unit \in Versions /\ config \in Versions /\ recorded \in Versions
    /\ running \in Tunnels \cup {Nothing}
    /\ at \in 1 .. Len(RestoreOrder) + 1
    /\ pending \in {Nothing} \cup Scripts
    /\ fails \in 0 .. MaxFails

All(v) == \A f \in Scripts : files[f] = v

\* Commands are one step each here because they have the lock: nothing is claimed of
\* a run in which it was raced, and of the service nothing if a command changed it.
Undisturbed == ~raced /\ ~meddled

\* An installer that ends by itself leaves the scripts and the hook of one version,
\* and after a failure, unless it came after the commit, the assets of before, too, and
\* the unit of before, unless a boot-recover outlived it. (README.md:269-271; install.sh
\* 76-93, 101-119.)
AllOrNothing ==
    phase \in {"installed", "failed"} /\ ~partial /\ ~raced /\ pending = Nothing =>
        \/ All("new") /\ ~marked
        \/ /\ phase = "failed" /\ All("old")
           /\ saved # Nothing /\ Undisturbed /\ ~outlived => unit = saved.unit
           /\ backup # Nothing /\ Undisturbed => files["cores"] = backup["cores"]

\* What the signal trap is said to see to: what it put back stays as it was put back,
\* as the active mutator was terminated first. (install.sh 30-31.) The code does not.
UndoIsFinal ==
    phase = "failed" /\ saved # Nothing /\ ~partial /\ Undisturbed => unit = saved.unit

\* What calls itself installed serves: the tunnel that runs is made of the cores
\* and the config that are there and passed its health check, if the user wants one.
InstalledServes ==
    phase = "installed" /\ Undisturbed =>
        unit = "new" /\ (autostart => running \in healthy /\ running = <<files["cores"], config>>)

\* The files of one version give way to another only while no operation works
\* under the lock, but in the clean-up, which has no lock, and once that was raced.
ScriptsHoldStill ==
    [][/\ \E p \in Procs \ {Main} : pc[p] = "critical"
       /\ ~raced /\ phase # "restore" /\ pending = Nothing
       => \A f \in Scripts : files'[f] = files[f]]_allVars

\* An installer that has ended holds no lock: its pid may be another program's
\* tomorrow. (install.sh 95-99.)
NoLockLeft == phase \in {"installed", "failed"} => dir # Main

\* After an install that failed and was undone, the service runs if it ran before,
\* and with the config of before its tunnel works; what did not run does not run; unless
\* a boot-recover outlived the installer. (README.md:269-271; install.sh 58-74.)
UndoneServes ==
    phase = "failed" /\ saved # Nothing /\ ~partial /\ Undisturbed /\ ~outlived =>
        /\ (running = Nothing) = (saved.running = Nothing)
        /\ running # Nothing /\ config = "old" => running \in healthy

\* An installer that has ended leaves one version and no lock; until then its marker,
\* its backup and its steps go together.
LeavesOneVersion == InstallerTypeOK /\ AllOrNothing /\ NoLockLeft

\* It leaves a service that works, whether it installed or undid.
ServiceSurvives == InstalledServes /\ UndoneServes
=============================================================================
