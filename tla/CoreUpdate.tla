------------------------------ MODULE CoreUpdate ------------------------------
(***************************************************************************)
(* Updates of the proxy cores and of the geo files. cmd_update and         *)
(* cmd_geo_update replace files of bin/ one by one, without a state        *)
(* transaction: they copy the old files into the private run directory     *)
(* first, and put them back when a step fails or a signal comes. A kill    *)
(* runs no rollback, nothing on disk tells of it, and the next update is   *)
(* the only repair. systemd restarts a core that died meanwhile, on the    *)
(* files it finds. install-binary and ensure_singbox / ensure_awg use the  *)
(* same steps without that backup.                                         *)
(***************************************************************************)
EXTENDS Naturals, FiniteSetsExt

CONSTANTS NumReleases,  \* releases of Xray, numbered in order
          MinSafe,      \* XRAY_MIN_SAFE_TAG
          Pinned,       \* the version of sing-box and amnezia-box in this CLI
          GeoReleases,  \* releases of the geo files
          Absent,       \* a file that does not exist
          Torn,         \* a file of which only a part is written
          None,         \* nothing: no backup of a file, no running core
          MaxRuns,      \* operations other than cmd_update
          MaxFaults,    \* commands that fail, signals, kills, crashes of a core
          CleanCopies   \* a cp that fails leaves no part of the copy behind

Versions == 1 .. NumReleases

ASSUME ReleasesAssumption == NumReleases \in Nat /\ {MinSafe, Pinned} \subseteq Versions
ASSUME SentinelsAssumption ==
  /\ {Absent, Torn, None} \cap (Versions \cup GeoReleases) = {}
  /\ Absent # Torn /\ Absent # None /\ Torn # None
ASSUME FaultsAssumption == MaxRuns \in Nat /\ MaxFaults \in Nat /\ CleanCopies \in BOOLEAN

VARIABLES files,     \* bin/: what each file is
          bak,       \* <core>.bak next to it
          release,   \* Xray's latest release
          engine,    \* the recorded engine
          unit,      \* the service; "waiting": systemd will restart it
          loaded,    \* what the running core was started from
          op, step,  \* the running operation and its next step
          at,        \* the file that step works on
          target,    \* the version it installs
          backup,    \* the copies in the run directory
          armed,     \* UPDATE_BACKUP or GEO_BACKUP is set
          was,       \* UPDATE_WAS_ACTIVE or GEO_WAS_ACTIVE
          todo,      \* files that are still to be put back
          ret,       \* what follows when they are
          missed,    \* one could not be put back
          outcome,   \* how the last operation ended
          before,    \* the files when it began
          unit0,     \* the service when it began
          disturbed, \* a core was started by someone else, or never again
          runs, faults

fileVars == <<files, bak>>
service == <<unit, loaded>>
control == <<op, step, at, target, backup, armed, was, todo, ret, missed>>
history == <<before, unit0, disturbed>>
vars == <<fileVars, release, engine, service, control, outcome, history, runs, faults>>

OnDemand == {"singbox", "awg"}
Cores == {"xray"} \cup OnDemand
Geo == {"geoip", "geosite"}
Files == Cores \cup Geo
Assets == Versions \cup GeoReleases \cup {Absent, Torn}
InstallOrder == <<"xray", "geoip", "geosite", "singbox", "awg">>
RestoreOrder == <<"xray", "singbox", "awg", "geoip", "geosite">>

Executable(f) == files[f] \in Versions
\* What ensure_singbox and ensure_awg ask for.
Ready(f) == IF f = "awg" THEN files[f] = Pinned ELSE Executable(f)
\* What a core reads when it starts.
Uses(e) == IF e = "xray" THEN {"xray"} \cup Geo ELSE {e}
Loads == [f \in Uses(engine) |-> files[f]]
Synced == unit = "active" => loaded = Loads

Ops == {"none", "update", "geo", "install", "ensure"}
Steps == {"idle", "place", "check", "fetch", "swap", "service", "restart",
          "restore", "copy", "revive"}
Outcomes == {"none", "current", "updated", "geo_updated", "installed", "restored",
             "incomplete", "failed", "abandoned", "killed"}

Init == /\ files \in [Files -> Assets]
        /\ \A f \in Cores : files[f] \in Versions \cup {Absent}
        /\ Executable("xray") /\ \A f \in OnDemand : files[f] # Absent => files[f] <= Pinned
        /\ \A g \in Geo : files[g] = files["xray"]
        /\ bak = [f \in Cores |-> Absent]
        /\ release = IF files["xray"] > MinSafe THEN files["xray"] ELSE MinSafe
        /\ engine \in Cores /\ Executable(engine)
        /\ unit = "inactive" /\ loaded = None
        /\ op = "none" /\ step = "idle" /\ at = "xray" /\ target = MinSafe
        /\ backup = [f \in Files |-> None] /\ armed = FALSE /\ was = FALSE
        /\ todo = {} /\ ret = "quiet" /\ missed = FALSE
        /\ outcome = "none"
        /\ before = files /\ unit0 = unit /\ disturbed = FALSE
        /\ runs = 0 /\ faults = 0

----------------------------------------------------------------------------
Fault == faults < MaxFaults /\ faults' = faults + 1
Run == runs < MaxRuns /\ runs' = runs + 1

\* The environment keeps its state while an operation takes a step.
Outside == UNCHANGED <<release, engine, runs>>
Goto(s, f) == step' = s /\ at' = f
\* What the last operation began with is of no more interest.
Forget == before' = files' /\ unit0' = unit' /\ disturbed' = FALSE

\* The operation is over; its run directory is removed, or forgotten.
Finish(how) == /\ op' = "none" /\ step' = "idle" /\ outcome' = how
               /\ armed' = FALSE /\ todo' = {} /\ missed' = FALSE
               /\ backup' = [f \in Files |-> None]
               /\ at' = "xray" /\ was' = FALSE /\ ret' = "quiet"
               /\ target' = IF how \in {"updated", "geo_updated"} THEN target ELSE MinSafe

\* Slip: the geo files are not put back.
RestoreCores(then) == /\ step' = "restore" /\ ret' = then /\ missed' = FALSE
                      /\ todo' = {f \in Cores : backup[f] # None}
                      /\ UNCHANGED <<op, at, target, backup, armed, was, outcome>>
\* _restore_update_backup; what was not backed up yet is left alone.
Restore(then) == /\ step' = "restore" /\ ret' = then /\ missed' = FALSE
                 /\ todo' = {f \in Files : backup[f] # None}
                 /\ UNCHANGED <<op, at, target, backup, armed, was, outcome>>

Begin(o, s, f, t) == /\ op' = o /\ Goto(s, f) /\ target' = t
                     /\ was' = (unit = "active")
                     /\ before' = files /\ unit0' = unit /\ disturbed' = ~Synced
                     /\ outcome' = "none"
                     /\ UNCHANGED <<fileVars, release, engine, service, todo, ret, missed>>

\* Slips: without an answer, the pin; the answer is not used.
XrayTargetPin(answered) == IF answered THEN release ELSE MinSafe
XrayTargetKept(answered) == IF Executable("xray") /\ files["xray"] >= MinSafe THEN files["xray"] ELSE MinSafe
\* _xray_target_tag: without an answer from GitHub, what is installed.
XrayTarget(answered) ==
  LET tag == IF answered THEN release ELSE files["xray"]
  IN  IF tag \in Versions /\ tag >= MinSafe THEN tag ELSE MinSafe

\* _cores_current
CoresCurrent(tag) == /\ files["xray"] = tag
                     /\ \A f \in OnDemand : Executable(f) => files[f] = Pinned

\* cmd_update up to the backup, which changes nothing that is in use.
BeginUpdate ==
  /\ op = "none"
  /\ \E answered \in BOOLEAN :
       /\ IF answered THEN UNCHANGED faults ELSE Fault
       /\ IF CoresCurrent(XrayTarget(answered))
          THEN /\ outcome' = "current"
               /\ UNCHANGED <<fileVars, release, engine, service, control>> /\ Forget
          ELSE /\ Begin("update", "place", "xray", XrayTarget(answered))
               /\ backup' = files /\ armed' = TRUE
  /\ UNCHANGED runs

\* install-binary: the same installation, but nothing is put back.
BeginInstall ==
  /\ op = "none" /\ Run
  /\ \E answered \in BOOLEAN :
       /\ IF answered THEN UNCHANGED faults ELSE Fault
       /\ Begin("install", "place", "xray", XrayTarget(answered))
  /\ UNCHANGED <<backup, armed>>

\* ensure_singbox and ensure_awg, which an import or a rebuild calls.
BeginEnsure(f) ==
  /\ op = "none" /\ Run
  /\ ~Ready(f)
  /\ Begin("ensure", "place", f, Pinned)
  /\ UNCHANGED <<backup, armed, faults>>

\* cmd_geo_update
BeginGeo ==
  /\ op = "none" /\ Run
  /\ \E g \in GeoReleases : Begin("geo", "fetch", "geoip", g)
  /\ UNCHANGED <<backup, armed, faults>>

----------------------------------------------------------------------------
\* cmd_install_binary, cmd_install_singbox, cmd_install_awg

\* Slip: amnezia-box is left out.
LaterBut(f) == {i \in 1 .. 4 : /\ \E j \in 1 .. 5 : j < i /\ InstallOrder[j] = f
                               /\ InstallOrder[i] \in OnDemand => Executable(InstallOrder[i])}
\* What is installed after f: an on-demand core only where there is one.
Later(f) == {i \in 1 .. 5 : /\ \E j \in 1 .. 5 : j < i /\ InstallOrder[j] = f
                            /\ InstallOrder[i] \in OnDemand => Executable(InstallOrder[i])}

Finished == CASE op = "update" -> /\ Goto("service", at)
                                  /\ UNCHANGED <<op, target, backup, armed, was, todo, ret, missed, outcome>>
              [] op = "install" -> Finish("installed")
              [] op = "ensure" -> Finish("installed")

Proceed(f) == IF op = "ensure" \/ Later(f) = {}
              THEN Finished
              ELSE /\ Goto("place", InstallOrder[Min(Later(f))])
                   /\ UNCHANGED <<op, target, backup, armed, was, todo, ret, missed, outcome>>

\* fatal in the installation. Outside of an update sing-box and amnezia-box
\* may fail: the existing version is kept, and the rest goes on.
InstallFails(f) == CASE op = "update" -> Restore("quiet") /\ UNCHANGED at
                     [] op = "install" /\ f \in OnDemand -> Proceed(f)
                     [] OTHER -> Finish("failed")

Wanted(f) == IF f \in OnDemand THEN Pinned ELSE target
\* A slip of Backup: nothing is copied.
BackupNone(f) == bak
Backup(f) == IF f \in Cores /\ Executable(f) THEN [bak EXCEPT ![f] = files[f]] ELSE bak

Place(f) == /\ step = "place" /\ at = f
            /\ bak' = Backup(f)
            /\ files' = [files EXCEPT ![f] = Wanted(f)]
            /\ IF f \in Cores
               THEN Goto("check", f) /\ UNCHANGED <<op, target, backup, armed, was, todo, ret, missed, outcome>>
               ELSE Proceed(f)
            /\ UNCHANGED <<service, history, faults>>

\* The download, its checks, the test of the current config or the copy fails.
PlaceFails(f) == /\ step = "place" /\ at = f /\ Fault
                 /\ bak' \in {bak, Backup(f)}
                 /\ InstallFails(f)
                 /\ UNCHANGED <<files, service, history>>

Check(f) == /\ step = "check" /\ at = f
            /\ bak' = IF f = "awg" THEN [bak EXCEPT ![f] = Absent] ELSE bak
            /\ Proceed(f)
            /\ UNCHANGED <<files, service, history, faults>>

\* The new core does not run: the old one is moved back.
CheckFails(f) == /\ step = "check" /\ at = f /\ Fault
                 /\ IF bak[f] # Absent
                    THEN files' = [files EXCEPT ![f] = bak[f]] /\ bak' = [bak EXCEPT ![f] = Absent]
                    ELSE /\ files' = IF f = "awg" THEN [files EXCEPT ![f] = Absent] ELSE files
                         /\ UNCHANGED bak
                 /\ InstallFails(f)
                 /\ UNCHANGED <<service, history>>

----------------------------------------------------------------------------
\* The rest of cmd_update, and cmd_geo_update

\* on_exit after a fatal error: back to the copies c, if there are any.
OnExit(c) == IF armed
             THEN /\ step' = "restore" /\ ret' = "exit" /\ missed' = FALSE
                  /\ todo' = {f \in Files : c[f] # None}
                  /\ backup' = c
                  /\ UNCHANGED <<op, at, target, armed, was, outcome>>
             ELSE Finish("failed")

\* Each file's own turn begins with its backup.
Fetch(f) == /\ step = "fetch" /\ at = f
            /\ backup' = [backup EXCEPT ![f] = files[f]] /\ armed' = TRUE
            /\ Goto("swap", f)
            /\ UNCHANGED <<fileVars, service, op, target, was, todo, ret, missed, outcome, history, faults>>

\* The copy fails; on_exit takes a part of it for the old file.
FetchFails == /\ step = "fetch" /\ Fault
              /\ \E part \in IF CleanCopies THEN {None} ELSE {None, Torn} :
                   OnExit([backup EXCEPT ![at] = part])
              /\ UNCHANGED <<fileVars, service, history>>

Swap(f) == /\ step = "swap" /\ at = f
           /\ files' = [files EXCEPT ![f] = target]
           /\ CASE f = "geoip" -> /\ Goto("fetch", "geosite")
                                  /\ UNCHANGED <<op, target, backup, armed, was, todo, ret, missed, outcome>>
                [] f = "geosite" /\ was -> /\ Goto("restart", f)
                                           /\ UNCHANGED <<op, target, backup, armed, was, todo, ret, missed, outcome>>
                [] OTHER -> Finish("geo_updated")
           /\ UNCHANGED <<bak, service, history, faults>>

\* The download or its checksum fails, or the rename.
SwapFails == /\ step = "swap" /\ Fault
             /\ \/ Restore("quiet") /\ UNCHANGED at
                \/ OnExit(backup)
             /\ UNCHANGED <<fileVars, service, history>>

\* write_service
WriteService == /\ step = "service"
                /\ IF was THEN /\ Goto("restart", at)
                               /\ UNCHANGED <<op, target, backup, armed, was, todo, ret, missed, outcome>>
                   ELSE Finish("updated")
                /\ UNCHANGED <<fileVars, service, history, faults>>

WriteServiceFails == /\ step = "service" /\ Fault
                     /\ Restore("revive") /\ UNCHANGED at
                     /\ UNCHANGED <<fileVars, service, history>>

\* systemctl restart: the core comes up on the present files, or not.
Startable == Executable(engine)
CoreUp == unit' = "active" /\ loaded' = Loads
CoreDown == unit' = "waiting" /\ loaded' = None

\* restart_service
Restart == /\ step = "restart" /\ Startable /\ CoreUp
           /\ Finish(IF op = "geo" THEN "geo_updated" ELSE "updated")
           /\ UNCHANGED <<fileVars, history, faults>>

RestartFails == /\ step = "restart"
                /\ \/ ~Startable /\ CoreDown /\ UNCHANGED faults
                   \/ Fault /\ (CoreDown \/ (Startable /\ CoreUp))
                /\ Restore("revive") /\ UNCHANGED at
                /\ UNCHANGED <<fileVars, history>>

----------------------------------------------------------------------------
\* _restore_update_backup: install removes the live file, then copies.

NextUp == RestoreOrder[Min({i \in 1 .. 5 : RestoreOrder[i] \in todo})]
Restoring(f) == step = "restore" /\ todo # {} /\ f = NextUp

PutBack(f) == /\ Restoring(f)
              /\ IF backup[f] = Absent
                 THEN /\ files' = [files EXCEPT ![f] = Absent]
                      /\ todo' = todo \ {f} /\ UNCHANGED <<step, at>>
                 ELSE /\ files' = [files EXCEPT ![f] = Torn]
                      /\ Goto("copy", f) /\ UNCHANGED todo
              /\ UNCHANGED <<bak, service, op, target, backup, armed, was, ret, missed, outcome, history, faults>>

Copy(f) == /\ step = "copy" /\ at = f
           /\ files' = [files EXCEPT ![f] = backup[f]]
           /\ todo' = todo \ {f} /\ Goto("restore", f)
           /\ UNCHANGED <<bak, service, op, target, backup, armed, was, ret, missed, outcome, history, faults>>

PutBackFails(f) == /\ Restoring(f) \/ (step = "copy" /\ at = f)
                   /\ Fault
                   /\ missed' = TRUE /\ todo' = todo \ {f} /\ Goto("restore", f)
                   /\ UNCHANGED <<fileVars, service, op, target, backup, armed, was, ret, outcome, history>>

\* "quiet" ends without a restart; "revive" starts the old core again; "exit"
\* does, too, and is what an incomplete rollback comes to.
PutBackDone ==
  /\ step = "restore" /\ todo = {}
  /\ CASE missed /\ ret # "exit" -> Restore("exit") /\ UNCHANGED at
       [] ~missed /\ ret = "quiet" -> Finish("restored")
       [] OTHER -> /\ Goto("revive", at) /\ armed' = FALSE
                   /\ UNCHANGED <<op, target, backup, was, todo, ret, missed, outcome>>
  /\ UNCHANGED <<fileVars, service, history, faults>>

\* Slip: the restart does not ask whether the service ran.
ReviveAlways == /\ step = "revive"
                /\ ((Startable /\ CoreUp) \/ CoreDown)
                /\ Finish(IF missed THEN "incomplete" ELSE "restored")
                /\ UNCHANGED <<fileVars, history, faults>>
\* Slip: start instead of restart.
ReviveStart == /\ step = "revive"
               /\ IF ~was THEN unit' = "inactive" /\ loaded' = None
                  ELSE IF unit = "active" THEN UNCHANGED service
                  ELSE ((Startable /\ CoreUp) \/ CoreDown)
               /\ Finish(IF missed THEN "incomplete" ELSE "restored")
               /\ UNCHANGED <<fileVars, history, faults>>
\* The service is as it was when the operation began.
Revive == /\ step = "revive"
          /\ IF was THEN ((Startable /\ CoreUp) \/ CoreDown)
             ELSE unit' = "inactive" /\ loaded' = None
          /\ Finish(IF missed THEN "incomplete" ELSE "restored")
          /\ UNCHANGED <<fileVars, history, faults>>

----------------------------------------------------------------------------
\* Signals, kills, systemd and the user

\* on_exit has switched the traps off: a signal kills.
Exiting == step \in {"restore", "copy", "revive"} /\ ret = "exit"

Signal == /\ op # "none" /\ Fault
          /\ ~Exiting
          /\ IF armed THEN OnExit(backup)
             ELSE Finish(IF step = "revive" THEN "abandoned" ELSE "failed")
          /\ UNCHANGED <<fileVars, service, history>>

Kill == /\ op # "none" /\ Fault
        /\ Finish("killed")
        /\ UNCHANGED <<fileVars, service>> /\ Forget

CoreDies == /\ unit = "active" /\ Fault /\ CoreDown
            /\ UNCHANGED <<fileVars, control, outcome, history>>

\* Restart=on-failure, at any time.
CoreRestarts == /\ unit = "waiting" /\ Startable /\ CoreUp
                /\ disturbed' = (disturbed \/ op # "none")
                /\ UNCHANGED <<fileVars, control, outcome, before, unit0, faults>>

MenuStart == /\ op = "none" /\ unit = "inactive" /\ Startable /\ CoreUp
             /\ outcome' = "none" /\ UNCHANGED fileVars /\ Forget
             /\ UNCHANGED <<control, faults>>

MenuStop == /\ op = "none" /\ unit = "active"
            /\ unit' = "inactive" /\ loaded' = None
            /\ outcome' = "none" /\ UNCHANGED fileVars /\ Forget
            /\ UNCHANGED <<control, faults>>

\* An import of a connection that another core serves.
ImportFor(e) == /\ op = "none" /\ e # engine /\ Ready(e) /\ Run
                /\ engine' = e
                /\ unit' = "active" /\ loaded' = [f \in Uses(e) |-> files[f]]
                /\ outcome' = "none" /\ UNCHANGED fileVars /\ Forget
                /\ UNCHANGED <<release, control, faults>>

\* Only the start of an operation reads the release: it may as well wait for it.
NewRelease == /\ op = "none" /\ release < NumReleases /\ release' = release + 1
              /\ UNCHANGED <<fileVars, engine, service, control, outcome, history, runs, faults>>

OpStep == \/ \E f \in Files : \/ Place(f) \/ Fetch(f) \/ Swap(f) \/ PutBack(f) \/ Copy(f)
          \/ \E f \in Cores : Check(f)
          \/ WriteService \/ Restart \/ PutBackDone \/ Revive
OpFails == \/ \E f \in Files : PlaceFails(f) \/ PutBackFails(f)
           \/ \E f \in Cores : CheckFails(f)
           \/ FetchFails \/ SwapFails \/ WriteServiceFails \/ RestartFails

Next == \/ BeginUpdate \/ BeginInstall \/ BeginGeo \/ \E f \in OnDemand : BeginEnsure(f)
        \/ (OpStep \/ OpFails \/ Signal \/ Kill) /\ Outside
        \/ (CoreDies \/ CoreRestarts \/ MenuStart \/ MenuStop) /\ Outside
        \/ \E e \in Cores : ImportFor(e)
        \/ NewRelease

Spec == Init /\ [][Next]_vars

\* A running operation goes on (the failures that stop it are bounded), the
\* daily timer begins an update, and systemd restarts a core that died.
Fairness == /\ WF_vars((OpStep \/ OpFails) /\ Outside)
            /\ WF_vars(BeginUpdate)
            /\ WF_vars(CoreRestarts /\ Outside)
FairSpec == Spec /\ Fairness

----------------------------------------------------------------------------
\* Properties

Units == {"inactive", "waiting", "active"}
FileTypes == files \in [Files -> Assets] /\ bak \in [Cores -> Versions \cup {Absent}]
ServiceTypes == /\ release \in Versions /\ engine \in Cores /\ unit \in Units
                /\ loaded \in {None} \cup UNION {[Uses(e) -> Assets] : e \in Cores}
ControlTypes == /\ op \in Ops /\ step \in Steps /\ at \in Files
                /\ target \in Versions \cup GeoReleases
                /\ backup \in [Files -> Assets \cup {None}]
                /\ armed \in BOOLEAN /\ was \in BOOLEAN /\ missed \in BOOLEAN
                /\ todo \subseteq Files /\ ret \in {"quiet", "revive", "exit"}
                /\ outcome \in Outcomes
HistoryTypes == before \in [Files -> Assets] /\ unit0 \in Units /\ disturbed \in BOOLEAN
\* Every variable keeps to its range: what was read back from a copy, a .bak
\* or the network is a version or a known wreck.
TypeOK == /\ FileTypes /\ ServiceTypes /\ ControlTypes /\ HistoryTypes
          /\ runs \in 0 .. MaxRuns /\ faults \in 0 .. MaxFaults

\* "previous binaries/assets restored": a failed or interrupted update leaves
\* every file as it was, unless it says that the rollback was incomplete.
FailedIsUndone == outcome \in {"restored", "abandoned"} => files = before

\* "Updated": Xray, its geo files and every on-demand core that is there are
\* the versions the update was for; a geo update leaves the cores alone.
UpdatedIsComplete ==
  /\ outcome = "updated" => /\ CoresCurrent(target)
                            /\ \A g \in Geo : files[g] = target
  /\ outcome = "geo_updated" => files = [f \in Files |-> IF f \in Geo THEN target ELSE before[f]]

\* An update never goes back to an older Xray, not even when GitHub does not
\* answer, and never ends below the first patched release.
NoDowngrade ==
  outcome = "updated" => /\ files["xray"] >= MinSafe
                         /\ before["xray"] \in Versions => files["xray"] >= before["xray"]

\* No operation loses a core that could run, whatever fails in it; only a
\* kill or a rollback that is reported as incomplete can.
CoresSurvive ==
  outcome \in {"updated", "geo_updated", "installed", "failed", "restored", "abandoned"} =>
    \A f \in Cores : before[f] \in Versions => Executable(f)

\* All three: an update that says so has moved every file forward, and none that
\* says anything has cost a core.
UpdatesGoForward == UpdatedIsComplete /\ NoDowngrade /\ CoresSurvive

\* After an update or its rollback the running core was started from the
\* files that are installed, unless systemd started one in the middle.
RunningIsInstalled ==
  outcome \in {"updated", "geo_updated", "restored"} /\ ~disturbed => Synced

\* No step of an update starts a service that the user stopped, or stops one
\* that ran when the update began.
ServiceChoiceKept ==
  [][op # "none" /\ unit0 # "waiting" => (unit = "inactive" <=> unit' = "inactive")]_vars

\* After any kills, the daily update brings every installed core to its
\* version in the end, unless the kill destroyed the core that is in use:
\* then each update fails its health check.
EventuallyCurrent == <>[](CoresCurrent(release) \/ ~Startable)
=============================================================================
