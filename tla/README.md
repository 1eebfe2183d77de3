# proxy-unifi: specification and verification

proxy-unifi turns a UniFi OS gateway into a WireGuard server whose traffic leaves
through a proxy or VPN: Xray, sing-box or an AmneziaWG-enabled build of it
(amnezia-box). The program is a POSIX shell CLI, `src/src/proxy-unifi`, with a few
Python helpers, an installer (`src/install.sh`) and a boot hook
(`src/src/on_boot.sh`). It runs as root on a device that reboots, loses power,
has its firmware replaced and its firewall rewritten by UniFi OS, and it changes
files, systemd units and firewall rules that only make sense together. This
directory models how it keeps them together, checks the models with TLC and
proves part of what they promise with TLAPS.

Paths below are relative to `src/`; "CLI" is `src/proxy-unifi`, and a number in
parentheses is a line of it.

## 1. Inventory

### 1.1 Components

| Component | State it keeps | Operations |
|---|---|---|
| State transactions (CLI 357-518, 551-572) | the state directory `ETC_DIR`, `TXN_DIR` with the snapshot and the units' state, the marker `TXN_MARKER` | `txn_begin`, `txn_commit`, `txn_rollback`, `recover_transaction`, `on_exit` |
| Operation lock (CLI 309-355; `install.sh` 95-169) | the lock directory and the pid in it | `acquire_lock`, `release_lock`, the installer's copies |
| Firewall guard (CLI 1084-1153, 1338-1345) | the `INPUT` jump, the chain `PROXY_UNIFI_WG`, its rules, once for IPv4 and once for IPv6 | `fw_lock`, `fw_unlock`, `fw_reconcile`; the unit's `ExecStartPre` and `ExecStopPost` |
| Connections and settings (CLI 1208-1287, 1417-1645, 1811-1912, 2439-2472, 2642-2749) | link, JSON profile or selected AmneziaWG profile; the generated config; engine marker; unit; settings; keys | `cmd_import`, `cmd_import_json`, `awg_*`, `cmd_set`, `cmd_regen_keys`, the service menu |
| Subscriptions (CLI 2914-3080; `mksub.py` 583-623, 999-1200) | URL, catalog with verdicts, selected node and its record, refresh timer | `sub_add`, `sub_select`, `sub_refresh`, `sub_remove`, `cmd_match` |
| Boot recovery (CLI 1347-1434; `on_boot.sh`) | the units in `/etc`, enablement, the autostart choice | `install_service`, `rebuild_active_config`, `boot_recover` |
| Core and geo updates (CLI 836-1082, 1914-2003) | `bin/`: three cores, two geo files, their `.bak`; backups in the run directory; the service | `cmd_update`, `cmd_geo_update`, `cmd_install_*`, `ensure_*`, `_restore_update_backup` |
| Installer (`install.sh` 30-123, 171-213, 324-456) | the promoted files, their backup and two markers in a work directory, the snapshot of the units | snapshot, promotion, `restore_promotion`, `cleanup`, and the two commands of the new CLI that it runs |
| Self-update (CLI 2022-2127) | version file, record of the last run | `update_candidate`, `self_update`, `auto_update` |
| WireGuard keys (CLI 574-650, 1899-1912) | two key pairs, one file per key | `ensure_keys`, `_ensure_pair`, `cmd_regen_keys` |
| Service health check (CLI 1776-1802) | none | `restart_service`, `service_healthy` |
| Fetch (`mksub.py` 626-962) | none | `cmd_fetch`, `fetch_url`, `_https_get` |
| Parsers, generators, validators (`mkxray.py`, `mksingbox.py`, `mkjson.py`, `mkawg.py`, `proxylib.py`, `mksub.py` 260-623) | none | link, profile or feed in; config, catalog or refusal out |
| Confined execution (`safeexec.py`) | a process group | run a validator or a test core under limits, pass signals on, stop the group |
| Menu, status, logs, ping, uninstall | none of their own | display, and the operations above under `locked_call` |

### 1.2 How they interact

* Every command and menu action that changes state runs under the operation lock
  (`locked_call`) and, with the exception of core and geo updates and
  `boot_recover`, inside a state transaction. What looks like a single operation
  at the level of connections is some thirty steps of a transaction, any of which
  may fail or be cut short.
* The lock is shared between processes that know nothing else of each other: an
  interactive menu, the subscription timer, the update timer, the guard timer
  that fires every 30 seconds, the boot hook and the installer.
* systemd acts on its own: five seconds after a core failed it starts it again
  (`Restart=on-failure`, `RestartSec=5`, 1250-1251), and runs the guard's hooks as it
  does. It does not take the lock, and until then the unit is inactive for whoever asks.
* UniFi OS rewrites `INPUT` whenever it provisions, and a firmware upgrade wipes
  `/etc` but leaves `/data`.
* A new version of proxy-unifi regenerates the config of whatever is in use at
  the next `boot_recover`, and may no longer accept it.

### 1.3 What is hard, and what makes each component correct

* **Transactions** - atomicity and durability under failing commands, signals,
  kills and power cuts at every step, including the steps of a recovery. Correct
  means: what a reader finds after recovery is one complete version, a completed
  operation stays completed, and the running core is the one of what is stored.
* **Lock** - a lock built of `mkdir`, a pid file and `rm -rf` has no atomic test
  for a dead owner. Correct means exclusion, no theft from a live owner, and no
  waiter that hangs; the first two fail in one race, and the question is whether in
  that race only.
* **Guard** - two actors edit the firewall one command at a time, while a third
  (UniFi) rewrites the chain. Correct means that a core that listens on all
  interfaces is never without its rule, and that a foreign rule is never removed.
* **Connections, subscriptions, boot** - four kinds of source replace each other,
  each in its own function; caches (engine marker, selection, verdicts) go stale.
  Correct means that config, marker, unit, running core and the mark in the menu
  are about the same tunnel, and that nothing starts a service the user stopped.
* **Updates** - five files are replaced one by one outside of any transaction,
  with a rollback of their own that a kill skips. Correct means complete or
  undone, no downgrade, no lost core, and a system that heals.
* **Installer** - it replaces the CLI that other sessions run, lets the lock go in
  the middle, starts two processes that take it, and is undone by an exit trap that
  has no lock. Correct means one version of every script, a tunnel that works after
  success and after failure, and no lock that outlives it.
* **Fetch** - a worker with root's network talks to a server that is not trusted:
  redirects, DNS that changes its mind, bodies that are cut, compressed or trickled.
  Correct means that it talks to nobody it should not, takes nothing for whole that
  is not, and ends.
* **Confined execution** - a process group that may fork, ignore signals and end at
  any moment, under a helper that is itself signalled. Correct means that nobody is
  left, no cancellation is lost, and no verdict is false.
* **Formats** - some hundred options of nine schemes, two generators and two kinds of
  profile. Correct means that what is accepted is what is built: no option dropped,
  no node lost as a duplicate, no rule of a profile changed, nothing smuggled in.
* **Keys, health check, self-update** - small, and each with one way to go wrong that
  costs the tunnel: a new key in place of half a pair, a core that dies and is taken
  for healthy, an update that goes back.

The hazards are listed with their lines under `hazards` in `PROJECT.json`, each with
the property that covers it or the reason why none does; section 3.2 names further
behaviour that is worth knowing.

## 2. Modules

| Module | Content |
|---|---|
| `AtomicStore` | abstract: one version at a time, atomically replaced, durable once hardened |
| `StateTxn` | the transaction, step by step; implements `AtomicStore` |
| `CliLock` | the operation lock |
| `FirewallGuard` | the guard, the unit and its hooks, the guard timer, port and engine changes |
| `Catalog` | a subscription's catalog and `cmd_match`; used by `Activation` |
| `Activation` | sources, config, marker, unit, core, profiles, editors, subscription, boot recovery |
| `CoreUpdate` | core and geo updates, file by file |
| `Installer` | an installation and its two children next to other commands; extends `CliLock` |
| `SafeExec` | the confined runner and the process group it answers for |
| `Fetch` | the fetch of a subscription against a hostile provider |
| `Helpers` | `CliLock`, `SafeExec` and `Fetch` side by side, one of them in each behaviour, so that one run explores all three |
| `ShareLinks` | share links: what both generators accept, and the outbound of each |
| `JsonProfile` | JSON profiles: validation, sanitizing, overlay, and the core's router |
| `AwgProfile` | AmneziaWG profiles: parser, checks, endpoint |
| `Ranks` | the members of a set in their order: what `sorted()` makes, and the lines of a text |
| `SubCatalog` | from a provider's answer to the config of the selected node; uses the first two |
| `AwgMenu` | the choice of an AmneziaWG profile while another session changes them; uses the third |
| `KeyStore` | the key files |
| `HealthCheck` | the polling loop of a restart |
| `SelfUpdate` | which version is installed, over days |
| `Parts` | `SubCatalog`, `AwgMenu`, `KeyStore`, `HealthCheck` and `SelfUpdate` side by side, one of them in each behaviour |
| `MC*` with `*.cfg` | instances for TLC |
| `*Proofs` | the theorems |

The modules stand on each other by assumption: `CliLock` gives one process at a
time to `StateTxn`; `StateTxn` gives operations that take effect in one step or
not at all to `Activation`; `FirewallGuard` and `CoreUpdate` look inside two
operations that do more than a transaction covers, and `Installer` composes the lock
with the processes of an installation. `SafeExec`, `Fetch` and the formats are
called in operations that treat them as one step with an outcome. Where the code breaks such an
assumption it is said below, in a run or in a hazard.

A definition with "Slip" in its comment is not part of the model. It is a wrong
version of the definition that follows it, such as a dropped guard or a swapped
order, and is listed in `PROJECT.json` under `mutants`: put in the place of the
right one, it must break the property it is listed with.

### 2.1 StateTxn

`fs` is the file system as a process sees it: `etc` (the state directory, a
partial function from files to versions), `txn` (the snapshot directory) and
`marker`. `img` is the set of file systems that a power cut could leave: every
state since the last `fsync` that covers it. `pc` is the next command of the
running process; steps are named for what they do. `SavedFiles` are the flag
files that `txn_begin` writes about the units.

| Code | Actions |
|---|---|
| `txn_begin` 475-499 | `MakeDir`, `NoteEtc`, `CopyEtc`, `NoteUnits`, `SyncSnapshot`, `SetMarker` |
| any operation | `WritePart`, `RemovePart`, `SwitchUnit`, `BodyDone`, `RestartCore`, `StopCore`, `Apply` |
| `txn_commit` 501-507 | `Unmark`, `SyncUnmark`, `DropDir`, `Forget`, `Release` |
| `restore_transaction_files` 399-420 | `CleanLeftovers`, `NoSnapshot`, `CopyCandidate`, `SyncCandidate`, `MoveAside`, `SwapIn`, `SwapFails`, `EraseEtc`, `SyncRoot`, `DiscardFailed` |
| `restore_runtime_state` 424-459 | `RestoreEnabled`, `RestoreService`, `RestoreTimer`, each of which may fail unnoticed (`PutBack`, `ServiceLapses`) |
| `recover_transaction` 461-473, the end of `txn_rollback` | `ClearMarker`, `SyncClear`, `RemoveDir`, `Unset` |
| `locked_call` 563-568 | `CallFails`: it rolls back itself (`mode = "call"`) |
| `on_exit` 520-549 | `Fault`: a failed command or a signal, from where the rollback begins |
| environment | `Kill`, `PowerLoss`, `CoreDies`, `CoreRestarts` |

Assumed: one CLI process at a time; a journal that keeps operations in order, so
that a power cut leaves a prefix of them; a unit file that is installed;
enablement links that are durable when `systemctl` returns. The
`fw_reconcile` inside a restore is left to `FirewallGuard`.

`locked_call` rolls back itself when the function it calls returns with the
transaction open (565-566). Its traps are set then (556-559), so a signal makes
`on_exit` roll back once more; in the rollback of `on_exit` they are off (522), and
only a kill ends it. After either, `TXN_DIR` is emptied in a step of its own (`Unset`),
as after a commit (`Forget`).

When the core dies its unit is inactive and `waiting`; `NoteUnits` and `Apply` see it
as the code does, as stopped, and `CoreRestarts` starts it at any later step. `stray`
tells a core that was started so after `txn_begin` noted the unit as stopped and before
the last file was written, or that a failed `systemctl` left as it was. `lapsed` are the
flags that the restore under way could not put back; the code has no such record.

### 2.2 CliLock

A process goes through `mkdir`, `read`, `probe`, `unlink`, `rmdir`, `write`,
`critical`; `seen` is the pid it read, `empties` and `tries` its two counters.
It may die anywhere. `Gone` and `Stranger` are pids left in a lock of before:
nobody has the first, another program has the second. Variables that are not read
again are reset, so that equal situations are equal states. Nothing joins the
read of a pid, `kill -0` and the two halves of `rm -rf` into one step. Two history
variables tell what that makes possible: `behind` are the processes whose removal was
decided on before the lock was last taken, `raced` is set when one of them changes the
directory, or when one gives up on a lock without a pid whose owner is about to write
it. `InitDirs` is what may be there at first.

### 2.3 FirewallGuard

`input`, `chain` and `rules` are the firewall, per address family, and every
`iptables` command is a step of one of two actors: the unit's hook or the
timer's `fw_reconcile`. `unit` is the life cycle of the service: `off`, `pre`
(its `ExecStartPre` runs), `up`, `post` (its `ExecStopPost`), `wait` (systemd
will restart it). `op` is a CLI operation that changes the port or the engine,
in the order the code changes settings, config and service; it holds the lock,
so the tick does not run meanwhile. The unit does.

Assumed: IPv6 is enabled or not for a whole run; `systemctl restart` waits for
the hooks; the start limit of systemd is ignored; an import writes config, engine
marker and unit file in one step; the rollback of an operation counts as another
operation. `QuietTick` and `QuietOp` exclude the two races that the code has
(section 3.2), so that everything else can be stated without them.

### 2.4 Catalog and Activation

A node stands for a link or a JSON profile; its id, a hash of all it says,
determines its kind, scheme, label and server. `Builds[g][n]` is the engine for
which version `g` of the generators builds node `n`, or "none"; `Accepted` are
the nodes whose config the core takes in its own test. A config is the record of
what it was made from (`src`, `settings`, `keys`), by which version and for which
engine, which is what the properties here ask of it; what it says is the subject of
`ShareLinks`, `JsonProfile` and `AwgProfile`.

Each command is one action, which does all the function does, the removal of the
marks of other sources and the restart included; `Rollback` is what a command
that fails comes to. `boot_recover` (1417-1434) is not a transaction, and is
modelled step by step (`InstallService`, `RebuildConfig`, `RebuildMarker`,
`BootRestart`) with `Interrupt` between the steps. `KeepConfig` stands for every
way in which a rebuild leaves the config alone (skipped, refused, failed before
the rename). An editor (`OpenEditor` ... `AwgCommitEdit`) is open for any time
outside of the lock. `Reboot` with a wiped `/etc` and `NewVersion` may come
between any two operations.

Not in the model: `awg_rename` and the settings ping and auto-update, which
change no config; refresh interval and User-Agent. `CoreDies` leaves the unit
`waiting`, which is inactive for `RestartIfActive`, `MenuStop` and `Rollback` as it is
for `is-active`; systemd starts it later (`CoreRestarts`), or in the middle of an
operation, from what that is about to replace (`Overtakes`, which sets `overtaken`
until the next start, stop or end). `Rollback` takes `systemctl` to work;
`StateTxn` has the one that fails.

### 2.5 CoreUpdate

`files` are the five files of `bin/`: a version, `Absent`, or `Torn` while
`install` writes. `bak` are the `.bak` copies next to the cores, `backup` the
copies in the run directory, `armed` whether `on_exit` would put them back.
`unit` and `loaded` are the service and what its core was started from.

| Code | Actions |
|---|---|
| `cmd_update` 1914-1951 | `BeginUpdate`, `WriteService`, `WriteServiceFails`, `Restart`, `RestartFails`, `PutBackDone`, `Revive` |
| `cmd_install_binary`, `_singbox`, `_awg` | `BeginInstall`, `BeginEnsure`, `Place`, `PlaceFails`, `Check`, `CheckFails` |
| `cmd_geo_update` 1968-2003 | `BeginGeo`, `Fetch`, `FetchFails`, `Swap`, `SwapFails` |
| `_restore_update_backup` 1953-1966 | `PutBack`, `Copy`, `PutBackFails` |
| `on_exit` 520-545 | `Signal`, and `OnExit` of the failures that are fatal |
| environment | `Kill`, `CoreDies`, `CoreRestarts`, `MenuStart`, `MenuStop`, `ImportFor`, `NewRelease` |

Abstracted: a download, its checksums, the test of the current config and the
copy into place are one step that works or fails; the backup loop of
`cmd_update` is one step, since it changes nothing that is in use and
`UPDATE_BACKUP` is set after it; in `cmd_geo_update`, where it is set in the
middle of the loop, each file's backup is a step. A restore by `install` removes
the live file and then copies (`PutBack`, `Copy`). sing-box and amnezia-box are
pinned by the CLI to one version each, which here is one number. `before`, `unit0`
and `disturbed` are history variables that only properties read. A power cut is
approximated by a kill and the death of the core.

### 2.6 SafeExec

`stage` is the step of the helper, `group` the processes of the validator's session,
`deaf` what each ignores, `doomed` who has got a TERM that it does not ignore.

| Code (`safeexec.py`) | Actions |
|---|---|
| `main` 76-129 | `CheckArguments`, `InstallHandlers`, `StartChild`, `StartFails`, `RecordStart`, `DeliverPending`, `ArmDeadline` |
| the loop 130-137 | `Poll`, `CheckDeadline`, `CheckMemory` |
| 138-150 | `Finish`, `Terminate`, `WaitGrace`, `KillGroup`, `Reap` |
| `forward` 112-117 | `Forward`, between any two steps |
| environment | `MemberForks`, `MemberEnds`, `MemberGrows`, `Tick` |

The resource limits that `prepare` sets are the kernel's; a helper that is killed by
SIGKILL is left out, since nothing it could do is in its code.

### 2.7 Fetch

`at` is where the worker waits: `resolve`, `connect`, `tls`, `answer`, `body`; `hop`
holds URL, redirect count and DNS answer, `link` the peer. `budget` is the timeout of
the current socket call, `clock` the time since the start. Time passes only while the
worker waits, and not beyond the moment at which a timer is due; `Trickle` is a byte
that restarts the socket's timeout. The response is chosen when its headers are read,
among all combinations of status, length, framing, encoding and body.

| Code (`mksub.py`) | Actions |
|---|---|
| `cmd_fetch` 935-962 | `Begin`, `Process`, `Rings` |
| `fetch_url` 903-924, `_public_ips` 688-735 | `Visit`, `Resolved`, `ResolveFails`, `Redirected` |
| `_https_get` 746-860 | `Connected`, `NextAddress`, `Secured`, `Answered`, `RequestFails`, `ReadChunk`, `BodyEnds`, `ReadFails`, `Decode` |
| provider and timers | `Trickle`, `TimesOut`, `TimePasses` |

`PROXY_UNIFI_SUB_ALLOW_PRIVATE`, which only the tests set, is not set.

### 2.8 Formats, keys, health check, self-update

`ShareLinks`, `JsonProfile` and `AwgProfile` are functions from a link, profile or list
of lines to acceptance and result. Percent- and base64-decoding are taken as done, and
upper and lower case are not told apart except where a profile's field names are
concerned. A structured value (a port list, a JSON object, a key chain) is a text, and
a constant says what it decodes to. What the core does is external: the router of
`JsonProfile` (`Decides`, `Route`), what it dials, and that a tag without an outbound
keeps it from starting. `IsLink`, `IsProfile` and `IsText` say what the model holds of
each; the bodies and directories of an instance are assumed to be made of them, and TLC
evaluates that, as it does the other assumptions.

`SubCatalog` is one subscription: `FetchBody` (`process_body` and what `cmd_fetch`
writes), `Upgrade` of the program, `Load`, `Extract`, `Build`. `AwgMenu` is a menu that
has shown a list (`List`), waits for a number (`Choose`) and activates (`Select`)
while `Change` (with a `Fresh` id) stands for the commits of another session. Each session has a map
of its own, as each process has its run directory.

`KeyStore` takes the two private and two public keys and the names of the first
versions as files that hold a pair's half; a pair is a value, made once. A call is made by an import or a
setting (in a transaction), by a rebuild (in none, and without `errexit`, since 1421
calls it in a condition), or by `cmd_regen_keys`. `CallFails` ends it anywhere. A `mv`
in the key directory is taken to work.

`HealthCheck` counts time in polls of 0.25 s: a core listens after `boot` polls, for
`life` polls, and is started again `RestartPolls` later. `SelfUpdate` is the branch of
the repository as a sequence of commits, whose tests go on between runs, and the steps
of `auto_update` and of the menu's `self_update`. GitHub does not change during one
run, and the version file is taken to be written.

### 2.9 Installer

`phase` is the step of `install.sh`; `files` are three groups of scripts and the
assets of `bin/` as one file. `saved` and `marked` are its two markers with what they
stand for. The installer, its two children and the other commands are processes of
`CliLock`.

| Code (`install.sh`) | Actions |
|---|---|
| `preflight`, `install_files` 171-213, 383-438 | `Preflight`, `Stage`, `GivesUp`, `Snapshot`, `Backup`, `Promote`, `FilesEnd` |
| `restore_promotion` 76-93 | `RestoreFile`, `Restored` |
| `run_step` 324-345, 448-450 | `StartChild`, `ChildEnds`; `Update` and `Recover` are what the children do |
| 451-456 | `Commit`, `Record` |
| `cleanup` 101-119, traps | `Cleanup`, `RestoreUnits`, `LetsGo`, `Leave`, `Signal` |
| others | `Command`, `LockStep`, `Unlock`, `Dies`, `Crash`, `Settle` |

`Settle` is the `mv` that goes on after a TERM has ended the shell that waited for it.
`run_step` starts `install_and_verify_service` in a subshell (324, 440-442), so a signal
that comes while `boot-recover` runs ends that subshell, and `boot-recover` goes on
beside the clean-up and after it: `StopRecovery`, and `RecoverUnit`, `RecoverConfig`,
`RecoverCore` and `RecoverFails` one by one between the steps of the installer.
`install_files` and `_update` are stopped themselves, and waited for.

Four variables are read by properties only: `meddled` says that another command changed
something after the backup was taken, `partial` that the installer said it could not put
everything back, or was killed, `outlived` that `boot-recover` changed the unit or the
tunnel after they had been put back, and `raced` is that of `CliLock`. A command of
others is one step because it has the lock; once that was raced nothing is said of what
is left. What `_update` does file by file is `CoreUpdate`'s, and a core that waits for
its restart is `StateTxn`'s and `Activation`'s.

## 3. Runs

Every property of a passing run has a mutant: a plausible slip in the code that
breaks it under the run's own configuration. A property that is a conjunction
(`LockHolds`, `CatalogIsHonest`, ...) has one for each of its parts, which are named
and explained where the conjunction is defined. The type invariants of `StateTxn`,
`CliLock`, `FirewallGuard`, `Activation` and `CoreUpdate` are proved (`TypeCorrect`,
section 4) and take no run; those of the others are a conjunct of `EndsHonestly`,
`TalksToTheRight`, `CatalogIsHonest` and `LeavesOneVersion`.

| Run | Question | Properties |
|---|---|---|
| `txn_safety` | Are operations atomic and durable? | `VersionsAreSafe` (`NeverTorn`, `CommittedIsDurable`), `ServedIsStored`, `RestoreIsComplete`, `AtomicUpdates` |
| `txn_anyfault` | Is recovery possible, and does it come, wherever a fault is? | `MarkedIsRecoverable`, `EventuallyRecovered` |
| `txn_begin_fault` (violation) | Does a failure in `txn_begin` leave the state alone? | `StateNeverErased` |
| `helpers` | Is the lock exclusive and kept outside of its race, busy only if it is, and does it let everyone through? Does a validator end, with everything it started and a true verdict? Does a fetch withstand its provider? | `LockHolds` (`Exclusive`, `NeverStolen`, `BusyIsTrue`), `NoWaiterHangs`; `EndsHonestly` (`NothingLeft`, `VerdictIsTrue`), `CancelArrives`, `AlwaysReturns`; `TalksToTheRight` (`HwidStaysHome`, `OnlyPublic`), `AcceptedIsWhole`, `EndsInTime` (`InTime`, `Ends`) |
| `guard_safety` | Is a listening core guarded, and UniFi's chain left alone? | `GuardedWhileListening`, `NeverLapses`, `InputIsShared` (`JumpsBounded`, `ForeignRulesKept`) |
| `guard_heals` | Does the timer repair what it meets or causes? | `GuardSettles` (`ExposureEnds`, `LeftoversGo`) |
| `activation_safety` | Do config, marker, unit, core and selection stay together, and is no edit lost? | `ConfigFollowsSource`, `SelectionIsActive`, `RunningIsStored`, `UnitsMatch` (`MarkerFollowsConfig`, `UnitsFollowChoices`), `MaintenanceNeverStarts`, `RefreshKeepsTunnel`, `NoLostEdit` |
| `update_safety` | Is an update complete or undone? | `FailedIsUndone`, `UpdatesGoForward` (`UpdatedIsComplete`, `NoDowngrade`, `CoresSurvive`), `RunningIsInstalled`, `ServiceChoiceKept` |
| `update_heals` | Do kills leave something that the next updates do not repair? | `EventuallyCurrent` |
| `installer` | Is an installation all or nothing, next to other commands and its own leftovers? | `LeavesOneVersion` (`AllOrNothing`, `NoLockLeft`), `ServiceSurvives` (`InstalledServes`, `UndoneServes`), `ScriptsHoldStill` |
| `mutator_stopped` (violation) | Does an undone installation stay undone? | `UndoIsFinal` |
| `parts` | Is what is accepted what is built? Do keys, health check and self-update keep their promises? | `NothingDropped`, `CatalogIsHonest` (`OffersEveryTunnel`, `OfferedBuilds`, `SavedOpens`), `ProfileIsContained` (`RoutesKept`, `NothingSmuggled`), `AwgIsFaithful` (`PickedIsShown`, `SettingsKept`, `HeadersApart`), `KeysAreRight` (`KeysKept`, `PairsMatch`, `RotationIsReal`), `HealthIsTrue` (`CrashLoopIsSeen`, `SlowStartIsFine`), `UpdatesAreRight` (`NewestTested`, `NeverGoesBack`, `RecordIsTrue`) |

### 3.1 What the violated runs show

Each checks what a comment or the README says of the program; the findings
in `PROJECT.json` quote it.

**`txn_begin_fault`** (482). `TXN_DIR` is set before the snapshot exists. A
`cp -Rp` that fails there, or a signal, makes `on_exit` roll back to it: without
`had-etc` the state directory is erased, with half a copy it is swapped for the
half. `README.md:241` promises that "failed starts restore the prior working
state".

**`mutator_stopped`** (`install.sh:104`). A signal while `boot-recover` runs ends the
subshell that waited for it. The clean-up restores the old unit and ends, and
`boot-recover` writes the new one. The comment at `install.sh:30-31` says that the trap
"terminates the active mutator first".

### 3.2 Other behaviour worth knowing

No run is spent on these. The models contain them where a constant or an exception in
a property is named; the others were met while reading.

The lock:

* Two waiters read the same dead pid (321). One removes the lock and takes it; the
  `kill -0` and `rm -rf` of the other come after that (336), and both work under what
  `on_boot.sh:20-21` calls "the CLI's global mutation lock". `MutualExclusion` alone fails
  in this way; `LockHolds` says that it fails in no other (`raced`).
* The lock directory is under `/data`. After a power cut and a reboot its pid may be
  another program's: a command then ends with "another proxy-unifi operation is still
  running" (341), although none is, and so does every one after it, the boot hook
  included, as long as that program runs. `BusyIsTrue` excepts it (`Stranger`).
* Who waits ten times for a lock without a pid removes it (331), also if its owner was
  only slow between `mkdir` and `printf`: the other half of what `raced` stands for.
* `rm -rf` removes the pid file first. An owner that comes in between finds its new lock
  without a directory, and gives up with "could not initialize operation lock" (345).

The guard:

* `fw_reconcile` reads `is-active` once and then unlocks command by command (1343);
  systemd's restart runs `ExecStartPre` in between, and the core listens without its
  guard until the next tick. With `QuietTick = FALSE`, `GuardedWhileListening` fails;
  `guard_heals` shows the repair. The comment at 1093 says "Protection is fail-closed
  before either core binds."
* A port change that begins while the unit waits for its restart takes it for stopped
  (1812). systemd starts it with the old config behind a guard for the new port, and
  nothing corrects it. With `QuietOp = FALSE`, `ExposureEnds` fails.

Transactions and updates:

* `TXN_DIR` is also still set when `txn_commit` has removed the snapshot. A signal that
  comes while `rm -rf` works (505) is handled after it, before `TXN_DIR` is emptied:
  `on_exit` rolls back to a directory that has no `had-etc`, and erases the state of an
  operation that was just committed. The rollback of `locked_call` has the same end
  (516-517), under the same traps. With those steps in `FaultAt`, `StateNeverErased`
  fails as in `txn_begin_fault`.
* The unit waits five seconds for its restart (1250-1251), inactive for who asks. An
  operation that begins then notes the service as stopped (487, 1812), and systemd starts
  the core from the old files before the new ones are there: the old tunnel runs on under
  the new configuration. The comment at 3141 has the guard timer stay away from a held
  lock because "that operation restarts what it changes". `ServedIsStored`,
  `RunningIsStored` and `RunningIsInstalled` except such a core (`stray`, `overtaken`,
  `disturbed`).
* `restore_runtime_state` throws away what `systemctl` reports (433-458), and the marker
  is cleared all the same (472, 514): a recovery says that it worked with units that are
  not as they were, or with a core that still runs what was rolled back.
  `RestoreIsComplete` excepts those units (`lapsed`), `ServedIsStored` that core
  (`stray`) until its next start.
* A rollback stops a service that `txn_begin` found waiting for its restart (442). And
  `menu_stop` calls it already stopped (2445) and leaves it alone, so that systemd starts
  it seconds later.
* A geo update whose backup of the second file stops half way (disk full) installs
  that half over the good file (1979). Hence the assumption `CleanCopies`.
* A kill between the new Xray and its geo files leaves the old geo files until the
  next release, since the next update finds all cores current (1044).
* A kill inside a restore can destroy the core in use; from then on each update
  fails its health check and is rolled back (1961). `EventuallyCurrent` excepts it
  by name.
* A unit in its restart wait counts as inactive (1919), so the rollback of an
  update stops it for good. `ServiceChoiceKept` excepts operations that begin there.
* A signal between `UPDATE_BACKUP=""` and the restart leaves the new core running
  on restored files (1934): the outcome `abandoned`.
* A core that listens for two seconds and then dies passes the health check;
  `CrashLoopIsSeen` says "before".

Subscriptions and formats:

* A scheduled refresh that moves to another node starts a service that the user
  stopped (3032), on purpose by the comment at 1636. `MaintenanceNeverStarts`
  leaves the refresh out.
* Two nodes that are equally like the one that is gone are told apart by their
  place in the list (`mksub.py:1189`), where the docstring (1158) promises to leave
  an ambiguous tunnel alone. `RefreshKeepsTunnel` allows it.
* A subscription's node is chosen by its number in the list (2882), without the map
  that the AmneziaWG menu keeps: a refresh between display and choice changes what the
  number means.
* A catalog of exactly the limit is saved with one byte more than can be read again
  (`mksub.py:958-960`). `SavedOpens` excepts it as `ExactlyFull`.
* Dropped without a word: `packetEncoding` of a trojan link, the members of a VMess
  object that v2rayN does not use, a `"tls"` of it that is no layer (`mkxray.py:462-468`:
  anything but `tls`, `xtls` and `reality` is none), the options of an `ss` plugin without a name
  (`KnownDrop`), and the password half of the userinfo of vless, trojan and vmess.
  `fp` and TCP Fast Open over QUIC are dropped on purpose (`mksingbox.py:29`,
  `README.md:124`).
* `PersistentKeepalive = 0-25` builds no keepalive, although the comment at
  `mkawg.py:481` speaks of ranges that begin at zero.
* A rule with an empty `inboundTag` list is dropped, though the core matches it
  against every inbound; a SOCKS inbound without a tag is called `socks` by the program
  and by nothing else (`mkjson.py:190-205`).

The installer:

* A `boot-recover` that outlived the installer may also rebuild the config and restart the
  core from the old assets, or end in a tunnel that fails its check, after the old
  service was started. `AllOrNothing` and `UndoneServes` except an installation whose
  unit or tunnel it changed (`outlived`); what it did before they were put back they do
  not except.
* Once the lock was raced, two operations may have worked at once: no property says
  anything of such an installation but that it leaves no lock in its name.
* `cleanup` restores scripts and units without the lock (`install.sh:101`), next to
  whatever command has it. `ScriptsHoldStill` excepts that phase.
* A TERM ends the shell of `install_files` while the `mv` it waited for goes on, so
  that one new file can come after the files were restored (`Settle`).
* Between the release of the lock by `install_files` and `_update` another command
  may run with the new scripts; what it changes in `bin/` a later rollback of the
  installation undoes (`meddled`). A menu that was opened before runs the old CLI with
  the new helpers.
* A kill or a power cut during the promotion leaves scripts of two versions: marker
  and backup are in a temporary directory that nothing reads again.
* The commit removes two markers with one `rm` (451): if it stops between them the
  scripts stay new and the units become old, or the other way round.
* A signal after the commit reports a failure although everything is new.
* After a failed installation the config may be one that the new generators made
  (`boot-recover` rebuilds it outside of any transaction), and `systemctl start` does
  nothing for a service that runs: a tunnel that the new config broke stays broken,
  where `README.md:269-271` promises the previous files and service state.
  `UndoneServes` asks for a working tunnel if the config is the old one.

### 3.3 Bounds, and why they are enough

* **StateTxn**: two files that change together (one would never be torn) and are
  symmetric, two versions, `MaxFaults = 2`, so that a recovery is itself interrupted. A
  `systemctl` that fails in a restore and a core that dies count as interruptions. A
  gateway in use and a new one. `txn_safety` lets faults come at `SafePoints`, where
  `TXN_DIR` is set exactly if the marker names it; kills, power cuts, deaths of the core
  and failing restores come anywhere. `txn_anyfault` takes every step. `StateNeverErased`
  is vacuous for a new gateway, where `AtomicUpdates` says the same.
* **CliLock**: three processes, since the race takes one that died or released, one that
  took the lock and one that is late; two polls of each kind instead of the code's 10 and
  150; each lock that may be left at first.
* **Installer**: the installer, its two children, of which one may be left behind, and
  one other command. No lock at first, or one whose owner is gone;
  one without a pid comes of a death. One gateway that serves and for which the new
  config does not work, and one whose user wants no service; one command that fails.
  `mutator_stopped` has the second of these gateways.
* **FirewallGuard**: two ports, two families for safety and one where the family
  plays no part, one change by UniFi, two operations, one or two commands that fail.
* **Activation**: six nodes chosen so that an offer keeps, moves, withdraws,
  replaces by one and replaces by two; two versions of the generators of which the
  second changes an engine, drops a node and takes a new one; two each of profiles,
  contents, settings and keys; one interruption of `boot_recover`; a core that dies any
  number of times; two editors, both of which are open at once only before a
  subscription, a link or a profile is set up (`EditorsTogether`): an edit reads and
  writes AmneziaWG profiles and what is made of them, and nothing else.
  Profiles, contents, settings, keys and editors are symmetric: the model only
  compares them, the configuration names none of them, and no liveness is checked.
* **CoreUpdate**: three releases, of which the second is the first that is safe and
  the pin, so that what is installed may be below, at and above; one other operation
  next to any number of updates; two faults, so that a rollback fails or a restart
  comes in the middle of one. `update_heals` has two releases and no other operation.
  A release appears only between operations: only their start reads it.

* **SafeExec**: a leader and one child, which is enough for a child that outlives its
  leader; two signals; each process ignores nothing, TERM, or everything it can; memory
  that one process may use and two may not; a timeout and a grace of one tick.
* **Fetch**: one host on three ports, another host, a URL that is refused and one that
  is malformed; DNS answers of up to two addresses, one of them private; three
  redirects; bodies below, at and above the limit; a deadline shorter than two timeouts.
* **Parts**: links with every combination of scheme, transport and security layer and
  each option alone, and every pair of options that have to do with each other, in
  both orders; feeds of one to three rows of nodes that differ in one part, of which
  two fit, and texts around the limit; JSON and AmneziaWG profiles one or two changes
  away from one that is accepted, with a private host in each place that may hold one;
  words of four bits, so that the full range is among the headers; a menu during which
  another session makes two changes; each key file missing, right or not a key, and
  three calls; the health check's own 40, 8 and 20 with every start time from 0 to 40
  polls; four commits, of which a walk reaches three and looks at two.

`CHECK_DEADLOCK FALSE` is in the configurations whose actors really end: processes
of the lock that are done, interruptions, operations and releases that are used up,
a helper or a fetch that has returned.
`Activation` has no such end and checks for deadlock.

### 3.4 Fairness

* StateTxn: `WF(Start("tick"))`, since the guard timer fires every 30 s and its
  `_fw-reconcile` runs the recovery first, and `WF(Restore)`, since a running
  recovery is scheduled. No operation has to start or finish.
* CliLock: who tries to take the lock is scheduled; who has it may keep it for ever.
* SafeExec: the helper is scheduled and time passes; the members may do nothing.
* Fetch: some step of the worker or of its timers is taken while one can be (`GoesOn`);
  nothing is asked of the provider.
* Helpers: that of each of the three; what has ended takes no step.
* FirewallGuard: the tick, the commands of a hook once begun, the unit's own steps
  and an operation once begun.
* CoreUpdate: an operation once begun goes on or fails (failures are bounded by
  `MaxFaults`, after which it goes on), the daily timer begins an update, systemd
  restarts a dead core. The second stands for `AUTO_UPDATE=on` with GitHub in reach:
  `auto_update` updates proxy-unifi first, and leaves the cores alone if that fails.

## 4. Proofs

TLAPS proves, for all values of the constants and any number of faults,
operations and processes:

| Theorem | Assumes |
|---|---|
| `StateTxnProofs`: `TypeCorrect`, `RecoveryPossible` | - |
| `StateTxnProofs`: `Atomicity`, `NeverErased`, `CommitDurable`, `VersionSafety`, `CoreIsCurrent`, `RestoresAreComplete`, `ImplementsAtomicStore` | `SafeFaults`: faults come at safe points only |
| `InstallerProofs`, of `CliLock`: `TypeCorrect`, `LockIsExclusive`, `LockIsNotStolen`, `BusyIsRight`, `LockIsSound` | - |
| `FirewallGuardProofs`: `TypeCorrect` | - |
| `FirewallGuardProofs`: `Guarding`, `NoLapse` | `QuietTick`, `QuietOp` |
| `ActivationProofs`: `TypeCorrect`, `ConfigIsCurrent`, `RunningIsCurrent`, `SelectionIsHonest`, `EditsAreKept`, `StoppedStaysStopped`, `UnitsAreRight`, `TunnelsAreKept` | - |
| `CoreUpdateProofs`: `TypeCorrect`, `ServiceIsKept` | - |
| `CoreUpdateProofs`: `FailuresAreUndone`, `RunningIsCurrent`, `UpdatesAreForward` | `CleanCopies` |
| `InstallerProofs`: `LockServesAll`, `ScriptsStay`, `OneVersionLeft`, `ServiceIsLeft` | - |
| `HelperProofs`: `HelperIsHonest`, `CancellationsArrive`, `FetchIsDiscreet`, `NothingCutIsAccepted`, `BodiesAreInTime` | - |
| `PartsProofs`: `VerdictsAreTrue`, `UpdatesFindTheNewest`, `KeysStayRight`, `CatalogStaysHonest`, `ProfilesAreContained`, `AwgIsFaithfulAlways` | - |
| `LinkProofs`: `NothingIsDropped` | - |

An assumption in the second column is a constant of the model, of which the violated
run `txn_begin_fault` or section 3.2 says why it is needed. What a theorem does not claim because the code
does not give it is in its property, as the history variable that tells when it is
lost: `raced`, `outlived`, `lapsed`, `stray`, `overtaken`. The assumptions of `Parts` on its data say what a
body, a link, a profile or a text is (`IsLink`, `IsProfile`, `IsText`: the members there
are, `"other"` for those of a VMess object that nothing reads, and that lists are lists), that limits are positive, and that neither the empty
text nor `fakedns` is the name of a private host; which of them mean what (`NumberOf`,
`RangeOf`, `Plugin`, ...) may be anything. That of `Catalog` is that a node which a
version of the program supports names a server (`ServersAssumption`).

How the arguments go:

* **StateTxn**. `RecoveryInv` says what each step may rely on about the snapshot:
  before the marker is set it is complete and synced, and no step consumes it while
  a marker on any image names it. Alone it gives `MarkedIsRecoverable`. `AtomicInv`
  adds what holds when faults come at safe points: `OwnedInv` (who has `TXN_DIR`),
  `MarkerInv` (while the operation works the snapshot is what was there),
  `TargetInv` (from the restart on the state is the new version, and from the
  removal of the marker's directory on so is every image) and `RestoreInv` (each
  restore step's file is the snapshot's). For the service, `SavedInv` says of each
  flag that a restore has come past that it is what the snapshot says or has `lapsed`, and
  `CurrentInv` that a core which is up and no `stray` was started from what is stored at
  every step where no restart is still to come (`Settled`); while the files change it is
  one that the snapshot has as active, so that the operation restarts it. The refinement
  maps the store to `Logical(fs)`, the snapshot while there is a marker and the state
  directory otherwise, and the outcomes to the `Logical` of every image: `SetMarker` and the
  writes stutter, `Unmark` publishes, the syncs harden.
* **CliLock**. `LockInv` has two parts. `PidInv` holds always: a pid that is in the
  directory, or that somebody read there, is that of a process which has the lock,
  releases it or has ended. It is why a refusal is right, raced or not. The other part
  holds until `raced`: `OwnerInv`, that the directory is the owner's from `mkdir` to the
  removal of its pid (`Owns`), and `BreakInv`, that whoever is about to remove a lock and
  is not `behind` is right, nobody else owns it. A process falls behind when the lock is
  taken (`BehindStep`), and only its `unlink` or `rmdir`, or a removal that hits an owner
  without a pid, sets `raced`: so every other order of reads, removals, deaths and
  releases is shown harmless.
* **Installer**. The steps of the lock are those of `CliLock`, so its `Inv` needs only
  what the installer does to processes from outside: to begin one, to stop one, to be
  killed. `SharedInv` adds `EndedInv`, that whoever is done or has given up has no
  directory in its name, `PhaseInv`, at which of the installer's steps it has the lock and
  when its children are over, and `UnseenInv`, that nobody has read the pid of one that
  has not begun. `ChildInv` says that `_update` works only while it is waited for, and
  that boot_recover may go on through all steps of the clean-up.
  `FilesInv` follows the promotion and its undoing file by file, as long as nothing has
  failed to be put back: what is before `at` is new, or is again what the backup holds
  (`CoresKept` of the assets). `UnitInv` and `ServedInv` relate the unit and the tunnel
  to what was saved and to what is installed; they hold only while no other command
  has changed something, which `CommandTold` shows `meddled` to record, and no
  boot_recover after the undo, which `RecoverTold` shows of `outlived`. For an
  installation that is undone, `TunnelInv` follows the tunnel: until the promotion what
  runs is what is there and was healthy (`Fits`), and if the service ran (`RanBefore`),
  then as long as the config is the one of before it keeps running with a tunnel that
  works, whatever became of the cores and wherever boot_recover is (`OldWorks`).
* **SafeExec**. `GroupInv` says at which steps there is a group, and that nobody is in
  it after `KillGroup` and `Reap`; `ReasonInv` that the group is stopped for a reason
  only, and `VerdictIsTrue` of it; `SignalInv` that every signal is kept until the child
  is recorded, and the first of them has reached it (`Reached`) at every step at which
  the helper watches.
* **Fetch**. `TalksToTheRight` and `InTime` are inductive next to `HopsInv`, which bounds
  the redirects, and `AddressesInv`, that every address still to be tried passed the
  check; `BodyInv` says how much has been read, and that a chunked body is not
  decoded before its end.
* **FirewallGuard**. `GuardInv` follows `fw_lock` through both families: `PreInv`
  says which families it has locked and which commands of the current one have
  worked, `ListenInv` that a listening core has its rule in each, `ActorInv` and
  `OpInv` for which port each actor works and when each may run.
* **Activation**. `IInv` is `TypeOK`, `TunnelInv` (`ConfigFollowsSource` and
  `MarkerTellsSource`: also after an interruption the marker tells AmneziaWG and
  JSON profiles from links), `RunningIsStored` (of a core that is not `overtaken`) and `SelectionInv`, which also says that
  nothing describes a selection that is not there. The marker is
  the interesting part: `CurrentEngine` is read by operations that decide by it
  what to rebuild, so without it the config is not inductive. `UnitsAreRight` adds
  that the marker file follows the config, and `ChoicesInv`: a timer has a subscription
  behind it, and a recovery that is under way has a unit. For `TunnelsAreKept`, the score
  of a successor tells whether its label and its server are those of the node that went
  (`MatchIsAlike`), and one on another server scores less than one on the same.
* **CoreUpdate**. `StepInv` says which operation can be at which step and file;
  `ServiceInv` what `was` tells of the service; `UndoInv`, the main one, that every
  file is as before or has a faithful copy in the run directory (`CopiesInv`), that
  a geo update touches a file only after its own backup (`TurnInv`), that a rollback
  has put back what is no longer in `todo` (`RollbackInv`), and what each outcome
  says (`OutcomeInv`); `CoreInv` and `RunInv` relate `loaded` to the files.
  `UpdatesAreForward` builds on it: a file that is behind an update is what the update
  is for (`PlacedInv`, `SwappedInv`), a core that could run still can, or is
  set aside, until a rollback begins (`LivelyInv`), and no Xray is newer than the
  latest release nor a target older than what it replaces (`AheadInv`).
* **PartsProofs**. Health: the polls that count are consecutive and of one life of the
  core (`RunInv`), so that eight of them are two seconds of it; a core that starts in
  time cannot use up the forty (`SlowInv`). Self-update: no commit that the walk has
  left behind qualifies, and it stays at or above what is installed (`WalkInv`). Keys:
  except while they are replaced, the keys are those that UniFi knows, and so are the
  ones that a failure brings back (`KeptInv`); once migrated, the old name matters no
  more (`MigratedInv`); while they are replaced, none is one that UniFi knew
  (`NewInv`); and what the call is done with is a pair or nothing (`SettledInv`).
  Catalog: `SubInv` says of each step's result what it is made of: the file is the
  nodes of the body with the verdicts of some version, the list the file's, the config
  what the generator makes of the chosen node; the properties are then about pure
  functions. Rows with one id have normal forms that are equal but for the order of
  their options (`IdsTell`, `OrderDoesNotCount`), none of which a generator looks at
  (`AlikeBuildTheSame`), and the three places that choose an engine agree
  (`EnginesAgree`). Profiles: the rules that are dropped match nothing of the primary
  inbound, so the first that matches is still the first (`RoutesStay`); each host the
  core dials is a target, and a spelling that the validation does not read stands next
  to one that it does (`NoneSmuggled`). AmneziaWG: the map holds the ids of the
  directory as it was shown, which no other session can give to another profile
  (`ShownInv`). A line that is taken out leaves its section with all the others
  (`SectionsStay`, `OneSettingLess`), so what is missing is that one setting; and in a
  peer the public key tells which peer it is missing from (`SettingsAreKept`).
* **LinkProofs**. A link without one of its options has the other options as they were
  (`WithoutOption`), so the value is gone under every name that the option has, unless
  the link says the same twice (`Alone`, `AloneGoes`). For each option one lemma says
  which field has it, and of what else the field depends (`ServerNameIs`, `AlpnNamed`,
  ...); an option that is accepted is one of the layer that the link asks for, and so
  shows in that layer (`SecurityTells`, `TransportTells`), in the stream (`StreamTells`)
  and in the outbound of its protocol (`VlessTells`, ..., `TuicTells`), also when what
  is taken away is the name of the transport or of the security layer, and all their
  options with it. A VMess object is first read as the options that it stands for
  (`LegacyLeaves`). The exceptions are thereby exact, for links of every length: an option
  is exempt only for the one value that its reader falls back to where it is read
  (`SaysDefault`), or by name (`KnownDrop`).

Only model-checked:

* all liveness, which is out of the prover's reach as ENABLED is: `EventuallyRecovered`,
  `GuardSettles`, `EventuallyCurrent`, `NoWaiterHangs`, `AlwaysReturns`, `EndsInTime`.
  That an installation ends is not checked: it waits for the lock, as `NoWaiterHangs` says
  of anyone, and for commands whose ends are taken for granted;
* `InputIsShared`, which counts in a sequence and would take induction over it.

Induction over data and RECURSIVE operators are out of reach, too; the modules with
theorems use neither.

## 5. Plan

Done, in this order: `StateTxn` with `AtomicStore`, `CliLock`, `FirewallGuard`,
`Catalog` and `Activation`, `CoreUpdate`, each with its proofs; then `Installer` on top
of `CliLock`, `SafeExec` and `Fetch` with theirs, the formats, and the small parts with
theirs. Parts that share no state share a run (`helpers`, `parts`); a question about a
model that another run already explores joins that run.

Next:

1. **A menu of subscriptions** (CLI 2881-2882): the number that is chosen from an old
   list, next to `Activation`.
2. **An abstract gateway** with two variables, what is wanted and what is served,
   which `Activation` implements.

## 6. What is not modelled

* The text of the formats: percent- and base64-decoding, JSON and INI syntax,
  rendering; which field becomes which option is modelled, how it is written is not.
* Display: menu, status, logs, ping, and the caches they write outside of the lock.
* `cmd_uninstall` (3111) and the command link in `/usr/local/bin`: the first has one
  check, that the service has stopped before its unit goes, and ignores the failure of
  every other step.
* A subscription's refresh interval and User-Agent, which change no config.
* Limits that the kernel enforces for `safeexec.py` (address space, CPU, files).
* The build workflow and the tests, which were read for what the program is meant to
  do.

## 7. Running the checks

```
tlc -workers 2 -config StateTxn_safety.cfg MCStateTxn.tla
tlc -workers 2 -config Installer_safety.cfg MCInstaller.tla
tlc -workers 2 -config Parts_slices.cfg MCParts.tla
tlapm CoreUpdateProofs.tla
```

The runs are listed in `PROJECT.json`. The largest, `update_safety`, has about 2.4
million states; each ends within a few minutes.
