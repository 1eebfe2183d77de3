----------------------------- MODULE Activation -----------------------------
(***************************************************************************)
(* What the gateway's tunnel is made from, and what it runs: the saved     *)
(* link, JSON profile or AmneziaWG profile, the config that is generated   *)
(* from it with the settings and keys, the engine marker, the systemd unit *)
(* and the core that runs (src/src/proxy-unifi: cmd_import, awg_*, sub_*,  *)
(* cmd_set, cmd_regen_keys, boot_recover).                                 *)
(*                                                                         *)
(* Commands hold the operation lock (module CliLock), and one that fails   *)
(* is rolled back (module StateTxn): each is one step here, that is taken  *)
(* only if all of it works, and Rollback is what the others come to.       *)
(* boot_recover is not a transaction: it goes step by step and may be      *)
(* interrupted. An editor session runs outside the lock.                   *)
(***************************************************************************)
EXTENDS Catalog

CONSTANTS MaxGen,     \* versions of proxy-unifi: the one installed first is 1
          Builds,     \* the engine each version's generators build a node for, or "none"
          Accepted,   \* the nodes whose config the core itself accepts
          AwgIds,     \* ids of AmneziaWG profiles
          Contents,   \* their contents
          Settings,   \* values of settings.env that the config depends on
          KeyPairs,   \* WireGuard keys
          Users,      \* open profile editors
          MaxFaults,  \* so many interruptions of boot_recover
          Nil,        \* no such file, nothing selected
          Deleted     \* a profile that was removed: its uuid does not come again

Gens == 1 .. MaxGen
Engines == {"xray", "singbox", "xraypool", "awg"}
Good(g) == {p \in Nodes : Builds[g][p] # "none"}
\* What a fetch may store: process_body gives up if no node is supported.
Catalogs == [g \in Gens |->
    {Fetched(l, Good(g)) : l \in {o \in Offers : \E n \in DOMAIN o : o[n] \in Good(g)}}]
StoredCatalogs == {Nil} \cup UNION {Catalogs[g] : g \in Gens}
Confs == [engine : Engines, src : Nodes \cup Contents, settings : Settings,
          keys : KeyPairs, gen : Gens]

ASSUME BoundsAssumption == MaxGen \in Nat \ {0} /\ MaxFaults \in Nat
ASSUME BuildsAssumption ==
    \A g \in Gens, p \in Nodes :
        Builds[g][p] \in IF Node[p].kind = "pool" THEN {"xraypool", "none"}
                                                  ELSE {"xray", "singbox", "none"}
\* A node whose server is not known is not supported, and a profile says how many it has
\* (mksub.py:465, 549).
ASSUME ServersAssumption == \A g \in Gens : \A p \in Good(g) : Node[p].server # Blank
ASSUME NilAssumption ==
    /\ Nil \notin Nodes \cup AwgIds \cup Contents \cup Engines \cup Confs \cup {Deleted}
    /\ Nil \notin [id : Nodes, n : Nat] \cup [id : AwgIds, base : Contents]
    /\ Deleted \notin Contents

VARIABLES link,      \* OUTBOUND_LINK
          pool,      \* POOL_SRC
          awgSel,    \* AWG_SELECTED
          config,    \* CONFIG
          pooldir,   \* POOL_DIR
          engine,    \* ENGINE_FILE
          unit,      \* the engine that the unit file starts, Nil without the file
          active,    \* the service is active ...
          running,   \* ... and its core has read this
          waiting,   \* its core ended and it waits to be started again (RestartSec=5)
          overtaken, \* history: systemd started it before an operation that had noted it
                     \* as stopped replaced what it reads
          settings, keys,
          profiles,  \* AWG_PROFILES_DIR
          editing,   \* each open editor: the profile, and its content at the time
          subUrl,    \* a subscription is configured
          catalog, sel, meta,   \* SUB_CATALOG, SUB_SELECTED, SUB_SELECTED_META
          auto,      \* AUTOSTART_FILE does not say "disabled"
          enabled,   \* the unit is enabled
          timer,     \* the refresh timer is enabled
          gen,       \* the version of proxy-unifi that is installed
          boot,      \* the step of boot_recover
          faults     \* interruptions of it so far

sources == <<link, pool, awgSel>>
built == <<config, pooldir, engine, unit>>
service == <<active, running, waiting, overtaken>>
params == <<settings, keys>>
awg == <<profiles, editing>>
subscription == <<subUrl, catalog, sel, meta>>
units == <<auto, enabled, timer>>
recovery == <<gen, boot, faults>>
vars == <<sources, built, service, params, awg, subscription, units, recovery>>

Kept(r) == r \in Contents

\* The engine marker, or what the files say if there is none.
CurrentEngine ==
    IF engine # Nil THEN engine
    ELSE IF awgSel # Nil /\ Kept(profiles[awgSel]) THEN "awg"
    ELSE IF pooldir # Nil THEN "xraypool"
    ELSE IF link # Nil /\ Builds[gen][link] # "none" THEN Builds[gen][link]
    ELSE "xray"

\* What a start of the unit would run: its ConditionPathExists, and a config
\* that its core can read.
UnitReads == IF unit = "xraypool" THEN pooldir ELSE config
Startable == unit # Nil /\ UnitReads # Nil /\ UnitReads.engine = unit

Init == /\ pool = Nil /\ awgSel = Nil /\ pooldir = Nil /\ engine = Nil
        /\ link = Nil /\ config = Nil
        /\ settings \in Settings /\ keys \in KeyPairs
        /\ gen = 1
        /\ unit = "xray"
        /\ active = FALSE /\ running = Nil /\ waiting = FALSE /\ overtaken = FALSE
        /\ profiles = [a \in AwgIds |-> Nil]
        /\ editing = [u \in Users |-> Nil]
        /\ subUrl = FALSE /\ catalog = Nil /\ sel = Nil /\ meta = Nil
        /\ auto = TRUE /\ enabled = TRUE /\ timer = FALSE
        /\ boot = "idle" /\ faults = 0

-----------------------------------------------------------------------------
\* Parts of the operations

\* _build_config_file and _build_awg_profile, which validate before they replace;
\* write_service renders the unit again if there is one.
Conf(e, src, s, k) == [engine |-> e, src |-> src, settings |-> s, keys |-> k, gen |-> gen]
SetUnit(e) == unit' = IF unit = Nil THEN Nil ELSE e

\* A slip of BuildConfig: the unit is not rendered again.
BuildConfigNoUnit(e, src, s, k) ==
    config' = Conf(e, src, s, k) /\ engine' = e /\ unit' = unit

BuildConfig(e, src, s, k) ==
    config' = Conf(e, src, s, k) /\ engine' = e /\ SetUnit(e)
BuildLink(p, s, k) ==
    /\ Builds[gen][p] # "none" /\ p \in Accepted
    /\ BuildConfig(Builds[gen][p], p, s, k)
BuildPool(p, s, k) ==
    /\ Builds[gen][p] = "xraypool" /\ p \in Accepted
    /\ pooldir' = Conf("xraypool", p, s, k)
    /\ config' = Nil
    /\ engine' = "xraypool" /\ SetUnit("xraypool")

\* systemd starts the unit, which does nothing without the file it reads; a core that
\* cannot read it ends, and the unit waits. Or systemd stops it.
Begins == /\ active' = Startable'
          /\ running' = IF Startable' THEN UnitReads' ELSE Nil
          /\ waiting' = (~Startable' /\ unit' # Nil /\ UnitReads' # Nil)
          /\ overtaken' = FALSE
Ends == active' = FALSE /\ running' = Nil /\ waiting' = FALSE /\ overtaken' = FALSE

\* restart_service, and the health check after it.
Restart == Startable' /\ Begins

\* Slips of RestartIfActive, restart_if_previously_active: always, and never.
RestartIfActiveAlways == Restart
RestartIfActiveNever == UNCHANGED service

\* systemd starts a waiting unit in the middle of an operation, from what it replaces.
Overtakes == /\ waiting /\ Startable
             /\ active' = TRUE /\ running' = UnitReads
             /\ waiting' = FALSE /\ overtaken' = TRUE

\* A unit that waits is not active for txn_begin's is-active, so it is left alone.
RestartIfActive == \/ active /\ Restart
                   \/ ~active /\ UNCHANGED service
                   \/ Overtakes

\* regen_config, from what is selected.
Regen(s, k) ==
    \/ /\ CurrentEngine = "awg"
       /\ awgSel # Nil /\ Kept(profiles[awgSel])
       /\ BuildConfig("awg", profiles[awgSel], s, k)
       /\ UNCHANGED pooldir
    \/ /\ CurrentEngine = "xraypool" /\ pool # Nil
       /\ BuildPool(pool, s, k)
    \/ /\ CurrentEngine # "awg" /\ ~(CurrentEngine = "xraypool" /\ pool # Nil)
       /\ link # Nil
       /\ BuildLink(link, s, k)
       /\ UNCHANGED pooldir

\* cmd_import and cmd_import_json: the new source takes the place of every other.
Activate(p) ==
    /\ \/ /\ Node[p].kind = "link"
          /\ BuildLink(p, settings, keys)
          /\ link' = p /\ pool' = Nil /\ pooldir' = Nil
       \/ /\ Node[p].kind = "pool"
          /\ BuildPool(p, settings, keys)
          /\ pool' = p /\ link' = Nil
    /\ awgSel' = Nil
    /\ Restart

Idle == boot = "idle"

-----------------------------------------------------------------------------
\* Connections

\* A slip of Import: the subscription's selection stays.
ImportKeepsSelection(p) ==
    /\ Idle
    /\ Activate(p)
    /\ UNCHANGED <<subscription, params, awg, units, recovery>>

Import(p) ==
    /\ Idle
    /\ Activate(p)
    /\ sel' = Nil /\ meta' = Nil
    /\ UNCHANGED <<subUrl, catalog, params, awg, units, recovery>>

AwgCommitNew(a, c) ==
    /\ Idle
    /\ profiles[a] = Nil
    /\ profiles' = [profiles EXCEPT ![a] = c]
    /\ UNCHANGED <<editing, sources, built, service, params, subscription, units, recovery>>

AwgSelect(a) ==
    /\ Idle
    /\ Kept(profiles[a])
    /\ BuildConfig("awg", profiles[a], settings, keys)
    /\ awgSel' = a
    /\ link' = Nil /\ pool' = Nil /\ pooldir' = Nil /\ sel' = Nil /\ meta' = Nil
    /\ Restart
    /\ UNCHANGED <<subUrl, catalog, params, awg, units, recovery>>

\* menu_awg_edit fingerprints the profile and opens the editor, without the lock.
OpenEditor(u, a) ==
    /\ editing[u] = Nil
    /\ Kept(profiles[a])
    /\ editing' = [editing EXCEPT ![u] = [id |-> a, base |-> profiles[a]]]
    /\ UNCHANGED <<profiles, sources, built, service, params, subscription, units, recovery>>

CloseEditor(u) ==
    /\ editing[u] # Nil
    /\ editing' = [editing EXCEPT ![u] = Nil]
    /\ UNCHANGED <<profiles, sources, built, service, params, subscription, units, recovery>>

\* Store the profile; if it is the active one, rebuild and restart what ran.
StoreEdit(a, c) ==
    /\ profiles' = [profiles EXCEPT ![a] = c]
    /\ \/ /\ awgSel = a /\ CurrentEngine = "awg"
          /\ BuildConfig("awg", c, settings, keys)
          /\ UNCHANGED <<sources, pooldir>>
          /\ RestartIfActive
       \/ /\ ~(awgSel = a /\ CurrentEngine = "awg")
          /\ awgSel' = IF awgSel = a THEN Nil ELSE awgSel
          /\ UNCHANGED <<link, pool, built, service>>

\* A slip of AwgCommitEdit: the fingerprint is not compared.
AwgCommitEditBlind(u, c) ==
    /\ Idle
    /\ editing[u] # Nil
    /\ StoreEdit(editing[u].id, c)
    /\ editing' = [editing EXCEPT ![u] = Nil]
    /\ UNCHANGED <<params, subscription, units, recovery>>

AwgCommitEdit(u, c) ==
    /\ Idle
    /\ editing[u] # Nil
    /\ profiles[editing[u].id] = editing[u].base
    /\ StoreEdit(editing[u].id, c)
    /\ editing' = [editing EXCEPT ![u] = Nil]
    /\ UNCHANGED <<params, subscription, units, recovery>>

AwgDelete(a) ==
    /\ Idle
    /\ profiles[a] \notin {Nil, Deleted}
    /\ profiles' = [profiles EXCEPT ![a] = Deleted]
    /\ awgSel' = IF awgSel = a THEN Nil ELSE awgSel
    /\ \/ /\ awgSel = a /\ CurrentEngine = "awg"
          /\ unit # Nil
          /\ Ends
          /\ config' = Nil /\ engine' = Nil
          /\ UNCHANGED <<link, pool, pooldir, gen>>
          /\ unit' = CurrentEngine'
       \/ /\ ~(awgSel = a /\ CurrentEngine = "awg")
          /\ UNCHANGED <<link, pool, built, service>>
    /\ UNCHANGED <<editing, params, subscription, units, recovery>>

-----------------------------------------------------------------------------
\* The subscription

SubAdd(cat) ==
    /\ Idle
    /\ subUrl' = TRUE /\ catalog' = cat /\ sel' = Nil /\ meta' = Nil
    /\ timer' = TRUE
    /\ UNCHANGED <<sources, built, service, params, awg, auto, enabled, recovery>>

\* sub_select of the node in place n of a catalog.
SelectFrom(cat, n) ==
    /\ Recognized(cat[n], Good(gen))
    /\ Activate(cat[n].id)
    /\ sel' = cat[n].id
    /\ meta' = [id |-> cat[n].id, n |-> n]

SubSelect ==
    /\ Idle
    /\ catalog # Nil
    /\ \E n \in DOMAIN catalog : SelectFrom(catalog, n)
    /\ UNCHANGED <<subUrl, catalog, params, awg, units, recovery>>

\* By hand or by the timer. A node that changed is imported, which starts the service.
SubRefresh(cat) ==
    /\ Idle
    /\ subUrl
    /\ catalog' = cat
    /\ \/ /\ meta = Nil
          /\ UNCHANGED <<sel, meta, sources, built, service>>
       \/ /\ meta # Nil
          /\ Match(cat, Good(gen), meta) = {}
          /\ UNCHANGED <<sel, meta, sources, built, service>>
       \/ /\ meta # Nil
          /\ \E n \in Match(cat, Good(gen), meta) :
                \/ /\ cat[n].id = sel
                   /\ meta' = [id |-> sel, n |-> n]
                   /\ UNCHANGED <<sel, sources, built, service>>
                \/ cat[n].id # sel /\ SelectFrom(cat, n)
    /\ UNCHANGED <<subUrl, params, awg, units, recovery>>

SubRemove ==
    /\ Idle
    /\ subUrl' = FALSE /\ catalog' = Nil /\ sel' = Nil /\ meta' = Nil
    /\ timer' = FALSE
    /\ UNCHANGED <<sources, built, service, params, awg, auto, enabled, recovery>>

-----------------------------------------------------------------------------
\* Settings and keys

HasSource == link # Nil \/ pool # Nil \/ awgSel # Nil

\* A slip of SetTo: the config of a stopped service is left for later.
SetToLater(s) ==
    /\ Idle
    /\ settings' = s
    /\ \/ HasSource /\ active /\ Regen(s, keys) /\ RestartIfActive
       \/ ~(HasSource /\ active) /\ UNCHANGED <<built, service>>
    /\ UNCHANGED <<sources, keys, awg, subscription, units, recovery>>

\* cmd_set of port, mtu, keepalive, dns or loglevel.
SetTo(s) ==
    /\ Idle
    /\ settings' = s
    /\ \/ HasSource /\ Regen(s, keys) /\ RestartIfActive
       \/ ~HasSource /\ UNCHANGED <<built, service>>
    /\ UNCHANGED <<sources, keys, awg, subscription, units, recovery>>

RegenKeys(k) ==
    /\ Idle
    /\ keys' = k
    /\ \/ HasSource /\ Regen(settings, k) /\ RestartIfActive
       \/ ~HasSource /\ UNCHANGED <<built, service>>
    /\ UNCHANGED <<sources, settings, awg, subscription, units, recovery>>

-----------------------------------------------------------------------------
\* The service

MenuStart == /\ Idle
             /\ ~active
             /\ UNCHANGED <<sources, built, params, awg, subscription, units, recovery>>
             /\ Begins

MenuRestart == /\ Idle
               /\ UNCHANGED <<sources, built, params, awg, subscription, units, recovery>>
               /\ Begins

\* A unit that waits is "already stopped": nothing is done, and it starts all the same.
MenuStop == /\ Idle
            /\ active
            /\ Ends
            /\ UNCHANGED <<sources, built, params, awg, subscription, units, recovery>>

MenuEnable == /\ Idle
              /\ unit # Nil
              /\ auto' = TRUE /\ enabled' = TRUE
              /\ UNCHANGED <<timer, sources, built, service, params, awg, subscription, recovery>>

MenuDisable == /\ Idle
               /\ auto' = FALSE /\ enabled' = FALSE
               /\ UNCHANGED <<timer, sources, built, service, params, awg, subscription, recovery>>

\* The core ends, whatever runs; systemd starts it again when RestartSec is over.
CoreDies == /\ active
            /\ active' = FALSE /\ running' = Nil
            /\ waiting' = TRUE /\ overtaken' = FALSE
            /\ UNCHANGED <<sources, built, params, awg, subscription, units, recovery>>

CoreRestarts == /\ waiting
                /\ UNCHANGED <<sources, built, params, awg, subscription, units, recovery>>
                /\ Begins

\* An operation that fails: the files are as before, the unit is rendered again, and
\* the service restarted if is-active said so, else stopped (module StateTxn has the
\* restores whose systemctl fails).
Rollback == /\ Idle
            /\ unit # Nil
            /\ unit' = CurrentEngine
            /\ UNCHANGED <<config, pooldir, engine>>
            /\ IF active THEN Begins ELSE Ends
            /\ UNCHANGED <<sources, params, awg, subscription, units, recovery>>

-----------------------------------------------------------------------------
\* Versions, boots and boot_recover

\* The installer, or an automatic update, puts new generators in place.
NewVersion == /\ Idle
              /\ gen < MaxGen
              /\ gen' = gen + 1
              /\ UNCHANGED <<boot, faults, sources, built, service, params, awg, subscription, units>>

\* A reboot, or a firmware upgrade, which also wipes the unit files.
Reboot ==
    /\ boot' = "idle"
    /\ editing' = [u \in Users |-> Nil]
    /\ UNCHANGED <<config, pooldir, engine, sources, profiles, params, subscription, gen>>
    /\ \/ /\ UNCHANGED <<unit, units>>
          /\ IF enabled THEN Begins ELSE Ends
       \/ /\ unit' = Nil /\ enabled' = FALSE /\ timer' = FALSE
          /\ Ends
          /\ UNCHANGED auto
    /\ boot # "idle" => faults < MaxFaults
    /\ faults' = IF boot = "idle" THEN faults ELSE faults + 1

\* A slip of InstallService: the unit is enabled whatever the user chose.
InstallServiceEnables ==
    /\ Idle
    /\ boot' = "rebuild"
    /\ unit' = CurrentEngine
    /\ enabled' = TRUE
    /\ timer' = (subUrl \/ timer)
    /\ UNCHANGED <<config, pooldir, engine, auto, sources, service, params, awg, subscription,
                   gen, faults>>

\* install_service
InstallService ==
    /\ Idle
    /\ boot' = "rebuild"
    /\ unit' = CurrentEngine
    /\ enabled' = auto
    /\ timer' = (subUrl \/ timer)
    /\ UNCHANGED <<config, pooldir, engine, auto, sources, service, params, awg, subscription,
                   gen, faults>>

\* rebuild_active_config: nothing to do, the generators refuse the link ...
KeepConfig ==
    /\ boot = "rebuild"
    /\ boot' = "restart"
    /\ UNCHANGED <<sources, built, service, params, awg, subscription, units, gen, faults>>
\* ... or it puts the new config in place, and the marker and the unit after it.
RebuildConfig ==
    /\ boot = "rebuild"
    /\ CurrentEngine \in {"xray", "singbox"}
    /\ link # Nil /\ config # Nil /\ Builds[gen][link] # "none" /\ link \in Accepted
    /\ config' = Conf(Builds[gen][link], link, settings, keys)
    /\ boot' = "marker"
    /\ UNCHANGED <<pooldir, engine, unit, sources, service, params, awg, subscription, units,
                   gen, faults>>
RebuildMarker ==
    /\ boot = "marker"
    /\ boot' = "restart"
    /\ engine' = config.engine /\ unit' = config.engine
    /\ UNCHANGED <<config, pooldir, sources, service, params, awg, subscription, units,
                   gen, faults>>

\* boot_recover restarts the service unless autostart is off.
BootRestart ==
    /\ boot = "restart"
    /\ boot' = "idle"
    /\ UNCHANGED built
    /\ \/ (config # Nil \/ pooldir # Nil) /\ auto /\ Restart
       \/ ((config = Nil /\ pooldir = Nil) \/ ~auto) /\ UNCHANGED service
       \/ /\ (config # Nil \/ pooldir # Nil) /\ auto
          /\ active' = FALSE /\ running' = Nil
          /\ waiting' \in BOOLEAN /\ overtaken' = FALSE
    /\ UNCHANGED <<sources, params, awg, subscription, units, gen, faults>>

\* It is killed; or a command fails between config and marker, which it takes for
\* a refusal.
Interrupt ==
    /\ faults < MaxFaults
    /\ faults' = faults + 1
    /\ \/ boot # "idle" /\ boot' = "idle"
       \/ boot = "marker" /\ boot' = "restart"
    /\ UNCHANGED <<sources, built, service, params, awg, subscription, units, gen>>

-----------------------------------------------------------------------------

Next == \/ \E p \in Nodes : Import(p)
        \/ \E a \in AwgIds : AwgSelect(a) \/ AwgDelete(a)
        \/ \E a \in AwgIds, c \in Contents : AwgCommitNew(a, c)
        \/ \E u \in Users, a \in AwgIds : OpenEditor(u, a)
        \/ \E u \in Users : CloseEditor(u)
        \/ \E u \in Users, c \in Contents : AwgCommitEdit(u, c)
        \/ \E cat \in Catalogs[gen] : SubAdd(cat) \/ SubRefresh(cat)
        \/ SubSelect \/ SubRemove
        \/ \E s \in Settings : SetTo(s)
        \/ \E k \in KeyPairs : RegenKeys(k)
        \/ MenuStart \/ MenuRestart \/ MenuStop \/ MenuEnable \/ MenuDisable
        \/ CoreDies \/ CoreRestarts \/ Rollback \/ NewVersion \/ Reboot
        \/ InstallService \/ KeepConfig \/ RebuildConfig \/ RebuildMarker
        \/ BootRestart \/ Interrupt

Spec == Init /\ [][Next]_vars

-----------------------------------------------------------------------------
(* Properties *)

\* TypeOK: every variable has its type; an active service has a core, and one that
\* is not has none.
TunnelTypes ==
    /\ link \in Nodes \cup {Nil} /\ pool \in Nodes \cup {Nil} /\ awgSel \in AwgIds \cup {Nil}
    /\ config \in Confs \cup {Nil} /\ pooldir \in Confs \cup {Nil}
    /\ engine \in Engines \cup {Nil} /\ unit \in Engines \cup {Nil}
    /\ active \in BOOLEAN /\ running \in Confs \cup {Nil} /\ active = (running # Nil)
    /\ waiting \in BOOLEAN /\ overtaken \in BOOLEAN
    /\ settings \in Settings /\ keys \in KeyPairs
ProfileTypes ==
    /\ profiles \in [AwgIds -> Contents \cup {Nil, Deleted}]
    /\ editing \in [Users -> [id : AwgIds, base : Contents] \cup {Nil}]
SubscriptionTypes ==
    /\ subUrl \in BOOLEAN
    /\ catalog \in StoredCatalogs
    /\ sel \in Nodes \cup {Nil} /\ meta \in [id : Nodes, n : Nat] \cup {Nil}
RecoveryTypes ==
    /\ auto \in BOOLEAN /\ enabled \in BOOLEAN /\ timer \in BOOLEAN
    /\ gen \in Gens
    /\ boot \in {"idle", "rebuild", "marker", "restart"}
    /\ faults \in 0 .. MaxFaults
TypeOK == TunnelTypes /\ ProfileTypes /\ SubscriptionTypes /\ RecoveryTypes

\* What the gateway is set to use, and the config that stands for it.
Source == IF link # Nil THEN link
          ELSE IF pool # Nil THEN pool
          ELSE IF awgSel # Nil THEN profiles[awgSel]
          ELSE Nil
Stored == IF pool # Nil THEN pooldir ELSE config

\* OneSource: a link, a JSON profile and an AmneziaWG profile are never selected
\* side by side, whatever replaced what; none leaves a config behind.
OneSource ==
    /\ link # Nil => pool = Nil /\ awgSel = Nil
    /\ pool # Nil => awgSel = Nil
    /\ IF pool = Nil THEN pooldir = Nil ELSE config = Nil
    /\ Source = Nil => config = Nil

\* ConfigFollowsSource: at every moment, a boot_recover that was interrupted
\* included, the stored config is the one of the selected source with the settings
\* and the keys the user was told.
ConfigFollowsSource ==
    /\ OneSource
    /\ Source # Nil => /\ Stored # Nil
                       /\ Stored.src = Source
                       /\ Stored.settings = settings /\ Stored.keys = keys

\* MarkerFollowsConfig: the engine marker and the unit name the core that can read
\* the stored config, unless boot_recover is between the two or was interrupted there.
MarkerFollowsConfig ==
    faults = 0 /\ boot # "marker" /\ Source # Nil =>
        engine = Stored.engine /\ unit \in {engine, Nil}

\* SelectionIsActive: what the menus mark as selected is what the tunnel uses: a
\* subscription's node is the link or the JSON profile in use and has its record,
\* an AmneziaWG profile still exists.
SelectionIsActive ==
    /\ sel # Nil => sel \in {link, pool} /\ meta # Nil /\ meta.id = sel /\ subUrl
    /\ awgSel # Nil => Kept(profiles[awgSel]) /\ CurrentEngine = "awg"

\* RunningIsStored: a core that runs has read the stored config, or the same one as
\* an older version built it; one aside that systemd started behind an operation's back,
\* until it is next started, stopped or ends.
RunningIsStored ==
    active /\ ~overtaken =>
              /\ Source # Nil
              /\ running.src = Source
              /\ running.settings = settings /\ running.keys = keys

\* UnitsFollowChoices: with the unit in place, it is enabled just if autostart is
\* on, and the refresh timer just if there is a subscription.
UnitsFollowChoices == unit # Nil => enabled = auto /\ timer = subUrl

\* UnitsMatch: what boot_recover makes of units and marker fits both the config that
\* is stored and what the user chose.
UnitsMatch == MarkerFollowsConfig /\ UnitsFollowChoices

\* MaintenanceNeverStarts: no setting, key, profile, subscription or autostart
\* operation starts a service that was stopped (and did not wait for systemd).
Maintenance == \/ \E s \in Settings : SetTo(s)
               \/ \E k \in KeyPairs : RegenKeys(k)
               \/ \E a \in AwgIds, c \in Contents : AwgCommitNew(a, c)
               \/ \E a \in AwgIds : AwgDelete(a)
               \/ \E u \in Users, c \in Contents : AwgCommitEdit(u, c)
               \/ \E cat \in Catalogs[gen] : SubAdd(cat)
               \/ SubRemove \/ MenuEnable \/ MenuDisable
MaintenanceNeverStarts == [][~active /\ ~waiting /\ active' => ~Maintenance]_vars

\* RefreshKeepsTunnel: a refresh leaves a tunnel alone whose node is still offered,
\* and moves it only to a node of the same kind, scheme and label, and to another
\* server only if its own no longer offers one like it.
Offered(cat) == {cat[n].id : n \in {n \in DOMAIN cat : Recognized(cat[n], Good(gen))}}
Alike(p, q) == /\ Node[p].kind = Node[q].kind /\ Node[p].scheme = Node[q].scheme
               /\ Node[p].label = Node[q].label
Moves(cat) ==
    /\ sel \notin Offered(cat)
    /\ sel' \in Offered(cat)
    /\ Alike(sel, sel')
    /\ Node[sel'].server # Node[sel].server =>
          \A p \in Offered(cat) : Alike(p, sel) => Node[p].server # Node[sel].server
RefreshKeepsTunnel ==
    [][UNCHANGED <<sources, service>>
       \/ \A cat \in Catalogs[gen] : SubRefresh(cat) => Moves(cat)]_vars

\* NoLostEdit: an editor's profile is stored only over what the editor was opened
\* on; it never undoes another edit or brings back a profile that was deleted.
NoLostEdit ==
    [][\A a \in AwgIds : profiles'[a] # profiles[a] =>
          \/ profiles[a] = Nil
          \/ profiles'[a] = Deleted
          \/ \E u \in Users : /\ editing[u] = [id |-> a, base |-> profiles[a]]
                              /\ editing'[u] = Nil]_vars
=============================================================================
