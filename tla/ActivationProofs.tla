-------------------------- MODULE ActivationProofs --------------------------
(***************************************************************************)
(* Proofs about Activation, for all constants: the types, the config that  *)
(* follows its source, the running core that follows the config, and the   *)
(* editors that lose no edit.                                              *)
(***************************************************************************)
EXTENDS Activation, TLAPS

\* What ConfigFollowsSource needs to be inductive: regen_config goes by the engine
\* marker, so the marker must tell the kind of source; and boot_recover puts the
\* marker in place of a link's config only.
MarkerTellsSource ==
    /\ link # Nil => /\ Node[link].kind # "pool"
                     /\ engine \in {"xray", "singbox"} /\ config.engine \in {"xray", "singbox"}
    /\ pool # Nil => engine = "xraypool"
    /\ awgSel # Nil => engine = "awg" /\ Kept(profiles[awgSel])
    /\ boot = "marker" => link # Nil

TunnelInv == ConfigFollowsSource /\ MarkerTellsSource

\* What a step does to the service: it leaves it and what it depends on, or ends with
\* it stopped, overtaken by systemd, or with a core that just read what its unit reads.
ServiceStep ==
    \/ UNCHANGED <<active, running, overtaken, settings, keys>> /\ Source' = Source
    \/ active' = FALSE \/ overtaken' = TRUE
    \/ active' = TRUE /\ Startable' /\ running' = UnitReads'

Tunnel == TunnelTypes' /\ TunnelInv' /\ ServiceStep

-----------------------------------------------------------------------------
(* The parts of the operations *)

\* A catalog's rows are nodes, whatever offer it was fetched from.
LEMMA CatalogRows ==
    ASSUME NEW g \in Gens, NEW cat \in Catalogs[g], NEW n \in DOMAIN cat
    PROVE  n \in Nat /\ cat[n].id \in Nodes
<1>1. PICK l \in Offers : cat = Fetched(l, Good(g))
  BY DEF Catalogs
<1>2. l \in Seq(Nodes)
  BY NodesAssumption
<1>3. DOMAIN cat = DOMAIN l /\ cat[n].id = l[n]
  BY <1>1 DEF Fetched
<1> QED BY <1>2, <1>3

\* Match names places of the catalog.
LEMMA MatchInCatalog ==
    ASSUME NEW cat, NEW good, NEW old
    PROVE  Match(cat, good, old) \subseteq DOMAIN cat
BY DEF Match

\* A config that is built is a config, with what it is built from.
LEMMA ConfTypes ==
    ASSUME NEW e \in Engines, NEW src \in Nodes \cup Contents, NEW s \in Settings,
           NEW k \in KeyPairs, gen \in Gens
    PROVE  /\ Conf(e, src, s, k) \in Confs
           /\ Conf(e, src, s, k) # Nil
           /\ Conf(e, src, s, k).engine = e /\ Conf(e, src, s, k).src = src
           /\ Conf(e, src, s, k).settings = s /\ Conf(e, src, s, k).keys = k
<1>1. Conf(e, src, s, k) \in Confs
  BY DEF Conf, Confs
<1> QED BY <1>1, NilAssumption DEF Conf

\* A link is built for a core that takes links.
LEMMA LinkTypes ==
    ASSUME TypeOK, NEW p \in Nodes, NEW s \in Settings, NEW k \in KeyPairs,
           BuildLink(p, s, k)
    PROVE  /\ config' \in Confs /\ config' # Nil
           /\ config'.src = p /\ config'.settings = s /\ config'.keys = k
           /\ engine' = config'.engine
           /\ engine' \in {"xray", "singbox", "xraypool"}
           /\ Node[p].kind # "pool" => engine' \in {"xray", "singbox"}
           /\ unit' \in {Nil, engine'}
<1>1. gen \in Gens
  BY DEF TypeOK, RecoveryTypes
<1>2. Builds[gen][p] \in {"xray", "singbox", "xraypool"}
  BY <1>1, BuildsAssumption DEF BuildLink
<1>3. Node[p].kind # "pool" => Builds[gen][p] \in {"xray", "singbox"}
  BY <1>1, BuildsAssumption DEF BuildLink
<1>4. Builds[gen][p] \in Engines
  BY <1>2 DEF Engines
<1> QED BY <1>1, <1>2, <1>3, <1>4, ConfTypes DEF BuildLink, BuildConfig, SetUnit

\* A JSON profile is built into the pool directory.
LEMMA PoolTypes ==
    ASSUME TypeOK, NEW p \in Nodes, NEW s \in Settings, NEW k \in KeyPairs,
           BuildPool(p, s, k)
    PROVE  /\ pooldir' \in Confs /\ pooldir' # Nil
           /\ pooldir'.src = p /\ pooldir'.settings = s /\ pooldir'.keys = k
           /\ config' = Nil /\ engine' = "xraypool" /\ unit' \in {Nil, engine'}
<1>1. gen \in Gens /\ "xraypool" \in Engines
  BY DEF TypeOK, RecoveryTypes, Engines
<1> QED BY <1>1, ConfTypes DEF BuildPool, SetUnit

\* An AmneziaWG profile is built for its own core.
LEMMA AwgTypes ==
    ASSUME TypeOK, NEW c \in Contents, NEW s \in Settings, NEW k \in KeyPairs,
           BuildConfig("awg", c, s, k)
    PROVE  /\ config' \in Confs /\ config' # Nil
           /\ config'.src = c /\ config'.settings = s /\ config'.keys = k
           /\ engine' = "awg" /\ unit' \in {Nil, engine'}
<1>1. gen \in Gens /\ "awg" \in Engines
  BY DEF TypeOK, RecoveryTypes, Engines
<1> QED BY <1>1, ConfTypes DEF BuildConfig, SetUnit

\* A service that is restarted, or left if it was stopped, took a ServiceStep.
LEMMA RestartTypes ==
    ASSUME TypeOK, RestartIfActive \/ Restart,
           config' \in Confs \cup {Nil}, pooldir' \in Confs \cup {Nil}
    PROVE  /\ active' \in BOOLEAN /\ running' \in Confs \cup {Nil}
           /\ active' = (running' # Nil)
           /\ waiting' \in BOOLEAN /\ overtaken' \in BOOLEAN
           /\ ServiceStep
<1>1. CASE Restart
  BY <1>1 DEF Restart, Begins, Startable, UnitReads, ServiceStep
<1>2. CASE ~active /\ UNCHANGED service
  <2>1. active' = FALSE /\ running' = running /\ active = FALSE
        /\ waiting' = waiting /\ overtaken' = overtaken
    BY <1>2 DEF service, TypeOK, TunnelTypes
  <2> QED BY <2>1 DEF ServiceStep, TypeOK, TunnelTypes
<1>3. CASE Overtakes
  BY <1>3 DEF Overtakes, Startable, UnitReads, ServiceStep, TypeOK, TunnelTypes
<1> QED BY <1>1, <1>2, <1>3 DEF RestartIfActive

\* An import leaves its node as the only source, and its config.
LEMMA ActivateTunnel ==
    ASSUME TypeOK, NEW p \in Nodes, Activate(p), UNCHANGED params, boot' = "idle"
    PROVE  Tunnel /\ (link' = p \/ pool' = p)
<1> USE DEF params
<1>1. settings \in Settings /\ keys \in KeyPairs /\ p # Nil
  BY NilAssumption DEF TypeOK, TunnelTypes
<1>2. Nil \notin AwgIds \cup Confs /\ {"xray", "singbox", "xraypool"} \subseteq Engines
  BY NilAssumption DEF Engines
<1>3. CASE Node[p].kind = "link" /\ BuildLink(p, settings, keys)
           /\ link' = p /\ pool' = Nil /\ pooldir' = Nil
  <2>1. /\ config' \in Confs /\ config' # Nil
        /\ config'.src = p /\ config'.settings = settings' /\ config'.keys = keys'
        /\ engine' \in {"xray", "singbox"} /\ config'.engine = engine'
        /\ unit' \in {Nil, engine'}
    BY <1>1, <1>3, LinkTypes
  <2>2. awgSel' = Nil /\ Restart
    BY DEF Activate
  <2>3. TunnelTypes' /\ ServiceStep
    BY <1>1, <1>2, <1>3, <2>1, <2>2, RestartTypes DEF TunnelTypes
  <2>4. ConfigFollowsSource'
    BY <1>1, <1>3, <2>1, <2>2 DEF ConfigFollowsSource, OneSource, Source, Stored
  <2>5. MarkerTellsSource'
    BY <1>3, <2>1, <2>2 DEF MarkerTellsSource
  <2> QED BY <1>3, <2>3, <2>4, <2>5 DEF Tunnel, TunnelInv
<1>4. CASE Node[p].kind = "pool" /\ BuildPool(p, settings, keys) /\ pool' = p /\ link' = Nil
  <2>1. /\ pooldir' \in Confs /\ pooldir' # Nil
        /\ pooldir'.src = p /\ pooldir'.settings = settings' /\ pooldir'.keys = keys'
        /\ config' = Nil /\ engine' = "xraypool" /\ unit' \in {Nil, engine'}
    BY <1>1, <1>4, PoolTypes
  <2>2. awgSel' = Nil /\ Restart
    BY DEF Activate
  <2>3. TunnelTypes' /\ ServiceStep
    BY <1>1, <1>2, <1>4, <2>1, <2>2, RestartTypes DEF TunnelTypes
  <2>4. ConfigFollowsSource'
    BY <1>1, <1>4, <2>1, <2>2 DEF ConfigFollowsSource, OneSource, Source, Stored
  <2>5. MarkerTellsSource'
    BY <1>4, <2>1, <2>2 DEF MarkerTellsSource
  <2> QED BY <1>4, <2>3, <2>4, <2>5 DEF Tunnel, TunnelInv
<1> QED BY <1>3, <1>4 DEF Activate

\* A new config of the source there is, with the settings and keys there will be.
LEMMA RegenTunnel ==
    ASSUME TypeOK, TunnelInv, HasSource, Regen(settings', keys'), RestartIfActive,
           settings' \in Settings, keys' \in KeyPairs,
           UNCHANGED <<sources, profiles, boot>>
    PROVE  Tunnel
<1> USE DEF sources
<1>1. TypeOK /\ TunnelTypes /\ ConfigFollowsSource /\ OneSource /\ MarkerTellsSource
  BY DEF TypeOK, TunnelInv, ConfigFollowsSource
<1>2. Nil \notin Confs /\ Engines = {"xray", "singbox", "xraypool", "awg"}
  BY NilAssumption DEF Engines
<1>3. CASE awgSel # Nil
  <2>1. link = Nil /\ pool = Nil /\ pooldir = Nil /\ engine = "awg"
    BY <1>1, <1>3 DEF OneSource, MarkerTellsSource
  <2>2. /\ BuildConfig("awg", profiles[awgSel], settings', keys')
        /\ profiles[awgSel] \in Contents /\ pooldir' = Nil
    BY <2>1 DEF Regen, CurrentEngine, Kept
  <2>3. /\ config' \in Confs /\ config' # Nil
        /\ config'.src = profiles[awgSel]
        /\ config'.settings = settings' /\ config'.keys = keys'
        /\ engine' = "awg" /\ unit' \in {Nil, engine'}
    BY <2>2, AwgTypes
  <2>4. TunnelTypes' /\ ServiceStep
    BY <1>1, <1>2, <2>2, <2>3, RestartTypes DEF TunnelTypes
  <2>5. ConfigFollowsSource'
    BY <1>3, <2>1, <2>2, <2>3, NilAssumption
       DEF ConfigFollowsSource, OneSource, Source, Stored
  <2>6. MarkerTellsSource'
    BY <1>1, <1>3, <2>1, <2>2, <2>3 DEF MarkerTellsSource, Kept
  <2> QED BY <2>4, <2>5, <2>6 DEF Tunnel, TunnelInv
<1>4. CASE pool # Nil
  <2>1. link = Nil /\ awgSel = Nil /\ engine = "xraypool"
    BY <1>1, <1>4 DEF OneSource, MarkerTellsSource
  <2>2. BuildPool(pool, settings', keys') /\ pool \in Nodes
    BY <1>1, <1>4, <2>1, NilAssumption DEF Regen, CurrentEngine, TunnelTypes
  <2>3. /\ pooldir' \in Confs /\ pooldir' # Nil /\ pooldir'.src = pool
        /\ pooldir'.settings = settings' /\ pooldir'.keys = keys'
        /\ config' = Nil /\ engine' = "xraypool" /\ unit' \in {Nil, engine'}
    BY <2>2, PoolTypes
  <2>4. TunnelTypes' /\ ServiceStep
    BY <1>1, <1>2, <2>2, <2>3, RestartTypes DEF TunnelTypes
  <2>5. ConfigFollowsSource'
    BY <1>4, <2>1, <2>3 DEF ConfigFollowsSource, OneSource, Source, Stored
  <2>6. MarkerTellsSource'
    BY <1>1, <1>4, <2>1, <2>3 DEF MarkerTellsSource
  <2> QED BY <2>4, <2>5, <2>6 DEF Tunnel, TunnelInv
<1>5. CASE link # Nil
  <2>1. pool = Nil /\ awgSel = Nil /\ pooldir = Nil /\ engine \in {"xray", "singbox"}
        /\ Node[link].kind # "pool" /\ link \in Nodes
    BY <1>1, <1>5 DEF OneSource, MarkerTellsSource, TunnelTypes
  <2>2. BuildLink(link, settings', keys') /\ pooldir' = Nil
    BY <2>1, NilAssumption, <1>2 DEF Regen, CurrentEngine
  <2>3. /\ config' \in Confs /\ config' # Nil /\ config'.src = link
        /\ config'.settings = settings' /\ config'.keys = keys'
        /\ engine' \in {"xray", "singbox"} /\ config'.engine = engine'
        /\ unit' \in {Nil, engine'}
    BY <2>1, <2>2, LinkTypes
  <2>4. TunnelTypes' /\ ServiceStep
    BY <1>1, <1>2, <2>2, <2>3, RestartTypes DEF TunnelTypes
  <2>5. ConfigFollowsSource'
    BY <1>5, <2>1, <2>2, <2>3 DEF ConfigFollowsSource, OneSource, Source, Stored
  <2>6. MarkerTellsSource'
    BY <1>1, <1>5, <2>1, <2>3 DEF MarkerTellsSource
  <2> QED BY <2>4, <2>5, <2>6 DEF Tunnel, TunnelInv
<1> QED BY <1>3, <1>4, <1>5 DEF HasSource

\* The service is stopped, or starts from what is stored.
NewService ==
    /\ waiting' \in BOOLEAN /\ overtaken' \in BOOLEAN
    /\ \/ active' = FALSE /\ running' = Nil
       \/ active' = TRUE /\ Startable' /\ running' = UnitReads'

LEMMA BeginsOrEnds == ASSUME Begins \/ Ends, unit' \in Engines \cup {Nil} PROVE NewService
<1>1. Startable' \in BOOLEAN /\ (~Startable' /\ unit' # Nil /\ UnitReads' # Nil) \in BOOLEAN
  BY DEF Startable
<1>2. CASE Begins /\ Startable'
  BY <1>1, <1>2 DEF Begins, NewService, Startable
<1>3. CASE Begins /\ ~Startable'
  BY <1>1, <1>3 DEF Begins, NewService, Startable
<1>4. CASE Ends
  BY <1>4 DEF Ends, NewService
<1> QED BY <1>2, <1>3, <1>4

\* A step that touches neither the sources nor what is built from them.
LEMMA QuietTunnel ==
    ASSUME TypeOK, TunnelInv,
           UNCHANGED <<sources, config, pooldir, engine, params, profiles>>,
           unit' \in Engines \cup {Nil},
           boot' = "marker" => boot = "marker",
           UNCHANGED service \/ NewService
    PROVE  Tunnel
<1> USE DEF sources, params
<1>1. TunnelTypes /\ OneSource /\ ConfigFollowsSource /\ MarkerTellsSource
  BY DEF TypeOK, TunnelInv, ConfigFollowsSource
<1>2. TunnelTypes'
  BY <1>1 DEF TunnelTypes, service, NewService, Startable, UnitReads
<1>3. ConfigFollowsSource'
  BY <1>1 DEF ConfigFollowsSource, OneSource, Source, Stored
<1>4. MarkerTellsSource'
  BY <1>1 DEF MarkerTellsSource
<1>5. ServiceStep
  BY DEF ServiceStep, service, NewService, Source
<1> QED BY <1>2, <1>3, <1>4, <1>5 DEF Tunnel, TunnelInv

\* The engine that is in use is a known one.
LEMMA CurrentEngineTypes == ASSUME TypeOK PROVE CurrentEngine \in Engines
<1>1. engine \in Engines \cup {Nil} /\ gen \in Gens /\ link \in Nodes \cup {Nil}
  BY DEF TypeOK, TunnelTypes, RecoveryTypes
<1>2. link # Nil => Builds[gen][link] \in {"xray", "singbox", "xraypool", "none"}
  BY <1>1, BuildsAssumption
<1> QED BY <1>1, <1>2 DEF CurrentEngine, Engines

-----------------------------------------------------------------------------
(* The AmneziaWG profiles *)

LEMMA AwgSelectTunnel ==
    ASSUME TypeOK, NEW a \in AwgIds, AwgSelect(a) PROVE Tunnel
<1> USE DEF params
<1>1. /\ profiles[a] \in Contents /\ profiles' = profiles /\ profiles[a] # Nil /\ a # Nil
      /\ settings \in Settings /\ keys \in KeyPairs /\ UNCHANGED <<settings, keys>>
      /\ awgSel' = a /\ link' = Nil /\ pool' = Nil /\ pooldir' = Nil /\ boot' = "idle"
      /\ Restart
  BY NilAssumption DEF AwgSelect, Kept, TypeOK, TunnelTypes, awg, recovery, Idle
<1>2. /\ config' \in Confs /\ config' # Nil /\ config'.src = profiles[a]
      /\ config'.settings = settings /\ config'.keys = keys
      /\ engine' = "awg" /\ unit' \in {Nil, engine'}
  BY <1>1, AwgTypes DEF AwgSelect
<1>3. TunnelTypes' /\ ServiceStep
  BY <1>1, <1>2, RestartTypes DEF TunnelTypes, Engines
<1>4. ConfigFollowsSource'
  BY <1>1, <1>2 DEF ConfigFollowsSource, OneSource, Source, Stored
<1>5. MarkerTellsSource'
  BY <1>1, <1>2 DEF MarkerTellsSource, Kept
<1> QED BY <1>3, <1>4, <1>5 DEF Tunnel, TunnelInv

\* A profile that is stored or removed and is not the selected one.
LEMMA OtherProfile ==
    ASSUME TypeOK, TunnelInv, NEW a \in AwgIds, NEW c, awgSel # a,
           profiles' = [profiles EXCEPT ![a] = c],
           UNCHANGED <<sources, built, service, params, boot>>
    PROVE  Tunnel
<1> USE DEF sources, built, service, params
<1>1. TunnelTypes /\ OneSource /\ ConfigFollowsSource /\ MarkerTellsSource
  BY DEF TypeOK, TunnelInv, ConfigFollowsSource
<1>2. awgSel # Nil => awgSel \in AwgIds /\ profiles'[awgSel] = profiles[awgSel]
  BY <1>1 DEF TypeOK, TunnelTypes, ProfileTypes
<1>3. TunnelTypes'
  BY <1>1 DEF TunnelTypes
<1>4. Source' = Source
  BY <1>2 DEF Source
<1>5. ConfigFollowsSource'
  BY <1>1, <1>4 DEF ConfigFollowsSource, OneSource, Stored
<1>6. MarkerTellsSource'
  BY <1>1, <1>2 DEF MarkerTellsSource
<1>7. ServiceStep
  BY <1>4 DEF ServiceStep
<1> QED BY <1>3, <1>5, <1>6, <1>7 DEF Tunnel, TunnelInv

LEMMA AwgCommitNewTunnel ==
    ASSUME TypeOK, TunnelInv, NEW a \in AwgIds, NEW c \in Contents, AwgCommitNew(a, c)
    PROVE  Tunnel
<1>1. awgSel # a
  BY NilAssumption DEF AwgCommitNew, TunnelInv, MarkerTellsSource, Kept
<1> QED BY <1>1, OtherProfile DEF AwgCommitNew, recovery

LEMMA AwgCommitEditTunnel ==
    ASSUME TypeOK, TunnelInv, NEW u \in Users, NEW c \in Contents, AwgCommitEdit(u, c)
    PROVE  Tunnel
<1> DEFINE a == editing[u].id
<1>1. a \in AwgIds /\ StoreEdit(a, c) /\ UNCHANGED params /\ boot = "idle" /\ boot' = "idle"
  BY DEF AwgCommitEdit, TypeOK, ProfileTypes, recovery, Idle
<1>2. TunnelTypes /\ OneSource /\ ConfigFollowsSource /\ MarkerTellsSource /\ c # Nil
  BY NilAssumption DEF TypeOK, TunnelInv, ConfigFollowsSource
<1>3. CASE awgSel = a
  <2>1. engine = "awg" /\ a # Nil /\ link = Nil /\ pool = Nil /\ pooldir = Nil
    BY <1>1, <1>2, <1>3, NilAssumption DEF MarkerTellsSource, OneSource
  <2>2. /\ BuildConfig("awg", c, settings, keys) /\ RestartIfActive
        /\ UNCHANGED <<sources, pooldir>> /\ profiles'[a] = c
    <3>1. CurrentEngine = "awg"
      BY <2>1, NilAssumption DEF CurrentEngine, Engines
    <3> QED BY <1>1, <1>3, <3>1 DEF StoreEdit, TypeOK, ProfileTypes
  <2>3. settings \in Settings /\ keys \in KeyPairs /\ UNCHANGED <<settings, keys>>
    BY <1>1, <1>2 DEF TunnelTypes, params
  <2>4. /\ config' \in Confs /\ config' # Nil /\ config'.src = c
        /\ config'.settings = settings /\ config'.keys = keys
        /\ engine' = "awg" /\ unit' \in {Nil, engine'}
    BY <2>2, <2>3, AwgTypes
  <2>5. TunnelTypes' /\ ServiceStep
    BY <1>2, <2>2, <2>3, <2>4, RestartTypes DEF TunnelTypes, Engines, sources
  <2>6. ConfigFollowsSource'
    BY <1>2, <1>3, <2>1, <2>2, <2>3, <2>4
       DEF ConfigFollowsSource, OneSource, Source, Stored, sources
  <2>7. MarkerTellsSource'
    BY <1>1, <1>3, <2>1, <2>2, <2>4 DEF MarkerTellsSource, Kept, sources
  <2> QED BY <2>5, <2>6, <2>7 DEF Tunnel, TunnelInv
<1>4. CASE awgSel # a
  <2>1. /\ profiles' = [profiles EXCEPT ![a] = c]
        /\ UNCHANGED <<sources, built, service, params, boot>>
    BY <1>1, <1>4 DEF StoreEdit, sources
  <2> QED BY <1>1, <1>2, <1>4, <2>1, OtherProfile
<1> QED BY <1>3, <1>4

LEMMA AwgDeleteTunnel ==
    ASSUME TypeOK, TunnelInv, NEW a \in AwgIds, AwgDelete(a) PROVE Tunnel
<1> USE DEF params
<1>1. TunnelTypes /\ OneSource /\ ConfigFollowsSource /\ MarkerTellsSource /\ a # Nil
  BY NilAssumption DEF TypeOK, TunnelInv, ConfigFollowsSource
<1>2. UNCHANGED <<settings, keys, boot>> /\ boot = "idle"
  BY DEF AwgDelete, Idle, recovery
<1>3. CASE awgSel = a
  <2>1. engine = "awg" /\ link = Nil /\ pool = Nil /\ pooldir = Nil
    BY <1>1, <1>3 DEF MarkerTellsSource, OneSource
  <2>2. /\ awgSel' = Nil /\ link' = Nil /\ pool' = Nil /\ pooldir' = Nil
        /\ config' = Nil /\ engine' = Nil /\ active' = FALSE /\ running' = Nil
        /\ waiting' = FALSE /\ overtaken' = FALSE
        /\ unit' = CurrentEngine'
    <3>1. CurrentEngine = "awg"
      BY <2>1, NilAssumption DEF CurrentEngine, Engines
    <3> QED BY <1>3, <2>1, <3>1 DEF AwgDelete, Ends
  <2>3. unit' \in Engines
    BY <2>2 DEF CurrentEngine, Engines
  <2>4. TunnelTypes'
    BY <1>1, <1>2, <2>2, <2>3 DEF TunnelTypes
  <2>5. ConfigFollowsSource' /\ MarkerTellsSource' /\ ServiceStep
    BY <1>2, <2>2
       DEF ConfigFollowsSource, OneSource, Source, Stored, MarkerTellsSource, ServiceStep
  <2> QED BY <2>4, <2>5 DEF Tunnel, TunnelInv
<1>4. CASE awgSel # a
  <2>1. /\ profiles' = [profiles EXCEPT ![a] = Deleted]
        /\ UNCHANGED <<sources, built, service, params, boot>>
    BY <1>2, <1>4 DEF AwgDelete, sources
  <2> QED BY <1>4, <2>1, OtherProfile
<1> QED BY <1>3, <1>4

-----------------------------------------------------------------------------
(* Subscriptions, settings, keys and boot_recover *)

LEMMA SelectFromTunnel ==
    ASSUME TypeOK, NEW g \in Gens, NEW cat \in Catalogs[g], NEW n \in DOMAIN cat,
           SelectFrom(cat, n), UNCHANGED params, boot' = "idle"
    PROVE  /\ Tunnel
           /\ sel' \in Nodes /\ sel' \in {link', pool'}
           /\ meta' \in [id : Nodes, n : Nat] /\ meta'.id = sel'
<1>1. cat[n].id \in Nodes /\ n \in Nat
  BY CatalogRows
<1>2. Activate(cat[n].id) /\ sel' = cat[n].id /\ meta' = [id |-> cat[n].id, n |-> n]
  BY DEF SelectFrom
<1>3. Tunnel /\ (link' = cat[n].id \/ pool' = cat[n].id)
  BY <1>1, <1>2, ActivateTunnel
<1> QED BY <1>1, <1>2, <1>3

\* The catalog that is stored was fetched by some version.
LEMMA StoredCatalog ==
    ASSUME TypeOK, catalog # Nil
    PROVE  \E g \in Gens : catalog \in Catalogs[g]
<1>1. catalog \in UNION {Catalogs[g] : g \in Gens}
  BY DEF TypeOK, SubscriptionTypes, StoredCatalogs
<1>2. PICK S \in {Catalogs[g] : g \in Gens} : catalog \in S
  BY <1>1
<1>3. PICK g \in Gens : S = Catalogs[g]
  BY <1>2
<1> QED BY <1>2, <1>3

LEMMA SubSelectTunnel ==
    ASSUME TypeOK, SubSelect
    PROVE  /\ Tunnel
           /\ sel' \in Nodes /\ sel' \in {link', pool'}
           /\ meta' \in [id : Nodes, n : Nat] /\ meta'.id = sel'
<1>1. PICK g \in Gens : catalog \in Catalogs[g]
  BY StoredCatalog DEF SubSelect
<1>2. PICK n \in DOMAIN catalog : SelectFrom(catalog, n)
  BY DEF SubSelect
<1>3. UNCHANGED params /\ boot' = "idle"
  BY DEF SubSelect, Idle, recovery
<1> QED BY <1>1, <1>2, <1>3, SelectFromTunnel

\* A refresh either selects a node of the new catalog, or leaves the tunnel and the
\* selection's id.
LEMMA SubRefreshTunnel ==
    ASSUME TypeOK, TunnelInv, NEW cat \in Catalogs[gen], SubRefresh(cat)
    PROVE  /\ Tunnel
           /\ sel' \in Nodes \cup {Nil} /\ meta' \in [id : Nodes, n : Nat] \cup {Nil}
           /\ sel' # Nil \/ UNCHANGED <<sel, meta>>
           /\ \/ sel' \in {link', pool'} /\ meta' # Nil /\ meta'.id = sel'
              \/ UNCHANGED <<sel, meta, link, pool>>
              \/ UNCHANGED <<sel, link, pool>> /\ meta' # Nil /\ meta'.id = sel'
<1>1. /\ UNCHANGED <<params, profiles, boot>> /\ boot = "idle"
      /\ unit \in Engines \cup {Nil} /\ gen \in Gens
  BY DEF SubRefresh, awg, recovery, Idle, TypeOK, TunnelTypes, RecoveryTypes
<1>2. sel \in Nodes \cup {Nil} /\ meta \in [id : Nodes, n : Nat] \cup {Nil}
  BY DEF TypeOK, SubscriptionTypes
<1>3. CASE UNCHANGED <<sel, meta, sources, built, service>>
  BY <1>1, <1>2, <1>3, QuietTunnel DEF built, sources
<1>4. CASE \E n \in Match(cat, Good(gen), meta) :
              /\ cat[n].id = sel /\ meta' = [id |-> sel, n |-> n]
              /\ UNCHANGED <<sel, sources, built, service>>
  <2>1. PICK n \in DOMAIN cat :
              /\ cat[n].id = sel /\ meta' = [id |-> sel, n |-> n]
              /\ UNCHANGED <<sel, sources, built, service>>
    BY <1>4, MatchInCatalog
  <2>2. n \in Nat /\ sel \in Nodes
    BY <1>1, <2>1, CatalogRows
  <2>3. meta' \in [id : Nodes, n : Nat] /\ meta' # Nil /\ meta'.id = sel /\ sel # Nil
    BY <2>1, <2>2, NilAssumption
  <2> QED BY <1>1, <2>1, <2>2, <2>3, QuietTunnel DEF built, sources
<1>5. CASE \E n \in Match(cat, Good(gen), meta) : SelectFrom(cat, n)
  <2>1. PICK n \in DOMAIN cat : SelectFrom(cat, n)
    BY <1>5, MatchInCatalog
  <2> QED BY <1>1, <2>1, SelectFromTunnel, NilAssumption
<1> QED BY <1>3, <1>4, <1>5 DEF SubRefresh

LEMMA SetToTunnel ==
    ASSUME TypeOK, TunnelInv, RunningIsStored, NEW s \in Settings, SetTo(s) PROVE Tunnel
<1>1. settings' = s /\ keys' = keys /\ keys \in KeyPairs
      /\ UNCHANGED <<sources, profiles, boot>>
  BY DEF SetTo, awg, recovery, TypeOK, TunnelTypes
<1>2. CASE HasSource
  BY <1>1, <1>2, RegenTunnel DEF SetTo
<1>3. CASE ~HasSource
  <2>1. UNCHANGED <<sources, built, service, profiles, boot>> /\ Source = Nil
    BY <1>1, <1>3 DEF SetTo, HasSource, Source
  <2>2. TunnelTypes'
    BY <1>1, <2>1 DEF TypeOK, TunnelTypes, built, service, sources
  <2>3. Source' = Nil /\ TunnelInv'
    BY <2>1 DEF TunnelInv, ConfigFollowsSource, OneSource, MarkerTellsSource, Source,
                built, sources
  <2>4. active' = FALSE \/ overtaken' = TRUE
    BY <2>1 DEF RunningIsStored, service, TypeOK, TunnelTypes
  <2> QED BY <2>2, <2>3, <2>4 DEF Tunnel, ServiceStep
<1> QED BY <1>2, <1>3

LEMMA RegenKeysTunnel ==
    ASSUME TypeOK, TunnelInv, RunningIsStored, NEW k \in KeyPairs, RegenKeys(k) PROVE Tunnel
<1>1. keys' = k /\ settings' = settings /\ settings \in Settings
      /\ UNCHANGED <<sources, profiles, boot>>
  BY DEF RegenKeys, awg, recovery, TypeOK, TunnelTypes
<1>2. CASE HasSource
  BY <1>1, <1>2, RegenTunnel DEF RegenKeys
<1>3. CASE ~HasSource
  <2>1. UNCHANGED <<sources, built, service, profiles, boot>> /\ Source = Nil
    BY <1>1, <1>3 DEF RegenKeys, HasSource, Source
  <2>2. TunnelTypes'
    BY <1>1, <2>1 DEF TypeOK, TunnelTypes, built, service, sources
  <2>3. Source' = Nil /\ TunnelInv'
    BY <2>1 DEF TunnelInv, ConfigFollowsSource, OneSource, MarkerTellsSource, Source,
                built, sources
  <2>4. active' = FALSE \/ overtaken' = TRUE
    BY <2>1 DEF RunningIsStored, service, TypeOK, TunnelTypes
  <2> QED BY <2>2, <2>3, <2>4 DEF Tunnel, ServiceStep
<1> QED BY <1>2, <1>3

\* The new config is of the same link, with the same settings and keys.
LEMMA RebuildConfigTunnel == ASSUME TypeOK, TunnelInv, RebuildConfig PROVE Tunnel
<1> USE DEF sources, service, params, awg
<1>1. TunnelTypes /\ OneSource /\ ConfigFollowsSource /\ MarkerTellsSource /\ gen \in Gens
  BY DEF TypeOK, RecoveryTypes, TunnelInv, ConfigFollowsSource
<1>2. link # Nil /\ link \in Nodes /\ Node[link].kind # "pool" /\ Builds[gen][link] # "none"
  BY <1>1 DEF RebuildConfig, MarkerTellsSource, TunnelTypes
<1>3. Builds[gen][link] \in {"xray", "singbox"}
  BY <1>1, <1>2, BuildsAssumption
<1>4. /\ config' \in Confs /\ config' # Nil /\ config'.engine \in {"xray", "singbox"}
      /\ config'.src = link /\ config'.settings = settings /\ config'.keys = keys
  <2>1. config' = Conf(Builds[gen][link], link, settings, keys) /\ Builds[gen][link] \in Engines
    BY <1>3 DEF RebuildConfig, Engines
  <2> QED BY <1>1, <1>2, <1>3, <2>1, ConfTypes DEF TunnelTypes
<1>5. /\ UNCHANGED <<pooldir, engine, unit, link, pool, awgSel, profiles, settings, keys>>
      /\ UNCHANGED <<active, running, waiting, overtaken>>
  BY DEF RebuildConfig
<1>6. TunnelTypes'
  BY <1>1, <1>4, <1>5 DEF TunnelTypes
<1>7. ConfigFollowsSource'
  BY <1>1, <1>2, <1>4, <1>5 DEF ConfigFollowsSource, OneSource, Source, Stored
<1>8. MarkerTellsSource'
  BY <1>1, <1>2, <1>4, <1>5 DEF MarkerTellsSource
<1>9. ServiceStep
  BY <1>5 DEF ServiceStep, Source
<1> QED BY <1>6, <1>7, <1>8, <1>9 DEF Tunnel, TunnelInv

LEMMA RebuildMarkerTunnel == ASSUME TypeOK, TunnelInv, RebuildMarker PROVE Tunnel
<1> USE DEF sources, service, params, awg
<1>1. TunnelTypes /\ OneSource /\ ConfigFollowsSource /\ MarkerTellsSource
  BY DEF TypeOK, TunnelInv, ConfigFollowsSource
<1>2. link # Nil /\ config.engine \in {"xray", "singbox"} /\ boot' = "restart"
      /\ engine' = config.engine /\ unit' = config.engine
  BY <1>1 DEF RebuildMarker, MarkerTellsSource
<1>3. /\ UNCHANGED <<pooldir, config, link, pool, awgSel, profiles, settings, keys>>
      /\ UNCHANGED <<active, running, waiting, overtaken>>
  BY DEF RebuildMarker
<1>4. TunnelTypes'
  BY <1>1, <1>2, <1>3 DEF TunnelTypes, Engines
<1>5. ConfigFollowsSource'
  BY <1>1, <1>3 DEF ConfigFollowsSource, OneSource, Source, Stored
<1>6. MarkerTellsSource'
  BY <1>1, <1>2, <1>3 DEF MarkerTellsSource, OneSource
<1>7. ServiceStep
  BY <1>3 DEF ServiceStep, Source
<1> QED BY <1>4, <1>5, <1>6, <1>7 DEF Tunnel, TunnelInv

-----------------------------------------------------------------------------
(* Every step *)

\* The inductive invariant: a selected node of a subscription is the source in use,
\* and a stopped service is no exception to RunningIsStored, which ConfigFollowsSource
\* needs of an operation that finds no source.
SelectionInv ==
    /\ sel # Nil => sel \in {link, pool} /\ meta # Nil /\ meta.id = sel /\ subUrl
    /\ sel = Nil => meta = Nil
    /\ catalog # Nil => subUrl

IInv == TypeOK /\ TunnelInv /\ RunningIsStored /\ SelectionInv

LEMMA TunnelNext == ASSUME IInv, [Next]_vars PROVE Tunnel
<1> USE DEF IInv
<1>1. ASSUME NEW p \in Nodes, Import(p) PROVE Tunnel
  BY <1>1, ActivateTunnel DEF Import, Idle, recovery
<1>2. ASSUME NEW a \in AwgIds, AwgSelect(a) PROVE Tunnel
  BY <1>2, AwgSelectTunnel
<1>3. ASSUME NEW a \in AwgIds, AwgDelete(a) PROVE Tunnel
  BY <1>3, AwgDeleteTunnel
<1>4. ASSUME NEW a \in AwgIds, NEW c \in Contents, AwgCommitNew(a, c) PROVE Tunnel
  BY <1>4, AwgCommitNewTunnel
<1>5. ASSUME NEW u \in Users, NEW c \in Contents, AwgCommitEdit(u, c) PROVE Tunnel
  BY <1>5, AwgCommitEditTunnel
<1>6. ASSUME NEW cat \in Catalogs[gen], SubRefresh(cat) PROVE Tunnel
  BY <1>6, SubRefreshTunnel
<1>7. CASE SubSelect
  BY <1>7, SubSelectTunnel
<1>8. ASSUME NEW s \in Settings, SetTo(s) PROVE Tunnel
  BY <1>8, SetToTunnel
<1>9. ASSUME NEW k \in KeyPairs, RegenKeys(k) PROVE Tunnel
  BY <1>9, RegenKeysTunnel
<1>10. CASE RebuildConfig
  BY <1>10, RebuildConfigTunnel
<1>11. CASE RebuildMarker
  BY <1>11, RebuildMarkerTunnel
<1>12. unit \in Engines \cup {Nil}
  BY DEF TypeOK, TunnelTypes
<1>13. CASE \/ \E u \in Users, a \in AwgIds : OpenEditor(u, a)
            \/ \E u \in Users : CloseEditor(u)
            \/ \E cat \in Catalogs[gen] : SubAdd(cat)
            \/ SubRemove \/ MenuEnable \/ MenuDisable \/ NewVersion
            \/ KeepConfig \/ Interrupt \/ UNCHANGED vars
  <2>1. /\ UNCHANGED <<sources, built, service, params, profiles>>
        /\ boot' = "marker" => boot = "marker"
    BY <1>13 DEF OpenEditor, CloseEditor, SubAdd, SubRemove, MenuEnable, MenuDisable,
                 NewVersion, KeepConfig, Interrupt, vars, awg, recovery
  <2> QED BY <1>12, <2>1, QuietTunnel DEF built
<1>14. CASE MenuStart \/ MenuRestart \/ MenuStop \/ CoreDies \/ CoreRestarts \/ BootRestart
  <2>1. /\ UNCHANGED <<sources, built, params, profiles>>
        /\ boot' = "marker" => boot = "marker"
    BY <1>14 DEF MenuStart, MenuRestart, MenuStop, CoreDies, CoreRestarts, BootRestart, awg,
                 recovery
  <2>2. \/ Begins \/ Ends \/ UNCHANGED service
        \/ active' = FALSE /\ running' = Nil /\ waiting' \in BOOLEAN /\ overtaken' \in BOOLEAN
    BY <1>14 DEF MenuStart, MenuRestart, MenuStop, CoreDies, CoreRestarts, BootRestart, Restart
  <2>3. unit' \in Engines \cup {Nil}
    BY <1>12, <2>1 DEF built
  <2>4. UNCHANGED service \/ NewService
    BY <2>2, <2>3, BeginsOrEnds DEF NewService
  <2> QED BY <2>1, <2>3, <2>4, QuietTunnel DEF built
<1>15. CASE Rollback \/ Reboot \/ InstallService
  <2>1. /\ UNCHANGED <<sources, config, pooldir, engine, params, profiles>>
        /\ boot' = "marker" => boot = "marker"
    BY <1>15 DEF Rollback, Reboot, InstallService, awg, recovery
  <2>2. unit' \in Engines \cup {Nil}
    BY <1>12, <1>15, CurrentEngineTypes DEF Rollback, Reboot, InstallService
  <2>3. Begins \/ Ends \/ UNCHANGED service
    BY <1>15 DEF Rollback, Reboot, InstallService
  <2>4. UNCHANGED service \/ NewService
    BY <2>2, <2>3, BeginsOrEnds
  <2> QED BY <2>1, <2>2, <2>4, QuietTunnel
<1> QED BY <1>1, <1>2, <1>3, <1>4, <1>5, <1>6, <1>7, <1>8, <1>9, <1>10, <1>11,
           <1>13, <1>14, <1>15 DEF Next

LEMMA ProfilesNext == ASSUME TypeOK, [Next]_vars PROVE ProfileTypes'
<1>1. ProfileTypes
  BY DEF TypeOK
<1>2. ASSUME NEW u \in Users, NEW a \in AwgIds, OpenEditor(u, a) PROVE ProfileTypes'
  <2>1. profiles[a] \in Contents /\ profiles' = profiles
        /\ editing' = [editing EXCEPT ![u] = [id |-> a, base |-> profiles[a]]]
    BY <1>2 DEF OpenEditor, Kept
  <2> QED BY <1>1, <2>1 DEF ProfileTypes
<1>3. ASSUME NEW u \in Users, CloseEditor(u) PROVE ProfileTypes'
  BY <1>1, <1>3 DEF CloseEditor, ProfileTypes
<1>4. ASSUME NEW a \in AwgIds, NEW c \in Contents, AwgCommitNew(a, c) PROVE ProfileTypes'
  BY <1>1, <1>4 DEF AwgCommitNew, ProfileTypes
<1>5. ASSUME NEW u \in Users, NEW c \in Contents, AwgCommitEdit(u, c) PROVE ProfileTypes'
  BY <1>1, <1>5 DEF AwgCommitEdit, StoreEdit, ProfileTypes
<1>6. ASSUME NEW a \in AwgIds, AwgDelete(a) PROVE ProfileTypes'
  BY <1>1, <1>6 DEF AwgDelete, ProfileTypes
<1>7. CASE Reboot
  BY <1>1, <1>7 DEF Reboot, ProfileTypes
<1>8. CASE UNCHANGED awg
  BY <1>1, <1>8 DEF awg, ProfileTypes
<1>9. ASSUME \/ \E p \in Nodes : Import(p)
             \/ \E a \in AwgIds : AwgSelect(a)
             \/ \E cat \in Catalogs[gen] : SubAdd(cat) \/ SubRefresh(cat)
             \/ SubSelect \/ SubRemove
             \/ \E s \in Settings : SetTo(s)
             \/ \E k \in KeyPairs : RegenKeys(k)
             \/ MenuStart \/ MenuRestart \/ MenuStop \/ MenuEnable \/ MenuDisable
             \/ CoreDies \/ CoreRestarts \/ Rollback \/ NewVersion \/ InstallService \/ KeepConfig
             \/ RebuildConfig \/ RebuildMarker \/ BootRestart \/ Interrupt \/ UNCHANGED vars
      PROVE  UNCHANGED awg
  BY <1>9 DEF Import, AwgSelect, SubAdd, SubRefresh, SubSelect, SubRemove, SetTo, RegenKeys,
              MenuStart, MenuRestart, MenuStop, MenuEnable, MenuDisable, CoreDies, CoreRestarts,
              Rollback, NewVersion, InstallService, KeepConfig, RebuildConfig, RebuildMarker,
              BootRestart, Interrupt, vars
<1> QED BY <1>2, <1>3, <1>4, <1>5, <1>6, <1>7, <1>8, <1>9 DEF Next

\* The subscription: its types, and a selection that is the source in use.
LEMMA SubscriptionNext ==
    ASSUME IInv, [Next]_vars PROVE SubscriptionTypes' /\ SelectionInv'
<1>1. SubscriptionTypes /\ SelectionInv /\ TypeOK /\ TunnelInv /\ gen \in Gens
  BY DEF IInv, TypeOK, RecoveryTypes
<1>2. ASSUME NEW p \in Nodes, Import(p) PROVE SubscriptionTypes' /\ SelectionInv'
  BY <1>1, <1>2 DEF Import, SubscriptionTypes, SelectionInv
<1>3. ASSUME NEW a \in AwgIds, AwgSelect(a) PROVE SubscriptionTypes' /\ SelectionInv'
  BY <1>1, <1>3 DEF AwgSelect, SubscriptionTypes, SelectionInv
<1>4. ASSUME NEW cat \in Catalogs[gen], SubAdd(cat) PROVE SubscriptionTypes' /\ SelectionInv'
  BY <1>1, <1>4 DEF SubAdd, SubscriptionTypes, SelectionInv, StoredCatalogs
<1>5. ASSUME NEW cat \in Catalogs[gen], SubRefresh(cat)
      PROVE  SubscriptionTypes' /\ SelectionInv'
  <2>1. /\ sel' \in Nodes \cup {Nil} /\ meta' \in [id : Nodes, n : Nat] \cup {Nil}
        /\ sel' # Nil \/ UNCHANGED <<sel, meta>>
        /\ \/ sel' \in {link', pool'} /\ meta' # Nil /\ meta'.id = sel'
           \/ UNCHANGED <<sel, meta, link, pool>>
           \/ UNCHANGED <<sel, link, pool>> /\ meta' # Nil /\ meta'.id = sel'
    BY <1>1, <1>5, SubRefreshTunnel
  <2>2. catalog' = cat /\ subUrl' = subUrl /\ subUrl = TRUE
    BY <1>1, <1>5 DEF SubRefresh, SubscriptionTypes
  <2>3. catalog' \in StoredCatalogs
    BY <1>1, <2>2 DEF StoredCatalogs
  <2> QED BY <1>1, <2>1, <2>2, <2>3 DEF SubscriptionTypes, SelectionInv
<1>6. CASE SubSelect
  <2>1. /\ sel' \in Nodes /\ sel' \in {link', pool'}
        /\ meta' \in [id : Nodes, n : Nat] /\ meta'.id = sel'
    BY <1>1, <1>6, SubSelectTunnel
  <2>2. catalog' = catalog /\ subUrl' = subUrl /\ catalog # Nil
    BY <1>6 DEF SubSelect
  <2>3. meta' # Nil /\ sel' # Nil
    BY <2>1, NilAssumption
  <2> QED BY <1>1, <2>1, <2>2, <2>3 DEF SubscriptionTypes, SelectionInv
<1>7. CASE SubRemove
  BY <1>1, <1>7 DEF SubRemove, SubscriptionTypes, SelectionInv, StoredCatalogs
<1>8. CASE UNCHANGED <<subscription, link, pool>>
  BY <1>1, <1>8 DEF subscription, SubscriptionTypes, SelectionInv
<1>9. ASSUME NEW s \in Settings, SetTo(s) PROVE UNCHANGED <<subscription, link, pool>>
  BY <1>9 DEF SetTo, sources
<1>10. ASSUME NEW k \in KeyPairs, RegenKeys(k) PROVE UNCHANGED <<subscription, link, pool>>
  BY <1>10 DEF RegenKeys, sources
<1>11. ASSUME \/ \E u \in Users, a \in AwgIds : OpenEditor(u, a)
              \/ \E u \in Users : CloseEditor(u)
              \/ \E a \in AwgIds, c \in Contents : AwgCommitNew(a, c)
              \/ \E u \in Users, c \in Contents : AwgCommitEdit(u, c)
              \/ \E a \in AwgIds : AwgDelete(a)
              \/ MenuStart \/ MenuRestart \/ MenuStop \/ MenuEnable \/ MenuDisable
              \/ CoreDies \/ CoreRestarts \/ Rollback \/ NewVersion \/ Reboot \/ InstallService
              \/ KeepConfig \/ RebuildConfig \/ RebuildMarker \/ BootRestart \/ Interrupt
              \/ UNCHANGED vars
       PROVE  UNCHANGED <<subscription, link, pool>>
  BY <1>11 DEF OpenEditor, CloseEditor, AwgCommitNew, AwgCommitEdit, StoreEdit, AwgDelete,
               MenuStart, MenuRestart, MenuStop, MenuEnable, MenuDisable, CoreDies, CoreRestarts,
               Rollback, NewVersion, Reboot, InstallService, KeepConfig, RebuildConfig,
               RebuildMarker, BootRestart, Interrupt, vars, sources
<1> QED BY <1>2, <1>3, <1>4, <1>5, <1>6, <1>7, <1>8, <1>9, <1>10, <1>11 DEF Next

LEMMA RecoveryNext == ASSUME TypeOK, [Next]_vars PROVE RecoveryTypes'
<1>1. RecoveryTypes /\ subUrl \in BOOLEAN
  BY DEF TypeOK, SubscriptionTypes
<1>2. CASE UNCHANGED <<units, recovery>>
  BY <1>1, <1>2 DEF units, recovery, RecoveryTypes
<1>3. CASE (\E cat \in Catalogs[gen] : SubAdd(cat)) \/ SubRemove \/ MenuEnable \/ MenuDisable
  BY <1>1, <1>3 DEF SubAdd, SubRemove, MenuEnable, MenuDisable, recovery, RecoveryTypes
<1>4. CASE NewVersion \/ InstallService
  BY <1>1, <1>4, BoundsAssumption DEF NewVersion, InstallService, units, RecoveryTypes, Gens
<1>5. CASE Reboot \/ Interrupt
  <2>1. faults' \in 0 .. MaxFaults
    BY <1>1, <1>5, BoundsAssumption DEF Reboot, Interrupt, RecoveryTypes
  <2>2. auto' \in BOOLEAN /\ enabled' \in BOOLEAN /\ timer' \in BOOLEAN
    BY <1>1, <1>5, Zenon DEF Reboot, Interrupt, units, RecoveryTypes
  <2>3. gen' \in Gens /\ boot' \in {"idle", "rebuild", "marker", "restart"}
    BY <1>1, <1>5 DEF Reboot, Interrupt, RecoveryTypes
  <2> QED BY <2>1, <2>2, <2>3 DEF RecoveryTypes
<1>6. CASE KeepConfig \/ RebuildConfig \/ RebuildMarker \/ BootRestart
  BY <1>1, <1>6 DEF KeepConfig, RebuildConfig, RebuildMarker, BootRestart, units, RecoveryTypes
<1>7. ASSUME \/ \E p \in Nodes : Import(p)
             \/ \E a \in AwgIds : AwgSelect(a) \/ AwgDelete(a)
             \/ \E a \in AwgIds, c \in Contents : AwgCommitNew(a, c)
             \/ \E u \in Users, a \in AwgIds : OpenEditor(u, a)
             \/ \E u \in Users : CloseEditor(u)
             \/ \E u \in Users, c \in Contents : AwgCommitEdit(u, c)
             \/ \E cat \in Catalogs[gen] : SubRefresh(cat)
             \/ SubSelect
             \/ \E s \in Settings : SetTo(s)
             \/ \E k \in KeyPairs : RegenKeys(k)
             \/ MenuStart \/ MenuRestart \/ MenuStop \/ CoreDies \/ CoreRestarts \/ Rollback
             \/ UNCHANGED vars
      PROVE  UNCHANGED <<units, recovery>>
  BY <1>7 DEF Import, AwgSelect, AwgDelete, AwgCommitNew, OpenEditor, CloseEditor,
              AwgCommitEdit, SubRefresh, SubSelect, SetTo, RegenKeys, MenuStart, MenuRestart,
              MenuStop, CoreDies, CoreRestarts, Rollback, vars
<1> QED BY <1>2, <1>3, <1>4, <1>5, <1>6, <1>7 DEF Next

\* What a unit reads is what is stored, so a core that just read it agrees with it.
LEMMA RunningNext == ASSUME RunningIsStored, Tunnel PROVE RunningIsStored'
<1>1. CASE UNCHANGED <<active, running, overtaken, settings, keys>> /\ Source' = Source
  BY <1>1 DEF RunningIsStored
<1>2. CASE active' = FALSE \/ overtaken' = TRUE
  BY <1>2 DEF RunningIsStored
<1>3. CASE Startable' /\ running' = UnitReads'
  <2>1. ConfigFollowsSource' /\ OneSource' /\ running' # Nil
    BY <1>3 DEF Tunnel, TunnelInv, ConfigFollowsSource, Startable
  <2>2. running' = Stored'
    BY <1>3, <2>1 DEF OneSource, UnitReads, Stored
  <2>3. Source' # Nil
    BY <1>3, <2>1 DEF OneSource, UnitReads, Source, Tunnel, TunnelInv, MarkerTellsSource
  <2> QED BY <2>1, <2>2, <2>3 DEF RunningIsStored, ConfigFollowsSource
<1> QED BY <1>1, <1>2, <1>3 DEF Tunnel, ServiceStep

-----------------------------------------------------------------------------
(* Theorems *)

LEMMA InitInv == Init => IInv
<1> SUFFICES ASSUME Init PROVE IInv
  OBVIOUS
<1>1. TunnelTypes /\ ProfileTypes /\ SubscriptionTypes
  BY DEF Init, TunnelTypes, ProfileTypes, SubscriptionTypes, StoredCatalogs, Engines
<1>2. RecoveryTypes
  <2>1. gen \in Gens /\ faults \in 0 .. MaxFaults
    BY BoundsAssumption DEF Init, Gens
  <2> QED BY <2>1 DEF Init, RecoveryTypes
<1>3. TunnelInv
  BY DEF Init, TunnelInv, ConfigFollowsSource, OneSource, MarkerTellsSource, Source
<1>4. RunningIsStored /\ SelectionInv
  BY DEF Init, RunningIsStored, SelectionInv
<1> QED BY <1>1, <1>2, <1>3, <1>4 DEF IInv, TypeOK

LEMMA NextInv == IInv /\ [Next]_vars => IInv'
<1> SUFFICES ASSUME IInv, [Next]_vars PROVE IInv'
  OBVIOUS
<1>1. Tunnel
  BY TunnelNext
<1>2. ProfileTypes'
  BY ProfilesNext DEF IInv
<1>3. SubscriptionTypes' /\ SelectionInv'
  BY SubscriptionNext
<1>4. RecoveryTypes'
  BY RecoveryNext DEF IInv
<1>5. RunningIsStored'
  BY <1>1, RunningNext DEF IInv
<1> QED BY <1>1, <1>2, <1>3, <1>4, <1>5 DEF IInv, TypeOK, Tunnel

\* Invariance: the inductive invariant holds in every state of the gateway.
THEOREM Invariance == Spec => []IInv
BY InitInv, NextInv, PTL DEF Spec

\* TypeCorrect: every variable of Activation keeps its type.
THEOREM TypeCorrect == Spec => []TypeOK
<1>1. IInv => TypeOK
  BY DEF IInv
<1> QED BY <1>1, Invariance, PTL

\* ConfigIsCurrent: whatever is imported, selected, edited, set or rebuilt, and
\* wherever boot_recover is interrupted, there is one source at most and the stored
\* config is the one of that source with the current settings and keys.
THEOREM ConfigIsCurrent == Spec => []ConfigFollowsSource
<1>1. IInv => ConfigFollowsSource
  BY DEF IInv, TunnelInv
<1> QED BY <1>1, Invariance, PTL

\* RunningIsCurrent: the core that serves has read the stored config's source,
\* settings and keys; no operation leaves an older one running but the one that systemd
\* overtook, and that one until the service is next started, stopped or ends.
THEOREM RunningIsCurrent == Spec => []RunningIsStored
<1>1. IInv => RunningIsStored
  BY DEF IInv
<1> QED BY <1>1, Invariance, PTL

\* SelectionIsHonest: a node or profile that is marked as selected is the source in
\* use, through imports, selections, refreshes, edits and removals.
THEOREM SelectionIsHonest == Spec => []SelectionIsActive
<1>1. IInv => SelectionIsActive
  BY NilAssumption DEF IInv, TypeOK, TunnelTypes, TunnelInv, MarkerTellsSource, SelectionInv,
                       SelectionIsActive, CurrentEngine, Engines
<1> QED BY <1>1, Invariance, PTL

\* EditsAreKept: an edit is stored only over what its editor was opened on, for any
\* number of editors and profiles.
THEOREM EditsAreKept == Spec => NoLostEdit
<1> DEFINE Justified(a) == \/ profiles[a] = Nil
                           \/ profiles'[a] = Deleted
                           \/ \E u \in Users : /\ editing[u] = [id |-> a, base |-> profiles[a]]
                                               /\ editing'[u] = Nil
<1>1. ASSUME TypeOK, [Next]_vars, NEW a \in AwgIds, profiles'[a] # profiles[a]
      PROVE  Justified(a)
  <2>1. profiles \in [AwgIds -> Contents \cup {Nil, Deleted}]
        /\ editing \in [Users -> [id : AwgIds, base : Contents] \cup {Nil}]
    BY <1>1 DEF TypeOK, ProfileTypes
  <2>2. ASSUME NEW b \in AwgIds, NEW c \in Contents, AwgCommitNew(b, c) PROVE Justified(a)
    BY <1>1, <2>1, <2>2 DEF AwgCommitNew
  <2>3. ASSUME NEW b \in AwgIds, AwgDelete(b) PROVE Justified(a)
    BY <1>1, <2>1, <2>3 DEF AwgDelete
  <2>4. ASSUME NEW u \in Users, NEW c \in Contents, AwgCommitEdit(u, c) PROVE Justified(a)
    <3>1. /\ editing[u] \in [id : AwgIds, base : Contents] /\ editing'[u] = Nil
          /\ editing[u].id = a /\ editing[u].base = profiles[a]
      BY <1>1, <2>1, <2>4 DEF AwgCommitEdit, StoreEdit
    <3>2. editing[u] = [id |-> a, base |-> profiles[a]]
      BY <3>1
    <3> QED BY <3>1, <3>2
  <2>5. ASSUME \/ \E p \in Nodes : Import(p)
               \/ \E b \in AwgIds : AwgSelect(b)
               \/ \E u \in Users, b \in AwgIds : OpenEditor(u, b)
               \/ \E u \in Users : CloseEditor(u)
               \/ \E cat \in Catalogs[gen] : SubAdd(cat) \/ SubRefresh(cat)
               \/ SubSelect \/ SubRemove
               \/ \E s \in Settings : SetTo(s)
               \/ \E k \in KeyPairs : RegenKeys(k)
               \/ MenuStart \/ MenuRestart \/ MenuStop \/ MenuEnable \/ MenuDisable
               \/ CoreDies \/ CoreRestarts \/ Rollback \/ NewVersion \/ Reboot \/ InstallService
               \/ KeepConfig \/ RebuildConfig \/ RebuildMarker \/ BootRestart \/ Interrupt
               \/ UNCHANGED vars
        PROVE  UNCHANGED profiles
    BY <2>5 DEF Import, AwgSelect, OpenEditor, CloseEditor, SubAdd, SubRefresh, SubSelect,
                SubRemove, SetTo, RegenKeys, MenuStart, MenuRestart, MenuStop, MenuEnable,
                MenuDisable, CoreDies, CoreRestarts, Rollback, NewVersion, Reboot, InstallService,
                KeepConfig, RebuildConfig, RebuildMarker, BootRestart, Interrupt, vars, awg
  <2> HIDE DEF Justified
  <2> QED BY <1>1, <2>2, <2>3, <2>4, <2>5 DEF Next
<1>2. TypeOK /\ [Next]_vars =>
        [\A a \in AwgIds : profiles'[a] # profiles[a] => Justified(a)]_vars
  BY <1>1
<1> QED BY <1>2, TypeCorrect, PTL DEF Spec, NoLostEdit

\* StoppedStaysStopped: no setting, key, profile, subscription or autostart operation
\* starts a service that was stopped and did not wait for systemd.
THEOREM StoppedStaysStopped == Spec => MaintenanceNeverStarts
<1>1. ASSUME Maintenance, active = FALSE, waiting = FALSE PROVE active' = FALSE
  BY <1>1 DEF Maintenance, SetTo, RegenKeys, AwgCommitNew, AwgDelete, AwgCommitEdit, StoreEdit,
              SubAdd, SubRemove, MenuEnable, MenuDisable, RestartIfActive, Overtakes, Ends, service
<1>2. TypeOK => [~active /\ ~waiting /\ active' => ~Maintenance]_vars
  BY <1>1 DEF TypeOK, TunnelTypes
<1> QED BY <1>2, TypeCorrect, PTL DEF MaintenanceNeverStarts

\* What the new catalog has in a place that Match names.
LEMMA MatchIsAlike ==
    ASSUME NEW cat \in Catalogs[gen], gen \in Gens, NEW old, NEW n \in Match(cat, Good(gen), old),
           cat[n].id # old.id
    PROVE  /\ old.id \notin Offered(cat) /\ cat[n].id \in Offered(cat) /\ Alike(old.id, cat[n].id)
           /\ Node[cat[n].id].server # Node[old.id].server =>
                 \A p \in Offered(cat) :
                     Alike(p, old.id) => Node[p].server # Node[old.id].server
<1> DEFINE good == Good(gen)
           offered == {m \in DOMAIN cat : Recognized(cat[m], good)}
           itself == {m \in offered : cat[m].id = old.id}
           alike == {m \in offered : /\ Node[cat[m].id].kind = Node[old.id].kind
                                     /\ Node[cat[m].id].scheme = Node[old.id].scheme}
           best == {m \in alike : \A k \in alike : Score(cat[k], k, old) <= Score(cat[m], m, old)}
<1>1. itself = {} /\ n \in best /\ Score(cat[n], n, old) >= 70
  BY DEF Match
<1>2. /\ n \in offered /\ n \in alike
      /\ \A m \in alike : Score(cat[m], m, old) <= Score(cat[n], n, old)
  BY <1>1
<1>3. old.id \notin Offered(cat) /\ cat[n].id \in Offered(cat)
  BY <1>1, <1>2 DEF Offered
<1>4. \A m \in offered : cat[m].id \in good
  <2> SUFFICES ASSUME NEW m \in offered PROVE cat[m].id \in good
    OBVIOUS
  <2>1. PICK l \in Offers : cat = Fetched(l, good)
    BY DEF Catalogs
  <2>2. cat[m].ok => cat[m].id \in good
    BY <2>1 DEF Fetched
  <2> QED
    BY <2>2 DEF Recognized
<1> HIDE DEF good, offered, itself, alike, best
<1>5. \A m : LET new == Node[cat[m].id]
                 was == Node[old.id]
             IN Score(cat[m], m, old) =
                  30 + (IF new.label # Blank /\ new.label = was.label THEN 40 ELSE 0)
                     + (IF new.server # Blank /\ new.server = was.server THEN 30 ELSE 0)
                     + (IF m = old.n THEN 5 ELSE 0)
  BY DEF Score
<1>6. Node[cat[n].id].label # Blank /\ Node[cat[n].id].label = Node[old.id].label
  BY <1>1, <1>5
<1>7. Alike(old.id, cat[n].id)
  BY <1>2, <1>6 DEF Alike, alike
<1>8. ASSUME Node[cat[n].id].server # Node[old.id].server,
             NEW m \in offered, Alike(cat[m].id, old.id),
             Node[cat[m].id].server = Node[old.id].server
      PROVE  FALSE
  <2>1. m \in alike
    BY <1>8 DEF Alike, alike
  <2>2. Node[cat[m].id].server # Blank
    BY <1>4, ServersAssumption DEF good
  <2>3. Score(cat[m], m, old) >= 100
    BY <1>5, <1>6, <1>8, <2>2 DEF Alike
  <2>4. Score(cat[n], n, old) <= 75 /\ Score(cat[n], n, old) \in Nat
    BY <1>5, <1>8
  <2>5. Score(cat[m], m, old) \in Nat
    BY <1>5
  <2> QED
    BY <1>2, <2>1, <2>3, <2>4, <2>5
<1> QED
  BY <1>3, <1>7, <1>8 DEF Offered, offered, good

\* TunnelsAreKept: for any catalogs and any order of the nodes in them, a refresh moves
\* the selection only away from a node that is gone, and only to one that is like it.
THEOREM TunnelsAreKept == Spec => RefreshKeepsTunnel
<1>1. ASSUME IInv, ~UNCHANGED <<sources, service>>, NEW cat \in Catalogs[gen], SubRefresh(cat)
      PROVE  Moves(cat)
  <2>1. PICK n \in Match(cat, Good(gen), meta) : cat[n].id # sel /\ SelectFrom(cat, n)
    BY <1>1 DEF SubRefresh
  <2>2. meta # Nil /\ meta.id = sel /\ gen \in Gens
    BY <1>1 DEF SubRefresh, IInv, SelectionInv, TypeOK, RecoveryTypes
  <2>3. sel' = cat[n].id
    BY <2>1 DEF SelectFrom
  <2> QED
    BY <2>1, <2>2, <2>3, MatchIsAlike DEF Moves
<1>2. IInv => [UNCHANGED <<sources, service>>
                 \/ \A cat \in Catalogs[gen] : SubRefresh(cat) => Moves(cat)]_vars
  BY <1>1
<1> QED BY <1>2, Invariance, PTL DEF RefreshKeepsTunnel

-----------------------------------------------------------------------------
(* Units and marker *)

\* A config that was just built, and the marker and unit that were written with it.
LEMMA BuiltMatches ==
    ASSUME NEW e, NEW src, NEW s, NEW k, BuildConfig(e, src, s, k), pool' = Nil
    PROVE  MarkerFollowsConfig'
<1>1. config'.engine = e /\ engine' = e /\ unit' \in {Nil, e}
  BY DEF BuildConfig, Conf, SetUnit
<1> QED BY <1>1 DEF MarkerFollowsConfig, Stored

LEMMA PoolMatches ==
    ASSUME NEW p, NEW s, NEW k, BuildPool(p, s, k), pool' # Nil
    PROVE  MarkerFollowsConfig'
<1>1. pooldir'.engine = "xraypool" /\ engine' = "xraypool" /\ unit' \in {Nil, "xraypool"}
  BY DEF BuildPool, Conf, SetUnit
<1> QED BY <1>1 DEF MarkerFollowsConfig, Stored

LEMMA ActivateMatches ==
    ASSUME TypeOK, NEW p \in Nodes, Activate(p)
    PROVE  MarkerFollowsConfig'
<1>1. CASE BuildLink(p, settings, keys) /\ pool' = Nil
  BY <1>1, BuiltMatches DEF BuildLink
<1>2. CASE BuildPool(p, settings, keys) /\ pool' = p
  BY <1>2, PoolMatches, NilAssumption
<1> QED BY <1>1, <1>2 DEF Activate

LEMMA RegenMatches ==
    ASSUME TypeOK, TunnelInv, NEW s, NEW k, Regen(s, k), UNCHANGED sources
    PROVE  MarkerFollowsConfig'
<1>1. OneSource /\ pool' = pool
  BY DEF TunnelInv, ConfigFollowsSource, sources
<1>2. CASE awgSel # Nil /\ BuildConfig("awg", profiles[awgSel], s, k)
  BY <1>1, <1>2, BuiltMatches DEF OneSource
<1>3. CASE pool # Nil /\ BuildPool(pool, s, k)
  BY <1>1, <1>3, PoolMatches
<1>4. CASE link # Nil /\ BuildLink(link, s, k)
  BY <1>1, <1>4, BuiltMatches DEF OneSource, BuildLink
<1> QED BY <1>2, <1>3, <1>4 DEF Regen

\* Where the marker matches, it is what regen_config and a rollback go by.
LEMMA MarkerDecides ==
    ASSUME TypeOK, TunnelInv, MarkerFollowsConfig, faults = 0, boot # "marker", Source # Nil
    PROVE  engine # Nil /\ CurrentEngine = engine
<1>1. Stored \in Confs
  BY DEF TypeOK, TunnelTypes, TunnelInv, ConfigFollowsSource, Stored
<1>2. Stored.engine \in Engines /\ Nil \notin Engines
  BY <1>1, NilAssumption DEF Confs
<1> QED BY <1>2 DEF MarkerFollowsConfig, CurrentEngine

\* A step that leaves source, config and marker alone, and the unit or renders it anew.
LEMMA QuietMatches ==
    ASSUME TypeOK, TunnelInv, MarkerFollowsConfig,
           UNCHANGED <<sources, profiles, config, pooldir, engine>>,
           unit' \in {unit, Nil, CurrentEngine},
           faults' = 0 /\ boot' # "marker" => faults = 0 /\ boot # "marker"
    PROVE  MarkerFollowsConfig'
<1>1. Source' = Source /\ Stored' = Stored
  BY DEF Source, Stored, sources
<1> QED BY <1>1, MarkerDecides DEF MarkerFollowsConfig

LEMMA MarkerNext ==
    ASSUME IInv, MarkerFollowsConfig, [Next]_vars
    PROVE  MarkerFollowsConfig'
<1>0. TypeOK /\ TunnelInv /\ SelectionIsActive /\ faults \in Nat
  BY NilAssumption, BoundsAssumption
     DEF IInv, TypeOK, RecoveryTypes, TunnelTypes, TunnelInv, MarkerTellsSource, SelectionInv,
         SelectionIsActive, CurrentEngine, Engines
<1>1. ASSUME NEW p \in Nodes, Import(p) PROVE MarkerFollowsConfig'
  BY <1>0, <1>1, ActivateMatches DEF Import
<1>2. ASSUME NEW a \in AwgIds, AwgSelect(a) PROVE MarkerFollowsConfig'
  BY <1>2, BuiltMatches DEF AwgSelect
<1>3. ASSUME NEW a \in AwgIds, AwgDelete(a) PROVE MarkerFollowsConfig'
  <2>1. CASE awgSel = a /\ CurrentEngine = "awg"
    <3>1. awgSel # Nil
      BY <2>1, NilAssumption
    <3>2. link' = Nil /\ pool' = Nil /\ awgSel' = Nil
      BY <1>0, <1>3, <2>1, <3>1 DEF AwgDelete, TunnelInv, ConfigFollowsSource, OneSource
    <3> QED BY <3>2 DEF MarkerFollowsConfig, Source
  <2>2. CASE ~(awgSel = a /\ CurrentEngine = "awg")
    <3>1. awgSel # a
      BY <1>0, <2>2, NilAssumption DEF SelectionIsActive
    <3>2. /\ UNCHANGED <<link, pool, awgSel, config, pooldir, engine, unit, faults, boot>>
          /\ awgSel # Nil => profiles'[awgSel] = profiles[awgSel]
      BY <1>0, <1>3, <2>2, <3>1
         DEF AwgDelete, built, recovery, TypeOK, ProfileTypes, TunnelTypes
    <3>3. Source' = Source /\ Stored' = Stored
      BY <3>2 DEF Source, Stored
    <3> QED BY <3>2, <3>3 DEF MarkerFollowsConfig
  <2> QED BY <2>1, <2>2
<1>4. ASSUME NEW a \in AwgIds, NEW c \in Contents, AwgCommitNew(a, c) PROVE MarkerFollowsConfig'
  <2>1. awgSel # a
    BY <1>0, <1>4, NilAssumption DEF AwgCommitNew, SelectionIsActive, Kept
  <2>2. /\ UNCHANGED <<link, pool, awgSel, config, pooldir, engine, unit, faults, boot>>
        /\ awgSel # Nil => profiles'[awgSel] = profiles[awgSel]
    BY <1>0, <1>4, <2>1 DEF AwgCommitNew, sources, built, recovery, TypeOK, ProfileTypes, TunnelTypes
  <2>3. Source' = Source /\ Stored' = Stored
    BY <2>2 DEF Source, Stored
  <2> QED BY <2>2, <2>3 DEF MarkerFollowsConfig
<1>5. ASSUME NEW u \in Users, NEW c \in Contents, AwgCommitEdit(u, c) PROVE MarkerFollowsConfig'
  <2> DEFINE a == editing[u].id
  <2>1. StoreEdit(a, c) /\ a \in AwgIds /\ UNCHANGED <<faults, boot>>
    BY <1>0, <1>5 DEF AwgCommitEdit, recovery, TypeOK, ProfileTypes
  <2> HIDE DEF a
  <2>2. CASE awgSel = a /\ CurrentEngine = "awg" /\ BuildConfig("awg", c, settings, keys)
             /\ UNCHANGED sources
    <3>1. awgSel # Nil
      BY <2>1, <2>2, NilAssumption
    <3>2. pool' = Nil
      BY <1>0, <2>2, <3>1 DEF TunnelInv, ConfigFollowsSource, OneSource, sources
    <3> QED BY <2>2, <3>2, BuiltMatches
  <2>3. CASE ~(awgSel = a /\ CurrentEngine = "awg") /\ UNCHANGED <<link, pool, built>>
             /\ awgSel' = IF awgSel = a THEN Nil ELSE awgSel
    <3>1. awgSel # a
      BY <1>0, <2>1, <2>3, NilAssumption DEF SelectionIsActive
    <3>2. profiles' = [profiles EXCEPT ![a] = c]
      BY <2>1 DEF StoreEdit
    <3>3. /\ UNCHANGED <<link, pool, awgSel, config, pooldir, engine, unit>>
          /\ awgSel # Nil => profiles'[awgSel] = profiles[awgSel]
      BY <1>0, <2>3, <3>1, <3>2 DEF built, TypeOK, ProfileTypes, TunnelTypes
    <3>4. Source' = Source /\ Stored' = Stored
      BY <3>3 DEF Source, Stored
    <3> QED BY <2>1, <3>3, <3>4 DEF MarkerFollowsConfig
  <2> QED BY <2>1, <2>2, <2>3 DEF StoreEdit
<1>6. ASSUME NEW cat \in Catalogs[gen], SubRefresh(cat) PROVE MarkerFollowsConfig'
  <2>1. CASE UNCHANGED <<sources, built>>
    BY <1>0, <1>6, <2>1, QuietMatches DEF SubRefresh, built, awg, recovery
  <2>2. ASSUME NEW n \in Match(cat, Good(gen), meta), SelectFrom(cat, n)
        PROVE  MarkerFollowsConfig'
    <3>1. cat[n].id \in Nodes
      BY <1>0, <1>6, <2>2, MatchInCatalog, CatalogRows DEF TypeOK, RecoveryTypes
    <3> QED BY <1>0, <2>2, <3>1, ActivateMatches DEF SelectFrom
  <2> QED BY <1>6, <2>1, <2>2 DEF SubRefresh
<1>7. CASE SubSelect
  <2>1. PICK n \in DOMAIN catalog : SelectFrom(catalog, n) /\ catalog # Nil
    BY <1>7 DEF SubSelect
  <2>2. catalog[n].id \in Nodes
    BY <1>0, <2>1, StoredCatalog, CatalogRows
  <2> QED BY <1>0, <2>1, <2>2, ActivateMatches DEF SelectFrom
<1>8. CASE (\E s \in Settings : SetTo(s)) \/ (\E k \in KeyPairs : RegenKeys(k))
  <2>1. CASE UNCHANGED <<sources, built>>
    BY <1>0, <1>8, <2>1, QuietMatches DEF SetTo, RegenKeys, built, awg, recovery
  <2>2. CASE (\E s, k : Regen(s, k)) /\ UNCHANGED sources
    BY <1>0, <2>2, RegenMatches
  <2>3. UNCHANGED sources /\ ((\E s, k : Regen(s, k)) \/ UNCHANGED built)
    BY <1>8 DEF SetTo, RegenKeys
  <2> QED BY <2>1, <2>2, <2>3
<1>9. CASE \/ \E u \in Users, a \in AwgIds : OpenEditor(u, a)
           \/ \E u \in Users : CloseEditor(u)
           \/ \E cat \in Catalogs[gen] : SubAdd(cat)
           \/ SubRemove \/ MenuStart \/ MenuRestart \/ MenuStop \/ MenuEnable \/ MenuDisable
           \/ CoreDies \/ CoreRestarts \/ NewVersion \/ UNCHANGED vars
  <2>1. UNCHANGED <<sources, profiles, built, faults, boot>>
    BY <1>9 DEF OpenEditor, CloseEditor, SubAdd, SubRemove, MenuStart, MenuRestart, MenuStop,
                MenuEnable, MenuDisable, CoreDies, CoreRestarts, NewVersion, vars, awg, recovery
  <2> QED BY <1>0, <2>1, QuietMatches DEF built
<1>10. CASE Rollback \/ InstallService \/ KeepConfig \/ BootRestart
  <2>1. /\ UNCHANGED <<sources, profiles, config, pooldir, engine, faults>> /\ boot # "marker"
        /\ unit' \in {unit, CurrentEngine}
    BY <1>10 DEF Rollback, InstallService, KeepConfig, BootRestart, Idle, awg, built, recovery
  <2> QED BY <1>0, <2>1, QuietMatches
<1>11. CASE Reboot
  <2>1. /\ UNCHANGED <<sources, profiles, config, pooldir, engine>> /\ unit' \in {unit, Nil}
        /\ faults' = 0 => faults = 0 /\ boot # "marker"
    BY <1>0, <1>11 DEF Reboot
  <2> QED BY <1>0, <2>1, QuietMatches
<1>12. CASE Interrupt
  BY <1>0, <1>12 DEF Interrupt, MarkerFollowsConfig
<1>13. CASE RebuildConfig
  BY <1>13 DEF RebuildConfig, MarkerFollowsConfig
<1>14. CASE RebuildMarker
  <2>1. link # Nil /\ pool = Nil
    BY <1>0, <1>14 DEF RebuildMarker, TunnelInv, MarkerTellsSource, ConfigFollowsSource, OneSource
  <2>2. Stored' = config /\ engine' = config.engine /\ unit' = config.engine
    BY <1>14, <2>1 DEF RebuildMarker, Stored, sources
  <2> QED BY <2>2 DEF MarkerFollowsConfig
<1> QED BY <1>1, <1>2, <1>3, <1>4, <1>5, <1>6, <1>7, <1>8, <1>9, <1>10, <1>11, <1>12, <1>13, <1>14
        DEF Next

\* What the units need to be known when they are installed again.
ChoicesInv ==
    /\ UnitsFollowChoices
    /\ timer => subUrl
    /\ boot # "idle" => unit # Nil

LEMMA ChoicesNext ==
    ASSUME IInv, ChoicesInv, [Next]_vars
    PROVE  ChoicesInv'
<1>0. /\ TypeOK /\ TunnelInv /\ Nil \notin Engines /\ CurrentEngine \in Engines
      /\ timer \in BOOLEAN /\ subUrl \in BOOLEAN
  BY NilAssumption, CurrentEngineTypes DEF IInv, TypeOK, RecoveryTypes, SubscriptionTypes
<1>1. CASE Idle /\ boot' = boot /\ UNCHANGED <<units, subUrl>> /\ (unit = Nil => unit' = Nil)
  BY <1>0, <1>1 DEF ChoicesInv, UnitsFollowChoices, units, Idle
<1>2. CASE UNCHANGED <<units, subUrl, unit>> /\ boot' \in {boot, "idle"}
  BY <1>2 DEF ChoicesInv, UnitsFollowChoices, units
<1>3. ASSUME NEW e, NEW src, NEW s, NEW k, BuildConfig(e, src, s, k) PROVE unit = Nil => unit' = Nil
  BY <1>3 DEF BuildConfig, SetUnit
<1>4. ASSUME NEW p, NEW s, NEW k, BuildPool(p, s, k) PROVE unit = Nil => unit' = Nil
  BY <1>4 DEF BuildPool, SetUnit
<1>5. ASSUME NEW p, Activate(p) PROVE unit = Nil => unit' = Nil
  BY <1>3, <1>4, <1>5 DEF Activate, BuildLink
<1>6. ASSUME NEW s, NEW k, Regen(s, k) PROVE unit = Nil => unit' = Nil
  BY <1>3, <1>4, <1>6 DEF Regen, BuildLink
<1>7. CASE (\E p \in Nodes : Import(p)) \/ SubSelect
  BY <1>1, <1>5, <1>7 DEF Import, SubSelect, SelectFrom, recovery
<1>8. CASE \E cat \in Catalogs[gen] : SubRefresh(cat)
  BY <1>1, <1>5, <1>8 DEF SubRefresh, SelectFrom, recovery, built
<1>9. CASE (\E s \in Settings : SetTo(s)) \/ (\E k \in KeyPairs : RegenKeys(k))
  BY <1>1, <1>6, <1>9 DEF SetTo, RegenKeys, recovery, subscription, built
<1>10. CASE (\E a \in AwgIds : AwgSelect(a) \/ AwgDelete(a)) \/ Rollback
            \/ (\E u \in Users, c \in Contents : AwgCommitEdit(u, c))
            \/ (\E a \in AwgIds, c \in Contents : AwgCommitNew(a, c))
  BY <1>1, <1>3, <1>10 DEF AwgSelect, AwgDelete, Rollback, AwgCommitEdit, StoreEdit, AwgCommitNew,
                           recovery, subscription, built
<1>11. CASE \/ \E u \in Users, a \in AwgIds : OpenEditor(u, a)
            \/ \E u \in Users : CloseEditor(u)
            \/ MenuStart \/ MenuRestart \/ MenuStop \/ CoreDies \/ CoreRestarts \/ NewVersion
            \/ BootRestart \/ UNCHANGED vars
  BY <1>2, <1>11 DEF OpenEditor, CloseEditor, MenuStart, MenuRestart, MenuStop, CoreDies, CoreRestarts,
                     NewVersion, BootRestart, vars, recovery, subscription, built
<1>12. CASE (\E cat \in Catalogs[gen] : SubAdd(cat)) \/ SubRemove \/ MenuEnable \/ MenuDisable
  <2>1. boot = "idle" /\ boot' = "idle" /\ unit' = unit
    BY <1>12 DEF SubAdd, SubRemove, MenuEnable, MenuDisable, recovery, built, Idle
  <2>2. CASE \E cat \in Catalogs[gen] : SubAdd(cat)
    <3>1. timer' = TRUE /\ subUrl' = TRUE /\ enabled' = enabled /\ auto' = auto
      BY <2>2 DEF SubAdd
    <3> QED BY <2>1, <3>1, Zenon DEF ChoicesInv, UnitsFollowChoices
  <2>3. CASE SubRemove
    <3>1. timer' = FALSE /\ subUrl' = FALSE /\ enabled' = enabled /\ auto' = auto
      BY <2>3 DEF SubRemove
    <3> QED BY <2>1, <3>1, Zenon DEF ChoicesInv, UnitsFollowChoices
  <2>4. CASE MenuEnable
    <3>1. timer' = timer /\ subUrl' = subUrl /\ enabled' = TRUE /\ auto' = TRUE
      BY <2>4 DEF MenuEnable, subscription
    <3> QED BY <2>1, <3>1, Zenon DEF ChoicesInv, UnitsFollowChoices
  <2>5. CASE MenuDisable
    <3>1. timer' = timer /\ subUrl' = subUrl /\ enabled' = FALSE /\ auto' = FALSE
      BY <2>5 DEF MenuDisable, subscription
    <3> QED BY <2>1, <3>1, Zenon DEF ChoicesInv, UnitsFollowChoices
  <2> QED BY <1>12, <2>2, <2>3, <2>4, <2>5
<1>13. CASE Reboot
  BY <1>13 DEF Reboot, ChoicesInv, UnitsFollowChoices, units, subscription
<1>14. CASE InstallService
  BY <1>0, <1>14 DEF InstallService, ChoicesInv, UnitsFollowChoices, subscription
<1>15. CASE KeepConfig \/ RebuildConfig \/ Interrupt
  BY <1>15 DEF KeepConfig, RebuildConfig, Interrupt, ChoicesInv, UnitsFollowChoices, units, subscription,
               built
<1>16. CASE RebuildMarker
  <2>1. config.engine \in Engines
    BY <1>0, <1>16 DEF RebuildMarker, TunnelInv, MarkerTellsSource, Engines
  <2> QED BY <1>0, <1>16, <2>1 DEF RebuildMarker, ChoicesInv, UnitsFollowChoices, units, subscription
<1> QED BY <1>7, <1>8, <1>9, <1>10, <1>11, <1>12, <1>13, <1>14, <1>15, <1>16 DEF Next

\* UnitsAreRight: whatever is imported, rolled back, wiped by a firmware upgrade and
\* installed again, the marker and the unit fit the stored config unless boot_recover
\* was interrupted, and service and timer are enabled as the user chose.
THEOREM UnitsAreRight == Spec => []UnitsMatch
<1>1. Init => MarkerFollowsConfig /\ ChoicesInv
  BY DEF Init, MarkerFollowsConfig, Source, ChoicesInv, UnitsFollowChoices
<1>2. IInv /\ MarkerFollowsConfig /\ ChoicesInv /\ [Next]_vars => MarkerFollowsConfig' /\ ChoicesInv'
  BY MarkerNext, ChoicesNext
<1>3. MarkerFollowsConfig /\ ChoicesInv => UnitsMatch
  BY DEF UnitsMatch, ChoicesInv
<1> QED BY <1>1, <1>2, <1>3, Invariance, PTL DEF Spec
=============================================================================
