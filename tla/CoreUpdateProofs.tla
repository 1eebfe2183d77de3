--------------------------- MODULE CoreUpdateProofs ---------------------------
(***************************************************************************)
(* Proofs about CoreUpdate, for any versions, any number of operations and *)
(* any number of faults.                                                   *)
(***************************************************************************)
EXTENDS CoreUpdate, TLAPS

\* Which operation a step belongs to, and what its rollback still has to do.
StepInv ==
  /\ (op = "none") <=> (step = "idle")
  /\ step \in {"place", "check"} => op \in {"update", "install", "ensure"}
  /\ step \in {"fetch", "swap"} => op = "geo"
  /\ step = "service" => op = "update"
  /\ step = "restart" => op \in {"update", "geo"} /\ was
  /\ step \in {"restore", "copy", "revive"} => op \in {"update", "geo"}
  /\ armed => op \in {"update", "geo"}
  /\ step = "copy" => at \in todo
  /\ op = "none" => todo = {}
  /\ \A f \in todo : backup[f] # None
  /\ step = "revive" => todo = {} /\ (missed => ret = "exit")

-----------------------------------------------------------------------------
(* Types of the parts *)

\* A copy is never mistaken for no copy.
LEMMA NoneIsNoAsset == None \notin Assets
BY SentinelsAssumption DEF Assets

\* The least of some places in an order is one of them.
LEMMA FirstPlace ==
    ASSUME NEW S \in SUBSET (1 .. 5), S # {}
    PROVE  Min(S) \in S
<1>1. \E x \in S : \A y \in S : x <= y
  <2>1. CASE 1 \in S
    BY <2>1
  <2>2. CASE 1 \notin S /\ 2 \in S
    BY <2>2
  <2>3. CASE 1 \notin S /\ 2 \notin S /\ 3 \in S
    BY <2>3
  <2>4. CASE 1 \notin S /\ 2 \notin S /\ 3 \notin S /\ 4 \in S
    BY <2>4
  <2>5. CASE 1 \notin S /\ 2 \notin S /\ 3 \notin S /\ 4 \notin S
    <3>1. PICK x : x \in S
      OBVIOUS
    <3>2. \A y \in S : y = 5
      BY <2>5
    <3> QED BY <3>1, <3>2
  <2> QED BY <2>1, <2>2, <2>3, <2>4, <2>5
<1> QED BY <1>1 DEF Min

\* Both orders name files.
LEMMA Orders == \A i \in 1 .. 5 : InstallOrder[i] \in Files /\ RestoreOrder[i] \in Files
BY DEF InstallOrder, RestoreOrder, Files, Cores, OnDemand, Geo

\* The next file to be put back is one of those that are left.
LEMMA NextIsDue ==
    ASSUME todo \subseteq Files, todo # {}
    PROVE  NextUp \in todo
<1> DEFINE S == {i \in 1 .. 5 : RestoreOrder[i] \in todo}
<1>1. S # {}
  <2>1. PICK f \in Files : f \in todo
    OBVIOUS
  <2>2. \E i \in 1 .. 5 : RestoreOrder[i] = f
    BY DEF RestoreOrder, Files, Cores, OnDemand, Geo
  <2> QED BY <2>1, <2>2
<1>2. Min(S) \in S
  BY <1>1, FirstPlace
<1> QED BY <1>2 DEF NextUp

\* An operation that ends leaves the control variables in order.
LEMMA FinishTypes ==
    ASSUME ControlTypes, NEW how \in Outcomes, Finish(how)
    PROVE  ControlTypes' /\ StepInv'
BY ReleasesAssumption DEF ControlTypes, StepInv, Finish, Ops, Steps, Files, Cores

\* So does the start of a rollback.
LEMMA RestoreTypes ==
    ASSUME ControlTypes, StepInv, NEW then \in {"quiet", "revive", "exit"},
           op \in {"update", "geo"}, Restore(then), at' = at
    PROVE  ControlTypes' /\ StepInv'
<1>1. ControlTypes'
  BY DEF ControlTypes, Restore, Steps
<1>2. StepInv'
  BY DEF StepInv, Restore
<1> QED BY <1>1, <1>2

LEMMA OnExitTypes ==
    ASSUME ControlTypes, StepInv, NEW c \in [Files -> Assets \cup {None}], OnExit(c)
    PROVE  ControlTypes' /\ StepInv'
<1>1. CASE armed
  <2>1. ControlTypes'
    BY <1>1 DEF OnExit, ControlTypes, Steps
  <2>2. StepInv'
    BY <1>1 DEF OnExit, StepInv
  <2> QED BY <2>1, <2>2
<1>2. CASE ~armed
  BY <1>2, FinishTypes DEF OnExit, Outcomes
<1> QED BY <1>1, <1>2

\* The next file of an installation, when there is one.
LEMMA LaterFiles ==
    ASSUME NEW f \in Files, Later(f) # {}
    PROVE  InstallOrder[Min(Later(f))] \in Files
BY FirstPlace, Orders DEF Later

LEMMA ProceedTypes ==
    ASSUME ControlTypes, StepInv, NEW f \in Files, at = f, step \in {"place", "check"},
           Proceed(f)
    PROVE  ControlTypes' /\ StepInv'
<1>0. op \in {"update", "install", "ensure"}
  BY DEF StepInv
<1>1. CASE op = "ensure" \/ Later(f) = {}
  <2>1. CASE op = "update"
    <3>1. /\ step' = "service" /\ at' = at
          /\ UNCHANGED <<op, target, backup, armed, was, todo, ret, missed, outcome>>
      BY <1>1, <2>1 DEF Proceed, Finished, Goto
    <3>2. ControlTypes'
      BY <3>1 DEF ControlTypes, Steps
    <3>3. StepInv'
      BY <2>1, <3>1 DEF StepInv
    <3> QED BY <3>2, <3>3
  <2>2. CASE op # "update"
    <3>1. Finish("installed")
      BY <1>0, <1>1, <2>2 DEF Proceed, Finished
    <3> QED BY <3>1, FinishTypes DEF Outcomes
  <2> QED BY <2>1, <2>2
<1>2. CASE ~(op = "ensure" \/ Later(f) = {})
  <2>1. /\ step' = "place" /\ at' = InstallOrder[Min(Later(f))]
        /\ UNCHANGED <<op, target, backup, armed, was, todo, ret, missed, outcome>>
    BY <1>2 DEF Proceed, Goto
  <2>2. ControlTypes'
    BY <1>2, <2>1, LaterFiles DEF ControlTypes, Steps
  <2>3. StepInv'
    BY <1>0, <2>1 DEF StepInv
  <2> QED BY <2>2, <2>3
<1> QED BY <1>1, <1>2

LEMMA InstallFailsTypes ==
    ASSUME ControlTypes, StepInv, NEW f \in Files, at = f, step \in {"place", "check"},
           InstallFails(f)
    PROVE  ControlTypes' /\ StepInv'
<1>1. CASE op = "update"
  BY <1>1, RestoreTypes DEF InstallFails
<1>2. CASE op = "install" /\ f \in OnDemand
  BY <1>2, ProceedTypes DEF InstallFails
<1>3. CASE ~(op = "update") /\ ~(op = "install" /\ f \in OnDemand)
  BY <1>3, FinishTypes DEF InstallFails, Outcomes
<1> QED BY <1>1, <1>2, <1>3

\* A core that starts has read files of its own.
LEMMA LoadTypes ==
    ASSUME FileTypes, NEW e \in Cores
    PROVE  [f \in Uses(e) |-> files[f]] \in UNION {[Uses(d) -> Assets] : d \in Cores}
<1>1. Uses(e) \subseteq Files
  BY DEF Uses, Files, Cores, Geo, OnDemand
<1>2. [f \in Uses(e) |-> files[f]] \in [Uses(e) -> Assets]
  BY <1>1 DEF FileTypes
<1> QED BY <1>2

\* What is set aside of a core is a version that runs.
LEMMA BackupTypes ==
    ASSUME FileTypes, NEW f \in Files
    PROVE  Backup(f) \in [Cores -> Versions \cup {Absent}]
BY DEF FileTypes, Backup, Executable

\* What a step installs is a version of something.
LEMMA WantedTypes ==
    ASSUME ControlTypes, NEW f \in Files
    PROVE  Wanted(f) \in Assets
BY ReleasesAssumption DEF ControlTypes, Wanted, Assets

LEMMA TargetTypes ==
    ASSUME ServiceTypes, NEW answered \in BOOLEAN
    PROVE  XrayTarget(answered) \in Versions
BY ReleasesAssumption DEF XrayTarget

LEMMA BeginTypes ==
    ASSUME TypeOK, StepInv, op = "none", NEW o \in Ops, NEW s \in Steps, NEW f \in Files,
           NEW t \in Versions \cup GeoReleases, Begin(o, s, f, t),
           backup' \in [Files -> Assets \cup {None}], armed' \in BOOLEAN,
           \/ o \in {"update", "install", "ensure"} /\ s = "place"
           \/ o = "geo" /\ s = "fetch",
           armed' => o = "update"
    PROVE  FileTypes' /\ ServiceTypes' /\ ControlTypes' /\ HistoryTypes' /\ StepInv'
<1>1. (~Synced) \in BOOLEAN /\ (unit = "active") \in BOOLEAN
  BY DEF Synced
<1>2. HistoryTypes'
  BY <1>1, Zenon DEF TypeOK, HistoryTypes, FileTypes, ServiceTypes, Begin
<1>3. ControlTypes'
  BY <1>1 DEF TypeOK, ControlTypes, Begin, Goto, Outcomes
<1>4. FileTypes' /\ ServiceTypes'
  BY DEF TypeOK, FileTypes, ServiceTypes, Begin, fileVars, service
<1>5. StepInv'
  BY DEF StepInv, Begin, Goto
<1> QED BY <1>2, <1>3, <1>4, <1>5

-----------------------------------------------------------------------------
(* Type correctness *)

LEMMA InitTypes == Init => TypeOK /\ StepInv
<1> SUFFICES ASSUME Init PROVE TypeOK /\ StepInv
  OBVIOUS
<1>1. FileTypes
  BY DEF Init, FileTypes
<1>2. ServiceTypes
  BY <1>1, ReleasesAssumption DEF Init, ServiceTypes, FileTypes, Executable, Units
<1>3. ControlTypes
  BY ReleasesAssumption DEF Init, ControlTypes, Ops, Steps, Files, Cores, Outcomes
<1>4. HistoryTypes
  BY <1>1 DEF Init, HistoryTypes, FileTypes, Units
<1>5. StepInv
  BY DEF Init, StepInv
<1> QED BY <1>1, <1>2, <1>3, <1>4, <1>5, FaultsAssumption DEF Init, TypeOK

\* Counting a fault or a run keeps the counter in range.
LEMMA CountTypes ==
    ASSUME TypeOK
    PROVE  /\ Fault => faults' \in 0 .. MaxFaults
           /\ Run => runs' \in 0 .. MaxRuns
BY FaultsAssumption DEF TypeOK, Fault, Run

LEMMA BeginsType ==
    ASSUME TypeOK, StepInv,
           BeginUpdate \/ BeginInstall \/ BeginGeo \/ \E f \in OnDemand : BeginEnsure(f)
    PROVE  TypeOK' /\ StepInv'
<1>1. CASE BeginUpdate
  <2>1. PICK answered \in BOOLEAN :
           /\ IF answered THEN UNCHANGED faults ELSE Fault
           /\ IF CoresCurrent(XrayTarget(answered))
              THEN /\ outcome' = "current"
                   /\ UNCHANGED <<fileVars, release, engine, service, control>> /\ Forget
              ELSE /\ Begin("update", "place", "xray", XrayTarget(answered))
                   /\ backup' = files /\ armed' = TRUE
    BY <1>1 DEF BeginUpdate
  <2>2. runs' \in 0 .. MaxRuns /\ faults' \in 0 .. MaxFaults
    BY <1>1, <2>1, CountTypes DEF TypeOK, BeginUpdate
  <2>3. CASE CoresCurrent(XrayTarget(answered))
    <3>1. outcome' = "current" /\ UNCHANGED <<fileVars, release, engine, service, control>> /\ Forget
      BY <2>1, <2>3
    <3>2. FileTypes' /\ ServiceTypes'
      BY <3>1 DEF TypeOK, FileTypes, ServiceTypes, fileVars, service
    <3>3. ControlTypes'
      BY <3>1 DEF TypeOK, ControlTypes, control, Outcomes
    <3>4. HistoryTypes'
      BY <3>1, <3>2 DEF HistoryTypes, FileTypes, ServiceTypes, Forget
    <3>5. StepInv'
      BY <3>1 DEF StepInv, control
    <3> QED BY <2>2, <3>2, <3>3, <3>4, <3>5 DEF TypeOK
  <2>4. CASE ~CoresCurrent(XrayTarget(answered))
    <3>1. Begin("update", "place", "xray", XrayTarget(answered)) /\ backup' = files /\ armed' = TRUE
      BY <2>1, <2>4
    <3>2. XrayTarget(answered) \in Versions
      BY TargetTypes DEF TypeOK
    <3>3. backup' \in [Files -> Assets \cup {None}] /\ armed' \in BOOLEAN
      BY <3>1 DEF TypeOK, FileTypes
    <3>4. FileTypes' /\ ServiceTypes' /\ ControlTypes' /\ HistoryTypes' /\ StepInv'
      BY <1>1, <3>1, <3>2, <3>3, BeginTypes DEF BeginUpdate, Ops, Steps, Files, Cores
    <3> QED BY <2>2, <3>4 DEF TypeOK
  <2> QED BY <2>3, <2>4
<1>2. CASE BeginInstall
  <2>1. PICK answered \in BOOLEAN :
           /\ IF answered THEN UNCHANGED faults ELSE Fault
           /\ Begin("install", "place", "xray", XrayTarget(answered))
    BY <1>2 DEF BeginInstall
  <2>2. runs' \in 0 .. MaxRuns /\ faults' \in 0 .. MaxFaults
    BY <1>2, <2>1, CountTypes DEF TypeOK, BeginInstall
  <2>3. XrayTarget(answered) \in Versions
    BY TargetTypes DEF TypeOK
  <2>4. backup' \in [Files -> Assets \cup {None}] /\ armed' \in BOOLEAN
    BY <1>2 DEF TypeOK, ControlTypes, BeginInstall
  <2>6. ~armed'
    BY <1>2 DEF StepInv, BeginInstall
  <2>5. FileTypes' /\ ServiceTypes' /\ ControlTypes' /\ HistoryTypes' /\ StepInv'
    BY <2>1, <2>3, <2>4, <2>6, <1>2, BeginTypes DEF BeginInstall, Ops, Steps, Files, Cores
  <2> QED BY <2>2, <2>5 DEF TypeOK
<1>3. CASE BeginGeo
  <2>1. PICK g \in GeoReleases : Begin("geo", "fetch", "geoip", g)
    BY <1>3 DEF BeginGeo
  <2>2. runs' \in 0 .. MaxRuns /\ faults' \in 0 .. MaxFaults
    BY <1>3, CountTypes DEF TypeOK, BeginGeo
  <2>3. backup' \in [Files -> Assets \cup {None}] /\ armed' \in BOOLEAN
    BY <1>3 DEF TypeOK, ControlTypes, BeginGeo
  <2>5. ~armed'
    BY <1>3 DEF StepInv, BeginGeo
  <2>4. FileTypes' /\ ServiceTypes' /\ ControlTypes' /\ HistoryTypes' /\ StepInv'
    BY <2>1, <2>3, <2>5, <1>3, BeginTypes DEF BeginGeo, Ops, Steps, Files, Geo
  <2> QED BY <2>2, <2>4 DEF TypeOK
<1>4. ASSUME NEW f \in OnDemand, BeginEnsure(f) PROVE TypeOK' /\ StepInv'
  <2>1. runs' \in 0 .. MaxRuns /\ faults' \in 0 .. MaxFaults
    BY <1>4, CountTypes DEF TypeOK, BeginEnsure
  <2>2. backup' \in [Files -> Assets \cup {None}] /\ armed' \in BOOLEAN
    BY <1>4 DEF TypeOK, ControlTypes, BeginEnsure
  <2>4. ~armed'
    BY <1>4 DEF StepInv, BeginEnsure
  <2>3. FileTypes' /\ ServiceTypes' /\ ControlTypes' /\ HistoryTypes' /\ StepInv'
    BY <1>4, <2>2, <2>4, BeginTypes, ReleasesAssumption DEF BeginEnsure, Ops, Steps, Files, Cores
  <2> QED BY <2>1, <2>3 DEF TypeOK
<1> QED BY <1>1, <1>2, <1>3, <1>4

\* What every step of an operation leaves to be shown.
LEMMA StepTypes ==
    ASSUME TypeOK, Outside, FileTypes', unit' \in Units,
           loaded' \in {None} \cup UNION {[Uses(e) -> Assets] : e \in Cores},
           ControlTypes', HistoryTypes', faults' = faults \/ Fault
    PROVE  TypeOK'
<1>1. faults' \in 0 .. MaxFaults
  BY CountTypes DEF TypeOK
<1>2. runs' \in 0 .. MaxRuns
  BY DEF TypeOK, Outside
<1>3. ServiceTypes'
  BY DEF TypeOK, ServiceTypes, Outside
<1> QED BY <1>1, <1>2, <1>3 DEF TypeOK

\* The same for a step that leaves the service and the history alone.
LEMMA QuietStepTypes ==
    ASSUME TypeOK, Outside, FileTypes', ControlTypes', UNCHANGED <<service, history>>,
           faults' = faults \/ Fault
    PROVE  TypeOK'
<1>1. unit' = unit /\ loaded' = loaded /\ HistoryTypes'
  BY DEF TypeOK, HistoryTypes, service, history
<1> QED BY <1>1, StepTypes DEF TypeOK, ServiceTypes

\* A core that starts or stops.
LEMMA CoreTypes ==
    ASSUME TypeOK, CoreUp \/ CoreDown
    PROVE  /\ unit' \in Units
           /\ loaded' \in {None} \cup UNION {[Uses(e) -> Assets] : e \in Cores}
BY LoadTypes DEF TypeOK, ServiceTypes, CoreUp, CoreDown, Loads, Units

LEMMA InstallSteps ==
    ASSUME TypeOK, StepInv, Outside, NEW f \in Files,
           Place(f) \/ PlaceFails(f) \/ (f \in Cores /\ (Check(f) \/ CheckFails(f)))
    PROVE  TypeOK' /\ StepInv'
<1>1. at = f /\ step \in {"place", "check"}
  BY DEF Place, PlaceFails, Check, CheckFails
<1>2. Backup(f) \in [Cores -> Versions \cup {Absent}] /\ Wanted(f) \in Assets
  BY BackupTypes, WantedTypes DEF TypeOK
<1>3. CASE Place(f)
  <2>1. FileTypes'
    BY <1>2, <1>3 DEF TypeOK, FileTypes, Place
  <2>2. CASE f \in Cores
    <3>1. /\ step' = "check" /\ at' = f
          /\ UNCHANGED <<op, target, backup, armed, was, todo, ret, missed, outcome>>
      BY <1>3, <2>2 DEF Place, Goto
    <3>2. ControlTypes' /\ StepInv'
      BY <1>1, <1>3, <3>1 DEF TypeOK, ControlTypes, StepInv, Steps, Place
    <3> QED BY <1>3, <2>1, <3>2, QuietStepTypes DEF Place
  <2>3. CASE f \notin Cores
    BY <1>1, <1>3, <2>1, <2>3, ProceedTypes, QuietStepTypes DEF Place, TypeOK
  <2> QED BY <2>2, <2>3
<1>4. CASE PlaceFails(f)
  <2>1. FileTypes'
    BY <1>2, <1>4 DEF TypeOK, FileTypes, PlaceFails
  <2> QED BY <1>1, <1>4, <2>1, InstallFailsTypes, QuietStepTypes DEF PlaceFails, TypeOK
<1>5. CASE f \in Cores /\ Check(f)
  <2>1. FileTypes'
    BY <1>5 DEF TypeOK, FileTypes, Check
  <2> QED BY <1>1, <1>5, <2>1, ProceedTypes, QuietStepTypes DEF Check, TypeOK
<1>6. CASE f \in Cores /\ CheckFails(f)
  <2>1. FileTypes'
    BY <1>6 DEF TypeOK, FileTypes, CheckFails, Assets
  <2> QED BY <1>1, <1>6, <2>1, InstallFailsTypes, QuietStepTypes DEF CheckFails, TypeOK
<1> QED BY <1>3, <1>4, <1>5, <1>6

LEMMA GeoSteps ==
    ASSUME TypeOK, StepInv, Outside, NEW f \in Files,
           Fetch(f) \/ FetchFails \/ Swap(f) \/ SwapFails
    PROVE  TypeOK' /\ StepInv'
<1>1. op = "geo"
  BY DEF StepInv, Fetch, FetchFails, Swap, SwapFails
<1>2. CASE Fetch(f)
  <2>1. FileTypes'
    BY <1>2 DEF TypeOK, FileTypes, Fetch, fileVars
  <2>2. ControlTypes'
    BY <1>2 DEF TypeOK, FileTypes, ControlTypes, Steps, Fetch, Goto
  <2>3. files[f] # None /\ backup' = [backup EXCEPT ![f] = files[f]]
    BY <1>2, NoneIsNoAsset DEF TypeOK, FileTypes, Fetch
  <2>4. StepInv'
    BY <1>1, <1>2, <2>3 DEF TypeOK, ControlTypes, StepInv, Fetch, Goto
  <2> QED BY <1>2, <2>1, <2>2, <2>4, QuietStepTypes DEF Fetch
<1>3. CASE FetchFails
  <2>1. FileTypes'
    BY <1>3 DEF TypeOK, FileTypes, FetchFails, fileVars
  <2>2. PICK part \in {None, Torn} : OnExit([backup EXCEPT ![at] = part])
    BY <1>3 DEF FetchFails
  <2>3. [backup EXCEPT ![at] = part] \in [Files -> Assets \cup {None}]
    BY DEF TypeOK, ControlTypes, Assets
  <2>4. ControlTypes' /\ StepInv'
    BY <2>2, <2>3, OnExitTypes DEF TypeOK
  <2> QED BY <1>3, <2>1, <2>4, QuietStepTypes DEF FetchFails
<1>4. CASE Swap(f)
  <2>1. FileTypes'
    BY <1>4 DEF TypeOK, FileTypes, ControlTypes, Swap, Assets
  <2>2. ControlTypes' /\ StepInv'
    <3>1. CASE Finish("geo_updated")
      BY <3>1, FinishTypes DEF TypeOK, Outcomes
    <3>2. CASE ~Finish("geo_updated")
      <4>1. /\ \/ step' = "fetch" /\ at' = "geosite"
               \/ step' = "restart" /\ at' = f /\ was
            /\ UNCHANGED <<op, target, backup, armed, was, todo, ret, missed, outcome>>
        BY <1>4, <3>2 DEF Swap, Goto
      <4>2. ControlTypes'
        BY <4>1 DEF TypeOK, ControlTypes, Steps, Files, Geo
      <4>3. StepInv'
        BY <1>1, <4>1 DEF StepInv
      <4> QED BY <4>2, <4>3
    <3> QED BY <3>1, <3>2
  <2> QED BY <1>4, <2>1, <2>2, QuietStepTypes DEF Swap
<1>5. CASE SwapFails
  <2>1. FileTypes'
    BY <1>5 DEF TypeOK, FileTypes, SwapFails, fileVars
  <2>2. ControlTypes' /\ StepInv'
    <3>1. backup \in [Files -> Assets \cup {None}] /\ ControlTypes
      BY DEF TypeOK, ControlTypes
    <3> QED BY <1>1, <1>5, <3>1, RestoreTypes, OnExitTypes DEF SwapFails
  <2> QED BY <1>5, <2>1, <2>2, QuietStepTypes DEF SwapFails
<1> QED BY <1>2, <1>3, <1>4, <1>5

LEMMA RestartSteps ==
    ASSUME TypeOK, StepInv, Outside,
           WriteService \/ WriteServiceFails \/ Restart \/ RestartFails
    PROVE  TypeOK' /\ StepInv'
<1>1. op \in {"update", "geo"} /\ (step = "restart" => was)
  BY DEF StepInv, WriteService, WriteServiceFails, Restart, RestartFails
<1>2. FileTypes' /\ HistoryTypes'
  BY DEF TypeOK, FileTypes, HistoryTypes, WriteService, WriteServiceFails, Restart,
         RestartFails, fileVars, history
<1>3. CASE WriteService
  <2>1. ControlTypes' /\ StepInv'
    <3>1. CASE was
      <4>1. /\ step' = "restart" /\ at' = at
            /\ UNCHANGED <<op, target, backup, armed, was, todo, ret, missed, outcome>>
        BY <1>3, <3>1 DEF WriteService, Goto
      <4>2. ControlTypes'
        BY <4>1 DEF TypeOK, ControlTypes, Steps
      <4>3. StepInv'
        BY <1>1, <3>1, <4>1 DEF StepInv
      <4> QED BY <4>2, <4>3
    <3>2. CASE ~was
      BY <1>3, <3>2, FinishTypes DEF WriteService, TypeOK, Outcomes
    <3> QED BY <3>1, <3>2
  <2> QED BY <1>2, <1>3, <2>1, QuietStepTypes DEF WriteService
<1>4. CASE WriteServiceFails
  BY <1>1, <1>2, <1>4, RestoreTypes, QuietStepTypes DEF WriteServiceFails, TypeOK
<1>5. CASE Restart
  <2>1. ControlTypes' /\ StepInv'
    BY <1>5, FinishTypes DEF Restart, TypeOK, Outcomes
  <2> QED BY <1>2, <1>5, <2>1, CoreTypes, StepTypes DEF Restart
<1>6. CASE RestartFails
  <2>1. ControlTypes' /\ StepInv'
    BY <1>1, <1>6, RestoreTypes DEF RestartFails, TypeOK
  <2>2. (CoreUp \/ CoreDown) /\ (faults' = faults \/ Fault)
    BY <1>6 DEF RestartFails
  <2> QED BY <1>2, <2>1, <2>2, CoreTypes, StepTypes
<1> QED BY <1>3, <1>4, <1>5, <1>6

LEMMA RollbackSteps ==
    ASSUME TypeOK, StepInv, Outside, NEW f \in Files,
           PutBack(f) \/ Copy(f) \/ PutBackFails(f) \/ PutBackDone \/ Revive
    PROVE  TypeOK' /\ StepInv'
<1>1. op \in {"update", "geo"}
  BY DEF StepInv, PutBack, Copy, PutBackFails, PutBackDone, Revive, Restoring
<1>2. CASE PutBack(f)
  <2>1. FileTypes'
    BY <1>2 DEF TypeOK, FileTypes, PutBack, Assets
  <2>2. f \in todo
    BY <1>2, NextIsDue DEF PutBack, Restoring, TypeOK, ControlTypes
  <2>3. ControlTypes'
    BY <1>2 DEF TypeOK, ControlTypes, PutBack, Goto, Steps
  <2>4. StepInv'
    BY <1>1, <1>2, <2>2 DEF StepInv, PutBack, Goto, Restoring
  <2> QED BY <1>2, <2>1, <2>3, <2>4, QuietStepTypes DEF PutBack
<1>3. CASE Copy(f)
  <2>1. backup[f] \in Assets
    BY <1>3 DEF StepInv, Copy, TypeOK, ControlTypes
  <2>2. FileTypes'
    BY <1>3, <2>1 DEF TypeOK, FileTypes, Copy
  <2>3. ControlTypes'
    BY <1>3 DEF TypeOK, ControlTypes, Copy, Goto, Steps
  <2>4. StepInv'
    BY <1>1, <1>3 DEF StepInv, Copy, Goto
  <2> QED BY <1>3, <2>2, <2>3, <2>4, QuietStepTypes DEF Copy
<1>4. CASE PutBackFails(f)
  <2>1. FileTypes'
    BY <1>4 DEF TypeOK, FileTypes, PutBackFails, fileVars
  <2>2. ControlTypes'
    BY <1>4 DEF TypeOK, ControlTypes, PutBackFails, Goto, Steps
  <2>3. StepInv'
    BY <1>1, <1>4 DEF StepInv, PutBackFails, Goto
  <2> QED BY <1>4, <2>1, <2>2, <2>3, QuietStepTypes DEF PutBackFails
<1>5. CASE PutBackDone
  <2>1. FileTypes'
    BY <1>5 DEF TypeOK, FileTypes, PutBackDone, fileVars
  <2>2. ControlTypes' /\ StepInv'
    <3>1. CASE missed /\ ret # "exit"
      BY <1>1, <1>5, <3>1, RestoreTypes DEF PutBackDone, TypeOK
    <3>2. CASE ~missed /\ ret = "quiet"
      BY <1>5, <3>2, FinishTypes DEF PutBackDone, TypeOK, Outcomes
    <3>3. CASE ~(missed /\ ret # "exit") /\ ~(~missed /\ ret = "quiet")
      <4>1. /\ step' = "revive" /\ at' = at /\ armed' = FALSE
            /\ UNCHANGED <<op, target, backup, was, todo, ret, missed, outcome>>
        BY <1>5, <3>3 DEF PutBackDone, Goto
      <4>2. ControlTypes'
        BY <4>1 DEF TypeOK, ControlTypes, Steps
      <4>3. StepInv'
        BY <1>1, <1>5, <3>3, <4>1 DEF StepInv, PutBackDone
      <4> QED BY <4>2, <4>3
    <3> QED BY <3>1, <3>2, <3>3
  <2> QED BY <1>5, <2>1, <2>2, QuietStepTypes DEF PutBackDone
<1>6. CASE Revive
  <2>1. FileTypes' /\ HistoryTypes'
    BY <1>6 DEF TypeOK, FileTypes, HistoryTypes, Revive, fileVars, history
  <2>2. ControlTypes' /\ StepInv'
    BY <1>6, FinishTypes DEF Revive, TypeOK, Outcomes
  <2>3. /\ unit' \in Units
        /\ loaded' \in {None} \cup UNION {[Uses(e) -> Assets] : e \in Cores}
    BY <1>6, CoreTypes DEF Revive, Units
  <2> QED BY <1>6, <2>1, <2>2, <2>3, StepTypes DEF Revive
<1> QED BY <1>2, <1>3, <1>4, <1>5, <1>6

\* Signals, kills, systemd, the menu and the world outside.
LEMMA OtherSteps ==
    ASSUME TypeOK, StepInv, NEW e \in Cores,
           \/ (Signal \/ Kill \/ CoreDies \/ CoreRestarts \/ MenuStart \/ MenuStop) /\ Outside
           \/ ImportFor(e) \/ NewRelease
    PROVE  TypeOK' /\ StepInv'
<1>1. CASE Signal /\ Outside
  <2>1. FileTypes'
    BY <1>1 DEF TypeOK, FileTypes, Signal, fileVars
  <2>2. ControlTypes' /\ StepInv'
    <3>1. backup \in [Files -> Assets \cup {None}] /\ ControlTypes
      BY DEF TypeOK, ControlTypes
    <3> QED BY <1>1, <3>1, OnExitTypes, FinishTypes DEF Signal, Outcomes
  <2> QED BY <1>1, <2>1, <2>2, QuietStepTypes DEF Signal
<1>2. CASE Kill /\ Outside
  <2>1. FileTypes' /\ HistoryTypes' /\ UNCHANGED service
    BY <1>2 DEF TypeOK, FileTypes, ServiceTypes, HistoryTypes, Kill, Forget, fileVars, service
  <2>2. ControlTypes' /\ StepInv'
    BY <1>2, FinishTypes DEF Kill, TypeOK, Outcomes
  <2> QED BY <1>2, <2>1, <2>2, StepTypes DEF Kill, TypeOK, ServiceTypes, service
<1>3. CASE (CoreDies \/ CoreRestarts) /\ Outside
  <2>1. /\ FileTypes' /\ HistoryTypes'
        /\ UNCHANGED <<control, outcome>> /\ (faults' = faults \/ Fault)
        /\ CoreUp \/ CoreDown
    BY <1>3 DEF TypeOK, FileTypes, HistoryTypes, CoreDies, CoreRestarts, fileVars, history
  <2>2. ControlTypes' /\ StepInv'
    BY <2>1 DEF TypeOK, ControlTypes, StepInv, control
  <2> QED BY <1>3, <2>1, <2>2, CoreTypes, StepTypes
<1>4. CASE (MenuStart \/ MenuStop) /\ Outside
  <2>1. UNCHANGED <<fileVars, control, faults>> /\ outcome' = "none" /\ Forget
    BY <1>4 DEF MenuStart, MenuStop
  <2>2. ControlTypes' /\ StepInv'
    BY <2>1 DEF TypeOK, ControlTypes, StepInv, control, Outcomes
  <2>3. /\ unit' \in Units
        /\ loaded' \in {None} \cup UNION {[Uses(d) -> Assets] : d \in Cores}
    BY <1>4, CoreTypes DEF MenuStart, MenuStop, Units
  <2>4. FileTypes' /\ HistoryTypes'
    BY <2>1, <2>3 DEF TypeOK, FileTypes, HistoryTypes, Forget, fileVars
  <2> QED BY <1>4, <2>1, <2>2, <2>3, <2>4, StepTypes
<1>5. CASE ImportFor(e)
  <2>1. UNCHANGED <<fileVars, release, control, faults>> /\ outcome' = "none" /\ Forget /\ Run /\ engine' = e
    BY <1>5 DEF ImportFor
  <2>2. ControlTypes' /\ StepInv'
    BY <2>1 DEF TypeOK, ControlTypes, StepInv, control, Outcomes
  <2>3. ServiceTypes'
    BY <1>5, <2>1, LoadTypes DEF TypeOK, ServiceTypes, ImportFor, service, Units
  <2>4. FileTypes' /\ HistoryTypes'
    BY <2>1, <2>3 DEF TypeOK, FileTypes, ServiceTypes, HistoryTypes, Forget, fileVars
  <2> QED BY <2>1, <2>2, <2>3, <2>4, CountTypes DEF TypeOK
<1>6. CASE NewRelease
  <2>1. /\ UNCHANGED <<fileVars, engine, service, control, outcome, history, runs, faults>>
        /\ release' \in Versions
    BY <1>6, ReleasesAssumption DEF NewRelease, TypeOK, ServiceTypes, Versions
  <2>2. ControlTypes' /\ StepInv'
    BY <2>1 DEF TypeOK, ControlTypes, StepInv, control
  <2>3. FileTypes' /\ ServiceTypes' /\ HistoryTypes'
    BY <2>1 DEF TypeOK, FileTypes, ServiceTypes, HistoryTypes, fileVars, service, history
  <2> QED BY <2>1, <2>2, <2>3 DEF TypeOK
<1> QED BY <1>1, <1>2, <1>3, <1>4, <1>5, <1>6

LEMMA NextTypes == TypeOK /\ StepInv /\ [Next]_vars => TypeOK' /\ StepInv'
<1> SUFFICES ASSUME TypeOK, StepInv, [Next]_vars PROVE TypeOK' /\ StepInv'
  OBVIOUS
<1>1. CASE BeginUpdate \/ BeginInstall \/ BeginGeo \/ \E f \in OnDemand : BeginEnsure(f)
  BY <1>1, BeginsType
<1>2. CASE OpStep /\ Outside
  <2>1. Cores \subseteq Files /\ Files # {}
    BY DEF Files, Cores
  <2> QED BY <1>2, <2>1, InstallSteps, GeoSteps, RestartSteps, RollbackSteps DEF OpStep
<1>3. CASE OpFails /\ Outside
  <2>1. Cores \subseteq Files /\ Files # {}
    BY DEF Files, Cores
  <2> QED BY <1>3, <2>1, InstallSteps, GeoSteps, RestartSteps, RollbackSteps DEF OpFails
<1>4. CASE \/ (Signal \/ Kill \/ CoreDies \/ CoreRestarts \/ MenuStart \/ MenuStop) /\ Outside
           \/ \E e \in Cores : ImportFor(e)
           \/ NewRelease
  <2>1. Cores # {}
    BY DEF Cores
  <2> QED BY <1>4, <2>1, OtherSteps
<1>5. CASE UNCHANGED vars
  BY <1>5 DEF vars, fileVars, service, control, history, TypeOK, FileTypes, ServiceTypes,
              ControlTypes, HistoryTypes, StepInv
<1> QED BY <1>1, <1>2, <1>3, <1>4, <1>5 DEF Next

\* Every variable keeps to its range, and every step belongs to an operation
\* that can take it: no operation comes to a step it has no branch for.
THEOREM TypeCorrect == Spec => []TypeOK
<1>1. Spec => [](TypeOK /\ StepInv)
  BY InitTypes, NextTypes, PTL DEF Spec
<1> QED BY <1>1, PTL

-----------------------------------------------------------------------------
(* The service is left as the user wanted it *)

\* The service was recorded as it is, unless it waited for systemd.
ServiceInv ==
  op # "none" /\ unit0 # "waiting" => /\ was <=> unit0 = "active"
                                      /\ unit = "inactive" <=> unit0 = "inactive"

\* A step of an operation goes on with it, or ends it.
LEMMA StaysOrEnds ==
    ASSUME StepInv, OpStep \/ OpFails \/ Signal \/ Kill
    PROVE  UNCHANGED <<op, was>> \/ op' = "none"
<1>1. ASSUME NEW f \in Files, Proceed(f), step \in {"place", "check"}
      PROVE  UNCHANGED <<op, was>> \/ op' = "none"
  <2>1. op \in {"update", "install", "ensure"}
    BY <1>1 DEF StepInv
  <2> QED BY <1>1, <2>1 DEF Proceed, Finished, Finish
<1>2. ASSUME NEW f \in Files, InstallFails(f), step \in {"place", "check"}
      PROVE  UNCHANGED <<op, was>> \/ op' = "none"
  BY <1>1, <1>2 DEF InstallFails, Restore, Finish
<1>3. Cores \subseteq Files
  BY DEF Files
<1>4. CASE OpStep
  BY <1>1, <1>3, <1>4 DEF OpStep, Place, Check, Fetch, Swap, PutBack, Copy, WriteService,
     Restart, PutBackDone, Revive, Finish, Restore
<1>5. CASE OpFails
  BY <1>2, <1>3, <1>5 DEF OpFails, PlaceFails, CheckFails, FetchFails, SwapFails,
     PutBackFails, WriteServiceFails, RestartFails, OnExit, Finish, Restore
<1>6. CASE Signal \/ Kill
  BY <1>6 DEF Signal, Kill, OnExit, Finish
<1> QED BY <1>4, <1>5, <1>6

\* The steps of an operation that touch the service.
LEMMA ServiceTouched ==
    ASSUME OpStep \/ OpFails \/ Signal \/ Kill
    PROVE  \/ UNCHANGED service /\ (UNCHANGED history \/ op' = "none")
           \/ (Restart \/ RestartFails \/ Revive) /\ UNCHANGED history
<1>1. CASE OpStep
  BY <1>1 DEF OpStep, Place, Check, Fetch, Swap, PutBack, Copy, WriteService, Restart,
     PutBackDone, Revive
<1>2. CASE OpFails
  BY <1>2 DEF OpFails, PlaceFails, CheckFails, FetchFails, SwapFails, PutBackFails,
     WriteServiceFails, RestartFails
<1>3. CASE Signal
  BY <1>3 DEF Signal
<1>4. CASE Kill
  BY <1>4 DEF Kill, Finish
<1> QED BY <1>1, <1>2, <1>3, <1>4

LEMMA ServiceNext ==
    ASSUME TypeOK, StepInv, ServiceInv, [Next]_vars
    PROVE  /\ ServiceInv'
           /\ op # "none" /\ unit0 # "waiting" => (unit = "inactive" <=> unit' = "inactive")
<1>1. CASE OpStep \/ OpFails \/ Signal \/ Kill
  <2>1. UNCHANGED <<op, was>> \/ op' = "none"
    BY <1>1, StaysOrEnds
  <2>2. CASE UNCHANGED service /\ (UNCHANGED history \/ op' = "none")
    BY <2>1, <2>2 DEF ServiceInv, service, history
  <2>3. CASE (Restart \/ RestartFails) /\ UNCHANGED history
    <3>1. was /\ unit' # "inactive" /\ op # "none"
      BY <2>3 DEF StepInv, Restart, RestartFails, CoreUp, CoreDown
    <3> QED BY <2>1, <2>3, <3>1 DEF ServiceInv, history
  <2>4. CASE Revive /\ UNCHANGED history
    <3>1. /\ op # "none" /\ op' = "none"
          /\ IF was THEN unit' # "inactive" ELSE unit' = "inactive"
      BY <2>4 DEF StepInv, Revive, CoreUp, CoreDown, Finish
    <3> QED BY <3>1 DEF ServiceInv, TypeOK, HistoryTypes, Units
  <2> QED BY <1>1, <2>2, <2>3, <2>4, ServiceTouched
<1>2. CASE BeginUpdate \/ BeginInstall \/ BeginGeo \/ \E f \in OnDemand : BeginEnsure(f)
  <2>1. op = "none"
    BY <1>2 DEF BeginUpdate, BeginInstall, BeginGeo, BeginEnsure
  <2>2. op' = "none" \/ (was' = (unit = "active") /\ unit0' = unit /\ unit' = unit)
    <3>1. ASSUME NEW o, NEW st, NEW f, NEW t, Begin(o, st, f, t)
          PROVE  was' = (unit = "active") /\ unit0' = unit /\ unit' = unit
      BY <3>1 DEF Begin, service
    <3> QED BY <1>2, <2>1, <3>1 DEF BeginUpdate, BeginInstall, BeginGeo, BeginEnsure, control
  <2> QED BY <2>1, <2>2 DEF ServiceInv
<1>3. CASE CoreDies \/ CoreRestarts
  BY <1>3 DEF ServiceInv, CoreDies, CoreRestarts, CoreUp, CoreDown, control, history
<1>4. CASE MenuStart \/ MenuStop \/ (\E e \in Cores : ImportFor(e)) \/ NewRelease
  BY <1>4 DEF ServiceInv, MenuStart, MenuStop, ImportFor, NewRelease, control
<1>5. CASE UNCHANGED vars
  BY <1>5 DEF ServiceInv, vars, service, control, history
<1> QED BY <1>1, <1>2, <1>3, <1>4, <1>5 DEF Next

\* For any number of faults, no step of an update starts a service that the
\* user stopped or stops one that ran when the update began.
THEOREM ServiceIsKept == Spec => ServiceChoiceKept
<1>1. Init => TypeOK /\ StepInv /\ ServiceInv
  BY InitTypes DEF Init, ServiceInv
<1>2. TypeOK /\ StepInv /\ ServiceInv /\ [Next]_vars => TypeOK' /\ StepInv' /\ ServiceInv'
  BY NextTypes, ServiceNext
<1>3. TypeOK /\ StepInv /\ ServiceInv /\ [Next]_vars =>
        [op # "none" /\ unit0 # "waiting" => (unit = "inactive" <=> unit' = "inactive")]_vars
  BY ServiceNext
<1> QED BY <1>1, <1>2, <1>3, PTL DEF Spec, ServiceChoiceKept

-----------------------------------------------------------------------------
(* What was begun is undone *)

\* The copies are the old files, and a file without a copy is still the old one.
CopiesInv ==
  op \in {"update", "geo"} =>
    \A f \in Files : backup[f] # before[f] => backup[f] = None /\ files[f] = before[f]

\* An update has copied everything, a geo update each file before its turn.
TurnInv ==
  /\ op = "none" => backup = [f \in Files |-> None]
  /\ op = "update" => \A f \in Files : backup[f] # None
  /\ step \in {"fetch", "swap"} => at \in Geo
  /\ step = "fetch" => backup[at] = None
  /\ step \in {"fetch", "swap"} /\ at = "geoip" => backup["geosite"] = None
  /\ step = "swap" => backup[at] # None

\* A rollback that missed nothing so far has only its list to do.
RollbackInv ==
  step \in {"restore", "copy", "revive"} /\ ~missed =>
    \A f \in Files \ todo : files[f] = before[f]

OutcomeInv == FailedIsUndone /\ (op # "none" => outcome = "none")

UndoInv == CopiesInv /\ TurnInv /\ RollbackInv /\ OutcomeInv

\* All files are the old ones.
LEMMA AllOld ==
    ASSUME TypeOK, \A f \in Files : files[f] = before[f]
    PROVE  files = before
BY DEF TypeOK, FileTypes, HistoryTypes

\* An operation that ends without claiming to have undone anything.
LEMMA EndsPlainly ==
    ASSUME NEW how, how \notin {"restored", "abandoned"}, Finish(how)
    PROVE  UndoInv'
BY DEF UndoInv, CopiesInv, TurnInv, RollbackInv, OutcomeInv, FailedIsUndone, Finish

\* An operation that has put everything back.
LEMMA EndsUndone ==
    ASSUME TypeOK, NEW how, Finish(how), UNCHANGED <<files, before>>,
           \A f \in Files : files[f] = before[f]
    PROVE  UndoInv'
BY AllOld DEF UndoInv, CopiesInv, TurnInv, RollbackInv, OutcomeInv, FailedIsUndone, Finish

\* A rollback that begins has the files with a copy to do; the others are old.
LEMMA RollbackBegins ==
    ASSUME TypeOK, UndoInv, op \in {"update", "geo"},
           step' = "restore", todo' = {f \in Files : backup[f] # None},
           UNCHANGED <<op, backup, before, outcome>>,
           \A f \in Files : backup[f] = None => files'[f] = files[f]
    PROVE  UndoInv'
<1>1. CopiesInv'
  BY DEF UndoInv, CopiesInv
<1>2. TurnInv'
  BY DEF UndoInv, TurnInv
<1>3. RollbackInv'
  <2>1. \A f \in Files : backup[f] = None => files[f] = before[f]
    <3>1. \A f \in Files : before[f] # None
      BY NoneIsNoAsset DEF TypeOK, HistoryTypes
    <3> QED BY <3>1 DEF UndoInv, CopiesInv
  <2> QED BY <2>1 DEF RollbackInv
<1>4. OutcomeInv'
  BY DEF UndoInv, OutcomeInv, FailedIsUndone
<1> QED BY <1>1, <1>2, <1>3, <1>4 DEF UndoInv

\* on_exit either rolls back from the copies, or has none.
LEMMA OnExitUndo ==
    ASSUME TypeOK, StepInv, UndoInv, OnExit(backup), UNCHANGED <<files, before>>
    PROVE  UndoInv'
<1>1. CASE armed
  <2>1. op \in {"update", "geo"}
    BY <1>1 DEF StepInv
  <2> QED BY <1>1, <2>1, RollbackBegins DEF OnExit
<1>2. CASE ~armed
  BY <1>2, EndsPlainly DEF OnExit
<1> QED BY <1>1, <1>2

LEMMA ProceedUndo ==
    ASSUME TypeOK, StepInv, UndoInv, NEW f \in Files, step \in {"place", "check"},
           Proceed(f), UNCHANGED before
    PROVE  UndoInv'
<1>1. op \in {"update", "install", "ensure"}
  BY DEF StepInv
<1>2. CASE Finish("installed")
  BY <1>2, EndsPlainly
<1>3. CASE ~Finish("installed")
  <2>1. /\ step' \in {"service", "place"} /\ UNCHANGED <<op, backup, outcome>>
    BY <1>1, <1>3 DEF Proceed, Finished, Goto
  <2>2. CopiesInv'
    BY <1>1, <2>1 DEF UndoInv, CopiesInv, TurnInv
  <2> QED BY <1>1, <2>1, <2>2 DEF UndoInv, StepInv, TurnInv, RollbackInv, OutcomeInv,
                                         FailedIsUndone
<1> QED BY <1>2, <1>3

LEMMA InstallFailsUndo ==
    ASSUME TypeOK, StepInv, UndoInv, NEW f \in Files, step \in {"place", "check"},
           InstallFails(f), UNCHANGED before
    PROVE  UndoInv'
<1>1. CASE op = "update"
  <2>1. \A g \in Files : backup[g] # None
    BY <1>1 DEF UndoInv, TurnInv
  <2> QED BY <1>1, <2>1, RollbackBegins DEF InstallFails, Restore
<1>2. CASE op = "install" /\ f \in OnDemand
  BY <1>2, ProceedUndo DEF InstallFails
<1>3. CASE ~(op = "update") /\ ~(op = "install" /\ f \in OnDemand)
  BY <1>3, EndsPlainly DEF InstallFails
<1> QED BY <1>1, <1>2, <1>3

LEMMA InstallUndo ==
    ASSUME TypeOK, StepInv, UndoInv, NEW f \in Files,
           Place(f) \/ PlaceFails(f) \/ (f \in Cores /\ (Check(f) \/ CheckFails(f)))
    PROVE  UndoInv'
<1>1. step \in {"place", "check"} /\ UNCHANGED before
  BY DEF Place, PlaceFails, Check, CheckFails, history
<1>2. CASE Place(f) /\ f \in Cores
  <2>1. step' = "check" /\ UNCHANGED <<op, backup, outcome>>
    BY <1>2 DEF Place, Goto
  <2>2. op \in {"update", "install", "ensure"}
    BY <1>1 DEF StepInv
  <2> QED BY <1>1, <2>1, <2>2 DEF UndoInv, CopiesInv, TurnInv, RollbackInv, OutcomeInv,
                                 FailedIsUndone, StepInv
<1>3. CASE Place(f) /\ f \notin Cores
  BY <1>1, <1>3, ProceedUndo DEF Place
<1>4. CASE PlaceFails(f) \/ CheckFails(f)
  BY <1>1, <1>4, InstallFailsUndo DEF PlaceFails, CheckFails
<1>5. CASE Check(f)
  BY <1>1, <1>5, ProceedUndo DEF Check
<1> QED BY <1>2, <1>3, <1>4, <1>5

LEMMA GeoUndo ==
    ASSUME TypeOK, StepInv, UndoInv, CleanCopies = TRUE, NEW f \in Files,
           Fetch(f) \/ FetchFails \/ Swap(f) \/ SwapFails
    PROVE  UndoInv'
<1>1. op = "geo" /\ at \in Geo /\ UNCHANGED before
  BY DEF StepInv, UndoInv, TurnInv, Fetch, FetchFails, Swap, SwapFails, history
<1>2. CASE Fetch(f)
  <2>1. /\ step' = "swap" /\ at' = at /\ f = at /\ UNCHANGED <<op, files, outcome>>
        /\ backup' = [backup EXCEPT ![f] = files[f]] /\ backup[f] = None
    BY <1>2 DEF Fetch, Goto, fileVars, UndoInv, TurnInv
  <2>2. files[f] = before[f] /\ before[f] # None
    BY <1>1, <2>1, NoneIsNoAsset DEF UndoInv, CopiesInv, TypeOK, HistoryTypes
  <2>3. CopiesInv'
    BY <1>1, <2>1, <2>2 DEF UndoInv, CopiesInv, TypeOK, ControlTypes
  <2>4. TurnInv'
    BY <1>1, <1>2, <2>1, <2>2 DEF UndoInv, TurnInv, Fetch, TypeOK, ControlTypes
  <2> QED BY <1>1, <2>1, <2>3, <2>4 DEF UndoInv, RollbackInv, OutcomeInv, FailedIsUndone
<1>3. CASE FetchFails
  <2>1. PICK part \in {None} : OnExit([backup EXCEPT ![at] = part])
    BY <1>3 DEF FetchFails
  <2>2. [backup EXCEPT ![at] = part] = backup
    BY <1>3 DEF FetchFails, UndoInv, TurnInv, TypeOK, ControlTypes
  <2> QED BY <1>1, <1>3, <2>1, <2>2, OnExitUndo DEF FetchFails, fileVars
<1>4. CASE Swap(f)
  <2>1. CASE Finish("geo_updated")
    BY <2>1, EndsPlainly
  <2>2. CASE ~Finish("geo_updated")
    <3>1. /\ files' = [files EXCEPT ![f] = target] /\ f = at /\ backup[f] # None
          /\ \/ step' = "fetch" /\ at' = "geosite" /\ f = "geoip"
             \/ step' = "restart" /\ at' = f /\ was
          /\ UNCHANGED <<op, backup, outcome>>
      BY <1>4, <2>2 DEF Swap, Goto, UndoInv, TurnInv
    <3>2. CopiesInv'
      BY <1>1, <3>1 DEF UndoInv, CopiesInv, TypeOK, FileTypes
    <3>3. TurnInv'
      BY <1>1, <1>4, <3>1 DEF UndoInv, TurnInv, Swap, Geo
    <3> QED BY <1>1, <3>1, <3>2, <3>3 DEF UndoInv, RollbackInv, OutcomeInv, FailedIsUndone
  <2> QED BY <2>1, <2>2
<1>5. CASE SwapFails
  BY <1>1, <1>5, RollbackBegins, OnExitUndo DEF SwapFails, Restore, fileVars
<1> QED BY <1>2, <1>3, <1>4, <1>5

LEMMA RestartUndo ==
    ASSUME TypeOK, StepInv, UndoInv,
           WriteService \/ WriteServiceFails \/ Restart \/ RestartFails
    PROVE  UndoInv'
<1>1. op \in {"update", "geo"} /\ UNCHANGED <<files, before>>
  BY DEF StepInv, WriteService, WriteServiceFails, Restart, RestartFails, fileVars, history
<1>2. CASE WriteService
  <2>1. CASE was
    <3>1. step' = "restart" /\ at' = at /\ UNCHANGED <<op, backup, outcome>>
      BY <1>2, <2>1 DEF WriteService, Goto
    <3> QED BY <1>1, <3>1 DEF UndoInv, CopiesInv, TurnInv, RollbackInv, OutcomeInv, FailedIsUndone
  <2>2. CASE ~was
    BY <1>2, <2>2, EndsPlainly DEF WriteService
  <2> QED BY <2>1, <2>2
<1>3. CASE WriteServiceFails \/ RestartFails
  BY <1>1, <1>3, RollbackBegins DEF WriteServiceFails, RestartFails, Restore
<1>4. CASE Restart
  BY <1>4, EndsPlainly DEF Restart
<1> QED BY <1>2, <1>3, <1>4

LEMMA RollbackUndo ==
    ASSUME TypeOK, StepInv, UndoInv, NEW f \in Files,
           PutBack(f) \/ Copy(f) \/ PutBackFails(f) \/ PutBackDone \/ Revive
    PROVE  UndoInv'
<1>1. op \in {"update", "geo"} /\ UNCHANGED before
  BY DEF StepInv, PutBack, Copy, PutBackFails, PutBackDone, Revive, Restoring, history
<1>2. \A g \in Files : backup[g] # None => backup[g] = before[g]
  BY <1>1 DEF UndoInv, CopiesInv
<1>3. CASE PutBack(f)
  <2>1. f \in todo /\ backup[f] # None
    BY <1>3, NextIsDue DEF PutBack, Restoring, TypeOK, ControlTypes, StepInv
  <2>2. /\ \/ files' = [files EXCEPT ![f] = backup[f]] /\ todo' = todo \ {f} /\ step' = "restore"
           \/ files' = [files EXCEPT ![f] = Torn] /\ todo' = todo /\ step' = "copy"
        /\ UNCHANGED <<op, backup, missed, outcome>> /\ step = "restore"
    BY <1>3 DEF PutBack, Goto, Restoring
  <2>3. RollbackInv'
    BY <1>2, <1>1, <2>1, <2>2 DEF UndoInv, RollbackInv, TypeOK, FileTypes
  <2>4. CopiesInv'
    BY <1>1, <2>1, <2>2 DEF UndoInv, CopiesInv, TypeOK, FileTypes
  <2> QED BY <1>1, <2>2, <2>3, <2>4 DEF UndoInv, TurnInv, OutcomeInv, FailedIsUndone
<1>4. CASE Copy(f)
  <2>1. f \in todo /\ backup[f] # None
    BY <1>4 DEF Copy, StepInv
  <2>2. /\ files' = [files EXCEPT ![f] = backup[f]] /\ todo' = todo \ {f} /\ step' = "restore"
        /\ UNCHANGED <<op, backup, missed, outcome>> /\ step = "copy"
    BY <1>4 DEF Copy, Goto
  <2>3. RollbackInv'
    BY <1>2, <1>1, <2>1, <2>2 DEF UndoInv, RollbackInv, TypeOK, FileTypes
  <2>4. CopiesInv'
    BY <1>1, <2>1, <2>2 DEF UndoInv, CopiesInv, TypeOK, FileTypes
  <2> QED BY <1>1, <2>2, <2>3, <2>4 DEF UndoInv, TurnInv, OutcomeInv, FailedIsUndone
<1>5. CASE PutBackFails(f)
  <2>1. missed' = TRUE /\ step' = "restore" /\ UNCHANGED <<files, op, backup, outcome>>
    BY <1>5 DEF PutBackFails, Goto, fileVars
  <2> QED BY <1>1, <2>1 DEF UndoInv, CopiesInv, TurnInv, RollbackInv, OutcomeInv, FailedIsUndone
<1>6. CASE PutBackDone
  <2>1. step = "restore" /\ todo = {} /\ UNCHANGED files
    BY <1>6 DEF PutBackDone, fileVars
  <2>2. CASE missed /\ ret # "exit"
    BY <1>1, <1>6, <2>1, <2>2, RollbackBegins DEF PutBackDone, Restore
  <2>3. CASE ~missed /\ ret = "quiet"
    <3>1. \A g \in Files : files[g] = before[g]
      BY <2>1, <2>3 DEF UndoInv, RollbackInv
    <3> QED BY <1>1, <1>6, <2>1, <2>3, <3>1, EndsUndone DEF PutBackDone
  <2>4. CASE ~(missed /\ ret # "exit") /\ ~(~missed /\ ret = "quiet")
    <3>1. step' = "revive" /\ UNCHANGED <<op, backup, todo, missed, outcome>>
      BY <1>6, <2>4 DEF PutBackDone, Goto
    <3> QED BY <1>1, <2>1, <3>1 DEF UndoInv, CopiesInv, TurnInv, RollbackInv, OutcomeInv,
                                   FailedIsUndone
  <2> QED BY <2>2, <2>3, <2>4
<1>7. CASE Revive
  <2>1. todo = {} /\ UNCHANGED files
    BY <1>7 DEF Revive, StepInv, fileVars
  <2>2. CASE missed
    BY <1>7, <2>2, EndsPlainly DEF Revive
  <2>3. CASE ~missed
    <3>1. \A g \in Files : files[g] = before[g]
      BY <1>7, <2>1, <2>3 DEF UndoInv, RollbackInv, Revive
    <3> QED BY <1>1, <1>7, <2>1, <2>3, <3>1, EndsUndone DEF Revive
  <2> QED BY <2>2, <2>3
<1> QED BY <1>3, <1>4, <1>5, <1>6, <1>7

\* What Begin does for every operation.
LEMMA BeginUndo ==
    ASSUME TypeOK, UndoInv, op = "none", NEW o, NEW st, NEW f, NEW t, Begin(o, st, f, t),
           \/ o = "update" /\ st = "place" /\ backup' = files
           \/ o \in {"install", "ensure"} /\ st = "place" /\ UNCHANGED backup
           \/ o = "geo" /\ st = "fetch" /\ f = "geoip" /\ UNCHANGED backup
    PROVE  UndoInv'
<1>1. /\ op' = o /\ step' = st /\ at' = f /\ before' = files /\ files' = files
      /\ outcome' = "none"
  BY DEF Begin, Goto, fileVars
<1>2. backup = [g \in Files |-> None] /\ {"geoip", "geosite"} \subseteq Files
  BY DEF UndoInv, TurnInv, Files, Geo
<1>3. \A g \in Files : files[g] # None
  BY NoneIsNoAsset DEF TypeOK, FileTypes
<1>4. CopiesInv'
  BY <1>1, <1>2 DEF CopiesInv
<1>5. TurnInv'
  BY <1>1, <1>2, <1>3 DEF TurnInv, Geo
<1> QED BY <1>1, <1>4, <1>5 DEF UndoInv, RollbackInv, OutcomeInv, FailedIsUndone

LEMMA UndoNext ==
    ASSUME TypeOK, StepInv, UndoInv, CleanCopies = TRUE, [Next]_vars
    PROVE  UndoInv'
<1>1. CASE OpStep \/ OpFails
  <2>1. Cores \subseteq Files /\ "geoip" \in Files
    BY DEF Files, Geo
  <2> QED BY <1>1, <2>1, InstallUndo, GeoUndo, RestartUndo, RollbackUndo DEF OpStep, OpFails
<1>2. CASE Signal
  <2>1. UNCHANGED <<files, before>>
    BY <1>2 DEF Signal, fileVars, history
  <2>2. CASE armed
    BY <1>2, <2>1, <2>2, OnExitUndo DEF Signal
  <2>3. CASE ~armed /\ step = "revive"
    <3>1. ~missed /\ todo = {}
      BY <1>2, <2>3 DEF Signal, Exiting, StepInv
    <3>2. \A f \in Files : files[f] = before[f]
      BY <2>3, <3>1 DEF UndoInv, RollbackInv
    <3> QED BY <1>2, <2>1, <2>3, <3>2, EndsUndone DEF Signal
  <2>4. CASE ~armed /\ step # "revive"
    BY <1>2, <2>4, EndsPlainly DEF Signal
  <2> QED BY <2>2, <2>3, <2>4
<1>3. CASE Kill
  BY <1>3, EndsPlainly DEF Kill
<1>4. CASE BeginUpdate
  <2>1. op = "none"
    BY <1>4 DEF BeginUpdate
  <2>2. PICK answered \in BOOLEAN :
          \/ /\ outcome' = "current"
             /\ UNCHANGED <<fileVars, release, engine, service, control>> /\ Forget
          \/ /\ Begin("update", "place", "xray", XrayTarget(answered))
             /\ backup' = files /\ armed' = TRUE
    BY <1>4 DEF BeginUpdate
  <2>3. CASE Begin("update", "place", "xray", XrayTarget(answered)) /\ backup' = files
    BY <2>1, <2>3, BeginUndo
  <2>4. CASE outcome' = "current" /\ UNCHANGED <<fileVars, release, engine, service, control>> /\ Forget
    BY <2>1, <2>4 DEF UndoInv, CopiesInv, TurnInv, RollbackInv, OutcomeInv, FailedIsUndone,
                      StepInv, control
  <2> QED BY <2>2, <2>3, <2>4
<1>5. CASE BeginInstall \/ BeginGeo \/ \E f \in OnDemand : BeginEnsure(f)
  BY <1>5, BeginUndo DEF BeginInstall, BeginGeo, BeginEnsure
<1>6. CASE CoreDies \/ CoreRestarts
  BY <1>6 DEF UndoInv, CopiesInv, TurnInv, RollbackInv, OutcomeInv, FailedIsUndone,
              CoreDies, CoreRestarts, control, fileVars, history
<1>7. CASE MenuStart \/ MenuStop \/ \E e \in Cores : ImportFor(e)
  <2>1. UNCHANGED <<fileVars, control>> /\ outcome' = "none" /\ op = "none"
    BY <1>7 DEF MenuStart, MenuStop, ImportFor
  <2> QED BY <2>1 DEF UndoInv, CopiesInv, TurnInv, RollbackInv, OutcomeInv, FailedIsUndone,
                      StepInv, control
<1>8. CASE NewRelease \/ UNCHANGED vars
  BY <1>8 DEF UndoInv, CopiesInv, TurnInv, RollbackInv, OutcomeInv, FailedIsUndone,
              NewRelease, vars, control, fileVars, history
<1> QED BY <1>1, <1>2, <1>3, <1>4, <1>5, <1>6, <1>7, <1>8 DEF Next

\* For any number of faults, an update that failed or was interrupted leaves
\* every file as it was, or says that the rollback was incomplete; as long as
\* a cp that fails leaves no part of a copy (FetchFails).
THEOREM FailuresAreUndone == ASSUME CleanCopies = TRUE PROVE Spec => []FailedIsUndone
<1>1. Init => TypeOK /\ StepInv /\ UndoInv
  BY InitTypes DEF Init, UndoInv, CopiesInv, TurnInv, RollbackInv, OutcomeInv, FailedIsUndone
<1>2. TypeOK /\ StepInv /\ UndoInv /\ [Next]_vars => TypeOK' /\ StepInv' /\ UndoInv'
  BY NextTypes, UndoNext
<1>3. UndoInv => FailedIsUndone
  BY DEF UndoInv, OutcomeInv
<1> QED BY <1>1, <1>2, <1>3, PTL DEF Spec

-----------------------------------------------------------------------------
(* The running core is the installed one *)

\* A core runs on the old files until the operation restarts it; whatever comes
\* after a failed restart starts it anew.
RunInv ==
  op \in {"update", "geo"} /\ ~disturbed =>
    /\ unit = "active" => was
    /\ unit = "active" /\ (step \in {"restore", "copy", "revive"} => ret = "quiet") =>
         loaded = [f \in Uses(engine) |-> before[f]]

CoreInv == RunInv /\ RunningIsInstalled

\* A step within an operation that leaves the service and the history alone.
LEMMA CoreStays ==
    ASSUME CoreInv, op \in {"update", "geo"}, op' = op, outcome' = "none",
           UNCHANGED <<service, engine, history, was>>,
           \/ step \notin {"restore", "copy", "revive"} \/ ret = "quiet"
           \/ step' \in {"restore", "copy", "revive"} /\ ret' # "quiet"
    PROVE  CoreInv'
BY DEF CoreInv, RunInv, RunningIsInstalled, service, history

\* The core is restarted by the operation, or is no longer what counts.
LEMMA CoreEnds ==
    ASSUME op' = "none", unit' = "active" => loaded' = [f \in Uses(engine') |-> files'[f]]
    PROVE  CoreInv'
BY DEF CoreInv, RunInv, RunningIsInstalled, Synced, Loads

LEMMA CoreUnclaimed ==
    ASSUME op' \notin {"update", "geo"}, outcome' \notin {"updated", "geo_updated", "restored"}
    PROVE  CoreInv'
BY DEF CoreInv, RunInv, RunningIsInstalled

LEMMA FinishCore ==
    ASSUME NEW how, how \notin {"updated", "geo_updated", "restored"}, Finish(how)
    PROVE  CoreInv'
BY CoreUnclaimed DEF Finish

\* An operation that need not restart the service: it did not run.
LEMMA CoreIdle ==
    ASSUME CoreInv, op \in {"update", "geo"}, ~was, op' = "none",
           UNCHANGED <<service, history>>
    PROVE  CoreInv'
BY DEF CoreInv, RunInv, RunningIsInstalled, Synced, service, history

LEMMA InstallCore ==
    ASSUME TypeOK, StepInv, UndoInv, CoreInv, Outside, NEW f \in Files,
           Place(f) \/ PlaceFails(f) \/ (f \in Cores /\ (Check(f) \/ CheckFails(f)))
    PROVE  CoreInv'
<1>1. /\ step \in {"place", "check"} /\ UNCHANGED <<service, history, engine>>
      /\ op \in {"update", "install", "ensure"} /\ outcome = "none"
  BY DEF Place, PlaceFails, Check, CheckFails, Outside, StepInv, UndoInv, OutcomeInv
<1>2. \/ op = "update" /\ UNCHANGED <<op, was, outcome>>
      \/ op' \notin {"update", "geo"} /\ outcome' \notin {"updated", "geo_updated", "restored"}
  <2>1. ASSUME Proceed(f)
        PROVE  \/ op = "update" /\ UNCHANGED <<op, was, outcome>>
               \/ op' \notin {"update", "geo"} /\ outcome' \notin {"updated", "geo_updated", "restored"}
    BY <1>1, <2>1 DEF Proceed, Finished, Finish
  <2>2. ASSUME InstallFails(f)
        PROVE  \/ op = "update" /\ UNCHANGED <<op, was, outcome>>
               \/ op' \notin {"update", "geo"} /\ outcome' \notin {"updated", "geo_updated", "restored"}
    BY <1>1, <2>1, <2>2 DEF InstallFails, Restore, Finish
  <2>3. CASE Place(f) /\ f \in Cores
    BY <1>1, <2>3 DEF Place
  <2> QED BY <2>1, <2>2, <2>3 DEF Place, PlaceFails, Check, CheckFails
<1> QED BY <1>1, <1>2, CoreStays, CoreUnclaimed

LEMMA GeoCore ==
    ASSUME TypeOK, StepInv, UndoInv, CoreInv, Outside, NEW f \in Files,
           Fetch(f) \/ FetchFails \/ Swap(f) \/ SwapFails
    PROVE  CoreInv'
<1>1. /\ step \in {"fetch", "swap"} /\ UNCHANGED <<service, history, engine>>
      /\ op = "geo" /\ outcome = "none" /\ at \in Geo
  BY DEF Fetch, FetchFails, Swap, SwapFails, Outside, StepInv, UndoInv, OutcomeInv, TurnInv
<1>2. CASE Fetch(f)
  BY <1>1, <1>2, CoreStays DEF Fetch
<1>3. CASE FetchFails \/ SwapFails
  BY <1>1, <1>3, CoreStays, FinishCore DEF FetchFails, SwapFails, OnExit, Restore
<1>4. CASE Swap(f)
  <2>1. CASE Finish("geo_updated")
    <3>1. CASE was
      <4>1. (at = f /\ f \notin {"geoip", "geosite"}) \/ UNCHANGED op
        BY <1>4, <3>1 DEF Swap
      <4>2. UNCHANGED op
        BY <1>1, <4>1 DEF Geo
      <4> QED BY <1>1, <2>1, <4>2 DEF Finish
    <3>2. CASE ~was
      BY <1>1, <2>1, <3>2, CoreIdle DEF Finish
    <3> QED BY <3>1, <3>2
  <2>2. CASE ~Finish("geo_updated")
    BY <1>1, <1>4, <2>2, CoreStays DEF Swap
  <2> QED BY <2>1, <2>2
<1> QED BY <1>2, <1>3, <1>4

LEMMA RestartCore ==
    ASSUME TypeOK, StepInv, UndoInv, CoreInv, Outside,
           WriteService \/ WriteServiceFails \/ Restart \/ RestartFails
    PROVE  CoreInv'
<1>1. /\ op \in {"update", "geo"} /\ UNCHANGED <<files, history, engine>> /\ outcome = "none"
      /\ step \in {"service", "restart"} /\ (step = "restart" => was)
  BY DEF StepInv, WriteService, WriteServiceFails, Restart, RestartFails, fileVars, Outside,
         UndoInv, OutcomeInv
<1>2. CASE WriteService \/ WriteServiceFails
  BY <1>1, <1>2, CoreStays, CoreIdle DEF WriteService, WriteServiceFails, Restore, Finish
<1>3. CASE Restart
  <2>1. op' = "none" /\ loaded' = [f \in Uses(engine') |-> files'[f]]
    BY <1>1, <1>3 DEF Restart, Finish, CoreUp, Loads
  <2> QED BY <2>1, CoreEnds
<1>4. CASE RestartFails
  BY <1>1, <1>4 DEF RestartFails, Restore, CoreInv, RunInv, RunningIsInstalled, history
<1> QED BY <1>2, <1>3, <1>4

LEMMA RollbackCore ==
    ASSUME TypeOK, StepInv, UndoInv, CoreInv, Outside, NEW f \in Files,
           PutBack(f) \/ Copy(f) \/ PutBackFails(f) \/ PutBackDone \/ Revive
    PROVE  CoreInv'
<1>1. /\ op \in {"update", "geo"} /\ UNCHANGED <<history, engine>> /\ outcome = "none"
      /\ step \in {"restore", "copy", "revive"}
  BY DEF StepInv, PutBack, Copy, PutBackFails, PutBackDone, Revive, Restoring, Outside,
         UndoInv, OutcomeInv
<1>2. CASE PutBack(f) \/ Copy(f) \/ PutBackFails(f)
  <2>1. UNCHANGED <<op, was, ret, outcome, service>> /\ step' \in {"restore", "copy"}
    BY <1>1, <1>2 DEF PutBack, Copy, PutBackFails, Goto, Restoring
  <2> QED BY <1>1, <2>1, CoreStays
<1>3. CASE PutBackDone
  <2>1. step = "restore" /\ todo = {} /\ UNCHANGED <<files, service>>
    BY <1>3 DEF PutBackDone, fileVars
  <2>2. CASE missed /\ ret # "exit"
    BY <1>1, <1>3, <2>1, <2>2, CoreStays DEF PutBackDone, Restore
  <2>3. CASE ~missed /\ ret = "quiet"
    <3>1. files = before
      BY <2>1, <2>3, AllOld DEF UndoInv, RollbackInv
    <3>2. op' = "none"
      BY <1>3, <2>3 DEF PutBackDone, Finish
    <3>3. CASE disturbed
      BY <1>1, <3>2, <3>3 DEF CoreInv, RunInv, RunningIsInstalled, history
    <3>4. CASE ~disturbed
      <4>1. unit = "active" => loaded = [g \in Uses(engine) |-> before[g]]
        BY <1>1, <2>3, <3>4 DEF CoreInv, RunInv
      <4> QED BY <1>1, <2>1, <3>1, <3>2, <4>1, CoreEnds DEF service
    <3> QED BY <3>3, <3>4
  <2>4. CASE ~(missed /\ ret # "exit") /\ ~(~missed /\ ret = "quiet")
    <3>1. step' = "revive" /\ UNCHANGED <<op, was, ret, outcome>> /\ ret # "quiet"
      BY <1>3, <2>4 DEF PutBackDone, Goto
    <3> QED BY <1>1, <2>1, <3>1, CoreStays
  <2> QED BY <2>2, <2>3, <2>4
<1>4. CASE Revive
  <2>1. op' = "none" /\ UNCHANGED <<files, engine>>
    BY <1>1, <1>4 DEF Revive, Finish, fileVars
  <2>2. unit' = "active" => loaded' = [g \in Uses(engine') |-> files'[g]]
    BY <1>4, <2>1 DEF Revive, CoreUp, CoreDown, Loads
  <2> QED BY <2>1, <2>2, CoreEnds
<1> QED BY <1>2, <1>3, <1>4

LEMMA BeginCore ==
    ASSUME op = "none", NEW o, NEW st, NEW f, NEW t, Begin(o, st, f, t),
           st \in {"place", "fetch"}
    PROVE  CoreInv'
<1>1. /\ before' = files /\ outcome' = "none" /\ step' = st /\ disturbed' = ~Synced
      /\ was' = (unit = "active") /\ UNCHANGED <<files, service, engine>>
  BY DEF Begin, Goto, fileVars
<1>2. ~disturbed' /\ unit = "active" => loaded = [g \in Uses(engine) |-> files[g]]
  BY <1>1 DEF Synced, Loads
<1>3. unit' = "active" => was'
  BY <1>1 DEF service
<1> QED BY <1>1, <1>2, <1>3 DEF CoreInv, RunInv, RunningIsInstalled, service

LEMMA CoreNext ==
    ASSUME TypeOK, StepInv, UndoInv, CoreInv, [Next]_vars
    PROVE  CoreInv'
<1>1. CASE (OpStep \/ OpFails) /\ Outside
  <2>1. Cores \subseteq Files /\ "geoip" \in Files
    BY DEF Files, Geo
  <2> QED BY <1>1, <2>1, InstallCore, GeoCore, RestartCore, RollbackCore DEF OpStep, OpFails
<1>2. CASE Signal /\ Outside
  <2>1. CASE armed
    <3>1. /\ op \in {"update", "geo"} /\ UNCHANGED <<service, engine, history, op, was, outcome>>
          /\ step' = "restore" /\ ret' = "exit" /\ outcome = "none"
      BY <1>2, <2>1 DEF Signal, OnExit, Outside, StepInv, UndoInv, OutcomeInv
    <3> QED BY <3>1, CoreStays
  <2>2. CASE ~armed
    BY <1>2, <2>2, FinishCore DEF Signal
  <2> QED BY <2>1, <2>2
<1>3. CASE Kill
  BY <1>3, FinishCore DEF Kill
<1>4. CASE BeginUpdate \/ BeginInstall \/ BeginGeo \/ \E f \in OnDemand : BeginEnsure(f)
  <2>1. op = "none"
    BY <1>4 DEF BeginUpdate, BeginInstall, BeginGeo, BeginEnsure
  <2>2. CASE outcome' = "current" /\ UNCHANGED control
    BY <2>1, <2>2, CoreUnclaimed DEF control
  <2> QED BY <1>4, <2>1, <2>2, BeginCore DEF BeginUpdate, BeginInstall, BeginGeo, BeginEnsure
<1>5. CASE (CoreDies \/ CoreRestarts) /\ Outside
  <2>1. UNCHANGED <<fileVars, control, outcome, before, engine>>
    BY <1>5 DEF CoreDies, CoreRestarts, Outside, history
  <2>2. CASE unit' # "active" /\ UNCHANGED disturbed
    BY <2>1, <2>2 DEF CoreInv, RunInv, RunningIsInstalled, Synced, control
  <2>3. CASE CoreUp /\ op # "none" /\ disturbed'
    BY <2>3 DEF CoreInv, RunInv, RunningIsInstalled
  <2>4. CASE CoreUp /\ op = "none"
    BY <2>1, <2>4, CoreEnds DEF CoreUp, Loads, control, fileVars
  <2> QED BY <1>5, <2>2, <2>3, <2>4 DEF CoreDies, CoreRestarts, CoreDown, history
<1>6. CASE MenuStart \/ MenuStop \/ \E e \in Cores : ImportFor(e)
  <2>1. op' = "none" /\ outcome' = "none"
    BY <1>6 DEF MenuStart, MenuStop, ImportFor, control
  <2> QED BY <2>1, CoreUnclaimed
<1>7. CASE NewRelease \/ UNCHANGED vars
  BY <1>7 DEF CoreInv, RunInv, RunningIsInstalled, Synced, Loads, NewRelease, vars, control,
              fileVars, service, history
<1> QED BY <1>1, <1>2, <1>3, <1>4, <1>5, <1>6, <1>7 DEF Next

\* For any number of faults: after an update or its rollback the core that
\* runs was started from the files that are installed, unless systemd started
\* one in the middle.
THEOREM RunningIsCurrent == ASSUME CleanCopies = TRUE PROVE Spec => []RunningIsInstalled
<1>1. Init => TypeOK /\ StepInv /\ UndoInv /\ CoreInv
  <2>1. Init => UndoInv
    BY DEF Init, UndoInv, CopiesInv, TurnInv, RollbackInv, OutcomeInv, FailedIsUndone
  <2>2. Init => CoreInv
    BY DEF Init, CoreInv, RunInv, RunningIsInstalled
  <2> QED BY <2>1, <2>2, InitTypes
<1>2. TypeOK /\ StepInv /\ UndoInv /\ CoreInv /\ [Next]_vars =>
        TypeOK' /\ StepInv' /\ UndoInv' /\ CoreInv'
  BY NextTypes, UndoNext, CoreNext
<1>3. CoreInv => RunningIsInstalled
  BY DEF CoreInv
<1> QED BY <1>1, <1>2, <1>3, PTL DEF Spec

-----------------------------------------------------------------------------
(* Updates go forward *)

\* Where an update has been, in the order of the installation.
Earlier(f) == {g \in Files : \E i, j \in 1 .. 5 :
                                i < j /\ InstallOrder[i] = g /\ InstallOrder[j] = f}
Current(f) == IF f \in OnDemand THEN Executable(f) => files[f] = Pinned ELSE files[f] = target

\* What an update has left behind is what it is for.
PlacedInv ==
  op = "update" =>
    /\ step \in {"place", "check"} => \A g \in Earlier(at) : Current(g)
    /\ step = "check" => Current(at)
    /\ step \in {"service", "restart"} => \A g \in Files : Current(g)

\* A geo update has changed the files whose turn is over, and no core.
SwappedInv ==
  op = "geo" =>
    /\ step \in {"fetch", "swap"} =>
         \A g \in Files : files[g] = IF g = "geoip" /\ at = "geosite" THEN target ELSE before[g]
    /\ step = "restart" =>
         \A g \in Files : files[g] = IF g \in Geo THEN target ELSE before[g]

\* Before a rollback every core that could run can, or is set aside.
Lively == \A c \in Cores : before[c] \in Versions => files[c] \in Versions
LivelyInv ==
  /\ op # "none" /\ step \notin {"restore", "copy", "revive"} => Lively
  /\ step = "check" => at \in Cores /\ (before[at] \in Versions => bak[at] # Absent)
  /\ armed \/ op \in {"none", "install", "ensure"} \/ step \in {"fetch", "revive"}

\* Nothing of Xray is newer than the latest release, and an update is for nothing older.
Known(v) == v \in Versions => v \in 1 .. release
AheadInv ==
  /\ release \in MinSafe .. NumReleases
  /\ Known(files["xray"]) /\ Known(bak["xray"]) /\ Known(backup["xray"])
  /\ op \in {"update", "install"} => target \in MinSafe .. release
  /\ op = "update" /\ before["xray"] \in Versions => target \in before["xray"] .. release
  /\ op = "ensure" => at \in OnDemand

ForwardInv == PlacedInv /\ SwappedInv /\ LivelyInv /\ AheadInv /\ UpdatesGoForward

\* The least of some places in an order comes before the others.
LEMMA LeastPlace ==
    ASSUME NEW S \in SUBSET (1 .. 5), S # {}
    PROVE  Min(S) \in S /\ \A y \in S : Min(S) <= y
<1>1. \E x \in S : \A y \in S : x <= y
  <2>1. PICK z : z \in S
    OBVIOUS
  <2>2. CASE 1 \in S
    BY <2>2
  <2>3. CASE 1 \notin S /\ 2 \in S
    BY <2>3
  <2>4. CASE 1 \notin S /\ 2 \notin S /\ 3 \in S
    BY <2>4
  <2>5. CASE 1 \notin S /\ 2 \notin S /\ 3 \notin S /\ 4 \in S
    BY <2>5
  <2>6. CASE 1 \notin S /\ 2 \notin S /\ 3 \notin S /\ 4 \notin S
    <3>1. \A y \in S : y = 5
      BY <2>6
    <3> QED BY <2>1, <3>1
  <2> QED BY <2>2, <2>3, <2>4, <2>5, <2>6
<1> QED BY <1>1 DEF Min

\* The order of the installation names every file once.
LEMMA OrderIsOne ==
    /\ \A f \in Files : \E i \in 1 .. 5 : InstallOrder[i] = f
    /\ \A i, j \in 1 .. 5 : InstallOrder[i] = InstallOrder[j] => i = j
BY DEF InstallOrder, Files, Cores, OnDemand, Geo

\* What is passed over on the way to the next file needs no installation.
LEMMA PassedOver ==
    ASSUME NEW f \in Files, NEW i \in 1 .. 5, InstallOrder[i] = f,
           NEW j \in 1 .. 5, i < j, j \notin Later(f)
    PROVE  InstallOrder[j] \in OnDemand /\ ~Executable(InstallOrder[j])
BY DEF Later

\* An installation that goes on has all of Earlier behind it.
LEMMA ProceedPlaced ==
    ASSUME TypeOK, op = "update", NEW f \in Files, Proceed(f),
           \A g \in Earlier(f) \cup {f} : Current(g)',
           \A g \in OnDemand : Executable(g)' => Executable(g)
    PROVE  PlacedInv'
<1>1. PICK i \in 1 .. 5 : InstallOrder[i] = f
  BY OrderIsOne
<1>2. ASSUME NEW j \in 1 .. 5, j \notin Later(f) PROVE Current(InstallOrder[j])'
  <2>1. CASE i < j
    BY <1>1, <1>2, <2>1, PassedOver DEF Current
  <2>2. CASE ~(i < j)
    <3>1. j < i \/ j = i
      BY <2>2
    <3>2. InstallOrder[j] \in Earlier(f) \cup {f}
      BY <1>1, <3>1, Orders DEF Earlier
    <3> QED BY <3>2
  <2> QED BY <2>1, <2>2
<1>3. CASE Later(f) = {}
  <2>1. step' = "service"
    BY <1>3 DEF Proceed, Finished, Goto
  <2>2. \A g \in Files : Current(g)'
    BY <1>2, <1>3, OrderIsOne
  <2> QED BY <2>1, <2>2 DEF PlacedInv
<1>4. CASE Later(f) # {}
  <2> DEFINE m == Min(Later(f))
  <2>1. Later(f) \in SUBSET (1 .. 5)
    BY DEF Later
  <2>2. m \in 1 .. 5 /\ \A y \in Later(f) : m <= y
    BY <1>4, <2>1, LeastPlace
  <2>3. step' = "place" /\ at' = InstallOrder[m]
    BY <1>4 DEF Proceed, Goto
  <2> HIDE DEF m
  <2>4. ASSUME NEW g \in Earlier(InstallOrder[m]) PROVE Current(g)'
    <3>1. PICK j \in 1 .. 5, k \in 1 .. 5 :
            j < k /\ InstallOrder[j] = g /\ InstallOrder[k] = InstallOrder[m]
      BY DEF Earlier
    <3>2. j < m
      BY <2>2, <3>1, OrderIsOne
    <3>3. j \notin Later(f)
      BY <2>2, <3>2
    <3> QED BY <1>2, <3>1, <3>3
  <2> QED BY <2>3, <2>4 DEF PlacedInv
<1> QED BY <1>3, <1>4

LEMMA InstallPlaced ==
    ASSUME TypeOK, StepInv, PlacedInv, NEW f \in Files,
           Place(f) \/ PlaceFails(f) \/ (f \in Cores /\ (Check(f) \/ CheckFails(f)))
    PROVE  PlacedInv'
<1>0. op \in {"update", "install", "ensure"}
  BY DEF StepInv, Place, PlaceFails, Check, CheckFails
<1>1. CASE op # "update"
  <2>1. Proceed(f) => op' \in {op, "none"}
    BY <1>0, <1>1 DEF Proceed, Finished, Finish
  <2>2. InstallFails(f) => op' \in {op, "none"}
    BY <1>1, <2>1 DEF InstallFails, Finish
  <2>3. op' \in {op, "none"}
    BY <2>1, <2>2 DEF Place, PlaceFails, Check, CheckFails
  <2> QED BY <1>1, <2>3 DEF PlacedInv
<1>2. CASE op = "update" /\ Place(f)
  <2>1. /\ files' = [files EXCEPT ![f] = Wanted(f)] /\ target' = target
        /\ at = f /\ step = "place"
    BY <1>2 DEF Place, Proceed, Finished
  <2>2. f \notin Earlier(f) /\ Earlier(f) \subseteq Files
    BY OrderIsOne DEF Earlier
  <2>3. files'[f] = Wanted(f) /\ \A g \in Files \ {f} : files'[g] = files[g]
    BY <2>1 DEF TypeOK, FileTypes
  <2>4. Current(f)'
    BY <2>1, <2>3 DEF Current, Wanted
  <2>5. \A g \in Earlier(f) : Current(g)'
    BY <1>2, <2>1, <2>2, <2>3 DEF PlacedInv, Current, Executable
  <2>6. CASE f \in Cores
    <3>1. step' = "check" /\ at' = f
      BY <1>2, <2>6 DEF Place, Goto
    <3> QED BY <2>4, <2>5, <3>1 DEF PlacedInv
  <2>7. CASE f \notin Cores
    <3>1. Proceed(f)
      BY <1>2, <2>7 DEF Place
    <3>2. \A g \in OnDemand : Executable(g)' => Executable(g)
      BY <2>3, <2>7 DEF Executable, Files, Cores
    <3> QED BY <1>2, <2>4, <2>5, <3>1, <3>2, ProceedPlaced
  <2> QED BY <2>6, <2>7
<1>3. CASE op = "update" /\ f \in Cores /\ Check(f)
  <2>1. /\ files' = files /\ Proceed(f) /\ at = f /\ step = "check"
    BY <1>3 DEF Check
  <2>2. target' = target
    BY <1>3, <2>1 DEF Proceed, Finished
  <2>3. \A g \in Earlier(f) \cup {f} : Current(g)'
    BY <1>3, <2>1, <2>2 DEF PlacedInv, Current, Executable
  <2> QED BY <1>3, <2>1, <2>3, ProceedPlaced DEF Executable
<1>4. CASE op = "update" /\ (PlaceFails(f) \/ CheckFails(f))
  <2>1. step' = "restore"
    BY <1>4 DEF PlaceFails, CheckFails, InstallFails, Restore
  <2> QED BY <2>1 DEF PlacedInv
<1> QED BY <1>1, <1>2, <1>3, <1>4

\* Installations go on in their order, and nothing else changes what they leave behind.
LEMMA PlacedNext ==
    ASSUME TypeOK, StepInv, PlacedInv, [Next]_vars
    PROVE  PlacedInv'
<1>1. ASSUME NEW f \in Files,
             Place(f) \/ PlaceFails(f) \/ (f \in Cores /\ (Check(f) \/ CheckFails(f)))
      PROVE  PlacedInv'
  BY <1>1, InstallPlaced
<1>2. ASSUME NEW f \in Files, Fetch(f) \/ FetchFails \/ Swap(f) \/ SwapFails
      PROVE  PlacedInv'
  <2>1. op = "geo"
    BY <1>2 DEF StepInv, Fetch, FetchFails, Swap, SwapFails
  <2>2. op' # "update"
    BY <1>2, <2>1 DEF Fetch, FetchFails, Swap, SwapFails, OnExit, Restore, Finish
  <2> QED BY <2>2 DEF PlacedInv
<1>3. CASE WriteService
  <2>1. CASE was
    <3>1. step' = "restart" /\ UNCHANGED <<files, target, op>> /\ step = "service" /\ op = "update"
      BY <1>3, <2>1 DEF WriteService, Goto, fileVars, StepInv
    <3>2. \A g \in Files : Current(g)
      BY <3>1 DEF PlacedInv
    <3> QED BY <3>1, <3>2 DEF PlacedInv, Current, Executable
  <2>2. CASE ~was
    BY <1>3, <2>2 DEF WriteService, Finish, PlacedInv
  <2> QED BY <2>1, <2>2
<1>4. CASE WriteServiceFails \/ Restart \/ RestartFails
  <2>1. step' \in {"restore", "idle"}
    BY <1>4 DEF WriteServiceFails, Restart, RestartFails, Restore, Finish
  <2> QED BY <2>1 DEF PlacedInv
<1>5. ASSUME NEW f \in Files, PutBack(f) \/ Copy(f) \/ PutBackFails(f) \/ PutBackDone \/ Revive
      PROVE  PlacedInv'
  <2>1. step' \in {"restore", "copy", "revive", "idle"}
    BY <1>5 DEF PutBack, Copy, PutBackFails, PutBackDone, Revive, Restore, Restoring, Finish, Goto
  <2> QED BY <2>1 DEF PlacedInv
<1>6. CASE Signal \/ Kill
  <2>1. step' \in {"restore", "idle"}
    BY <1>6 DEF Signal, Kill, OnExit, Finish
  <2> QED BY <2>1 DEF PlacedInv
<1>7. CASE BeginUpdate
  <2>1. CASE op' = "update" /\ step' = "place" /\ at' = "xray"
    <3>1. Earlier("xray") = {}
      BY DEF Earlier, InstallOrder
    <3> QED BY <2>1, <3>1 DEF PlacedInv
  <2>2. CASE ~(op' = "update" /\ step' = "place" /\ at' = "xray")
    <3>1. op' = "none"
      BY <1>7, <2>2 DEF BeginUpdate, Begin, Goto, control
    <3> QED BY <3>1 DEF PlacedInv
  <2> QED BY <2>1, <2>2
<1>8. CASE BeginInstall \/ BeginGeo \/ \E f \in OnDemand : BeginEnsure(f)
  <2>1. op' # "update"
    BY <1>8 DEF BeginInstall, BeginGeo, BeginEnsure, Begin
  <2> QED BY <2>1 DEF PlacedInv
<1>9. CASE \/ CoreDies \/ CoreRestarts \/ MenuStart \/ MenuStop \/ NewRelease
           \/ (\E e \in Cores : ImportFor(e)) \/ UNCHANGED vars
  <2>1. UNCHANGED <<fileVars, control>>
    BY <1>9 DEF CoreDies, CoreRestarts, MenuStart, MenuStop, NewRelease, ImportFor, vars
  <2> QED BY <2>1 DEF PlacedInv, Current, Executable, fileVars, control
<1>0. Cores \subseteq Files /\ "geoip" \in Files
  BY DEF Files, Geo
<1> QED BY <1>0, <1>1, <1>2, <1>3, <1>4, <1>5, <1>6, <1>7, <1>8, <1>9
        DEF Next, OpStep, OpFails

\* A geo update changes each file in its turn.
LEMMA SwappedNext ==
    ASSUME TypeOK, StepInv, UndoInv, SwappedInv, [Next]_vars
    PROVE  SwappedInv'
<1>1. ASSUME NEW f \in Files,
             Place(f) \/ PlaceFails(f) \/ (f \in Cores /\ (Check(f) \/ CheckFails(f)))
      PROVE  SwappedInv'
  <2>1. step \in {"place", "check"} /\ op \in {"update", "install", "ensure"}
    BY <1>1 DEF StepInv, Place, PlaceFails, Check, CheckFails
  <2>2. Proceed(f) => op' # "geo"
    BY <2>1 DEF Proceed, Finished, Finish
  <2>3. InstallFails(f) => op' # "geo"
    BY <2>1, <2>2 DEF InstallFails, Finish, Restore
  <2>4. op' # "geo"
    BY <1>1, <2>1, <2>2, <2>3 DEF Place, PlaceFails, Check, CheckFails
  <2> QED BY <2>4 DEF SwappedInv
<1>2. ASSUME NEW f \in Files, Fetch(f) PROVE SwappedInv'
  <2>1. step = "fetch" /\ step' = "swap" /\ at' = at /\ op = "geo"
        /\ UNCHANGED <<files, target, before, op>>
    BY <1>2 DEF Fetch, Goto, fileVars, history, StepInv
  <2> QED BY <2>1 DEF SwappedInv
<1>3. ASSUME NEW f \in Files, Swap(f) PROVE SwappedInv'
  <2>1. f = at /\ f \in Geo /\ op = "geo" /\ files' = [files EXCEPT ![f] = target] /\ before' = before
        /\ step = "swap"
    BY <1>3 DEF Swap, StepInv, UndoInv, TurnInv, history
  <2>2. \A g \in Files : files'[g] = IF g = f THEN target ELSE files[g]
    BY <2>1 DEF TypeOK, FileTypes
  <2>3. \A g \in Files : files[g] = IF g = "geoip" /\ at = "geosite" THEN target ELSE before[g]
    BY <2>1 DEF SwappedInv
  <2>4. CASE f = "geoip"
    <3>1. step' = "fetch" /\ at' = "geosite" /\ target' = target
      BY <1>3, <2>4 DEF Swap, Goto
    <3>2. \A g \in Files : files'[g] = IF g = "geoip" THEN target ELSE before[g]
      BY <2>1, <2>2, <2>3, <2>4
    <3> QED BY <2>1, <3>1, <3>2 DEF SwappedInv
  <2>5. CASE f = "geosite" /\ was
    <3>1. step' = "restart" /\ target' = target
      BY <1>3, <2>5 DEF Swap, Goto
    <3>2. \A g \in Files : files'[g] = IF g \in Geo THEN target ELSE before[g]
      BY <2>1, <2>2, <2>3, <2>5 DEF Geo
    <3> QED BY <2>1, <3>1, <3>2 DEF SwappedInv
  <2>6. CASE f # "geoip" /\ ~(f = "geosite" /\ was)
    BY <1>3, <2>6 DEF Swap, Finish, SwappedInv
  <2> QED BY <2>4, <2>5, <2>6
<1>4. CASE FetchFails \/ SwapFails \/ WriteServiceFails \/ Restart \/ RestartFails \/ Signal \/ Kill
  <2>1. step' \in {"restore", "idle"}
    BY <1>4 DEF FetchFails, SwapFails, WriteServiceFails, Restart, RestartFails, Signal, Kill,
                OnExit, Restore, Finish
  <2> QED BY <2>1 DEF SwappedInv
<1>5. CASE WriteService
  <2>1. op' # "geo"
    BY <1>5 DEF WriteService, StepInv, Finish
  <2> QED BY <2>1 DEF SwappedInv
<1>6. ASSUME NEW f \in Files, PutBack(f) \/ Copy(f) \/ PutBackFails(f) \/ PutBackDone \/ Revive
      PROVE  SwappedInv'
  <2>1. step' \in {"restore", "copy", "revive", "idle"}
    BY <1>6 DEF PutBack, Copy, PutBackFails, PutBackDone, Revive, Restore, Restoring, Finish, Goto
  <2> QED BY <2>1 DEF SwappedInv
<1>7. CASE BeginGeo
  <2>1. step' = "fetch" /\ at' = "geoip" /\ files' = files /\ before' = files
    BY <1>7 DEF BeginGeo, Begin, Goto, fileVars
  <2> QED BY <2>1 DEF SwappedInv
<1>8. CASE BeginUpdate \/ BeginInstall \/ \E f \in OnDemand : BeginEnsure(f)
  <2>1. op' # "geo"
    BY <1>8 DEF BeginUpdate, BeginInstall, BeginEnsure, Begin, control
  <2> QED BY <2>1 DEF SwappedInv
<1>9. CASE \/ MenuStart \/ MenuStop \/ NewRelease \/ (\E e \in Cores : ImportFor(e))
  <2>1. op' # "geo"
    BY <1>9 DEF MenuStart, MenuStop, NewRelease, ImportFor, control
  <2> QED BY <2>1 DEF SwappedInv
<1>10. CASE CoreDies \/ CoreRestarts \/ UNCHANGED vars
  <2>1. UNCHANGED <<fileVars, control, before>>
    BY <1>10 DEF CoreDies, CoreRestarts, vars, history
  <2> QED BY <2>1 DEF SwappedInv, fileVars, control
<1>0. Cores \subseteq Files /\ "geoip" \in Files
  BY DEF Files, Geo
<1> QED BY <1>0, <1>1, <1>2, <1>3, <1>4, <1>5, <1>6, <1>7, <1>8, <1>9, <1>10
        DEF Next, OpStep, OpFails

\* What an operation places as a core is a version, of Xray a known one.
LEMMA PlacesVersions ==
    ASSUME TypeOK, AheadInv, NEW f \in Cores, at = f, op \in {"update", "install", "ensure"}
    PROVE  Wanted(f) \in Versions /\ (f = "xray" => Wanted(f) \in 1 .. release)
<1>1. release \in MinSafe .. NumReleases /\ NumReleases \in Nat /\ MinSafe \in 1 .. NumReleases
  BY ReleasesAssumption DEF AheadInv, Versions
<1>2. CASE f \in OnDemand
  BY <1>2, ReleasesAssumption DEF Wanted, OnDemand
<1>3. CASE f \notin OnDemand
  <2>1. f = "xray"
    BY <1>3 DEF Cores
  <2>2. target \in MinSafe .. release
    BY <1>3 DEF AheadInv
  <2>3. target \in 1 .. release /\ target \in Versions
    BY <1>1, <2>2 DEF Versions
  <2> QED BY <1>3, <2>1, <2>3 DEF Wanted
<1> QED BY <1>2, <1>3

\* The step after an installed file.
LEMMA ProceedLively ==
    ASSUME StepInv, LivelyInv, NEW f \in Files, step \in {"place", "check"}, Proceed(f), Lively'
    PROVE  LivelyInv'
<1>1. op \in {"update", "install", "ensure"}
  BY DEF StepInv
<1>2. CASE Finish("installed")
  BY <1>2 DEF Finish, LivelyInv
<1>3. CASE ~Finish("installed")
  <2>1. step' \in {"place", "service"} /\ UNCHANGED <<op, armed>>
    BY <1>1, <1>3 DEF Proceed, Finished, Goto
  <2> QED BY <1>1, <2>1 DEF LivelyInv
<1> QED BY <1>2, <1>3

LEMMA InstallFailsLively ==
    ASSUME StepInv, LivelyInv, NEW f \in Files, step \in {"place", "check"}, InstallFails(f), Lively'
    PROVE  LivelyInv'
<1>1. CASE op = "update"
  BY <1>1 DEF InstallFails, Restore, LivelyInv
<1>2. CASE op = "install" /\ f \in OnDemand
  BY <1>2, ProceedLively DEF InstallFails
<1>3. CASE ~(op = "update") /\ ~(op = "install" /\ f \in OnDemand)
  BY <1>3 DEF InstallFails, Finish, LivelyInv
<1> QED BY <1>1, <1>2, <1>3

\* A core that is replaced is set aside first, and moved back when the new one does not run.
LEMMA InstallLively ==
    ASSUME TypeOK, StepInv, LivelyInv, AheadInv, NEW f \in Files,
           Place(f) \/ PlaceFails(f) \/ (f \in Cores /\ (Check(f) \/ CheckFails(f)))
    PROVE  Lively' /\ LivelyInv'
<1>1. /\ at = f /\ step \in {"place", "check"} /\ before' = before
      /\ op \in {"update", "install", "ensure"} /\ Lively
  BY DEF StepInv, LivelyInv, Place, PlaceFails, Check, CheckFails, history
<1>2. CASE Place(f)
  <2>1. files' = [files EXCEPT ![f] = Wanted(f)] /\ bak' = Backup(f)
    BY <1>2 DEF Place
  <2>2. \A c \in Cores : files'[c] = IF c = f THEN Wanted(f) ELSE files[c]
    BY <2>1 DEF TypeOK, FileTypes, Files
  <2>3. Lively'
    <3> SUFFICES ASSUME NEW c \in Cores, before[c] \in Versions PROVE files'[c] \in Versions
      BY <1>1 DEF Lively
    <3>1. CASE c = f
      BY <1>1, <2>2, <3>1, PlacesVersions
    <3>2. CASE c # f
      BY <1>1, <2>2, <3>2 DEF Lively
    <3> QED BY <3>1, <3>2
  <2>4. CASE f \in Cores
    <3>1. step' = "check" /\ at' = f /\ UNCHANGED <<op, armed>>
      BY <1>2, <2>4 DEF Place, Goto
    <3>2. before[f] \in Versions => bak'[f] # Absent
      <4>1. before[f] \in Versions => files[f] \in Versions
        BY <1>1, <2>4 DEF Lively
      <4>2. Absent \notin Versions
        BY SentinelsAssumption
      <4> QED BY <2>1, <2>4, <4>1, <4>2 DEF Backup, Executable, TypeOK, FileTypes
    <3> QED BY <1>1, <2>3, <2>4, <3>1, <3>2 DEF LivelyInv
  <2>5. CASE f \notin Cores
    BY <1>1, <1>2, <2>3, <2>5, ProceedLively DEF Place
  <2> QED BY <2>3, <2>4, <2>5
<1>3. CASE PlaceFails(f)
  <2>1. Lively'
    BY <1>1, <1>3 DEF PlaceFails, Lively
  <2> QED BY <1>1, <1>3, <2>1, InstallFailsLively DEF PlaceFails
<1>4. CASE Check(f)
  <2>1. Lively'
    BY <1>1, <1>4 DEF Check, Lively
  <2> QED BY <1>1, <1>4, <2>1, ProceedLively DEF Check
<1>5. CASE f \in Cores /\ CheckFails(f)
  <2>1. before[f] \in Versions => bak[f] # Absent
    BY <1>1, <1>5 DEF CheckFails, LivelyInv
  <2>2. bak[f] # Absent => bak[f] \in Versions
    BY <1>5 DEF TypeOK, FileTypes
  <2>3. Lively'
    <3> SUFFICES ASSUME NEW c \in Cores, before[c] \in Versions PROVE files'[c] \in Versions
      BY <1>1 DEF Lively
    <3>1. c \in Files /\ files[c] \in Versions
      BY <1>1 DEF Lively, Files
    <3>2. CASE bak[f] # Absent
      <4>1. files' = [files EXCEPT ![f] = bak[f]]
        BY <1>5, <3>2 DEF CheckFails
      <4> QED BY <2>2, <3>1, <3>2, <4>1 DEF TypeOK, FileTypes
    <3>3. CASE bak[f] = Absent
      <4>1. c # f
        BY <2>1, <3>3
      <4>2. files' = [files EXCEPT ![f] = Absent] \/ files' = files
        BY <1>5, <3>3 DEF CheckFails
      <4> QED BY <3>1, <4>1, <4>2 DEF TypeOK, FileTypes
    <3> QED BY <3>2, <3>3
  <2> QED BY <1>1, <1>5, <2>3, InstallFailsLively DEF CheckFails
<1> QED BY <1>2, <1>3, <1>4, <1>5

\* As long as nothing is put back, every core that ran can run.
LEMMA LivelyNext ==
    ASSUME TypeOK, StepInv, UndoInv, LivelyInv, AheadInv, [Next]_vars
    PROVE  LivelyInv'
<1>0. Cores \subseteq Files /\ "geoip" \in Files
  BY DEF Files, Geo
<1>1. ASSUME NEW f \in Files,
             Place(f) \/ PlaceFails(f) \/ (f \in Cores /\ (Check(f) \/ CheckFails(f)))
      PROVE  LivelyInv'
  BY <1>1, InstallLively
<1>2. ASSUME NEW f \in Files, Fetch(f) PROVE LivelyInv'
  <2>1. op = "geo" /\ step = "fetch" /\ step' = "swap" /\ armed' /\ UNCHANGED <<op, files, before>>
    BY <1>2 DEF Fetch, Goto, StepInv, fileVars, history
  <2> QED BY <2>1 DEF LivelyInv, Lively
<1>3. ASSUME NEW f \in Files, Swap(f) PROVE LivelyInv'
  <2>1. op = "geo" /\ f = at /\ at \in Geo /\ step = "swap" /\ before' = before
        /\ files' = [files EXCEPT ![f] = target]
    BY <1>3 DEF Swap, StepInv, UndoInv, TurnInv, history
  <2>2. \A c \in Cores : files'[c] = files[c]
    BY <2>1 DEF TypeOK, FileTypes, Cores, OnDemand, Geo
  <2>3. CASE Finish("geo_updated")
    BY <2>3 DEF Finish, LivelyInv
  <2>4. CASE ~Finish("geo_updated")
    <3>1. step' \in {"fetch", "restart"} /\ UNCHANGED <<op, armed>>
      BY <1>3, <2>4 DEF Swap, Goto
    <3> QED BY <2>1, <2>2, <3>1 DEF LivelyInv, Lively
  <2> QED BY <2>3, <2>4
<1>4. CASE FetchFails \/ SwapFails \/ WriteServiceFails \/ RestartFails \/ Signal \/ Kill \/ Restart
  <2>1. \/ op' = "none" /\ step' = "idle"
        \/ step' = "restore" /\ UNCHANGED <<op, armed>> /\ (armed \/ step \in {"swap", "service", "restart"})
    BY <1>4 DEF FetchFails, SwapFails, WriteServiceFails, RestartFails, Restart, Signal, Kill,
                OnExit, Restore, Finish
  <2>2. step \in {"swap", "service", "restart"} => op \in {"geo", "update"}
    BY DEF StepInv
  <2> QED BY <2>1, <2>2 DEF LivelyInv
<1>5. CASE WriteService
  <2>1. CASE was
    <3>1. step = "service" /\ step' = "restart" /\ UNCHANGED <<op, armed, files, before>> /\ op = "update"
      BY <1>5, <2>1 DEF WriteService, Goto, fileVars, history, StepInv
    <3> QED BY <3>1 DEF LivelyInv, Lively
  <2>2. CASE ~was
    BY <1>5, <2>2 DEF WriteService, Finish, LivelyInv
  <2> QED BY <2>1, <2>2
<1>6. ASSUME NEW f \in Files, PutBack(f) \/ Copy(f) \/ PutBackFails(f) PROVE LivelyInv'
  <2>1. step \in {"restore", "copy"} /\ step' \in {"restore", "copy"} /\ UNCHANGED <<op, armed>>
    BY <1>6 DEF PutBack, Copy, PutBackFails, Restoring, Goto
  <2> QED BY <2>1 DEF LivelyInv
<1>7. CASE PutBackDone \/ Revive
  <2>1. \/ op' = "none" /\ step' = "idle"
        \/ step' = "revive"
        \/ step' = "restore" /\ step = "restore" /\ UNCHANGED <<op, armed>>
    BY <1>7 DEF PutBackDone, Revive, Restore, Finish, Goto
  <2> QED BY <2>1 DEF LivelyInv
<1>8. CASE BeginUpdate \/ BeginInstall \/ BeginGeo \/ \E f \in OnDemand : BeginEnsure(f)
  <2>1. CASE op' = "none"
    <3>1. step' = step /\ op = "none"
      BY <1>8, <2>1 DEF BeginUpdate, BeginInstall, BeginGeo, BeginEnsure, Begin, control
    <3> QED BY <2>1, <3>1 DEF LivelyInv, StepInv
  <2>2. CASE op' # "none"
    <3>1. /\ before' = files /\ files' = files
          /\ \/ step' = "place" /\ (op' = "update" => armed') /\ op' \in {"update", "install", "ensure"}
             \/ step' = "fetch"
      BY <1>8, <2>2 DEF BeginUpdate, BeginInstall, BeginGeo, BeginEnsure, Begin, Goto, control, fileVars, StepInv
    <3> QED BY <2>2, <3>1 DEF LivelyInv, Lively
  <2> QED BY <2>1, <2>2
<1>9. CASE \/ MenuStart \/ MenuStop \/ NewRelease \/ (\E e \in Cores : ImportFor(e))
  <2>1. op' = "none" /\ step' = "idle"
    BY <1>9 DEF MenuStart, MenuStop, NewRelease, ImportFor, control, StepInv
  <2> QED BY <2>1 DEF LivelyInv
<1>10. CASE CoreDies \/ CoreRestarts \/ UNCHANGED vars
  <2>1. UNCHANGED <<fileVars, control, before>>
    BY <1>10 DEF CoreDies, CoreRestarts, vars, history
  <2> QED BY <2>1 DEF LivelyInv, Lively, fileVars, control
<1> QED BY <1>0, <1>1, <1>2, <1>3, <1>4, <1>5, <1>6, <1>7, <1>8, <1>9, <1>10
        DEF Next, OpStep, OpFails

\* A file that exists in no version is as known as one of a known version.
LEMMA WrecksAreKnown == Known(Absent) /\ Known(Torn) /\ Known(None)
BY SentinelsAssumption DEF Known

\* The target of an installation: not older than what is there, nor than MinSafe.
LEMMA TargetIsAhead ==
    ASSUME TypeOK, AheadInv, NEW answered \in BOOLEAN
    PROVE  /\ XrayTarget(answered) \in MinSafe .. release
           /\ files["xray"] \in Versions => XrayTarget(answered) \in files["xray"] .. release
<1>1. /\ NumReleases \in Nat /\ MinSafe \in 1 .. NumReleases
      /\ release \in MinSafe .. NumReleases
  BY ReleasesAssumption DEF AheadInv, Versions
<1>2. CASE answered
  <2>1. XrayTarget(answered) = release
    BY <1>1, <1>2 DEF XrayTarget, Versions
  <2>2. files["xray"] \in Versions => files["xray"] \in 1 .. release
    BY DEF AheadInv, Known
  <2> QED BY <1>1, <2>1, <2>2
<1>3. CASE ~answered
  <2>1. CASE files["xray"] \in Versions
    <3>1. files["xray"] \in 1 .. release
      BY <2>1 DEF AheadInv, Known
    <3>2. XrayTarget(answered) = IF files["xray"] >= MinSafe THEN files["xray"] ELSE MinSafe
      BY <1>3, <2>1 DEF XrayTarget
    <3> QED BY <1>1, <3>1, <3>2
  <2>2. CASE files["xray"] \notin Versions
    <3>1. XrayTarget(answered) = MinSafe
      BY <1>3, <2>2 DEF XrayTarget
    <3> QED BY <1>1, <2>2, <3>1
  <2> QED BY <2>1, <2>2
<1> QED BY <1>2, <1>3

\* What stays known when Xray and its copies do.
LEMMA StaysAhead ==
    ASSUME AheadInv, UNCHANGED <<release, target, before>>, op' \in {"none", op},
           at' = at \/ op # "ensure", Known(files'["xray"]), Known(bak'["xray"]),
           backup' = backup \/ backup'["xray"] = None
    PROVE  AheadInv'
<1>1. Known(backup'["xray"])
  BY WrecksAreKnown DEF AheadInv
<1>2. Known(files["xray"])' /\ Known(bak["xray"])' /\ Known(backup["xray"])'
  BY <1>1 DEF Known
<1> QED BY <1>2 DEF AheadInv

\* The same for an operation that ends.
LEMMA EndsAhead ==
    ASSUME AheadInv, release' = release, NEW how, Finish(how),
           Known(files'["xray"]), Known(bak'["xray"])
    PROVE  AheadInv'
<1>1. op' = "none" /\ backup'["xray"] = None
  BY DEF Finish, Files, Cores
<1>2. Known(files["xray"])' /\ Known(bak["xray"])' /\ Known(backup["xray"])'
  BY <1>1, WrecksAreKnown DEF Known
<1> QED BY <1>1, <1>2 DEF AheadInv

LEMMA ProceedAhead ==
    ASSUME StepInv, AheadInv, release' = release, before' = before, NEW f \in Files,
           step \in {"place", "check"}, Proceed(f),
           Known(files'["xray"]), Known(bak'["xray"])
    PROVE  AheadInv'
<1>1. op \in {"update", "install", "ensure"}
  BY DEF StepInv
<1>2. CASE Finish("installed")
  BY <1>2, EndsAhead
<1>3. CASE ~Finish("installed")
  <2>1. UNCHANGED <<op, target, backup>> /\ op # "ensure"
    BY <1>1, <1>3 DEF Proceed, Finished, Goto
  <2> QED BY <2>1, StaysAhead
<1> QED BY <1>2, <1>3

LEMMA InstallFailsAhead ==
    ASSUME StepInv, AheadInv, release' = release, before' = before, NEW f \in Files,
           step \in {"place", "check"}, InstallFails(f),
           Known(files'["xray"]), Known(bak'["xray"])
    PROVE  AheadInv'
<1>1. CASE op = "update"
  <2>1. UNCHANGED <<op, target, backup, at>>
    BY <1>1 DEF InstallFails, Restore
  <2> QED BY <2>1, StaysAhead
<1>2. CASE op = "install" /\ f \in OnDemand
  BY <1>2, ProceedAhead DEF InstallFails
<1>3. CASE ~(op = "update") /\ ~(op = "install" /\ f \in OnDemand)
  BY <1>3, EndsAhead DEF InstallFails
<1> QED BY <1>1, <1>2, <1>3

LEMMA InstallAhead ==
    ASSUME TypeOK, StepInv, AheadInv, Outside, NEW f \in Files,
           Place(f) \/ PlaceFails(f) \/ (f \in Cores /\ (Check(f) \/ CheckFails(f)))
    PROVE  AheadInv'
<1>1. /\ at = f /\ step \in {"place", "check"} /\ UNCHANGED <<before, release>>
      /\ op \in {"update", "install", "ensure"}
  BY DEF StepInv, Place, PlaceFails, Check, CheckFails, history, Outside
<1>2. "xray" \in Cores /\ "xray" \in Files /\ Cores \subseteq Files
  BY DEF Cores, Files
<1>3. Known(files["xray"]) /\ Known(bak["xray"])
  BY DEF AheadInv
<1>4. Known(Backup(f)["xray"])
  BY <1>2, <1>3 DEF Backup, TypeOK, FileTypes
<1>5. CASE Place(f)
  <2>1. files' = [files EXCEPT ![f] = Wanted(f)] /\ bak' = Backup(f)
    BY <1>5 DEF Place
  <2>2. Known(files'["xray"])
    <3>1. CASE f = "xray"
      <4>1. Wanted(f) \in 1 .. release
        BY <1>1, <1>2, <3>1, PlacesVersions
      <4> QED BY <1>2, <2>1, <3>1, <4>1 DEF Known, TypeOK, FileTypes
    <3>2. CASE f # "xray"
      BY <1>2, <1>3, <2>1, <3>2 DEF TypeOK, FileTypes
    <3> QED BY <3>1, <3>2
  <2>3. CASE f \in Cores
    <3>1. UNCHANGED <<op, target, backup>> /\ at' = at
      BY <1>1, <1>5, <2>3 DEF Place, Goto
    <3> QED BY <1>1, <1>4, <2>1, <2>2, <3>1, StaysAhead
  <2>4. CASE f \notin Cores
    BY <1>1, <1>4, <1>5, <2>1, <2>2, <2>4, ProceedAhead DEF Place
  <2> QED BY <2>3, <2>4
<1>6. CASE PlaceFails(f)
  <2>1. Known(files'["xray"]) /\ Known(bak'["xray"]) /\ InstallFails(f)
    BY <1>3, <1>4, <1>6 DEF PlaceFails
  <2> QED BY <1>1, <2>1, InstallFailsAhead
<1>7. CASE f \in Cores /\ Check(f)
  <2>1. bak'["xray"] = bak["xray"] /\ files' = files /\ Proceed(f)
    BY <1>2, <1>7 DEF Check, TypeOK, FileTypes
  <2> QED BY <1>1, <1>3, <2>1, ProceedAhead
<1>8. CASE f \in Cores /\ CheckFails(f)
  <2>1. /\ files'["xray"] \in {files["xray"], bak["xray"], Absent}
        /\ bak'["xray"] \in {bak["xray"], Absent}
    BY <1>2, <1>8 DEF CheckFails, TypeOK, FileTypes
  <2>2. Known(files'["xray"]) /\ Known(bak'["xray"])
    BY <1>3, <2>1, WrecksAreKnown
  <2> QED BY <1>1, <1>8, <2>2, InstallFailsAhead DEF CheckFails
<1> QED BY <1>5, <1>6, <1>7, <1>8

\* No step brings in a version that the release does not know.
LEMMA AheadNext ==
    ASSUME TypeOK, StepInv, UndoInv, CleanCopies = TRUE, AheadInv, [Next]_vars
    PROVE  AheadInv'
<1>0. Cores \subseteq Files /\ "geoip" \in Files /\ "xray" \in Files /\ "xray" \notin Geo
  BY DEF Files, Geo, Cores, OnDemand
<1>1. Known(files["xray"]) /\ Known(bak["xray"]) /\ Known(backup["xray"])
  BY DEF AheadInv
<1>2. ASSUME Outside, NEW f \in Files,
             Place(f) \/ PlaceFails(f) \/ (f \in Cores /\ (Check(f) \/ CheckFails(f)))
      PROVE  AheadInv'
  BY <1>2, InstallAhead
<1>3. ASSUME Outside, NEW f \in Files, Fetch(f) PROVE AheadInv'
  <2>1. UNCHANGED <<files, bak, release, target, before, op>> /\ op = "geo" /\ f = at /\ f \in Geo
        /\ backup' = [backup EXCEPT ![f] = files[f]]
    BY <1>3 DEF Fetch, fileVars, history, Outside, StepInv, UndoInv, TurnInv
  <2>2. backup'["xray"] = backup["xray"]
    BY <1>0, <2>1 DEF TypeOK, ControlTypes
  <2> QED BY <1>1, <2>1, <2>2 DEF AheadInv, Known
<1>4. ASSUME Outside, NEW f \in Files, Swap(f) PROVE AheadInv'
  <2>1. UNCHANGED <<bak, release, before>> /\ op = "geo" /\ f = at /\ f \in Geo
        /\ files' = [files EXCEPT ![f] = target]
    BY <1>4 DEF Swap, history, Outside, StepInv, UndoInv, TurnInv
  <2>2. files'["xray"] = files["xray"]
    BY <1>0, <2>1 DEF TypeOK, FileTypes
  <2>3. CASE Finish("geo_updated")
    BY <1>1, <2>1, <2>2, <2>3, EndsAhead
  <2>4. CASE ~Finish("geo_updated")
    <3>1. UNCHANGED <<op, target, backup>>
      BY <1>4, <2>4 DEF Swap
    <3> QED BY <1>1, <2>1, <2>2, <3>1, StaysAhead
  <2> QED BY <2>3, <2>4
<1>5. CASE Outside /\ FetchFails
  <2>1. PICK part \in {None} : OnExit([backup EXCEPT ![at] = part])
    BY <1>5, <1>0 DEF FetchFails
  <2>2. UNCHANGED <<files, bak, release, before>>
    BY <1>5 DEF FetchFails, fileVars, history, Outside
  <2>3. CASE armed
    <3>1. UNCHANGED <<op, target, at>> /\ backup' = [backup EXCEPT ![at] = None]
      BY <2>1, <2>3 DEF OnExit
    <3>2. backup'["xray"] \in {backup["xray"], None}
      BY <1>0, <3>1 DEF TypeOK, ControlTypes
    <3>3. Known(backup'["xray"])
      BY <1>1, <3>2, WrecksAreKnown
    <3> QED BY <1>1, <2>2, <3>1, <3>3 DEF AheadInv, Known
  <2>4. CASE ~armed
    BY <1>1, <2>1, <2>2, <2>4, EndsAhead DEF OnExit
  <2> QED BY <2>3, <2>4
<1>6. CASE Outside /\ (SwapFails \/ WriteServiceFails \/ RestartFails \/ WriteService \/ Restart
                        \/ PutBackDone \/ Revive \/ Signal)
  <2>1. UNCHANGED <<files, bak, release, before>>
    BY <1>6 DEF SwapFails, WriteServiceFails, RestartFails, WriteService, Restart, PutBackDone, Revive,
                Signal, fileVars, history, Outside
  <2>2. \/ \E how \in Outcomes : Finish(how)
        \/ UNCHANGED <<op, target, at, backup>>
    BY <1>6 DEF SwapFails, WriteServiceFails, RestartFails, WriteService, Restart, PutBackDone, Revive,
                Signal, OnExit, Restore, Goto, Outcomes
  <2> QED BY <1>1, <2>1, <2>2, EndsAhead, StaysAhead
<1>7. CASE Outside /\ Kill
  <2>1. op' = "none" /\ UNCHANGED <<files, bak, release>> /\ Finish("killed")
    BY <1>7 DEF Kill, Finish, fileVars, Outside
  <2> QED BY <1>1, <2>1, EndsAhead
<1>8. ASSUME Outside, NEW f \in Files, PutBack(f) \/ Copy(f) \/ PutBackFails(f) PROVE AheadInv'
  <2>1. UNCHANGED <<bak, release, before, op, target, backup>> /\ op # "ensure"
        /\ \E v \in {Absent, Torn, backup[f]} : files' \in {files, [files EXCEPT ![f] = v]}
    BY <1>8 DEF PutBack, Copy, PutBackFails, Restoring, fileVars, history, Outside, StepInv
  <2>2. Known(files'["xray"])
    BY <1>0, <1>1, <2>1, WrecksAreKnown DEF TypeOK, FileTypes
  <2> QED BY <1>1, <2>1, <2>2, StaysAhead
<1>9. CASE BeginUpdate
  <2>1. PICK answered \in BOOLEAN :
          \/ UNCHANGED <<fileVars, release, control>> /\ op = "none"
          \/ /\ Begin("update", "place", "xray", XrayTarget(answered))
             /\ backup' = files
    BY <1>9 DEF BeginUpdate
  <2>2. CASE UNCHANGED <<fileVars, release, control>> /\ op = "none"
    BY <1>1, <2>2 DEF AheadInv, Known, fileVars, control
  <2>3. CASE Begin("update", "place", "xray", XrayTarget(answered)) /\ backup' = files
    <3>1. /\ op' = "update" /\ target' = XrayTarget(answered) /\ before' = files
          /\ UNCHANGED <<files, bak, release>>
      BY <2>3 DEF Begin, fileVars
    <3> QED BY <1>1, <2>3, <3>1, TargetIsAhead DEF AheadInv, Known
  <2> QED BY <2>1, <2>2, <2>3
<1>10. CASE BeginInstall
  <2>1. PICK answered \in BOOLEAN : Begin("install", "place", "xray", XrayTarget(answered))
    BY <1>10 DEF BeginInstall
  <2>2. op' = "install" /\ target' = XrayTarget(answered) /\ UNCHANGED <<files, bak, release, backup>>
    BY <1>10, <2>1 DEF Begin, BeginInstall, fileVars
  <2> QED BY <1>1, <2>2, TargetIsAhead DEF AheadInv, Known
<1>11. CASE BeginGeo \/ \E f \in OnDemand : BeginEnsure(f)
  <2>1. op' \in {"geo", "ensure"} /\ UNCHANGED <<files, bak, release, backup>>
        /\ (op' = "ensure" => at' \in OnDemand)
    BY <1>11 DEF BeginGeo, BeginEnsure, Begin, Goto, fileVars
  <2> QED BY <1>1, <2>1 DEF AheadInv, Known
<1>12. CASE (CoreDies \/ CoreRestarts \/ MenuStart \/ MenuStop) /\ Outside
  <2>1. UNCHANGED <<fileVars, control, release>> /\ (before' = before \/ op = "none")
    BY <1>12 DEF CoreDies, CoreRestarts, MenuStart, MenuStop, Outside, history
  <2> QED BY <1>1, <2>1 DEF AheadInv, Known, fileVars, control
<1>13. CASE (\E e \in Cores : ImportFor(e)) \/ UNCHANGED vars
  <2>1. UNCHANGED <<fileVars, control, release>> /\ (before' = before \/ op = "none")
    BY <1>13 DEF ImportFor, vars, history
  <2> QED BY <1>1, <2>1 DEF AheadInv, Known, fileVars, control
<1>14. CASE NewRelease
  <2>1. /\ UNCHANGED <<fileVars, control>> /\ op = "none"
        /\ release' = release + 1 /\ release < NumReleases
    BY <1>14 DEF NewRelease
  <2>2. release \in MinSafe .. NumReleases /\ MinSafe \in Nat /\ NumReleases \in Nat
    BY ReleasesAssumption DEF AheadInv, Versions
  <2>3. release' \in MinSafe .. NumReleases /\ 1 .. release \subseteq 1 .. release'
    BY <2>1, <2>2
  <2>4. Known(files["xray"])' /\ Known(bak["xray"])' /\ Known(backup["xray"])'
    BY <1>1, <2>1, <2>3 DEF Known, fileVars, control
  <2> QED BY <2>1, <2>3, <2>4 DEF AheadInv, control
<1> QED BY <1>0, <1>2, <1>3, <1>4, <1>5, <1>6, <1>7, <1>8, <1>9, <1>10, <1>11, <1>12, <1>13, <1>14
        DEF Next, OpStep, OpFails

\* An operation that ends without having updated anything has cost no core.
LEMMA EndsForward ==
    ASSUME NEW how, Finish(how), how \notin {"updated", "geo_updated"},
           how \in {"incomplete", "killed"} \/ Lively'
    PROVE  UpdatesGoForward'
BY DEF Finish, UpdatesGoForward, UpdatedIsComplete, NoDowngrade, CoresSurvive, Lively, Executable

\* Nor has one that has put everything back.
LEMMA UndoneIsLively ==
    ASSUME \A f \in Files : files'[f] = before'[f]
    PROVE  Lively'
BY DEF Lively, Files

\* Nothing changes while the last outcome stands; an operation has none yet.
LEMMA StaysForward ==
    ASSUME UpdatesGoForward, UNCHANGED <<files, target, before, outcome>>
           \/ outcome' \in {"none", "current"}
    PROVE  UpdatesGoForward'
BY DEF UpdatesGoForward, UpdatedIsComplete, NoDowngrade, CoresSurvive, CoresCurrent, Executable

\* An update that ends well has every file where it wanted it.
LEMMA UpdatedForward ==
    ASSUME TypeOK, StepInv, ForwardInv, op = "update", step \in {"service", "restart"},
           Finish("updated"), UNCHANGED <<files, before>>
    PROVE  UpdatesGoForward'
<1>1. target' = target /\ outcome' = "updated" /\ Lively /\ \A g \in Files : Current(g)
  BY DEF Finish, ForwardInv, PlacedInv, LivelyInv
<1>2. files["xray"] = target /\ \A g \in Geo : files[g] = target
  BY <1>1 DEF Current, Files, Cores, Geo, OnDemand
<1>3. \A f \in OnDemand : Executable(f) => files[f] = Pinned
  BY <1>1 DEF Current, Files, Cores
<1>4. UpdatedIsComplete'
  BY <1>1, <1>2, <1>3 DEF UpdatedIsComplete, CoresCurrent, Executable
<1>5. target \in MinSafe .. release /\ (before["xray"] \in Versions => target \in before["xray"] .. release)
  BY DEF ForwardInv, AheadInv
<1>6. files["xray"] >= MinSafe /\ (before["xray"] \in Versions => files["xray"] >= before["xray"])
  <2>1. MinSafe \in Nat /\ release \in Nat /\ (before["xray"] \in Versions => before["xray"] \in Nat)
    BY ReleasesAssumption DEF TypeOK, ServiceTypes, Versions
  <2> QED BY <1>2, <1>5, <2>1
<1>7. NoDowngrade'
  BY <1>6 DEF NoDowngrade
<1>8. CoresSurvive'
  BY <1>1 DEF CoresSurvive, Lively, Executable
<1> QED BY <1>4, <1>7, <1>8 DEF UpdatesGoForward

\* A geo update that ends well has changed the geo files and nothing else.
LEMMA GeoForward ==
    ASSUME TypeOK', Finish("geo_updated"), target' = target, before' = before, Lively',
           \A g \in Files : files'[g] = IF g \in Geo THEN target ELSE before[g]
    PROVE  UpdatesGoForward'
<1>1. outcome' = "geo_updated"
  BY DEF Finish
<1>2. files' = [f \in Files |-> IF f \in Geo THEN target' ELSE before'[f]]
  BY DEF TypeOK, FileTypes
<1> QED BY <1>1, <1>2 DEF UpdatesGoForward, UpdatedIsComplete, NoDowngrade, CoresSurvive, Lively,
                         Executable

LEMMA ForwardNext ==
    ASSUME TypeOK, StepInv, UndoInv, ForwardInv, CleanCopies = TRUE, [Next]_vars, TypeOK'
    PROVE  UpdatesGoForward'
<1>0. Cores \subseteq Files /\ "geoip" \in Files
  BY DEF Files, Geo
<1>1. /\ UpdatesGoForward /\ LivelyInv /\ AheadInv
      /\ op # "none" => outcome = "none"
  BY DEF ForwardInv, UndoInv, OutcomeInv
<1>2. ASSUME NEW f \in Files,
             Place(f) \/ PlaceFails(f) \/ (f \in Cores /\ (Check(f) \/ CheckFails(f)))
      PROVE  UpdatesGoForward'
  <2>1. Lively' /\ step \in {"place", "check"} /\ op \in {"update", "install", "ensure"} /\ outcome = "none"
    BY <1>1, <1>2, InstallLively DEF StepInv, Place, PlaceFails, Check, CheckFails
  <2>2. Proceed(f) => Finish("installed") \/ outcome' = outcome
    BY <2>1 DEF Proceed, Finished
  <2>3. InstallFails(f) => Finish("installed") \/ Finish("failed") \/ outcome' = outcome
    BY <2>2 DEF InstallFails, Restore
  <2>4. Finish("installed") \/ Finish("failed") \/ outcome' = outcome
    BY <1>2, <2>2, <2>3 DEF Place, PlaceFails, Check, CheckFails
  <2> QED BY <1>1, <2>1, <2>4, EndsForward, StaysForward
<1>3. ASSUME NEW f \in Files, Swap(f) PROVE UpdatesGoForward'
  <2>1. f = at /\ f \in Geo /\ op = "geo" /\ step = "swap" /\ before' = before
        /\ files' = [files EXCEPT ![f] = target] /\ outcome = "none"
    BY <1>1, <1>3 DEF Swap, StepInv, UndoInv, TurnInv, history
  <2>2. CASE outcome' = outcome
    BY <1>1, <2>1, <2>2, StaysForward
  <2>3. CASE outcome' # outcome
    <3>1. f = "geosite" /\ Finish("geo_updated")
      BY <1>3, <2>1, <2>3 DEF Swap, Geo
    <3>2. \A g \in Files : files[g] = IF g = "geoip" THEN target ELSE before[g]
      BY <2>1, <3>1 DEF ForwardInv, SwappedInv
    <3>3. \A g \in Files : files'[g] = IF g = f THEN target ELSE files[g]
      BY <2>1 DEF TypeOK, FileTypes
    <3>4. \A g \in Files : files'[g] = IF g \in Geo THEN target ELSE before[g]
      BY <3>1, <3>2, <3>3 DEF Geo
    <3>5. Lively'
      <4>1. Lively /\ \A c \in Cores : files'[c] = files[c]
        BY <1>0, <1>1, <2>1, <3>3 DEF LivelyInv, Cores, OnDemand, Geo
      <4> QED BY <2>1, <4>1 DEF Lively
    <3>6. target' = target
      BY <3>1 DEF Finish
    <3> QED BY <2>1, <3>1, <3>4, <3>5, <3>6, GeoForward
  <2> QED BY <2>2, <2>3
<1>4. CASE Restart
  <2>1. op \in {"update", "geo"} /\ step = "restart" /\ UNCHANGED <<files, before>>
        /\ Finish(IF op = "geo" THEN "geo_updated" ELSE "updated")
    BY <1>4 DEF Restart, StepInv, fileVars, history
  <2>2. CASE op = "update"
    BY <2>1, <2>2, UpdatedForward
  <2>3. CASE op = "geo"
    <3>1. Finish("geo_updated") /\ target' = target
      BY <2>1, <2>3 DEF Finish
    <3>2. Lively'
      BY <1>1, <2>1, <2>3 DEF LivelyInv, Lively
    <3>3. \A g \in Files : files'[g] = IF g \in Geo THEN target ELSE before[g]
      BY <2>1, <2>3 DEF ForwardInv, SwappedInv
    <3> QED BY <2>1, <3>1, <3>2, <3>3, GeoForward
  <2> QED BY <2>1, <2>2, <2>3
<1>5. CASE WriteService
  <2>1. op = "update" /\ step = "service" /\ UNCHANGED <<files, before>> /\ outcome = "none"
    BY <1>1, <1>5 DEF WriteService, StepInv, fileVars, history
  <2>2. Finish("updated") \/ outcome' = outcome
    BY <1>5 DEF WriteService
  <2> QED BY <1>1, <2>1, <2>2, UpdatedForward, StaysForward
<1>6. CASE FetchFails \/ SwapFails \/ WriteServiceFails \/ RestartFails
  <2>1. outcome = "none" /\ UNCHANGED <<files, before>> /\ op # "none"
        /\ step \in {"fetch", "swap", "service", "restart"}
    BY <1>1, <1>6 DEF FetchFails, SwapFails, WriteServiceFails, RestartFails, StepInv, fileVars, history
  <2>2. Lively'
    BY <1>1, <2>1 DEF LivelyInv, Lively
  <2>3. Finish("failed") \/ outcome' = outcome
    BY <1>6 DEF FetchFails, SwapFails, WriteServiceFails, RestartFails, OnExit, Restore
  <2> QED BY <1>1, <2>1, <2>2, <2>3, EndsForward, StaysForward
<1>7. ASSUME NEW f \in Files, Fetch(f) \/ PutBack(f) \/ Copy(f) \/ PutBackFails(f)
      PROVE  UpdatesGoForward'
  <2>1. outcome = "none" /\ outcome' = outcome
    BY <1>1, <1>7 DEF Fetch, PutBack, Copy, PutBackFails, Restoring, StepInv
  <2> QED BY <1>1, <2>1, StaysForward
<1>8. CASE PutBackDone \/ Revive
  <2>1. op \in {"update", "geo"} /\ outcome = "none" /\ UNCHANGED <<files, before>> /\ todo = {}
        /\ step \in {"restore", "revive"}
    BY <1>1, <1>8 DEF PutBackDone, Revive, StepInv, fileVars, history
  <2>2. CASE missed
    <3>1. Finish("incomplete") \/ outcome' = outcome
      BY <1>8, <2>2 DEF PutBackDone, Revive, Restore
    <3> QED BY <1>1, <2>1, <3>1, EndsForward, StaysForward
  <2>3. CASE ~missed
    <3>1. Finish("restored") \/ outcome' = outcome
      BY <1>8, <2>3 DEF PutBackDone, Revive, Restore
    <3>2. \A f \in Files : files'[f] = before'[f]
      BY <2>1, <2>3 DEF UndoInv, RollbackInv
    <3> QED BY <1>1, <2>1, <3>1, <3>2, UndoneIsLively, EndsForward, StaysForward
  <2> QED BY <2>2, <2>3
<1>9. CASE Signal
  <2>1. op # "none" /\ outcome = "none" /\ UNCHANGED <<files, before>>
    BY <1>1, <1>9 DEF Signal, fileVars, history
  <2>2. CASE armed
    <3>1. outcome' = outcome
      BY <1>9, <2>2 DEF Signal, OnExit
    <3> QED BY <1>1, <2>1, <3>1, StaysForward
  <2>3. CASE ~armed /\ step = "revive"
    <3>1. Finish("abandoned") /\ ~missed /\ todo = {}
      BY <1>9, <2>3 DEF Signal, Exiting, StepInv
    <3>2. \A f \in Files : files'[f] = before'[f]
      BY <2>1, <2>3, <3>1 DEF UndoInv, RollbackInv
    <3> QED BY <3>1, <3>2, UndoneIsLively, EndsForward
  <2>4. CASE ~armed /\ step # "revive"
    <3>1. Finish("failed") /\ step \notin {"restore", "copy", "revive"}
      BY <1>1, <1>9, <2>4 DEF Signal, LivelyInv, StepInv
    <3>2. Lively'
      BY <1>1, <2>1, <3>1 DEF LivelyInv, Lively
    <3> QED BY <3>1, <3>2, EndsForward
  <2> QED BY <2>2, <2>3, <2>4
<1>10. CASE Kill
  BY <1>10, EndsForward DEF Kill
<1>11. CASE BeginUpdate \/ BeginInstall \/ BeginGeo \/ (\E f \in OnDemand : BeginEnsure(f))
            \/ MenuStart \/ MenuStop \/ (\E e \in Cores : ImportFor(e))
  <2>1. outcome' \in {"none", "current"}
    BY <1>11 DEF BeginUpdate, BeginInstall, BeginGeo, BeginEnsure, Begin, MenuStart, MenuStop, ImportFor
  <2> QED BY <1>1, <2>1, StaysForward
<1>12. CASE CoreDies \/ CoreRestarts \/ NewRelease \/ UNCHANGED vars
  <2>1. UNCHANGED <<files, target, before, outcome>>
    BY <1>12 DEF CoreDies, CoreRestarts, NewRelease, vars, fileVars, control, history
  <2> QED BY <1>1, <2>1, StaysForward
<1> QED BY <1>0, <1>2, <1>3, <1>4, <1>5, <1>6, <1>7, <1>8, <1>9, <1>10, <1>11, <1>12
        DEF Next, OpStep, OpFails

LEMMA ForwardStarts == Init => ForwardInv
<1> SUFFICES ASSUME Init PROVE ForwardInv
  OBVIOUS
<1>1. PlacedInv /\ SwappedInv /\ LivelyInv
  BY DEF Init, PlacedInv, SwappedInv, LivelyInv
<1>2. UpdatesGoForward
  BY DEF Init, UpdatesGoForward, UpdatedIsComplete, NoDowngrade, CoresSurvive
<1>3. AheadInv
  <2>1. NumReleases \in Nat /\ MinSafe \in 1 .. NumReleases
    BY ReleasesAssumption DEF Versions
  <2>2. files["xray"] \in 1 .. NumReleases
    BY DEF Init, Executable, Versions
  <2>3. release \in MinSafe .. NumReleases /\ files["xray"] \in 1 .. release
    BY <2>1, <2>2 DEF Init
  <2>4. bak["xray"] = Absent /\ backup["xray"] = None /\ op = "none"
    BY DEF Init, Cores, Files
  <2> QED BY <2>3, <2>4, WrecksAreKnown DEF AheadInv, Known
<1> QED BY <1>1, <1>2, <1>3 DEF ForwardInv

\* For any versions, operations and faults: an update that says so has moved every
\* file to the version it was for, none to an older one, and no operation but a kill
\* or a rollback that says it is incomplete has cost a core that could run; as long
\* as a cp that fails leaves no part of a copy (FetchFails).
THEOREM UpdatesAreForward == ASSUME CleanCopies = TRUE PROVE Spec => []UpdatesGoForward
<1>1. Init => TypeOK /\ StepInv /\ UndoInv /\ ForwardInv
  <2>1. Init => UndoInv
    BY DEF Init, UndoInv, CopiesInv, TurnInv, RollbackInv, OutcomeInv, FailedIsUndone
  <2> QED BY <2>1, InitTypes, ForwardStarts
<1>2. TypeOK /\ StepInv /\ UndoInv /\ ForwardInv /\ [Next]_vars =>
        TypeOK' /\ StepInv' /\ UndoInv' /\ ForwardInv'
  <2> SUFFICES ASSUME TypeOK, StepInv, UndoInv, ForwardInv, [Next]_vars
               PROVE  TypeOK' /\ StepInv' /\ UndoInv' /\ ForwardInv'
    OBVIOUS
  <2>1. TypeOK' /\ StepInv' /\ UndoInv'
    BY NextTypes, UndoNext
  <2>2. PlacedInv' /\ SwappedInv' /\ LivelyInv' /\ AheadInv'
    BY PlacedNext, SwappedNext, LivelyNext, AheadNext DEF ForwardInv
  <2>3. UpdatesGoForward'
    BY <2>1, ForwardNext
  <2> QED BY <2>1, <2>2, <2>3 DEF ForwardInv
<1>3. ForwardInv => UpdatesGoForward
  BY DEF ForwardInv
<1> QED BY <1>1, <1>2, <1>3, PTL DEF Spec

=============================================================================
