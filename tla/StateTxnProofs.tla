--------------------------- MODULE StateTxnProofs ---------------------------
(***************************************************************************)
(* Proofs about StateTxn, for every set of files, versions and fault       *)
(* points.                                                                 *)
(***************************************************************************)
EXTENDS StateTxn, TLAPS

LEMMA ContentFacts ==
  /\ Empty \in Content
  /\ Versions \subseteq Content
  /\ \A c \in Content : c # NoDir /\ Files(c) = DOMAIN c /\ Files(c) \subseteq Parts
  /\ Files(NoDir) = {}
<1>1. Empty \in Content
  <2>1. Empty \in [{} -> Gens]
    BY DEF Empty
  <2>2. {} \in SUBSET Parts
    OBVIOUS
  <2> QED
    BY <2>1, <2>2 DEF Content
<1>2. Versions \subseteq Content
  <2>1. \A g \in Gens : Whole(g) \in [Parts -> Gens]
    BY DEF Whole
  <2> QED
    BY <2>1 DEF Content, Versions
<1>3. \A c \in Content : c # NoDir /\ Files(c) = DOMAIN c /\ Files(c) \subseteq Parts
  BY SentinelsAssumption DEF Content, Files
<1>4. Files(NoDir) = {}
  BY DEF Files
<1> QED
  BY <1>1, <1>2, <1>3, <1>4

LEMMA PutContent ==
  ASSUME NEW c \in Content \cup {NoDir}, NEW p \in Parts, NEW g \in Gens
  PROVE  Put(c, p, g) \in Content
<1> DEFINE D == Files(c) \cup {p}
<1>1. D \in SUBSET Parts
  BY ContentFacts
<1>2. \A q \in Files(c) : c[q] \in Gens
  BY ContentFacts DEF Content, Files
<1>3. Put(c, p, g) \in [D -> Gens]
  BY <1>2 DEF Put
<1> QED
  BY <1>1, <1>3 DEF Content

LEMMA RestrictContent ==
  ASSUME NEW c \in Content, NEW S \in SUBSET DOMAIN c
  PROVE  Restrict(c, S) \in Content
<1>1. S \in SUBSET Parts
  BY ContentFacts
<1>2. Restrict(c, S) \in [S -> Gens]
  BY DEF Restrict, Content
<1> QED
  BY <1>1, <1>2 DEF Content

(***************************************************************************)
(* Type correctness and recoverability hold whatever the fault points are. *)
(***************************************************************************)
Recovering == TypeOK /\ MarkedIsRecoverable /\ SnapshotInv

LEMMA InitRecovering == Init => Recovering
<1> SUFFICES ASSUME Init PROVE Recovering
  OBVIOUS
<1>1. PICK c \in InitEtc : fs = [etc |-> c, txn |-> NoTxn, marker |-> FALSE]
  BY DEF Init
<1>2. c \in Stable
  BY InitEtcAssumption
<1>3. fs \in FileSystem
  BY <1>1, <1>2, ContentFacts DEF FileSystem, Stable
<1>4. running \in Content \cup {NoDir}
  BY <1>1, <1>2, ContentFacts DEF Init, Stable
<1>5. rt \in SUBSET Flags
  BY UnitsAssumption DEF Init
<1>6. TypeOK
  <2>1. img \subseteq FileSystem /\ fs \in img
    BY <1>3 DEF Init
  <2>2. /\ pc \in Steps /\ mode \in Modes /\ owned \in BOOLEAN
        /\ lapsed \in SUBSET Flags /\ waiting \in BOOLEAN /\ stray \in BOOLEAN
    BY DEF Init, Steps, Modes
  <2>3. gen \in Gens
    BY DEF Init
  <2>4. faults \in 0..MaxFaults
    BY MaxFaultsAssumption DEF Init
  <2> QED
    BY <1>3, <1>4, <1>5, <2>1, <2>2, <2>3, <2>4 DEF TypeOK
<1>7. MarkedIsRecoverable
  BY <1>1 DEF Init, MarkedIsRecoverable
<1>8. SnapshotInv
  BY DEF Init, SnapshotInv, BeginSteps, CommitSteps, ClearedSteps, SnapshotDone,
         CandidateReady
<1> QED
  BY <1>6, <1>7, <1>8 DEF Recovering

(***************************************************************************)
(* A step that changes the file system keeps the typing of fs and img and  *)
(* the recoverability of every image when the new file system has both.    *)
(***************************************************************************)
SnapshotOK(f) == /\ f.txn # NoTxn
                 /\ "runtime-state" \in f.txn.files
                 /\ f.txn.hadEtc => f.txn.etc # NoDir

LEMMA DiskStep ==
  ASSUME Recovering, NEW f \in FileSystem, f.marker => SnapshotOK(f),
         Change(f) \/ Persist(f)
  PROVE  /\ fs' = f
         /\ fs' \in FileSystem
         /\ img' \subseteq FileSystem
         /\ fs' \in img'
         /\ MarkedIsRecoverable'
BY DEF Recovering, TypeOK, Change, Persist, MarkedIsRecoverable, SnapshotOK

LEMMA DiskKept ==
  ASSUME Recovering, KeepDisk
  PROVE  /\ fs' = fs
         /\ fs' \in FileSystem
         /\ img' \subseteq FileSystem
         /\ fs' \in img'
         /\ MarkedIsRecoverable'
BY DEF Recovering, TypeOK, KeepDisk, MarkedIsRecoverable

(***************************************************************************)
(* The variables that are not the disk keep their types.                   *)
(***************************************************************************)
UnitsTyped == /\ rt \in SUBSET Flags
              /\ running \in Content \cup {NoDir}
              /\ waiting \in BOOLEAN
              /\ stray \in BOOLEAN
OthersTyped == /\ pc \in Steps
               /\ mode \in Modes
               /\ owned \in BOOLEAN
               /\ gen \in Gens
               /\ lapsed \in SUBSET Flags
               /\ UnitsTyped
               /\ faults \in 0..MaxFaults

LEMMA FaultsTyped == TypeOK /\ Interrupted => faults' \in 0..MaxFaults
BY MaxFaultsAssumption DEF TypeOK, Interrupted

\* Starting or stopping the service keeps the units typed.
LEMMA ServiceTyped == TypeOK /\ (RestartCore \/ StopCore) => UnitsTyped'
BY DEF TypeOK, FileSystem, RestartCore, StopCore, UnitsTyped, Flags, ServiceFlags

LEMMA PutBackTyped ==
  ASSUME TypeOK, NEW F \in SUBSET Flags, PutBack(F)
  PROVE  rt' \in SUBSET Flags /\ lapsed' \in SUBSET Flags /\ faults' \in 0..MaxFaults
<1>1. PICK failing \in SUBSET F :
        /\ IF failing = {} THEN UNCHANGED faults ELSE Interrupted
        /\ rt' = (rt \ (F \ failing)) \cup (SavedFiles \cap (F \ failing))
        /\ lapsed' = lapsed \cup failing
  BY DEF PutBack
<1>2. faults' \in 0..MaxFaults
  BY <1>1, FaultsTyped DEF TypeOK
<1> QED
  BY <1>1, <1>2 DEF TypeOK

LEMMA LapseTyped ==
  TypeOK /\ ServiceLapses => UnitsTyped' /\ lapsed' \in SUBSET Flags /\ faults' \in 0..MaxFaults
<1> SUFFICES ASSUME TypeOK, ServiceLapses
             PROVE  UnitsTyped' /\ lapsed' \in SUBSET Flags /\ faults' \in 0..MaxFaults
  OBVIOUS
<1>1. faults' \in 0..MaxFaults
  BY FaultsTyped DEF ServiceLapses
<1>2. lapsed' \in SUBSET Flags
  BY DEF ServiceLapses, TypeOK, Flags, ServiceFlags
<1>3. UnitsTyped'
  BY DEF ServiceLapses, TypeOK, UnitsTyped
<1> QED
  BY <1>1, <1>2, <1>3

LEMMA OthersStep == TypeOK /\ [Next]_vars => OthersTyped'
<1> SUFFICES ASSUME TypeOK, [Next]_vars PROVE OthersTyped'
  OBVIOUS
<1> USE DEF TypeOK, OthersTyped, UnitsTyped, Modes, Steps, OpSteps, BeginSteps, BodySteps,
            CommitSteps, RestoreSteps, ClearedSteps, At, proc, units, core
<1>1. ASSUME NEW m \in {"op", "tick"}, Start(m) PROVE OthersTyped'
  BY <1>1 DEF Start
<1>2. CASE Begin
  BY <1>2 DEF Begin, MakeDir, NoteEtc, CopyEtc, NoteUnits, SyncSnapshot, SetMarker
<1>3. CASE Body
  <2>1. CASE WritePart \/ RemovePart \/ BodyDone
    BY <2>1 DEF WritePart, RemovePart, BodyDone
  <2>2. CASE SwitchUnit
    <3>1. PICK f \in Switches \ {"service-active"} : rt' = rt \cup {f} \/ rt' = rt \ {f}
      BY <2>2 DEF SwitchUnit
    <3>2. rt' \in SUBSET Flags
      BY <3>1, UnitsAssumption
    <3> QED
      BY <2>2, <3>2 DEF SwitchUnit
  <2>3. CASE Apply
    <3>1. UnitsTyped'
      BY <2>3, ServiceTyped DEF Apply
    <3> QED
      BY <2>3, <3>1 DEF Apply
  <2> QED
    BY <1>3, <2>1, <2>2, <2>3 DEF Body
<1>4. CASE Commit
  BY <1>4 DEF Commit, Unmark, SyncUnmark, DropDir, Forget, Release
<1>5. CASE RestoreFiles
  BY <1>5 DEF RestoreFiles, CleanLeftovers, CopyCandidate, NoSnapshot, SyncCandidate,
              MoveAside, SwapIn, EraseEtc, SyncRoot, DiscardFailed, GiveUp, RollBack, Exit
<1>6. CASE RestoreEnabled \/ RestoreTimer
  <2>1. {"service-enabled"} \in SUBSET Flags /\ TimerFlags \in SUBSET Flags
    BY DEF Flags, ServiceFlags
  <2>2. rt' \in SUBSET Flags /\ lapsed' \in SUBSET Flags /\ faults' \in 0..MaxFaults
    BY <1>6, <2>1, PutBackTyped DEF RestoreEnabled, RestoreTimer
  <2> QED
    BY <1>6, <2>2 DEF RestoreEnabled, RestoreTimer
<1>7. CASE RestoreService
  <2>1. UnitsTyped' /\ lapsed' \in SUBSET Flags /\ faults' \in 0..MaxFaults
    BY <1>7, ServiceTyped, LapseTyped DEF RestoreService
  <2> QED
    BY <1>7, <2>1 DEF RestoreService
<1>8. CASE Finish
  BY <1>8 DEF Finish, ClearMarker, SyncClear, RemoveDir, Unset, Exit
<1>9. CASE SwapFails \/ CallFails \/ Fault \/ Kill
  <2>1. faults' \in 0..MaxFaults
    BY <1>9, FaultsTyped DEF SwapFails, CallFails, Fault, Kill
  <2> QED
    BY <1>9, <2>1 DEF SwapFails, CallFails, Fault, Kill, GiveUp, RollBack, Exit
<1>10. CASE PowerLoss
  <2>1. faults' \in 0..MaxFaults
    BY <1>10, FaultsTyped DEF PowerLoss
  <2>2. rt' \in SUBSET Flags
    BY <1>10 DEF PowerLoss, Flags, ServiceFlags, TimerFlags
  <2>3. running' \in Content \cup {NoDir}
    BY <1>10 DEF PowerLoss, FileSystem
  <2> QED
    BY <1>10, <2>1, <2>2, <2>3 DEF PowerLoss, Exit
<1>11. CASE CoreDies
  <2>1. faults' \in 0..MaxFaults
    BY <1>11, FaultsTyped DEF CoreDies
  <2> QED
    BY <1>11, <2>1 DEF CoreDies
<1>12. CASE CoreRestarts
  <2>1. rt' \in SUBSET Flags
    BY <1>12 DEF CoreRestarts, Flags, ServiceFlags
  <2>2. running' \in Content \cup {NoDir}
    BY <1>12 DEF CoreRestarts, FileSystem
  <2> QED
    BY <1>12, <2>1, <2>2 DEF CoreRestarts
<1>13. CASE UNCHANGED vars
  BY <1>13 DEF vars
<1> QED
  BY <1>1, <1>2, <1>3, <1>4, <1>5, <1>6, <1>7, <1>8, <1>9, <1>10, <1>11, <1>12, <1>13
  DEF Next, Restore, RestoreRuntime, Environment

(***************************************************************************)
(* The disk: each step writes a well-typed file system whose marker, if    *)
(* set, names a complete snapshot.                                         *)
(***************************************************************************)
DiskOK == /\ fs \in FileSystem
          /\ img \subseteq FileSystem
          /\ fs \in img
          /\ MarkedIsRecoverable

LEMMA BeginDisk == Recovering /\ Begin => DiskOK'
<1> SUFFICES ASSUME Recovering, Begin PROVE DiskOK'
  OBVIOUS
<1> USE DEF DiskOK
<1>0. fs \in FileSystem
  BY DEF Recovering, TypeOK
<1>1. CASE MakeDir
  <2> DEFINE f == [fs EXCEPT !.txn = Fresh]
  <2>1. f \in FileSystem
    BY <1>0 DEF FileSystem, Txn, Fresh
  <2>2. ~f.marker
    BY <1>0, <1>1 DEF MakeDir, At, Recovering, SnapshotInv, BeginSteps, FileSystem
  <2> QED
    BY <1>1, <2>1, <2>2, DiskStep DEF MakeDir
<1>2. CASE NoteEtc
  <2>1. CASE KeepDisk
    BY <2>1, DiskKept
  <2>2. CASE Change([fs EXCEPT !.txn.hadEtc = TRUE])
    <3> DEFINE f == [fs EXCEPT !.txn.hadEtc = TRUE]
    <3>1. fs.txn \in Txn /\ ~fs.marker
      BY <1>0, <1>2 DEF NoteEtc, Recovering, SnapshotInv, BeginSteps, FileSystem
    <3>2. f \in FileSystem /\ ~f.marker
      BY <1>0, <3>1 DEF FileSystem, Txn
    <3> QED
      BY <2>2, <3>2, DiskStep
  <2> QED
    BY <1>2, <2>1, <2>2 DEF NoteEtc
<1>3. CASE CopyEtc
  <2>1. fs.txn \in Txn /\ ~fs.marker
    BY <1>0, <1>3 DEF CopyEtc, Recovering, SnapshotInv, BeginSteps, FileSystem
  <2>2. ASSUME NEW c \in Content, Change([fs EXCEPT !.txn.etc = c]) PROVE DiskOK'
    <3> DEFINE f == [fs EXCEPT !.txn.etc = c]
    <3>1. f \in FileSystem /\ ~f.marker
      BY <1>0, <2>1 DEF FileSystem, Txn
    <3> QED
      BY <2>2, <3>1, DiskStep
  <2>3. CASE Change([fs EXCEPT !.txn.etc = Empty])
    BY <2>2, <2>3, ContentFacts
  <2>4. ASSUME NEW p \in DOMAIN fs.etc \ Files(fs.txn.etc),
               Change([fs EXCEPT !.txn.etc = Put(fs.txn.etc, p, fs.etc[p])])
        PROVE  DiskOK'
    <3>1. fs.etc \in Content
      BY <1>0, <1>3 DEF CopyEtc, Recovering, SnapshotInv, FileSystem
    <3>2. p \in Parts /\ fs.etc[p] \in Gens
      BY <2>4, <3>1 DEF Content
    <3>3. fs.txn.etc \in Content \cup {NoDir}
      BY <2>1 DEF Txn
    <3>4. Put(fs.txn.etc, p, fs.etc[p]) \in Content
      BY <3>2, <3>3, PutContent
    <3> QED
      BY <2>2, <2>4, <3>4
  <2>5. CASE KeepDisk
    BY <2>5, DiskKept
  <2> QED
    BY <1>3, <2>3, <2>4, <2>5 DEF CopyEtc
<1>4. CASE NoteUnits
  <2> DEFINE f == [fs EXCEPT !.txn.files = rt \cup {"runtime-state"}]
  <2>1. fs.txn \in Txn /\ ~fs.marker
    BY <1>0, <1>4 DEF NoteUnits, At, Recovering, SnapshotInv, BeginSteps, FileSystem
  <2>2. rt \cup {"runtime-state"} \in SUBSET (Flags \cup {"runtime-state"})
    BY DEF Recovering, TypeOK
  <2>3. f \in FileSystem /\ ~f.marker
    BY <1>0, <2>1, <2>2 DEF FileSystem, Txn
  <2> QED
    BY <1>4, <2>3, DiskStep DEF NoteUnits
<1>5. CASE SyncSnapshot
  <2>1. ~fs.marker
    BY <1>5 DEF SyncSnapshot, At, Recovering, SnapshotInv, BeginSteps
  <2> QED
    BY <1>0, <1>5, <2>1, DiskStep DEF SyncSnapshot
<1>6. CASE SetMarker
  <2> DEFINE f == [fs EXCEPT !.marker = TRUE]
  <2>1. SnapshotOK(fs)
    BY <1>6 DEF SetMarker, At, Recovering, SnapshotInv, BeginSteps, SnapshotDone, SnapshotOK
  <2>2. f \in FileSystem /\ f.txn = fs.txn
    BY <1>0 DEF FileSystem
  <2>3. SnapshotOK(f)
    BY <2>1, <2>2 DEF SnapshotOK
  <2> QED
    BY <1>6, <2>2, <2>3, DiskStep DEF SetMarker
<1> QED
  BY <1>1, <1>2, <1>3, <1>4, <1>5, <1>6 DEF Begin

LEMMA MarkedSnapshot == Recovering => (fs.marker => SnapshotOK(fs))
BY DEF Recovering, TypeOK, MarkedIsRecoverable, SnapshotOK

\* The operation leaves the snapshot alone.
LEMMA EtcChange ==
  ASSUME Recovering, NEW c \in Content \cup {NoDir},
         LET f == [fs EXCEPT !.etc = c] IN Change(f) \/ Persist(f)
  PROVE  DiskOK'
<1> DEFINE f == [fs EXCEPT !.etc = c]
<1>1. fs \in FileSystem
  BY DEF Recovering, TypeOK
<1>2. f \in FileSystem /\ f.txn = fs.txn /\ f.marker = fs.marker
  BY <1>1 DEF FileSystem
<1>3. f.marker => SnapshotOK(f)
  BY <1>2, MarkedSnapshot DEF SnapshotOK
<1> QED
  BY <1>2, <1>3, DiskStep DEF DiskOK

\* A restore works in the transaction directory, next to the snapshot.
LEMMA WorkChange ==
  ASSUME Recovering, fs.txn # NoTxn,
         NEW e \in Content \cup {NoDir}, NEW c \in Content \cup {NoDir},
         NEW d \in Content \cup {NoDir},
         Change([fs EXCEPT !.etc = e, !.txn.cand = c, !.txn.failed = d])
  PROVE  DiskOK'
<1> DEFINE f == [fs EXCEPT !.etc = e, !.txn.cand = c, !.txn.failed = d]
<1>1. fs \in FileSystem /\ fs.txn \in Txn
  BY DEF Recovering, TypeOK, FileSystem
<1>2. /\ f \in FileSystem
      /\ f.txn # NoTxn
      /\ f.txn.hadEtc = fs.txn.hadEtc
      /\ f.txn.etc = fs.txn.etc
      /\ f.txn.files = fs.txn.files
      /\ f.marker = fs.marker
  BY <1>1, NoTxnAssumption DEF FileSystem, Txn
<1>3. f.marker => SnapshotOK(f)
  BY <1>2, MarkedSnapshot DEF SnapshotOK
<1> QED
  BY <1>2, <1>3, DiskStep DEF DiskOK

\* Without the marker the transaction directory may go.
LEMMA UnmarkedChange ==
  ASSUME Recovering, NEW f \in FileSystem, ~f.marker, Change(f) \/ Persist(f)
  PROVE  DiskOK'
BY DiskStep DEF DiskOK

LEMMA SyncDisk == Recovering /\ Persist(fs) => DiskOK'
BY MarkedSnapshot, DiskStep DEF DiskOK, Recovering, TypeOK

LEMMA KeptDisk == Recovering /\ KeepDisk => DiskOK'
BY DiskKept DEF DiskOK

LEMMA BodyDisk == Recovering /\ Body => DiskOK'
<1> SUFFICES ASSUME Recovering, Body PROVE DiskOK'
  OBVIOUS
<1>0. fs.etc \in Content \cup {NoDir} /\ gen \in Gens
  BY DEF Recovering, TypeOK, FileSystem
<1>1. CASE WritePart
  <2>1. PICK p \in Parts : LET f == [fs EXCEPT !.etc = Put(fs.etc, p, gen)] IN
                             Persist(f) \/ Change(f)
    BY <1>1 DEF WritePart
  <2>2. Put(fs.etc, p, gen) \in Content
    BY <1>0, PutContent
  <2> QED
    BY <2>1, <2>2, EtcChange
<1>2. CASE RemovePart
  <2>1. PICK p \in Files(fs.etc) :
           Change([fs EXCEPT !.etc = Restrict(fs.etc, DOMAIN fs.etc \ {p})])
    BY <1>2 DEF RemovePart
  <2>2. fs.etc \in Content
    BY <1>0, <2>1, ContentFacts
  <2>3. Restrict(fs.etc, DOMAIN fs.etc \ {p}) \in Content
    BY <2>2, RestrictContent
  <2> QED
    BY <2>1, <2>3, EtcChange
<1>3. CASE SwitchUnit \/ BodyDone \/ Apply
  BY <1>3, KeptDisk DEF SwitchUnit, BodyDone, Apply
<1> QED
  BY <1>1, <1>2, <1>3 DEF Body

LEMMA CommitDisk == Recovering /\ Commit => DiskOK'
<1> SUFFICES ASSUME Recovering, Commit PROVE DiskOK'
  OBVIOUS
<1>0. fs \in FileSystem
  BY DEF Recovering, TypeOK
<1>1. CASE Unmark
  <2> DEFINE f == [fs EXCEPT !.marker = FALSE]
  <2>1. f \in FileSystem /\ ~f.marker
    BY <1>0 DEF FileSystem
  <2>2. Change(f)
    BY <1>1 DEF Unmark
  <2> QED
    BY <2>1, <2>2, UnmarkedChange
<1>2. CASE SyncUnmark
  BY <1>2, SyncDisk DEF SyncUnmark
<1>3. CASE DropDir
  <2>1. ~fs.marker
    BY <1>3 DEF DropDir, At, Recovering, SnapshotInv, CommitSteps
  <2> QED
    BY <1>0, <1>3, <2>1, UnmarkedChange DEF DropDir, FileSystem
<1>4. CASE Forget \/ Release
  BY <1>4, KeptDisk DEF Forget, Release
<1> QED
  BY <1>1, <1>2, <1>3, <1>4 DEF Commit

LEMMA RestoreDisk == Recovering /\ Restore => DiskOK'
<1> SUFFICES ASSUME Recovering, Restore PROVE DiskOK'
  OBVIOUS
<1>0. /\ fs \in FileSystem
      /\ fs.etc \in Content \cup {NoDir}
      /\ fs.txn # NoTxn => fs.txn \in Txn
      /\ fs.txn # NoTxn => /\ fs.txn.etc \in Content \cup {NoDir}
                           /\ fs.txn.cand \in Content \cup {NoDir}
                           /\ fs.txn.failed \in Content \cup {NoDir}
  BY DEF Recovering, TypeOK, FileSystem, Txn
<1>1. CASE CleanLeftovers
  <2>1. CASE fs.txn = NoTxn
    BY <1>1, <2>1, KeptDisk DEF CleanLeftovers
  <2>2. CASE fs.txn # NoTxn
    <3>1. [fs EXCEPT !.txn.cand = NoDir, !.txn.failed = NoDir]
            = [fs EXCEPT !.etc = fs.etc, !.txn.cand = NoDir, !.txn.failed = NoDir]
      BY <1>0, <2>2 DEF FileSystem, Txn
    <3> QED
      BY <1>0, <1>1, <2>2, <3>1, WorkChange DEF CleanLeftovers
  <2> QED
    BY <2>1, <2>2
<1>2. CASE CopyCandidate
  <2>1. fs.txn # NoTxn
    BY <1>2 DEF CopyCandidate, At, Recovering, SnapshotInv, HadEtc
  <2>2. [fs EXCEPT !.txn.cand = fs.txn.etc]
          = [fs EXCEPT !.etc = fs.etc, !.txn.cand = fs.txn.etc,
                       !.txn.failed = fs.txn.failed]
    BY <1>0, <2>1 DEF FileSystem, Txn
  <2>3. Change([fs EXCEPT !.etc = fs.etc, !.txn.cand = fs.txn.etc,
                          !.txn.failed = fs.txn.failed])
    BY <1>2, <2>2 DEF CopyCandidate
  <2> QED
    BY <1>0, <2>1, <2>3, WorkChange
<1>3. CASE MoveAside
  <2>1. fs.txn # NoTxn
    BY <1>3 DEF MoveAside, At, Recovering, SnapshotInv, HadEtc, CandidateReady
  <2>2. CASE fs.etc = NoDir
    BY <1>3, <2>2, KeptDisk DEF MoveAside
  <2>3. CASE fs.etc # NoDir
    <3>1. [fs EXCEPT !.txn.failed = fs.etc, !.etc = NoDir]
            = [fs EXCEPT !.etc = NoDir, !.txn.cand = fs.txn.cand, !.txn.failed = fs.etc]
      BY <1>0, <2>1 DEF FileSystem, Txn
    <3>2. Change([fs EXCEPT !.etc = NoDir, !.txn.cand = fs.txn.cand,
                            !.txn.failed = fs.etc])
      BY <1>3, <2>3, <3>1 DEF MoveAside
    <3> QED
      BY <1>0, <2>1, <3>2, WorkChange
  <2> QED
    BY <2>2, <2>3
<1>4. CASE SwapIn
  <2>1. fs.txn # NoTxn
    BY <1>4 DEF SwapIn, At, Recovering, SnapshotInv, HadEtc, CandidateReady
  <2>2. [fs EXCEPT !.etc = fs.txn.cand, !.txn.cand = NoDir]
          = [fs EXCEPT !.etc = fs.txn.cand, !.txn.cand = NoDir,
                       !.txn.failed = fs.txn.failed]
    BY <1>0, <2>1 DEF FileSystem, Txn
  <2> QED
    BY <1>0, <1>4, <2>1, <2>2, WorkChange DEF SwapIn
<1>5. CASE EraseEtc
  BY <1>5, EtcChange DEF EraseEtc
<1>6. CASE DiscardFailed
  <2>1. CASE HadEtc(fs)
    <3>1. [fs EXCEPT !.txn.failed = NoDir]
            = [fs EXCEPT !.etc = fs.etc, !.txn.cand = fs.txn.cand, !.txn.failed = NoDir]
      BY <1>0, <2>1 DEF FileSystem, Txn, HadEtc
    <3> QED
      BY <1>0, <1>6, <2>1, <3>1, WorkChange DEF DiscardFailed, HadEtc
  <2>2. CASE ~HadEtc(fs)
    BY <1>6, <2>2, KeptDisk DEF DiscardFailed
  <2> QED
    BY <2>1, <2>2
<1>7. CASE SyncCandidate \/ SyncRoot \/ SyncClear
  BY <1>7, SyncDisk DEF SyncCandidate, SyncRoot, SyncClear
<1>8. CASE NoSnapshot \/ RestoreRuntime
  BY <1>8, KeptDisk DEF NoSnapshot, RestoreRuntime, RestoreEnabled, RestoreService,
                        RestoreTimer
<1>9. CASE ClearMarker
  <2> DEFINE f == [fs EXCEPT !.marker = FALSE]
  <2>1. f \in FileSystem /\ ~f.marker
    BY <1>0 DEF FileSystem
  <2>2. Change(f)
    BY <1>9 DEF ClearMarker
  <2> QED
    BY <2>1, <2>2, UnmarkedChange
<1>10. CASE RemoveDir
  <2>1. ~fs.marker
    BY <1>10 DEF RemoveDir, Recovering, SnapshotInv, ClearedSteps
  <2> QED
    BY <1>0, <1>10, <2>1, UnmarkedChange DEF RemoveDir, FileSystem
<1>11. CASE Unset
  BY <1>11, KeptDisk DEF Unset
<1> QED
  BY <1>1, <1>2, <1>3, <1>4, <1>5, <1>6, <1>7, <1>8, <1>9, <1>10, <1>11
  DEF Restore, RestoreFiles, Finish

LEMMA EnvironmentDisk == Recovering /\ Environment => DiskOK'
<1> SUFFICES ASSUME Recovering, Environment PROVE DiskOK'
  OBVIOUS
<1>0. fs \in FileSystem /\ img \subseteq FileSystem
  BY DEF Recovering, TypeOK
<1>1. CASE SwapFails
  <2>1. fs.txn # NoTxn
    BY <1>1 DEF SwapFails, Recovering, SnapshotInv, HadEtc, CandidateReady
  <2>2. fs.txn \in Txn
    BY <1>0, <2>1 DEF FileSystem
  <2>3. fs.txn.failed \in Content \cup {NoDir}
    BY <2>2 DEF Txn
  <2>4. [fs EXCEPT !.etc = fs.txn.failed, !.txn.failed = NoDir, !.txn.cand = NoDir]
          = [fs EXCEPT !.etc = fs.txn.failed, !.txn.cand = NoDir, !.txn.failed = NoDir]
    BY <1>0, <2>2 DEF FileSystem, Txn
  <2> QED
    BY <1>1, <2>1, <2>3, <2>4, WorkChange DEF SwapFails
<1>2. CASE PowerLoss
  <2>1. PICK i \in img : Persist(i)
    BY <1>2 DEF PowerLoss
  <2>2. i \in FileSystem /\ (i.marker => SnapshotOK(i))
    BY <1>0 DEF Recovering, MarkedIsRecoverable, SnapshotOK
  <2> QED
    BY <2>1, <2>2, DiskStep DEF DiskOK
<1>3. CASE CallFails \/ Fault \/ Kill \/ CoreDies \/ CoreRestarts
  BY <1>3, KeptDisk DEF CallFails, Fault, Kill, CoreDies, CoreRestarts
<1> QED
  BY <1>1, <1>2, <1>3 DEF Environment

LEMMA SnapshotStep == Recovering /\ [Next]_vars => SnapshotInv'
<1> SUFFICES ASSUME Recovering, [Next]_vars PROVE SnapshotInv'
  OBVIOUS
<1> USE DEF SnapshotInv, BeginSteps, BodySteps, CommitSteps, RestoreSteps, ClearedSteps,
            SnapshotDone, CandidateReady, At
<1>0. /\ fs \in FileSystem
      /\ fs.txn # NoTxn => fs.txn \in Txn
  BY DEF Recovering, TypeOK, FileSystem
<1>1. CASE Start("op") \/ Start("tick")
  BY <1>0, <1>1 DEF Start, KeepDisk
<1>2. CASE Begin
  <2>1. CASE MakeDir
    <3>1. Fresh \in Txn /\ ~Fresh.hadEtc
      BY DEF Fresh, Txn
    <3>2. fs'.txn = Fresh /\ ~fs'.marker /\ pc' = "had"
      BY <1>0, <2>1 DEF MakeDir, Change, FileSystem, Recovering
    <3> QED
      BY <3>1, <3>2, NoTxnAssumption
  <2>2. CASE NoteEtc
    <3>1. fs.txn \in Txn /\ ~fs.marker /\ ~fs.txn.hadEtc
      BY <1>0, <2>2 DEF NoteEtc, Recovering
    <3>2. CASE KeepDisk /\ pc' = "flags"
      BY <1>0, <3>1, <3>2, NoTxnAssumption DEF KeepDisk
    <3>3. CASE Change([fs EXCEPT !.txn.hadEtc = TRUE]) /\ pc' = "copy" /\ fs.etc # NoDir
      BY <1>0, <3>1, <3>3, NoTxnAssumption DEF Change, FileSystem, Txn
    <3> QED
      BY <2>2, <3>2, <3>3 DEF NoteEtc
  <2>3. CASE CopyEtc
    <3>1. fs.txn \in Txn /\ ~fs.marker /\ fs.txn.hadEtc /\ fs.etc # NoDir
      BY <1>0, <2>3 DEF CopyEtc, Recovering
    <3>2. CASE KeepDisk /\ pc' = "flags" /\ fs.txn.etc = fs.etc
      BY <1>0, <3>1, <3>2, NoTxnAssumption DEF KeepDisk
    <3>3. ASSUME NEW c \in Content, Change([fs EXCEPT !.txn.etc = c]), pc' = "copy"
          PROVE  SnapshotInv'
      <4>1. fs'.txn = [fs.txn EXCEPT !.etc = c] /\ ~fs'.marker /\ fs'.etc # NoDir
        BY <1>0, <3>1, <3>3 DEF Change, FileSystem
      <4>2. fs'.txn \in Txn /\ fs'.txn.hadEtc
        BY <3>1, <4>1 DEF Txn
      <4> QED
        BY <3>3, <4>1, <4>2, NoTxnAssumption
    <3>4. CASE Change([fs EXCEPT !.txn.etc = Empty]) /\ pc' = "copy"
      BY <3>3, <3>4, ContentFacts
    <3>5. ASSUME NEW p \in DOMAIN fs.etc \ Files(fs.txn.etc), pc' = "copy",
                 Change([fs EXCEPT !.txn.etc = Put(fs.txn.etc, p, fs.etc[p])])
          PROVE  SnapshotInv'
      <4>1. fs.etc \in Content
        BY <1>0, <3>1 DEF FileSystem
      <4>2. p \in Parts /\ fs.etc[p] \in Gens
        BY <3>5, <4>1 DEF Content
      <4>3. Put(fs.txn.etc, p, fs.etc[p]) \in Content
        BY <3>1, <4>2, PutContent DEF Txn
      <4> QED
        BY <3>3, <3>5, <4>3
    <3> QED
      BY <2>3, <3>2, <3>4, <3>5 DEF CopyEtc
  <2>4. CASE NoteUnits
    <3>1. fs.txn \in Txn /\ ~fs.marker /\ (fs.txn.hadEtc => fs.txn.etc # NoDir)
      BY <1>0, <2>4 DEF NoteUnits, Recovering
    <3>2. fs'.txn = [fs.txn EXCEPT !.files = rt \cup {"runtime-state"}] /\ ~fs'.marker
      BY <1>0, <2>4, <3>1 DEF NoteUnits, Change, FileSystem
    <3>3. rt \cup {"runtime-state"} \in SUBSET (Flags \cup {"runtime-state"})
      BY DEF Recovering, TypeOK
    <3>4. /\ fs'.txn \in Txn
          /\ fs'.txn.hadEtc = fs.txn.hadEtc
          /\ fs'.txn.etc = fs.txn.etc
          /\ "runtime-state" \in fs'.txn.files
      BY <3>1, <3>2, <3>3 DEF Txn
    <3> QED
      BY <2>4, <3>1, <3>2, <3>4, NoTxnAssumption DEF NoteUnits
  <2>5. CASE SyncSnapshot
    BY <2>5 DEF SyncSnapshot, Persist, Recovering
  <2>6. CASE SetMarker
    BY <2>6 DEF SetMarker
  <2> QED
    BY <1>2, <2>1, <2>2, <2>3, <2>4, <2>5, <2>6 DEF Begin
<1>3. CASE Body
  BY <1>3 DEF Body, WritePart, RemovePart, SwitchUnit, BodyDone, Apply
<1>4. CASE Commit
  BY <1>0, <1>4 DEF Commit, Unmark, SyncUnmark, DropDir, Forget, Release, Change, Persist,
                    KeepDisk, FileSystem, Recovering
<1>5. CASE Restore
  <2>1. CASE CleanLeftovers
    <3>1. CASE fs.txn = NoTxn
      BY <2>1, <3>1 DEF CleanLeftovers, HadEtc
    <3>2. CASE fs.txn # NoTxn
      <4>1. fs'.txn.hadEtc = fs.txn.hadEtc /\ fs'.txn # NoTxn
        <5>1. fs'.txn = [fs.txn EXCEPT !.cand = NoDir, !.failed = NoDir]
          BY <1>0, <2>1, <3>2 DEF CleanLeftovers, Change, FileSystem
        <5>2. fs'.txn \in Txn /\ fs'.txn.hadEtc = fs.txn.hadEtc
          BY <1>0, <3>2, <5>1 DEF Txn
        <5> QED
          BY <5>2, NoTxnAssumption
      <4> QED
        BY <2>1, <4>1 DEF CleanLeftovers, HadEtc
    <3> QED
      BY <3>1, <3>2
  <2>2. CASE CopyCandidate
    <3>1. fs.txn \in Txn /\ fs.txn.hadEtc
      BY <1>0, <2>2 DEF CopyCandidate, Recovering, HadEtc
    <3>2. fs'.txn.hadEtc /\ fs'.txn # NoTxn
      <4>1. fs' \in FileSystem
        BY <2>2, RestoreDisk DEF DiskOK, Restore, RestoreFiles
      <4>2. fs'.txn = [fs.txn EXCEPT !.cand = fs.txn.etc]
        BY <1>0, <2>2 DEF CopyCandidate, Change, FileSystem
      <4> QED
        BY <3>1, <4>1, <4>2, NoTxnAssumption DEF Txn
    <3> QED
      BY <2>2, <3>2 DEF CopyCandidate, HadEtc
  <2>3. CASE MoveAside
    <3>1. fs.txn \in Txn /\ fs.txn.hadEtc
      BY <1>0, <2>3 DEF MoveAside, Recovering, HadEtc
    <3>2. fs'.txn.hadEtc /\ fs'.txn # NoTxn
      <4>1. CASE fs.etc = NoDir
        BY <2>3, <3>1, <4>1, NoTxnAssumption DEF MoveAside, KeepDisk
      <4>2. CASE fs.etc # NoDir
        <5>1. fs'.txn = [fs.txn EXCEPT !.failed = fs.etc]
          BY <1>0, <2>3, <4>2 DEF MoveAside, Change, FileSystem
        <5>2. fs.etc \in Content \cup {NoDir}
          BY <1>0 DEF FileSystem
        <5>3. fs'.txn \in Txn
          BY <3>1, <5>1, <5>2 DEF Txn
        <5> QED
          BY <3>1, <5>1, <5>3, NoTxnAssumption DEF Txn
      <4> QED
        BY <4>1, <4>2
    <3> QED
      BY <2>3, <3>2 DEF MoveAside, HadEtc
  <2>4. CASE NoSnapshot \/ SwapIn \/ EraseEtc
    BY <2>4 DEF NoSnapshot, SwapIn, EraseEtc, GiveUp, RollBack, Exit
  <2>5. CASE SyncCandidate
    BY <2>5 DEF SyncCandidate, Persist, Recovering, HadEtc
  <2>6. CASE SyncRoot \/ DiscardFailed \/ RestoreRuntime
    BY <2>6 DEF SyncRoot, DiscardFailed, RestoreRuntime, RestoreEnabled, RestoreService,
                RestoreTimer
  <2>7. CASE Finish
    BY <1>0, <2>7 DEF Finish, ClearMarker, SyncClear, RemoveDir, Unset, Change, Persist, Exit,
                      KeepDisk, FileSystem, Recovering
  <2> QED
    BY <1>5, <2>1, <2>2, <2>3, <2>4, <2>5, <2>6, <2>7 DEF Restore, RestoreFiles
<1>6. CASE Environment
  BY <1>6 DEF Environment, SwapFails, CallFails, Fault, Kill, PowerLoss, CoreDies, CoreRestarts,
              GiveUp, RollBack, Exit, KeepDisk, Recovering, HadEtc
<1>7. CASE UNCHANGED vars
  BY <1>7 DEF vars, Recovering, HadEtc
<1> QED
  BY <1>1, <1>2, <1>3, <1>4, <1>5, <1>6, <1>7 DEF Next

LEMMA RecoveringStep == Recovering /\ [Next]_vars => Recovering'
<1> SUFFICES ASSUME Recovering, [Next]_vars PROVE Recovering'
  OBVIOUS
<1>1. OthersTyped'
  BY OthersStep DEF Recovering
<1>2. SnapshotInv'
  BY SnapshotStep
<1>3. DiskOK'
  <2>1. CASE Start("op") \/ Start("tick") \/ UNCHANGED vars
    BY <2>1, KeptDisk DEF Start, vars, KeepDisk
  <2> QED
    BY <2>1, BeginDisk, BodyDisk, CommitDisk, RestoreDisk, EnvironmentDisk DEF Next
<1> QED
  BY <1>1, <1>2, <1>3 DEF Recovering, OthersTyped, UnitsTyped, DiskOK, TypeOK

\* Type correctness, for every set of files, versions and fault points.
THEOREM TypeCorrect == Spec => []TypeOK
<1>1. Recovering => TypeOK
  BY DEF Recovering
<1> QED
  BY InitRecovering, RecoveringStep, <1>1, PTL DEF Spec

\* A marker on any image that a power cut may leave names a complete snapshot:
\* recover_transaction always finds what it needs, wherever a command failed, a
\* signal came, the process was killed or the power went.
THEOREM RecoveryPossible == Spec => []MarkedIsRecoverable
<1>1. Recovering => MarkedIsRecoverable
  BY DEF Recovering
<1> QED
  BY InitRecovering, RecoveringStep, <1>1, PTL DEF Spec

(***************************************************************************)
(* Atomicity, when commands fail and signals come only while TXN_DIR and   *)
(* the marker agree. Kills and power cuts may come anywhere.               *)
(***************************************************************************)
SafeFaults == FaultAt \subseteq SafePoints
Atomic == Recovering /\ AtomicInv

\* A step that is no power cut leaves what recovery would find as it is, except
\* the one that removes the marker in txn_commit.
SameStore == /\ Logical(fs') = Logical(fs)
             /\ img' \in {img, {fs'}, img \cup {fs'}}

LEMMA RecordFacts ==
  Recovering => /\ fs \in FileSystem
                /\ fs.txn # NoTxn => fs.txn \in Txn
                /\ fs.etc \in Content \cup {NoDir}
BY DEF Recovering, TypeOK, FileSystem

LEMMA UnmarkedSame ==
  ASSUME Recovering, ~fs.marker, NEW f, f.etc = fs.etc, ~f.marker, Change(f) \/ Persist(f)
  PROVE  SameStore
BY DEF SameStore, Logical, Change, Persist

LEMMA MarkedSame ==
  ASSUME Recovering, fs.marker, NEW f, f.marker, Change(f) \/ Persist(f),
         Snapshot(f) = Snapshot(fs)
  PROVE  SameStore
BY DEF SameStore, Logical, Change, Persist

LEMMA KeptSame == KeepDisk => SameStore
BY DEF KeepDisk, SameStore, Logical, Snapshot, HadEtc

LEMMA BeginSame == Atomic /\ Begin => SameStore
<1> SUFFICES ASSUME Atomic, Begin PROVE SameStore
  OBVIOUS
<1>0. Recovering /\ fs \in FileSystem /\ (fs.txn # NoTxn => fs.txn \in Txn)
  BY RecordFacts DEF Atomic
<1>1. ~fs.marker
  BY DEF Begin, MakeDir, NoteEtc, CopyEtc, NoteUnits, SyncSnapshot, SetMarker, At,
         Atomic, Recovering, SnapshotInv, BeginSteps
<1>2. CASE MakeDir
  <2> DEFINE f == [fs EXCEPT !.txn = Fresh]
  <2>1. f.etc = fs.etc /\ ~f.marker
    BY <1>0, <1>1 DEF FileSystem
  <2> QED
    BY <1>0, <1>1, <1>2, <2>1, UnmarkedSame DEF MakeDir
<1>3. CASE NoteEtc
  <2> DEFINE f == [fs EXCEPT !.txn.hadEtc = TRUE]
  <2>1. f.etc = fs.etc /\ ~f.marker
    BY <1>0, <1>1 DEF FileSystem
  <2>2. KeepDisk \/ Change(f)
    BY <1>3 DEF NoteEtc
  <2> QED
    BY <1>0, <1>1, <2>1, <2>2, UnmarkedSame, KeptSame
<1>4. CASE CopyEtc
  <2>1. ASSUME NEW c, Change([fs EXCEPT !.txn.etc = c]) PROVE SameStore
    <3> DEFINE f == [fs EXCEPT !.txn.etc = c]
    <3>1. f.etc = fs.etc /\ ~f.marker
      BY <1>0, <1>1 DEF FileSystem
    <3> QED
      BY <1>0, <1>1, <2>1, <3>1, UnmarkedSame
  <2> QED
    BY <1>4, <2>1, KeptSame DEF CopyEtc
<1>5. CASE NoteUnits
  <2> DEFINE f == [fs EXCEPT !.txn.files = rt \cup {"runtime-state"}]
  <2>1. f.etc = fs.etc /\ ~f.marker
    BY <1>0, <1>1 DEF FileSystem
  <2> QED
    BY <1>0, <1>1, <1>5, <2>1, UnmarkedSame DEF NoteUnits
<1>6. CASE SyncSnapshot
  BY <1>0, <1>1, <1>6, UnmarkedSame DEF SyncSnapshot
<1>7. CASE SetMarker
  <2> DEFINE f == [fs EXCEPT !.marker = TRUE]
  <2>1. f.marker /\ f.txn = fs.txn
    BY <1>0 DEF FileSystem
  <2>2. Snapshot(fs) = fs.etc
    BY <1>7 DEF SetMarker, At, Atomic, AtomicInv, MarkerInv, SnapshotDone
  <2>3. Logical(f) = Logical(fs)
    BY <1>1, <2>1, <2>2 DEF Logical, Snapshot, HadEtc
  <2> QED
    BY <1>7, <2>3 DEF SetMarker, Persist, SameStore
<1> QED
  BY <1>2, <1>3, <1>4, <1>5, <1>6, <1>7 DEF Begin

LEMMA EtcSame ==
  ASSUME Recovering, fs.marker, NEW c,
         LET f == [fs EXCEPT !.etc = c] IN Change(f) \/ Persist(f)
  PROVE  SameStore
<1> DEFINE f == [fs EXCEPT !.etc = c]
<1>1. f.marker /\ f.txn = fs.txn
  BY RecordFacts DEF FileSystem
<1>2. Snapshot(f) = Snapshot(fs)
  BY <1>1 DEF Snapshot, HadEtc
<1>3. Change(f) \/ Persist(f)
  OBVIOUS
<1> HIDE DEF f
<1> QED
  BY <1>1, <1>2, <1>3, MarkedSame

\* What a rollback or a recovery changes before the marker: the state directory
\* and the two directories it works with.
Work(f, e, c, d) == [f EXCEPT !.etc = e, !.txn.cand = c, !.txn.failed = d]

LEMMA WorkFacts ==
  ASSUME Recovering, fs.txn # NoTxn,
         NEW e, NEW c \in Content \cup {NoDir}, NEW d \in Content \cup {NoDir}
  PROVE  /\ Work(fs, e, c, d).etc = e
         /\ Work(fs, e, c, d).marker = fs.marker
         /\ Work(fs, e, c, d).txn.cand = c
         /\ Work(fs, e, c, d).txn.etc = fs.txn.etc
         /\ HadEtc(Work(fs, e, c, d)) = HadEtc(fs)
         /\ Snapshot(Work(fs, e, c, d)) = Snapshot(fs)
<1> DEFINE f == Work(fs, e, c, d)
<1>1. fs \in FileSystem /\ fs.txn \in Txn
  BY RecordFacts
<1>2. /\ f.etc = e
      /\ f.marker = fs.marker
      /\ f.txn = [fs.txn EXCEPT !.cand = c, !.failed = d]
  BY <1>1 DEF FileSystem, Work
<1>3. f.txn.cand = c /\ f.txn.hadEtc = fs.txn.hadEtc /\ f.txn.etc = fs.txn.etc
  BY <1>1, <1>2 DEF Txn
<1>4. f.txn \in Txn
  <2> DEFINE t == [fs.txn EXCEPT !.cand = c, !.failed = d]
  <2>1. t \in Txn
    BY <1>1 DEF Txn
  <2> QED
    BY <1>2, <2>1
<1> HIDE DEF f
<1>5. HadEtc(f) = HadEtc(fs) /\ Snapshot(f) = Snapshot(fs)
  BY <1>3, <1>4, NoTxnAssumption DEF Snapshot, HadEtc
<1> QED
  BY <1>2, <1>3, <1>5 DEF f

LEMMA WorkSame ==
  ASSUME Recovering, fs.marker, fs.txn # NoTxn,
         NEW e, NEW c \in Content \cup {NoDir}, NEW d \in Content \cup {NoDir},
         Change(Work(fs, e, c, d))
  PROVE  SameStore
<1> DEFINE f == Work(fs, e, c, d)
<1>1. f.marker = fs.marker /\ Snapshot(f) = Snapshot(fs)
  <2> USE ONLY Recovering, fs.txn # NoTxn, c \in Content \cup {NoDir},
               d \in Content \cup {NoDir}
  <2>1. Work(fs, e, c, d).marker = fs.marker
    BY WorkFacts
  <2>2. Snapshot(Work(fs, e, c, d)) = Snapshot(fs)
    BY WorkFacts
  <2> QED
    BY <2>1, <2>2
<1>2. Change(f)
  OBVIOUS
<1> HIDE DEF f
<1> QED
  BY <1>1, <1>2, MarkedSame

\* The steps of restore_transaction_files, as changes of that form.
LEMMA WorkForms ==
  ASSUME Atomic, pc \in RestoreSteps
  PROVE  /\ fs.marker /\ fs.txn # NoTxn
         /\ fs.etc \in Content \cup {NoDir}
         /\ fs.txn.etc \in Content \cup {NoDir}
         /\ fs.txn.cand \in Content \cup {NoDir}
         /\ fs.txn.failed \in Content \cup {NoDir}
         /\ CleanLeftovers => Change(Work(fs, fs.etc, NoDir, NoDir))
         /\ CopyCandidate => Change(Work(fs, fs.etc, fs.txn.etc, fs.txn.failed))
         /\ MoveAside => KeepDisk \/ Change(Work(fs, NoDir, fs.txn.cand, fs.etc))
         /\ SwapIn => Change(Work(fs, fs.txn.cand, NoDir, fs.txn.failed))
         /\ SwapFails => Change(Work(fs, fs.txn.failed, NoDir, NoDir))
         /\ EraseEtc => Change(Work(fs, NoDir, fs.txn.cand, fs.txn.failed))
         /\ DiscardFailed => KeepDisk \/ Change(Work(fs, fs.etc, fs.txn.cand, NoDir))
<1>1. fs.marker /\ fs.txn # NoTxn
  BY MarkedSnapshot DEF Atomic, AtomicInv, MarkerInv, SnapshotOK
<1>2. /\ fs \in FileSystem
      /\ fs.etc \in Content \cup {NoDir}
      /\ fs.txn \in Txn
      /\ fs.txn.etc \in Content \cup {NoDir}
      /\ fs.txn.cand \in Content \cup {NoDir}
      /\ fs.txn.failed \in Content \cup {NoDir}
  BY <1>1, RecordFacts DEF Atomic, Txn
<1>3. CleanLeftovers => Change(Work(fs, fs.etc, NoDir, NoDir))
  BY <1>1, <1>2 DEF CleanLeftovers, Work, FileSystem, Txn
<1>4. CopyCandidate => Change(Work(fs, fs.etc, fs.txn.etc, fs.txn.failed))
  BY <1>2 DEF CopyCandidate, Work, FileSystem, Txn
<1>5. MoveAside => KeepDisk \/ Change(Work(fs, NoDir, fs.txn.cand, fs.etc))
  BY <1>2 DEF MoveAside, Work, FileSystem, Txn
<1>6. SwapIn => Change(Work(fs, fs.txn.cand, NoDir, fs.txn.failed))
  BY <1>2 DEF SwapIn, Work, FileSystem, Txn
<1>7. SwapFails => Change(Work(fs, fs.txn.failed, NoDir, NoDir))
  BY <1>2 DEF SwapFails, Work, FileSystem, Txn
<1>8. EraseEtc => Change(Work(fs, NoDir, fs.txn.cand, fs.txn.failed))
  BY <1>2 DEF EraseEtc, Work, FileSystem, Txn
<1>9. DiscardFailed => KeepDisk \/ Change(Work(fs, fs.etc, fs.txn.cand, NoDir))
  BY <1>2 DEF DiscardFailed, Work, FileSystem, Txn
<1> QED
  BY <1>1, <1>2, <1>3, <1>4, <1>5, <1>6, <1>7, <1>8, <1>9

LEMMA BodySame == Atomic /\ Body => SameStore
<1> SUFFICES ASSUME Atomic, Body PROVE SameStore
  OBVIOUS
<1>1. Recovering /\ fs.marker
  BY DEF Body, WritePart, RemovePart, SwitchUnit, BodyDone, Apply, At, Atomic, AtomicInv,
         MarkerInv, BodySteps
<1> QED
  BY <1>1, EtcSame, KeptSame DEF Body, WritePart, RemovePart, SwitchUnit, BodyDone, Apply

LEMMA CommitSame == Atomic /\ Commit => SameStore \/ Unmark
<1> SUFFICES ASSUME Atomic, Commit, ~Unmark PROVE SameStore
  OBVIOUS
<1>0. Recovering /\ fs \in FileSystem
  BY RecordFacts DEF Atomic
<1>1. ~fs.marker
  BY DEF Commit, SyncUnmark, DropDir, Forget, Release, At, Atomic, Recovering, SnapshotInv,
         CommitSteps
<1>2. CASE DropDir
  <2> DEFINE f == [fs EXCEPT !.txn = NoTxn]
  <2>1. f.etc = fs.etc /\ ~f.marker
    BY <1>0, <1>1 DEF FileSystem
  <2> QED
    BY <1>0, <1>1, <1>2, <2>1, UnmarkedSame DEF DropDir
<1>3. CASE SyncUnmark
  BY <1>0, <1>1, <1>3, UnmarkedSame DEF SyncUnmark
<1> QED
  BY <1>2, <1>3, KeptSame DEF Commit, Forget, Release

LEMMA RestoreSame == Atomic /\ (Restore \/ SwapFails) => SameStore
<1> SUFFICES ASSUME Atomic, Restore \/ SwapFails PROVE SameStore
  OBVIOUS
<1>0. Recovering /\ fs \in FileSystem /\ NoDir \in Content \cup {NoDir}
  BY RecordFacts DEF Atomic
<1>1. CASE CleanLeftovers \/ CopyCandidate \/ MoveAside \/ SwapIn \/ SwapFails
           \/ EraseEtc \/ DiscardFailed
  <2>1. pc \in RestoreSteps
    BY <1>1 DEF CleanLeftovers, CopyCandidate, MoveAside, SwapIn, SwapFails, EraseEtc,
                DiscardFailed, At, RestoreSteps
  <2> QED
    BY <1>0, <1>1, <2>1, WorkForms, WorkSame, KeptSame
<1>2. CASE SyncCandidate \/ SyncRoot
  <2>1. fs.marker
    BY <1>2, WorkForms DEF SyncCandidate, SyncRoot, At, RestoreSteps
  <2> QED
    BY <1>0, <1>2, <2>1, MarkedSame DEF SyncCandidate, SyncRoot
<1>3. CASE NoSnapshot \/ RestoreRuntime \/ Unset
  BY <1>3, KeptSame DEF NoSnapshot, RestoreRuntime, RestoreEnabled, RestoreService,
                        RestoreTimer, Unset
<1>4. CASE ClearMarker
  <2> DEFINE f == [fs EXCEPT !.marker = FALSE]
  <2>1. ~f.marker /\ f.etc = fs.etc
    BY <1>0 DEF FileSystem
  <2>2. fs.marker /\ fs.etc = Snapshot(fs)
    BY <1>4, WorkForms DEF ClearMarker, At, Atomic, AtomicInv, RestoreInv, FilesRestored,
                           RestoreSteps
  <2>3. Logical(f) = Logical(fs)
    BY <2>1, <2>2 DEF Logical
  <2> QED
    BY <1>4, <2>3 DEF ClearMarker, Change, SameStore
<1>5. pc \in ClearedSteps => ~fs.marker
  BY <1>0 DEF Recovering, SnapshotInv
<1>6. CASE SyncClear
  <2>1. ~fs.marker
    BY <1>5, <1>6 DEF SyncClear, At, ClearedSteps
  <2> QED
    BY <1>0, <1>6, <2>1, UnmarkedSame DEF SyncClear
<1>7. CASE RemoveDir
  <2> DEFINE f == [fs EXCEPT !.txn = NoTxn]
  <2>1. ~fs.marker
    BY <1>5, <1>7 DEF RemoveDir, ClearedSteps
  <2>2. ~f.marker /\ f.etc = fs.etc
    BY <1>0, <2>1 DEF FileSystem
  <2> QED
    BY <1>0, <1>7, <2>1, <2>2, UnmarkedSame DEF RemoveDir
<1> QED
  BY <1>1, <1>2, <1>3, <1>4, <1>6, <1>7 DEF Restore, RestoreFiles, Finish

LEMMA StoreStep == Atomic /\ [Next]_vars => SameStore \/ Unmark \/ PowerLoss
<1> SUFFICES ASSUME Atomic, [Next]_vars PROVE SameStore \/ Unmark \/ PowerLoss
  OBVIOUS
<1>1. CASE Start("op") \/ Start("tick") \/ UNCHANGED vars
  BY <1>1, KeptSame DEF Start, vars, KeepDisk
<1>2. CASE CallFails \/ Fault \/ Kill \/ CoreDies \/ CoreRestarts
  BY <1>2, KeptSame DEF CallFails, Fault, Kill, CoreDies, CoreRestarts
<1> QED
  BY <1>1, <1>2, BeginSame, BodySame, CommitSame, RestoreSame DEF Next, Environment

\* txn_commit takes effect when it removes the marker.
LEMMA UnmarkPublishes ==
  Atomic /\ Unmark => /\ Logical(fs') = Whole(gen)
                      /\ img' = img \cup {fs'}
                      /\ fs'.etc = Whole(gen)
                      /\ gen' = gen
<1> SUFFICES ASSUME Atomic, Unmark PROVE /\ Logical(fs') = Whole(gen)
                                         /\ img' = img \cup {fs'}
                                         /\ fs'.etc = Whole(gen)
                                         /\ gen' = gen
  OBVIOUS
<1>1. fs.etc = Whole(gen)
  BY DEF Unmark, At, Atomic, AtomicInv, TargetInv
<1>2. fs'.etc = fs.etc /\ fs'.marker = FALSE
  BY RecordFacts DEF Unmark, Change, Atomic, FileSystem
<1> QED
  BY <1>1, <1>2 DEF Unmark, Change, Logical, proc

LEMMA PowerLossKeeps ==
  PowerLoss => fs' \in img /\ img' = {fs'} /\ gen' = gen
BY DEF PowerLoss, Persist, Exit

LEMMA NeverTornStep == Atomic /\ [Next]_vars => NeverTorn'
<1> SUFFICES ASSUME Atomic, [Next]_vars PROVE NeverTorn'
  OBVIOUS
<1>1. NeverTorn /\ fs \in img /\ Whole(gen) \in Versions
  BY DEF Atomic, AtomicInv, Recovering, TypeOK, OthersTyped, Versions
<1>2. CASE SameStore
  BY <1>1, <1>2 DEF SameStore, NeverTorn, Logical, Snapshot, HadEtc
<1>3. CASE Unmark
  BY <1>1, <1>3, UnmarkPublishes DEF NeverTorn
<1>4. CASE PowerLoss
  BY <1>1, <1>4, PowerLossKeeps DEF NeverTorn
<1> QED
  BY <1>2, <1>3, <1>4, StoreStep

LEMMA OwnedStep == SafeFaults /\ Atomic /\ [Next]_vars => OwnedInv'
<1> SUFFICES ASSUME SafeFaults, Atomic, [Next]_vars PROVE OwnedInv'
  OBVIOUS
<1>0. OwnedInv
  BY DEF Atomic, AtomicInv
<1>1. CASE Start("op") \/ Start("tick")
  BY <1>0, <1>1 DEF Start, OwnedInv
<1>2. CASE Begin
  BY <1>0, <1>2 DEF Begin, MakeDir, NoteEtc, CopyEtc, NoteUnits, SyncSnapshot, SetMarker, At,
                    proc, OwnedInv, RestoreSteps, ClearedSteps
<1>3. CASE Body
  BY <1>0, <1>3 DEF Body, WritePart, RemovePart, SwitchUnit, BodyDone, Apply, At, proc,
                    OwnedInv, RestoreSteps, ClearedSteps
<1>4. CASE Commit
  BY <1>0, <1>4 DEF Commit, Unmark, SyncUnmark, DropDir, Forget, Release, At, proc, OwnedInv,
                    RestoreSteps, ClearedSteps
<1>5. CASE RestoreFiles
  BY <1>0, <1>5 DEF RestoreFiles, CleanLeftovers, CopyCandidate, NoSnapshot, SyncCandidate,
                    MoveAside, SwapIn, EraseEtc, SyncRoot, DiscardFailed, At, GiveUp, RollBack,
                    Exit, proc, OwnedInv, RestoreSteps, ClearedSteps
<1>6. CASE RestoreRuntime \/ Finish
  BY <1>0, <1>6 DEF RestoreRuntime, RestoreEnabled, RestoreService, RestoreTimer, Finish,
                    ClearMarker, SyncClear, RemoveDir, Unset, At, Exit, proc, OwnedInv,
                    RestoreSteps, ClearedSteps
<1>7. CASE Environment
  BY <1>0, <1>7 DEF Environment, SwapFails, CallFails, Fault, Kill, PowerLoss, CoreDies,
                    CoreRestarts, GiveUp, RollBack, Exit, proc, OwnedInv, RestoreSteps,
                    ClearedSteps
<1>8. CASE UNCHANGED vars
  BY <1>0, <1>8 DEF vars, OwnedInv
<1> QED
  BY <1>1, <1>2, <1>3, <1>4, <1>5, <1>6, <1>7, <1>8 DEF Next, Restore

LEMMA MarkerStep == SafeFaults /\ Atomic /\ [Next]_vars => MarkerInv'
<1> SUFFICES ASSUME SafeFaults, Atomic, [Next]_vars PROVE MarkerInv'
  OBVIOUS
<1>0. /\ Recovering /\ MarkerInv /\ OwnedInv /\ fs \in FileSystem
      /\ fs.txn # NoTxn => fs.txn \in Txn
  BY RecordFacts DEF Atomic, AtomicInv
<1>1. CASE Start("op") \/ Start("tick")
  BY <1>1 DEF Start, KeepDisk, MarkerInv, BodySteps, RestoreSteps, SnapshotDone
<1>2. CASE Begin
  <2>1. CASE MakeDir
    BY <2>1 DEF MakeDir, At, MarkerInv, BodySteps, RestoreSteps, SnapshotDone
  <2>2. CASE NoteEtc
    BY <1>0, <2>2 DEF NoteEtc, KeepDisk, MarkerInv, BodySteps, RestoreSteps, SnapshotDone,
                      Recovering, SnapshotInv, Snapshot, HadEtc
  <2>3. CASE CopyEtc
    BY <1>0, <2>3 DEF CopyEtc, KeepDisk, MarkerInv, BodySteps, RestoreSteps, SnapshotDone,
                      Recovering, SnapshotInv, BeginSteps, Snapshot, HadEtc
  <2>4. CASE NoteUnits
    <3> DEFINE t == [fs.txn EXCEPT !.files = rt \cup {"runtime-state"}]
    <3>1. fs.txn \in Txn /\ pc = "flags" /\ rt \in SUBSET Flags
      BY <1>0, <2>4 DEF NoteUnits, At, Recovering, SnapshotInv, BeginSteps, OthersTyped,
                        TypeOK
    <3>2. t \in Txn
      BY <3>1 DEF Txn
    <3>3. t.hadEtc = fs.txn.hadEtc /\ t.etc = fs.txn.etc
      BY <3>1 DEF Txn
    <3>4. fs'.txn = t /\ fs'.etc = fs.etc
      BY <1>0, <2>4 DEF NoteUnits, Change, FileSystem
    <3>5. Snapshot(fs) = fs.etc
      BY <1>0, <3>1 DEF MarkerInv, SnapshotDone
    <3> HIDE DEF t
    <3>6. Snapshot(fs') = fs'.etc
      BY <3>1, <3>2, <3>3, <3>4, <3>5, NoTxnAssumption DEF Snapshot, HadEtc
    <3> QED
      BY <2>4, <3>6 DEF NoteUnits, At, MarkerInv, BodySteps, RestoreSteps
  <2>5. CASE SyncSnapshot
    BY <1>0, <2>5 DEF SyncSnapshot, At, Persist, MarkerInv, BodySteps, RestoreSteps,
                      SnapshotDone, Snapshot, HadEtc
  <2>6. CASE SetMarker
    BY <1>0, <2>6 DEF SetMarker, At, Persist, MarkerInv, SnapshotDone, FileSystem
  <2> QED
    BY <1>2, <2>1, <2>2, <2>3, <2>4, <2>5, <2>6 DEF Begin
<1>3. CASE Body
  <2>1. pc \in BodySteps /\ pc' \notin SnapshotDone
    BY <1>3 DEF Body, WritePart, RemovePart, SwitchUnit, BodyDone, Apply, At, BodySteps,
                SnapshotDone
  <2>2. fs.marker
    BY <1>0, <2>1 DEF MarkerInv
  <2>3. fs'.marker = fs.marker
    BY <1>0, <1>3 DEF Body, WritePart, RemovePart, SwitchUnit, BodyDone, Apply, KeepDisk,
                      Change, Persist, FileSystem
  <2> QED
    BY <2>1, <2>2, <2>3 DEF MarkerInv
<1>4. CASE Commit
  BY <1>4 DEF Commit, Unmark, SyncUnmark, DropDir, Forget, Release, At, MarkerInv, BodySteps,
              RestoreSteps, SnapshotDone
<1>5. CASE RestoreFiles \/ RestoreRuntime
  <2>1. pc \in RestoreSteps /\ pc' \notin SnapshotDone
    BY <1>5 DEF RestoreFiles, CleanLeftovers, CopyCandidate, NoSnapshot, SyncCandidate,
                MoveAside, SwapIn, EraseEtc, SyncRoot, DiscardFailed, RestoreRuntime,
                RestoreEnabled, RestoreService, RestoreTimer, At, GiveUp, RollBack, Exit,
                RestoreSteps, SnapshotDone
  <2>2. fs.marker
    BY <1>0, <2>1 DEF MarkerInv
  <2>3. fs'.marker = fs.marker
    BY <1>0, <1>5 DEF RestoreFiles, CleanLeftovers, CopyCandidate, NoSnapshot, SyncCandidate,
                      MoveAside, SwapIn, EraseEtc, SyncRoot, DiscardFailed, RestoreRuntime,
                      RestoreEnabled, RestoreService, RestoreTimer, KeepDisk, Change, Persist,
                      FileSystem
  <2> QED
    BY <2>1, <2>2, <2>3 DEF MarkerInv
<1>6. CASE Finish
  BY <1>6 DEF Finish, ClearMarker, SyncClear, RemoveDir, Unset, At, Exit, MarkerInv, BodySteps,
              RestoreSteps, SnapshotDone
<1>7. CASE Fault
  <2>1. pc \in {"begin", "release"} => ~owned
    BY <1>0 DEF OwnedInv
  <2>2. owned => fs.marker
    BY <1>0, <1>7, <2>1 DEF SafeFaults, SafePoints, Fault, MarkerInv
  <2> QED
    BY <1>7, <2>2 DEF Fault, RollBack, Exit, KeepDisk, MarkerInv, BodySteps, RestoreSteps,
                      SnapshotDone
<1>8. CASE Kill \/ PowerLoss
  BY <1>8 DEF Kill, PowerLoss, Exit, MarkerInv, BodySteps, RestoreSteps, SnapshotDone
<1>9. CASE SwapFails \/ CallFails
  <2>1. fs.marker
    BY <1>0, <1>9 DEF SwapFails, CallFails, MarkerInv, BodySteps, RestoreSteps
  <2>2. fs'.marker
    BY <1>0, <1>9, <2>1 DEF SwapFails, CallFails, KeepDisk, Change, FileSystem
  <2>3. pc' \in {"idle", "clean"}
    BY <1>9 DEF SwapFails, CallFails, GiveUp, RollBack, Exit
  <2> QED
    BY <2>2, <2>3 DEF MarkerInv, SnapshotDone
<1>10. CASE CoreDies \/ CoreRestarts \/ UNCHANGED vars
  BY <1>0, <1>10 DEF CoreDies, CoreRestarts, KeepDisk, vars, MarkerInv, Snapshot, HadEtc
<1> QED
  BY <1>1, <1>2, <1>3, <1>4, <1>5, <1>6, <1>7, <1>8, <1>9, <1>10
  DEF Next, Restore, Environment

LEMMA TargetStep == SafeFaults /\ Atomic /\ [Next]_vars => TargetInv'
<1> SUFFICES ASSUME SafeFaults, Atomic, [Next]_vars PROVE TargetInv'
  OBVIOUS
<1> DEFINE Applied == {"restart", "unmark"} \cup CommitSteps
<1>0. /\ Recovering /\ TargetInv /\ fs \in FileSystem /\ fs \in img
      /\ pc \in CommitSteps => ~fs.marker
  BY RecordFacts DEF Atomic, AtomicInv, Recovering, SnapshotInv, TypeOK
<1>1. CASE pc' \notin Applied
  BY <1>1 DEF TargetInv, CommitSteps
<1>2. CASE BodyDone
  BY <1>0, <1>2 DEF BodyDone, At, KeepDisk, proc, TargetInv, CommitSteps
<1>3. CASE Apply
  BY <1>0, <1>3 DEF Apply, At, KeepDisk, proc, TargetInv, CommitSteps
<1>4. CASE Unmark
  BY <1>4, UnmarkPublishes DEF Unmark, At, Atomic, TargetInv, CommitSteps
<1>5. CASE SyncUnmark
  BY <1>0, <1>5 DEF SyncUnmark, At, Persist, proc, TargetInv, CommitSteps, Logical
<1>6. CASE DropDir
  <2>1. ~fs.marker /\ fs.etc = Whole(gen)
    BY <1>0, <1>6 DEF DropDir, At, TargetInv, CommitSteps
  <2>2. fs'.etc = fs.etc /\ fs'.marker = fs.marker
    BY <1>0, <1>6 DEF DropDir, Change, FileSystem
  <2>3. \A i \in img : Logical(i) = Whole(gen)
    BY <1>0, <1>6 DEF DropDir, At, TargetInv
  <2> QED
    BY <1>6, <2>1, <2>2, <2>3 DEF DropDir, Change, At, proc, TargetInv, Logical
<1>7. CASE Forget
  BY <1>0, <1>7 DEF Forget, At, KeepDisk, TargetInv, CommitSteps
<1>8. CASE CoreDies \/ CoreRestarts \/ UNCHANGED vars
  BY <1>0, <1>8 DEF CoreDies, CoreRestarts, KeepDisk, vars, proc, TargetInv
<1>9. ASSUME pc' \in Applied
      PROVE  \/ BodyDone \/ Apply \/ Unmark \/ SyncUnmark \/ DropDir \/ Forget
             \/ CoreDies \/ CoreRestarts \/ UNCHANGED vars
  <2>1. CASE Begin \/ Body \/ Commit
    BY <1>9, <2>1 DEF Begin, MakeDir, NoteEtc, CopyEtc, NoteUnits, SyncSnapshot, SetMarker,
                      Body, WritePart, RemovePart, SwitchUnit, Commit, Release, At,
                      CommitSteps
  <2>2. CASE Restore
    BY <1>9, <2>2 DEF Restore, RestoreFiles, CleanLeftovers, CopyCandidate, NoSnapshot,
                      SyncCandidate, MoveAside, SwapIn, EraseEtc, SyncRoot, DiscardFailed,
                      RestoreRuntime, RestoreEnabled, RestoreService, RestoreTimer, Finish,
                      ClearMarker, SyncClear, RemoveDir, Unset, At, GiveUp, RollBack, Exit,
                      CommitSteps
  <2>3. CASE Start("op") \/ Start("tick") \/ Environment
    BY <1>9, <2>3 DEF Start, Environment, SwapFails, CallFails, Fault, Kill, PowerLoss, GiveUp,
                      RollBack, Exit, CommitSteps
  <2> QED
    BY <2>1, <2>2, <2>3 DEF Next
<1> QED
  BY <1>1, <1>2, <1>3, <1>4, <1>5, <1>6, <1>7, <1>8, <1>9

LEMMA RestoreStep == Atomic /\ [Next]_vars => RestoreInv'
<1> SUFFICES ASSUME Atomic, [Next]_vars PROVE RestoreInv'
  OBVIOUS
<1>0. /\ Recovering /\ RestoreInv /\ fs \in FileSystem
      /\ pc \in CandidateReady => HadEtc(fs)
  BY RecordFacts DEF Atomic, AtomicInv, Recovering, SnapshotInv
<1> DEFINE Late == {"erase"} \cup CandidateReady \cup FilesRestored
<1>1. CASE pc' \notin Late
  BY <1>1 DEF RestoreInv
<1>2. CASE CleanLeftovers
  <2>1. HadEtc(fs') = HadEtc(fs)
    <3>1. pc \in RestoreSteps
      BY <1>2 DEF CleanLeftovers, RestoreSteps
    <3>2. Change(Work(fs, fs.etc, NoDir, NoDir))
      BY <1>2, <3>1, WorkForms
    <3>3. fs.txn # NoTxn /\ fs.etc \in Content \cup {NoDir}
      BY <3>1, WorkForms
    <3>4. HadEtc(Work(fs, fs.etc, NoDir, NoDir)) = HadEtc(fs)
      BY <1>0, <3>3, WorkFacts
    <3> QED
      BY <3>2, <3>4 DEF Change
  <2> QED
    BY <1>2, <2>1 DEF CleanLeftovers, RestoreInv, CandidateReady, FilesRestored
<1>3. CASE CopyCandidate \/ MoveAside \/ SwapIn \/ EraseEtc \/ DiscardFailed
  <2>1. pc \in RestoreSteps
    BY <1>3 DEF CopyCandidate, MoveAside, SwapIn, EraseEtc, DiscardFailed, At, RestoreSteps
  <2>2. /\ fs.txn # NoTxn
        /\ fs.etc \in Content \cup {NoDir}
        /\ fs.txn.etc \in Content \cup {NoDir}
        /\ fs.txn.cand \in Content \cup {NoDir}
        /\ fs.txn.failed \in Content \cup {NoDir}
    BY <2>1, WorkForms
  <2>3. ASSUME NEW e, NEW c \in Content \cup {NoDir}, NEW d \in Content \cup {NoDir},
               Change(Work(fs, e, c, d))
        PROVE  fs'.etc = e /\ fs'.txn.cand = c /\ fs'.txn.etc = fs.txn.etc
               /\ Snapshot(fs') = Snapshot(fs)
    <3>1. fs' = Work(fs, e, c, d)
      BY <2>3 DEF Change
    <3>2. /\ Work(fs, e, c, d).etc = e
          /\ Work(fs, e, c, d).txn.cand = c
          /\ Work(fs, e, c, d).txn.etc = fs.txn.etc
          /\ Snapshot(Work(fs, e, c, d)) = Snapshot(fs)
      BY ONLY <1>0, <2>2, <2>3, WorkFacts
    <3> QED
      BY <3>1, <3>2
  <2>4. CASE CopyCandidate
    BY <2>1, <2>2, <2>3, <2>4, WorkForms
    DEF CopyCandidate, At, RestoreInv, CandidateReady, FilesRestored
  <2>5. CASE MoveAside
    BY <1>0, <2>1, <2>2, <2>3, <2>5, WorkForms
    DEF MoveAside, At, KeepDisk, RestoreInv, CandidateReady, FilesRestored
  <2>6. CASE SwapIn
    <3>1. fs'.etc = fs.txn.etc /\ Snapshot(fs') = Snapshot(fs)
      BY <1>0, <2>1, <2>2, <2>3, <2>6, WorkForms
      DEF SwapIn, At, RestoreInv, CandidateReady
    <3>2. Snapshot(fs) = fs.txn.etc
      BY <1>0, <2>6 DEF SwapIn, At, CandidateReady, Snapshot
    <3> QED
      BY <2>6, <3>1, <3>2 DEF SwapIn, At, RestoreInv, CandidateReady, FilesRestored
  <2>7. CASE EraseEtc
    <3>1. fs'.etc = NoDir /\ Snapshot(fs') = Snapshot(fs)
      BY <2>1, <2>2, <2>3, <2>7, WorkForms
    <3>2. Snapshot(fs) = NoDir
      BY <1>0, <2>7 DEF EraseEtc, At, RestoreInv, Snapshot
    <3> QED
      BY <2>7, <3>1, <3>2 DEF EraseEtc, At, RestoreInv, CandidateReady, FilesRestored
  <2>8. CASE DiscardFailed
    <3>1. fs.etc = Snapshot(fs)
      BY <1>0, <2>8 DEF DiscardFailed, At, RestoreInv, FilesRestored
    <3>2. fs'.etc = fs.etc /\ Snapshot(fs') = Snapshot(fs)
      BY <2>1, <2>2, <2>3, <2>8, WorkForms DEF KeepDisk, Snapshot, HadEtc
    <3> QED
      BY <2>8, <3>1, <3>2 DEF DiscardFailed, At, RestoreInv, CandidateReady, FilesRestored
  <2> QED
    BY <1>3, <2>4, <2>5, <2>6, <2>7, <2>8
<1>4. CASE SyncCandidate \/ SyncRoot \/ RestoreRuntime
  <2>1. fs' = fs
    BY <1>4 DEF SyncCandidate, SyncRoot, RestoreRuntime, RestoreEnabled, RestoreService,
                RestoreTimer, Persist, KeepDisk
  <2> QED
    BY <1>0, <1>4, <2>1 DEF SyncCandidate, SyncRoot, RestoreRuntime, RestoreEnabled,
                            RestoreService, RestoreTimer, At, RestoreInv, CandidateReady,
                            FilesRestored, Snapshot, HadEtc
<1>5. CASE CoreDies \/ CoreRestarts \/ UNCHANGED vars
  BY <1>0, <1>5 DEF CoreDies, CoreRestarts, KeepDisk, vars, RestoreInv, Snapshot, HadEtc
<1>6. ASSUME pc' \in Late
      PROVE  \/ CleanLeftovers \/ CopyCandidate \/ MoveAside \/ SwapIn \/ EraseEtc
             \/ DiscardFailed \/ SyncCandidate \/ SyncRoot \/ RestoreRuntime
             \/ CoreDies \/ CoreRestarts \/ UNCHANGED vars
  <2>1. CASE Begin \/ Body \/ Commit
    BY <1>6, <2>1 DEF Begin, MakeDir, NoteEtc, CopyEtc, NoteUnits, SyncSnapshot, SetMarker,
                      Body, WritePart, RemovePart, SwitchUnit, BodyDone, Apply, Commit,
                      Unmark, SyncUnmark, DropDir, Forget, Release, At, CandidateReady,
                      FilesRestored
  <2>2. CASE Restore
    BY <1>6, <2>2 DEF Restore, RestoreFiles, NoSnapshot, Finish, ClearMarker, SyncClear,
                      RemoveDir, Unset, At, GiveUp, RollBack, Exit, CandidateReady,
                      FilesRestored
  <2>3. CASE Start("op") \/ Start("tick") \/ Environment
    BY <1>6, <2>3 DEF Start, Environment, SwapFails, CallFails, Fault, Kill, PowerLoss, GiveUp,
                      RollBack, Exit, CandidateReady, FilesRestored
  <2> QED
    BY <2>1, <2>2, <2>3 DEF Next
<1> QED
  BY <1>1, <1>2, <1>3, <1>4, <1>5, <1>6

LEMMA InitAtomic == Init => Atomic
<1> SUFFICES ASSUME Init PROVE Atomic
  OBVIOUS
<1>1. Recovering
  BY InitRecovering
<1>2. PICK c \in InitEtc : fs = [etc |-> c, txn |-> NoTxn, marker |-> FALSE]
  BY DEF Init
<1>3. Logical(fs) = c
  BY <1>2 DEF Logical
<1>4. NeverTorn
  BY <1>3 DEF Init, NeverTorn
<1> QED
  BY <1>1, <1>4 DEF Init, Atomic, AtomicInv, OwnedInv, MarkerInv, TargetInv, RestoreInv,
                    RestoreSteps, ClearedSteps, BodySteps, CommitSteps, SnapshotDone,
                    CandidateReady, FilesRestored

LEMMA AtomicStep == SafeFaults /\ Atomic /\ [Next]_vars => Atomic'
BY RecoveringStep, NeverTornStep, OwnedStep, MarkerStep, TargetStep, RestoreStep
DEF Atomic, AtomicInv

\* Whatever interrupts an operation at a safe point, and whenever the process is
\* killed or the power goes, what recovery finds is one complete version.
THEOREM Atomicity ==
  ASSUME SafeFaults
  PROVE  Spec => []NeverTorn
<1>1. Atomic => NeverTorn
  BY DEF Atomic, AtomicInv
<1> QED
  BY InitAtomic, AtomicStep, <1>1, PTL DEF Spec

\* A gateway that had a state directory keeps one.
THEOREM NeverErased ==
  ASSUME SafeFaults
  PROVE  Spec => []StateNeverErased
<1>1. Recovering /\ NeverTorn => StateNeverErased
  <2> SUFFICES ASSUME Recovering, NeverTorn, NoDir \notin InitEtc, ~fs.marker
               PROVE  fs.etc # NoDir
    BY DEF StateNeverErased
  <2>1. fs.etc \in Versions \cup InitEtc
    BY DEF NeverTorn, Recovering, TypeOK, OthersTyped, DiskOK, Logical
  <2>2. NoDir \notin Versions
    BY SentinelsAssumption, ContentFacts DEF Versions
  <2> QED
    BY <2>1, <2>2
<1>2. Atomic => StateNeverErased
  BY <1>1 DEF Atomic, AtomicInv
<1> QED
  BY InitAtomic, AtomicStep, <1>2, PTL DEF Spec

\* The operation that txn_commit lets return has its version on every image that
\* a power cut may leave.
THEOREM CommitDurable ==
  ASSUME SafeFaults
  PROVE  Spec => []CommittedIsDurable
<1>1. Atomic => CommittedIsDurable
  BY DEF Atomic, AtomicInv, TargetInv, CommittedIsDurable
<1> QED
  BY InitAtomic, AtomicStep, <1>1, PTL DEF Spec

\* Both together: what the user is told is what the disk keeps, wherever a safe
\* point fails and whenever the process is killed or the power goes.
THEOREM VersionSafety ==
  ASSUME SafeFaults
  PROVE  Spec => []VersionsAreSafe
<1>1. Atomic => VersionsAreSafe
  BY DEF Atomic, AtomicInv, TargetInv, CommittedIsDurable, VersionsAreSafe
<1> QED
  BY InitAtomic, AtomicStep, <1>1, PTL DEF Spec

(***************************************************************************)
(* Units and core: what the snapshot says of them, and what the core has   *)
(* read.                                                                   *)
(***************************************************************************)
\* Without a marker, and with one from the operation's restart or the restore's on,
\* an active core has read the state directory.
Settled == ~fs.marker \/ pc \in {"unmark", "timer", "clear"}
\* A core whose last start the CLI made or could see.
Known == "service-active" \in rt /\ ~stray

\* While the files change, such a core is one that the snapshot has as active, so that
\* the operation restarts it, or one that was started when all were written.
CurrentInv ==
  /\ Settled /\ Known => running = fs.etc
  /\ pc \in Changing /\ Known => "service-active" \in fs.txn.files
  /\ pc = "restart" /\ Known => "service-active" \in fs.txn.files \/ running = fs.etc

\* The restore has made the flag what the snapshot says, unless systemctl failed.
Done(f) == f \in lapsed \/ (f \in Present <=> f \in Due)
SavedInv ==
  /\ pc \in {"service", "timer", "clear"} => Done("service-enabled")
  /\ pc \in {"timer", "clear"} => Done("service-active")
  /\ pc = "clear" => \A f \in TimerFlags : Done(f)

Serving == Atomic /\ SavedInv /\ CurrentInv

\* A step that ends settled began so and left directory, units and core alone, or is
\* one of those that start or stop the core: all others end at a step with a marker.
LEMMA SettledSteps ==
  ASSUME SafeFaults, Atomic, [Next]_vars, Settled'
  PROVE  \/ Settled /\ fs'.etc = fs.etc /\ UNCHANGED units
         \/ Apply \/ RestoreService \/ RestoreTimer \/ PowerLoss \/ CoreDies \/ CoreRestarts
<1>0. /\ MarkerInv /\ MarkerInv' /\ fs \in FileSystem /\ pc \in Steps
      /\ fs.txn # NoTxn => fs.txn \in Txn
      /\ pc \in BeginSteps \cup CommitSteps \cup ClearedSteps => ~fs.marker
      /\ pc \in BeginSteps \ {"begin"} => fs.txn # NoTxn
  BY AtomicStep, RecordFacts DEF Atomic, AtomicInv, Recovering, SnapshotInv, TypeOK, OthersTyped
<1>1. CASE Start("op") \/ Start("tick")
  BY <1>0, <1>1 DEF Start, KeepDisk, Settled, units, MarkerInv, RestoreSteps
<1>2. CASE Begin
  BY <1>0, <1>2 DEF Begin, MakeDir, NoteEtc, CopyEtc, NoteUnits, SyncSnapshot, SetMarker, At,
                    Change, Persist, KeepDisk, Settled, units, BeginSteps, FileSystem
<1>3. CASE Body
  BY <1>0, <1>3 DEF Body, WritePart, RemovePart, SwitchUnit, BodyDone, At, Settled, MarkerInv,
                    BodySteps
<1>4. CASE Commit
  BY <1>0, <1>4 DEF Commit, Unmark, SyncUnmark, DropDir, Forget, Release, At, Change, Persist,
                    KeepDisk, Settled, units, CommitSteps, FileSystem
<1>5. CASE RestoreFiles \/ RestoreEnabled
  <2>1. CASE NoSnapshot
    BY <1>0, <2>1 DEF NoSnapshot, GiveUp, RollBack, Exit, KeepDisk, Settled, MarkerInv,
                      RestoreSteps
  <2>2. CASE ~NoSnapshot
    BY <1>0, <1>5, <2>2 DEF RestoreFiles, CleanLeftovers, CopyCandidate, SyncCandidate,
                    MoveAside, SwapIn, EraseEtc, SyncRoot, DiscardFailed, RestoreEnabled, At,
                    Settled, MarkerInv, RestoreSteps
  <2> QED
    BY <2>1, <2>2
<1>6. CASE Finish
  BY <1>0, <1>6 DEF Finish, ClearMarker, SyncClear, RemoveDir, Unset, At, Change, Persist,
                    KeepDisk, Settled, units, ClearedSteps, FileSystem
<1>7. CASE SwapFails
  <2>1. pc = "swap" /\ fs.marker
    BY <1>0, <1>7 DEF SwapFails, MarkerInv, RestoreSteps
  <2>2. fs'.marker
    BY <1>0, <1>7, <2>1 DEF SwapFails, Change, FileSystem
  <2> QED
    BY <1>7, <2>2 DEF SwapFails, GiveUp, RollBack, Exit, Settled
<1>8. CASE CallFails \/ Fault \/ Kill
  BY <1>0, <1>8 DEF CallFails, Fault, Kill, RollBack, Exit, KeepDisk, Settled, MarkerInv,
                    RestoreSteps
<1>9. CASE UNCHANGED vars
  BY <1>9 DEF vars, units, core, Settled
<1> QED
  BY <1>1, <1>2, <1>3, <1>4, <1>5, <1>6, <1>7, <1>8, <1>9
     DEF Next, Restore, RestoreRuntime, Environment

LEMMA SettledStep ==
  ASSUME SafeFaults, Atomic, CurrentInv, [Next]_vars, Settled', Known'
  PROVE  running' = fs'.etc
<1>1. CASE Settled /\ fs'.etc = fs.etc /\ UNCHANGED units
  BY <1>1 DEF CurrentInv, Known, units, core
<1>2. CASE Apply
  <2>1. fs' = fs /\ pc = "restart"
    BY <1>2 DEF Apply, At, KeepDisk
  <2> QED
    BY <1>2, <2>1 DEF Apply, RestartCore, StopCore, CurrentInv, Known, units, core
<1>3. CASE RestoreService
  BY <1>3 DEF RestoreService, KeepDisk, RestartCore, StopCore, ServiceLapses, Known
<1>4. CASE RestoreTimer
  <2>1. "service-active" \in rt /\ ~stray /\ running' = running
    <3>1. PICK F \in SUBSET TimerFlags : rt' = (rt \ F) \cup (SavedFiles \cap F)
      BY <1>4 DEF RestoreTimer, PutBack
    <3> QED
      BY <1>4, <3>1 DEF RestoreTimer, Known, core, TimerFlags
  <2> QED
    BY <1>4, <2>1 DEF RestoreTimer, At, KeepDisk, CurrentInv, Settled, Known
<1>5. CASE PowerLoss
  BY <1>5 DEF PowerLoss, Persist, Known
<1>6. CASE CoreDies
  BY <1>6 DEF CoreDies, Known
<1>7. CASE CoreRestarts
  BY <1>7 DEF CoreRestarts, KeepDisk
<1> QED
  BY <1>1, <1>2, <1>3, <1>4, <1>5, <1>6, <1>7, SettledSteps

\* The steps that lead to one at which the files change or have just been changed.
LEMMA ChangingStep ==
  ASSUME SafeFaults, Atomic, CurrentInv, [Next]_vars, Known', pc' \in Changing \cup {"restart"}
  PROVE  "service-active" \in fs'.txn.files \/ (pc' = "restart" /\ running' = fs'.etc)
<1>0. /\ fs \in FileSystem
      /\ fs.txn # NoTxn => fs.txn \in Txn
      /\ pc \in BeginSteps \ {"begin"} => fs.txn # NoTxn
  BY RecordFacts DEF Atomic, Recovering, SnapshotInv
<1>1. CASE NoteUnits
  <2>1. fs.txn \in Txn
    BY <1>0, <1>1 DEF NoteUnits, At, BeginSteps
  <2>2. fs'.txn.files = rt \cup {"runtime-state"}
    BY <1>0, <1>1, <2>1 DEF NoteUnits, Change, FileSystem, Txn
  <2> QED
    BY <1>1, <2>2 DEF NoteUnits, units, Known
<1>2. CASE SyncSnapshot \/ SetMarker \/ WritePart \/ RemovePart \/ BodyDone \/ SwitchUnit
  <2>1. fs'.txn = fs.txn
    BY <1>0, <1>2 DEF SyncSnapshot, SetMarker, WritePart, RemovePart, BodyDone, SwitchUnit,
                      Change, Persist, KeepDisk, FileSystem
  <2>2. pc \in Changing
    BY <1>2 DEF SyncSnapshot, SetMarker, WritePart, RemovePart, BodyDone, SwitchUnit, At,
                Changing
  <2>3. Known
    BY <1>2 DEF SyncSnapshot, SetMarker, WritePart, RemovePart, BodyDone, SwitchUnit, Known,
                units, core
  <2> QED
    BY <2>1, <2>2, <2>3 DEF CurrentInv
<1>3. CASE CoreDies \/ CoreRestarts
  BY <1>3 DEF CoreDies, CoreRestarts, KeepDisk, Known, Changing
<1>4. CASE UNCHANGED vars
  BY <1>4 DEF vars, CurrentInv, Known
<1>5. \/ NoteUnits \/ SyncSnapshot \/ SetMarker \/ WritePart \/ RemovePart \/ BodyDone
      \/ SwitchUnit \/ CoreDies \/ CoreRestarts \/ UNCHANGED vars
  <2>1. CASE Begin \/ Body \/ Commit
    BY <2>1 DEF Begin, MakeDir, NoteEtc, CopyEtc, Body, Apply, Commit, Unmark, SyncUnmark,
                DropDir, Forget, Release, At, Changing
  <2>2. CASE Restore
    BY <2>2 DEF Restore, RestoreFiles, CleanLeftovers, CopyCandidate, NoSnapshot,
                SyncCandidate, MoveAside, SwapIn, EraseEtc, SyncRoot, DiscardFailed,
                RestoreRuntime, RestoreEnabled, RestoreService, RestoreTimer, Finish,
                ClearMarker, SyncClear, RemoveDir, Unset, At, GiveUp, RollBack, Exit, Changing
  <2>3. CASE Start("op") \/ Start("tick") \/ Environment
    BY <2>3 DEF Start, Environment, SwapFails, CallFails, Fault, Kill, PowerLoss, GiveUp,
                RollBack, Exit, Changing
  <2> QED
    BY <2>1, <2>2, <2>3 DEF Next
<1> QED
  BY <1>1, <1>2, <1>3, <1>4, <1>5

LEMMA CurrentStep == SafeFaults /\ Atomic /\ CurrentInv /\ [Next]_vars => CurrentInv'
<1> SUFFICES ASSUME SafeFaults, Atomic, CurrentInv, [Next]_vars PROVE CurrentInv'
  OBVIOUS
<1>1. Settled' /\ Known' => running' = fs'.etc
  BY SettledStep
<1>2. pc' \in Changing \cup {"restart"} /\ Known' =>
         "service-active" \in fs'.txn.files \/ (pc' = "restart" /\ running' = fs'.etc)
  BY ChangingStep
<1> QED
  BY <1>1, <1>2 DEF CurrentInv, Changing

\* What systemctl makes of flags that are not the service's activity.
LEMMA PutBackDone ==
  ASSUME NEW F \in SUBSET (Flags \ {"service-active"}), PutBack(F), KeepDisk, UNCHANGED core
  PROVE  /\ \A f \in F : Done(f)'
         /\ \A f \in Flags \ F : Done(f) => Done(f)'
<1>1. PICK failing \in SUBSET F :
        /\ rt' = (rt \ (F \ failing)) \cup (SavedFiles \cap (F \ failing))
        /\ lapsed' = lapsed \cup failing
  BY DEF PutBack
<1>2. SavedFiles' = SavedFiles /\ fs'.etc = fs.etc /\ waiting' = waiting
  BY DEF KeepDisk, SavedFiles, core
<1>3. \A f \in F : f # "service-active" => (f \in Due' <=> f \in SavedFiles)
  BY <1>2 DEF Due
<1>4. \A f \in F : f \in Present' <=> f \in rt'
  BY DEF Present
<1>5. \A f \in F : Done(f)'
  BY <1>1, <1>3, <1>4 DEF Done
<1>6. Due' = Due
  BY <1>2 DEF Due
<1>7. \A f \in Flags \ F : f \in Present' <=> f \in Present
  BY <1>1, <1>2 DEF Present
<1>8. \A f \in Flags \ F : Done(f) => Done(f)'
  BY <1>1, <1>6, <1>7 DEF Done
<1> QED
  BY <1>5, <1>8

LEMMA ServiceDone ==
  ASSUME RestoreService, "runtime-state" \in SavedFiles
  PROVE  Done("service-active")' /\ (Done("service-enabled") => Done("service-enabled")')
<1>1. SavedFiles' = SavedFiles /\ fs'.etc = fs.etc /\ Due' = Due
  BY DEF RestoreService, KeepDisk, SavedFiles, Due
<1>2. CASE ServiceLapses
  <2>1. "service-active" \in lapsed' /\ lapsed \subseteq lapsed'
        /\ ("service-enabled" \in rt' <=> "service-enabled" \in rt)
    BY <1>2 DEF ServiceLapses
  <2> QED
    BY <1>1, <2>1 DEF Done, Present
<1>3. CASE UNCHANGED lapsed /\ (IF "service-active" \in SavedFiles THEN RestartCore ELSE StopCore)
  <2>1. ~waiting' /\ lapsed' = lapsed
        /\ ("service-enabled" \in rt' <=> "service-enabled" \in rt)
        /\ ("service-active" \in rt' <=> "service-active" \in SavedFiles /\ fs.etc # NoDir)
    BY <1>3 DEF RestartCore, StopCore
  <2>2. "service-active" \in Due <=> "service-active" \in SavedFiles /\ fs.etc # NoDir
    BY DEF Due
  <2>3. Present' = rt'
    BY <2>1 DEF Present
  <2>4. "service-enabled" \in Present <=> "service-enabled" \in rt
    BY DEF Present
  <2> QED
    BY <1>1, <2>1, <2>2, <2>3, <2>4 DEF Done
<1> QED
  BY <1>2, <1>3 DEF RestoreService

\* A core that dies waits, and a unit that waits starts: neither undoes a restore.
LEMMA CoreDone ==
  ASSUME NEW f \in Flags, Done(f), CoreDies \/ CoreRestarts
  PROVE  Done(f)'
<1>1. fs' = fs /\ lapsed' = lapsed /\ Due' = Due
  BY DEF CoreDies, CoreRestarts, KeepDisk, proc, Due, SavedFiles
<1>2. CASE CoreDies
  <2>1. Present' = rt /\ Present = rt
    BY <1>2 DEF CoreDies, Present
  <2> QED
    BY <1>1, <2>1 DEF Done
<1>3. CASE CoreRestarts
  <2>1. CASE f = "service-active"
    <3>1. f \in Present
      BY <1>3, <2>1 DEF CoreRestarts, Present
    <3>2. f \in Due => fs.etc # NoDir
      BY <2>1 DEF Due
    <3>3. fs.etc # NoDir => f \in Present'
      BY <1>3, <2>1 DEF CoreRestarts, Present
    <3> QED
      BY <1>1, <3>1, <3>2, <3>3 DEF Done
  <2>2. CASE f # "service-active"
    <3>1. f \in Present' <=> f \in Present
      BY <1>3, <2>2 DEF CoreRestarts, Present
    <3> QED
      BY <1>1, <3>1 DEF Done
  <2> QED
    BY <2>1, <2>2
<1> QED
  BY <1>2, <1>3

\* Once a restore has put a flag back, or could not, it stays so to its end.
LEMMA SavedStep == SafeFaults /\ Atomic /\ SavedInv /\ [Next]_vars => SavedInv'
<1> SUFFICES ASSUME SafeFaults, Atomic, SavedInv, [Next]_vars PROVE SavedInv'
  OBVIOUS
<1>0. pc \in RestoreSteps => "runtime-state" \in SavedFiles
  BY MarkedSnapshot DEF Atomic, AtomicInv, MarkerInv, SnapshotOK, SavedFiles
<1> DEFINE Late == {"service", "timer", "clear"}
<1>1. CASE pc' \notin Late
  BY <1>1 DEF SavedInv
<1>2. CASE DiscardFailed
  BY <1>0, <1>2 DEF DiscardFailed, RestoreSteps, SavedInv
<1>3. CASE RestoreEnabled
  <2>1. {"service-enabled"} \in SUBSET (Flags \ {"service-active"})
    BY DEF Flags, ServiceFlags
  <2>2. PutBack({"service-enabled"}) /\ KeepDisk /\ UNCHANGED core
    BY <1>3 DEF RestoreEnabled
  <2>3. Done("service-enabled")'
    BY <2>1, <2>2, PutBackDone
  <2> QED
    BY <1>3, <2>3 DEF RestoreEnabled, At, SavedInv
<1>4. CASE RestoreService
  <2>1. pc = "service" /\ "runtime-state" \in SavedFiles
    BY <1>0, <1>4 DEF RestoreService, RestoreSteps
  <2>2. pc' = "timer"
    BY <1>4, <2>1 DEF RestoreService
  <2> QED
    BY <1>4, <2>1, <2>2, ServiceDone DEF SavedInv
<1>5. CASE RestoreTimer
  <2>1. TimerFlags \in SUBSET (Flags \ {"service-active"})
        /\ ServiceFlags \subseteq Flags \ TimerFlags
    BY DEF Flags, ServiceFlags, TimerFlags
  <2>2. PutBack(TimerFlags) /\ KeepDisk /\ UNCHANGED core
    BY <1>5 DEF RestoreTimer
  <2>3. /\ \A f \in TimerFlags : Done(f)'
        /\ \A f \in Flags \ TimerFlags : Done(f) => Done(f)'
    BY <2>1, <2>2, PutBackDone
  <2>4. pc = "timer"
    BY <1>5 DEF RestoreTimer, At
  <2> QED
    BY <2>1, <2>3, <2>4 DEF SavedInv, ServiceFlags
<1>6. CASE CoreDies \/ CoreRestarts
  <2>1. \A f \in Flags : Done(f) => Done(f)'
    BY <1>6, CoreDone
  <2>2. pc' = pc
    BY <1>6 DEF CoreDies, CoreRestarts
  <2> QED
    BY <2>1, <2>2 DEF SavedInv, Flags, ServiceFlags
<1>7. CASE UNCHANGED vars
  <2>1. pc' = pc /\ \A f : Done(f)' = Done(f)
    BY <1>7 DEF vars, Done, Present, Due, SavedFiles
  <2> QED
    BY <2>1 DEF SavedInv
<1>8. ASSUME pc' \in Late
      PROVE  \/ DiscardFailed \/ RestoreRuntime \/ CoreDies \/ CoreRestarts \/ UNCHANGED vars
  <2>1. CASE Begin \/ Body \/ Commit
    BY <1>8, <2>1 DEF Begin, MakeDir, NoteEtc, CopyEtc, NoteUnits, SyncSnapshot, SetMarker,
                      Body, WritePart, RemovePart, SwitchUnit, BodyDone, Apply, Commit, Unmark,
                      SyncUnmark, DropDir, Forget, Release, At
  <2>2. CASE Restore
    BY <1>8, <2>2 DEF Restore, RestoreFiles, CleanLeftovers, CopyCandidate, NoSnapshot,
                      SyncCandidate, MoveAside, SwapIn, EraseEtc, SyncRoot, Finish, ClearMarker,
                      SyncClear, RemoveDir, Unset, At, GiveUp, RollBack, Exit
  <2>3. CASE Start("op") \/ Start("tick") \/ Environment
    BY <1>8, <2>3 DEF Start, Environment, SwapFails, CallFails, Fault, Kill, PowerLoss, GiveUp,
                      RollBack, Exit
  <2> QED
    BY <2>1, <2>2, <2>3 DEF Next
<1> QED
  BY <1>1, <1>2, <1>3, <1>4, <1>5, <1>6, <1>7, <1>8 DEF RestoreRuntime

LEMMA InitServing == Init => Serving
<1>1. Init => SavedInv /\ CurrentInv
  BY DEF Init, SavedInv, CurrentInv, Known, Changing
<1> QED
  BY <1>1, InitAtomic DEF Serving

LEMMA ServingStep == SafeFaults /\ Serving /\ [Next]_vars => Serving'
BY AtomicStep, SavedStep, CurrentStep DEF Serving

\* When nothing runs and nothing waits for recovery, an active core runs the state
\* that is stored, whatever was interrupted at a safe point, killed or cut off before
\* and whenever the core died: unless systemd started it behind the back of an operation
\* that had noted it as stopped, or a restore's systemctl failed, since its last start.
THEOREM CoreIsCurrent ==
  ASSUME SafeFaults
  PROVE  Spec => []ServedIsStored
<1>1. Serving => ServedIsStored
  BY DEF Serving, CurrentInv, Settled, Known, ServedIsStored
<1> QED
  BY InitServing, ServingStep, <1>1, PTL DEF Spec

\* No restore clears the marker before the directory and every unit are what the
\* snapshot says, those aside whose systemctl failed in it, however often it was begun
\* again and whatever the core did meanwhile.
THEOREM RestoresAreComplete ==
  ASSUME SafeFaults
  PROVE  Spec => RestoreIsComplete
<1>1. Serving /\ pc = "clear" =>
        /\ Present \ lapsed = (Due \cap Flags) \ lapsed
        /\ fs.etc = Snapshot(fs)
  <2> SUFFICES ASSUME Serving, pc = "clear"
               PROVE  /\ Present \ lapsed = (Due \cap Flags) \ lapsed
                      /\ fs.etc = Snapshot(fs)
    OBVIOUS
  <2>1. \A f \in Flags : Done(f)
    BY DEF Serving, SavedInv, Flags, ServiceFlags
  <2>2. rt \subseteq Flags
    BY DEF Serving, Atomic, Recovering, TypeOK
  <2>3. Present \subseteq Flags
    BY <2>2 DEF Present, Flags, ServiceFlags
  <2>4. \A f \in Flags : f \notin lapsed => (f \in Present <=> f \in Due)
    BY <2>1 DEF Done
  <2>5. Present \ lapsed = (Due \cap Flags) \ lapsed
    BY <2>3, <2>4
  <2> QED
    BY <2>5 DEF Serving, Atomic, AtomicInv, RestoreInv, FilesRestored
<1>2. Serving /\ [Next]_vars =>
        [(fs.marker /\ ~fs'.marker /\ pc = "clear") =>
            /\ Present \ lapsed = (Due \cap Flags) \ lapsed
            /\ fs.etc = Snapshot(fs)]_vars
  BY <1>1
<1> QED
  BY InitServing, ServingStep, <1>2, PTL DEF Spec, RestoreIsComplete

(***************************************************************************)
(* StateTxn implements AtomicStore.                                        *)
(***************************************************************************)
LEMMA StoreInit == Init => Store!Init
<1> SUFFICES ASSUME Init PROVE Store!Init
  OBVIOUS
<1>1. PICK c \in InitEtc : fs = [etc |-> c, txn |-> NoTxn, marker |-> FALSE]
  BY DEF Init
<1>2. Logical(fs) = c /\ c \in Versions \cup {NoDir}
  BY <1>1, InitEtcAssumption DEF Logical, Stable
<1>3. img = {fs} /\ Whole(gen) \in Versions
  BY DEF Init, Versions
<1> QED
  BY <1>2, <1>3 DEF Store!Init

LEMMA IntentKept == [Next]_vars => MakeDir \/ gen' = gen
<1> SUFFICES ASSUME [Next]_vars PROVE MakeDir \/ gen' = gen
  OBVIOUS
<1>1. CASE Begin \/ Body \/ Commit
  BY <1>1 DEF Begin, NoteEtc, CopyEtc, NoteUnits, SyncSnapshot, SetMarker, Body, WritePart,
              RemovePart, SwitchUnit, BodyDone, Apply, Commit, Unmark, SyncUnmark, DropDir,
              Forget, Release, proc
<1>2. CASE Restore
  BY <1>2 DEF Restore, RestoreFiles, CleanLeftovers, CopyCandidate, NoSnapshot,
              SyncCandidate, MoveAside, SwapIn, EraseEtc, SyncRoot, DiscardFailed,
              RestoreRuntime, RestoreEnabled, RestoreService, RestoreTimer, Finish,
              ClearMarker, SyncClear, RemoveDir, Unset, GiveUp, RollBack, Exit, proc
<1>3. CASE Start("op") \/ Start("tick") \/ Environment \/ UNCHANGED vars
  BY <1>3 DEF Start, Environment, SwapFails, CallFails, Fault, Kill, PowerLoss, CoreDies,
              CoreRestarts, GiveUp, RollBack, Exit, proc, vars
<1> QED
  BY <1>1, <1>2, <1>3 DEF Next

LEMMA StoreNext == Atomic /\ [Next]_vars => [Store!Next]_(Store!vars)
<1> SUFFICES ASSUME Atomic, [Next]_vars PROVE [Store!Next]_(Store!vars)
  OBVIOUS
<1> DEFINE Outcomes == {Logical(i) : i \in img}
<1>0. fs \in img /\ gen \in Gens
  BY DEF Atomic, Recovering, TypeOK, OthersTyped
<1>1. ASSUME SameStore
      PROVE  Logical(fs') = Logical(fs) /\ Outcomes' \in {Outcomes, {Logical(fs)}}
  BY <1>0, <1>1 DEF SameStore
<1>2. CASE SameStore /\ gen' = gen
  <2>1. Whole(gen') = Whole(gen)
    BY <1>2
  <2>2. CASE Outcomes' = Outcomes
    BY <1>1, <1>2, <2>1, <2>2 DEF Store!vars
  <2>3. CASE Outcomes' = {Logical(fs)}
    BY <1>1, <1>2, <2>1, <2>3 DEF Store!Next, Store!Harden
  <2> QED
    BY <1>1, <1>2, <2>2, <2>3
<1>3. CASE MakeDir
  <2>1. SameStore
    BY <1>3, BeginSame DEF Begin
  <2>2. img' = img \cup {fs'}
    BY <1>3 DEF MakeDir, Change
  <2>3. Outcomes' = Outcomes
    BY <1>0, <2>1, <2>2 DEF SameStore
  <2>4. Whole(gen') \in Versions
    BY <1>3 DEF MakeDir, Versions
  <2> QED
    BY <1>1, <2>1, <2>3, <2>4 DEF Store!Next, Store!Choose
<1>4. CASE Unmark
  <2>1. Logical(fs') = Whole(gen) /\ img' = img \cup {fs'} /\ gen' = gen
    BY <1>4, UnmarkPublishes
  <2>2. Outcomes' = Outcomes \cup {Whole(gen)}
    BY <2>1
  <2>3. Whole(gen') = Whole(gen)
    BY <2>1
  <2> QED
    BY <2>1, <2>2, <2>3 DEF Store!Next, Store!Publish
<1>5. CASE PowerLoss
  <2>1. fs' \in img /\ img' = {fs'} /\ gen' = gen
    BY <1>5, PowerLossKeeps
  <2>2. Logical(fs') \in Outcomes /\ Outcomes' = {Logical(fs')}
    BY <2>1
  <2>3. Whole(gen') = Whole(gen)
    BY <2>1
  <2> QED
    BY <2>2, <2>3 DEF Store!Next, Store!PowerCut
<1> QED
  BY <1>2, <1>3, <1>4, <1>5, StoreStep, IntentKept

\* What recovery finds, and what a power cut could leave, change only as the
\* atomic store allows: an operation takes effect all at once, and what is durable
\* stays.
THEOREM ImplementsAtomicStore ==
  ASSUME SafeFaults
  PROVE  Spec => AtomicUpdates
<1>1. Spec => []Atomic
  BY InitAtomic, AtomicStep, PTL DEF Spec
<1>2. Spec => AtomicUpdates
  BY <1>1, StoreInit, StoreNext, PTL DEF Spec, AtomicUpdates, Store!Spec
<1> QED
  BY <1>2
=============================================================================
