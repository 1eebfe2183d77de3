------------------------- MODULE FirewallGuardProofs -------------------------
(***************************************************************************)
(* What the external-exposure guard promises for every number of families, *)
(* every set of ports and every bound, when no clean-up of the timer       *)
(* overlaps a start of the core (QuietTick) and the core neither fails nor *)
(* starts by itself in the middle of a CLI operation (QuietOp). GuardInv   *)
(* follows _fw-lock through the two families.                              *)
(***************************************************************************)
EXTENDS FirewallGuard, TLAPS

\* What a command leaves of an INPUT chain is an INPUT chain.
LEMMA ChainTypes ==
    /\ <<"foreign">> \in InputChains
    /\ \A s \in InputChains : /\ <<"jump">> \o s \in InputChains
                              /\ <<"foreign">> \o s \in InputChains
                              /\ \A i \in DOMAIN s : RemoveAt(s, i) \in InputChains
  BY DEF InputChains, RemoveAt

\* The names of the steps.
LEMMA StepTypes ==
    /\ {"new", "rule", "append", "list", "prune", "first", "insert", "verify_first",
        "verify_rule", "unjump", "flush", "drop", "locked", "refused", "unlocked"}
          \subseteq Steps
    /\ {"new", "unjump"} \subseteq LockSteps \cup UnlockSteps
    /\ LockSteps \cup UnlockSteps \subseteq Steps
  BY DEF Steps, LockSteps, UnlockSteps, Results

USE FamsAssumption, BoundsAssumption, GuardFlagsAssumption

\* The start: nothing runs and nothing listens.
LEMMA InitInv == Init => GuardInv
<1> SUFFICES ASSUME Init PROVE GuardInv
  OBVIOUS
<1>1. TypeOK
  <2>1. /\ input \in [Fams -> InputChains]
        /\ chain \in [Fams -> BOOLEAN]
        /\ rules \in [Fams -> SUBSET Ports]
    BY ChainTypes DEF Init
  <2>2. /\ pc \in [Actors -> Steps]
        /\ fam \in [Actors -> Fams]
        /\ wgport \in [Actors -> Ports]
        /\ stale \in [Actors -> SUBSET Ports]
    BY StepTypes DEF Init, Fams
  <2>3. /\ core \in Cores
        /\ engine \in Engines /\ port \in Ports /\ cfgport \in Ports
    BY DEF Init, Cores
  <2>4. /\ ops \in 0 .. MaxOps /\ edits \in 0 .. MaxEdits /\ fails \in 0 .. MaxFails
    BY DEF Init
  <2>5. restarts \in BOOLEAN
    BY DEF Init
  <2> QED
    BY <2>1, <2>2, <2>3, <2>4, <2>5 DEF Init, TypeOK
<1>2. OpInv /\ ActorInv /\ PreInv /\ ListenInv
  BY DEF Init, OpInv, ActorInv, PreInv, ListenInv, Listening, Free, Results, Actors,
         CleaningUp, UnlockSteps
<1> QED
  BY <1>1, <1>2 DEF GuardInv

----------------------------------------------------------------------------
\* Every variable stays in its range, whatever the timing.
LEMMA TypeStep == TypeOK /\ [Next]_vars => TypeOK'
<1> SUFFICES ASSUME TypeOK, [Next]_vars PROVE TypeOK'
  OBVIOUS
<1> USE DEF TypeOK, Works, Errs, Goto, FamAndPort, Around, Around2, firewall, settings,
            service, actors, operation
<1>1. CASE UNCHANGED vars
  BY <1>1 DEF vars
<1>2. ASSUME NEW a \in Actors, LockStep(a) PROVE TypeOK'
  <2>1. CASE NewChain(a)
    <3>1. chain' \in [Fams -> BOOLEAN]
      BY <2>1 DEF NewChain
    <3> QED
      BY <2>1, <3>1, StepTypes DEF NewChain
  <2>2. CASE CheckRule(a)
    BY <2>2, StepTypes DEF CheckRule
  <2>3. CASE AppendRule(a)
    <3>1. rules' \in [Fams -> SUBSET Ports]
      BY <2>3 DEF AppendRule
    <3> QED
      BY <2>3, <3>1, StepTypes DEF AppendRule
  <2>4. CASE ListStale(a)
    BY <2>4, StepTypes DEF ListStale
  <2>5. CASE Prune(a)
    BY <2>5, StepTypes DEF Prune
  <2>6. CASE Pruned(a)
    BY <2>6, StepTypes DEF Pruned
  <2>7. CASE CheckFirst(a)
    BY <2>7, StepTypes DEF CheckFirst
  <2>8. CASE InsertJump(a)
    <3>1. input' \in [Fams -> InputChains]
      <4>1. input[fam[a]] \in InputChains
        OBVIOUS
      <4>2. <<"jump">> \o input[fam[a]] \in InputChains
        BY <4>1, ChainTypes
      <4> QED
        BY <2>8, <4>2 DEF InsertJump
    <3> QED
      BY <2>8, <3>1, StepTypes DEF InsertJump
  <2>9. CASE VerifyFirst(a)
    BY <2>9, StepTypes DEF VerifyFirst
  <2>10. CASE VerifyRule(a)
    <3>1. pc' \in [Actors -> Steps] /\ fam' \in [Actors -> Fams]
      BY <2>10, StepTypes DEF VerifyRule, NextLock, Fams
    <3> QED
      BY <2>10, <3>1 DEF VerifyRule
  <2> QED
    BY <1>2, <2>1, <2>2, <2>3, <2>4, <2>5, <2>6, <2>7, <2>8, <2>9, <2>10 DEF LockStep
<1>3. ASSUME NEW a \in Actors, UnlockStep(a) PROVE TypeOK'
  <2>1. CASE Unjump(a)
    <3>1. input' \in [Fams -> InputChains]
      BY <2>1, ChainTypes DEF Unjump
    <3> QED
      BY <2>1, <3>1, StepTypes DEF Unjump
  <2>2. CASE Flush(a)
    BY <2>2, StepTypes DEF Flush
  <2>3. CASE DropChain(a)
    <3>1. NextUnlock(a)
      BY <2>3 DEF DropChain
    <3>2. pc' \in [Actors -> Steps]
      BY <3>1, StepTypes DEF NextUnlock
    <3>3. fam' \in [Actors -> Fams]
      BY <3>1 DEF NextUnlock, Fams
    <3>4. chain' \in [Fams -> BOOLEAN]
      BY <2>3 DEF DropChain
    <3>5. fails' \in 0 .. MaxFails
      BY <2>3 DEF DropChain
    <3> QED
      BY <2>3, <3>2, <3>3, <3>4, <3>5 DEF DropChain
  <2> QED
    BY <1>3, <2>1, <2>2, <2>3 DEF UnlockStep
<1> DEFINE Begun(a) == \E step \in LockSteps \cup UnlockSteps : Begin(a, step)
<1>4. ASSUME NEW a \in Actors, Begun(a)
      PROVE  /\ pc' \in [Actors -> Steps]
             /\ fam' \in [Actors -> Fams]
             /\ wgport' \in [Actors -> Ports]
             /\ stale' \in [Actors -> SUBSET Ports]
  BY <1>4, StepTypes DEF Begin, Fams
<1>5. StartPre => Begun("unit") /\ unit' = "pre"
  BY StepTypes DEF StartPre
<1>6. ASSUME NEW then \in {"off", "pre", "wait"}, StopPost(then)
      PROVE  /\ unit' \in {"off", "pre", "up", "post", "wait"}
             /\ after' \in {"off", "pre", "wait"}
             /\ Begun("unit") \/ UNCHANGED actors
  BY <1>5, <1>6, StepTypes DEF StopPost
<1>7. CASE FwReconcile
  <2>1. Begun("tick")
    BY <1>7, StepTypes DEF FwReconcile
  <2> QED
    BY <1>7, <1>4, <2>1 DEF FwReconcile, Actors
<1> HIDE DEF Begun
<1>8. "unit" \in Actors
  BY DEF Actors
<1>9. CASE Exec
  BY <1>9 DEF Exec, Cores
<1>10. CASE PreFailed
  BY <1>10, <1>4, <1>6, <1>8 DEF PreFailed
<1>11. CASE PostDone
  BY <1>11, <1>4, <1>5, <1>8 DEF PostDone
<1>12. CASE Fail
  BY <1>12, <1>4, <1>6, <1>8 DEF Fail
<1>13. CASE AutoRestart
  BY <1>13, <1>4, <1>5, <1>8 DEF AutoRestart
<1>14. CASE SetPort
  BY <1>14 DEF SetPort, StartOp
<1>15. CASE Import
  BY <1>15 DEF Import, StartOp
<1>16. CASE Stop
  BY <1>16, <1>4, <1>6, <1>8 DEF Stop, StartOp
<1>17. CASE RegenConfig
  BY <1>17 DEF RegenConfig
<1>18. CASE RestartService
  BY <1>18, <1>4, <1>5, <1>6, <1>8 DEF RestartService
<1>19. CASE LeaveStopped
  BY <1>19 DEF LeaveStopped
<1>20. CASE OpDone
  BY <1>20 DEF OpDone
<1>21. CASE UniFiEdits
  <2>1. input' \in [Fams -> InputChains]
    <3>1. PICK f \in Fams : \/ input' = [input EXCEPT ![f] = <<"foreign">> \o @]
                            \/ input' = [input EXCEPT ![f] = <<"foreign">>]
      BY <1>21 DEF UniFiEdits
    <3>2. /\ <<"foreign">> \in InputChains
          /\ <<"foreign">> \o input[f] \in InputChains
      BY ChainTypes
    <3> QED
      BY <3>1, <3>2
  <2> QED
    BY <1>21, <2>1 DEF UniFiEdits
<1> QED
  BY <1>1, <1>2, <1>3, <1>7, <1>9, <1>10, <1>11, <1>12, <1>13, <1>14, <1>15, <1>16, <1>17,
     <1>18, <1>19, <1>20, <1>21 DEF Next, UnitNext, OpNext

\* Every variable stays in its range.
THEOREM TypeCorrect == Spec => []TypeOK
<1>1. Init => TypeOK
  BY InitInv DEF GuardInv
<1> QED
  BY <1>1, TypeStep, PTL DEF Spec

----------------------------------------------------------------------------
\* What one command of fw_lock does: it takes no jump from the front and no rule
\* of the wanted port, and its own progress is what it checked or added.
LEMMA LockEffects ==
    ASSUME TypeOK, NEW a \in Actors, LockStep(a),
           pc[a] = "prune" => wgport[a] \notin stale[a]
    PROVE  /\ pc[a] \in LockSteps
           /\ pc'[a] \in LockSteps \cup {"locked", "refused"}
           /\ \A b \in Actors \ {a} : pc'[b] = pc[b] /\ fam'[b] = fam[b] /\ stale'[b] = stale[b]
           /\ UNCHANGED <<settings, service, operation, edits, wgport>>
           /\ pc'[a] = "prune" => wgport[a] \notin stale'[a]
           /\ \A f \in Fams : JumpFirst(f) => JumpFirst(f)'
           /\ \A f \in Fams : wgport[a] \in rules[f] => wgport[a] \in rules'[f]
           /\ pc[a] \notin {"verify_rule"} => fam'[a] = fam[a]
           /\ pc'[a] \in RuleThere => \/ pc[a] \in RuleThere /\ fam'[a] = fam[a]
                                      \/ wgport[a] \in rules'[fam'[a]]
           /\ pc'[a] \in FirstThere => \/ pc[a] \in FirstThere /\ fam'[a] = fam[a]
                                       \/ JumpFirst(fam[a])'
           /\ pc'[a] \in LockSteps =>
                 \/ fam'[a] = fam[a]
                 \/ pc[a] = "verify_rule" /\ fam'[a] = fam[a] + 1 /\ pc'[a] = "new"
           /\ pc'[a] = "locked" => pc[a] = "verify_rule" /\ fam[a] = NumFams
<1> USE DEF TypeOK, Works, Errs, Goto, FamAndPort, Around, firewall, LockSteps, RuleThere,
            FirstThere, JumpFirst
<1>0. fam[a] \in Fams
  OBVIOUS
<1>1. CASE NewChain(a)
  BY <1>0, <1>1 DEF NewChain
<1>2. CASE CheckRule(a)
  BY <1>0, <1>2 DEF CheckRule
<1>3. CASE AppendRule(a)
  BY <1>0, <1>3 DEF AppendRule
<1>4. CASE ListStale(a)
  BY <1>0, <1>4 DEF ListStale
<1>5. CASE Prune(a)
  BY <1>0, <1>5 DEF Prune
<1>6. CASE Pruned(a)
  BY <1>0, <1>6 DEF Pruned
<1>7. CASE CheckFirst(a)
  BY <1>0, <1>7 DEF CheckFirst
<1>8. CASE InsertJump(a)
  <2>1. \A s \in InputChains : <<"jump">> \o s # <<>> /\ Head(<<"jump">> \o s) = "jump"
    BY DEF InputChains
  <2>2. \A f \in Fams : JumpFirst(f) => JumpFirst(f)'
    BY <1>0, <1>8, <2>1 DEF InsertJump
  <2>3. pc'[a] = "verify_first" => JumpFirst(fam[a])'
    BY <1>0, <1>8, <2>1 DEF InsertJump
  <2> HIDE DEF JumpFirst
  <2> QED
    BY <1>0, <1>8, <2>2, <2>3 DEF InsertJump
<1>9. CASE VerifyFirst(a)
  BY <1>0, <1>9 DEF VerifyFirst
<1>10. CASE VerifyRule(a)
  BY <1>0, <1>10 DEF VerifyRule, NextLock, Fams
<1> QED
  BY <1>1, <1>2, <1>3, <1>4, <1>5, <1>6, <1>7, <1>8, <1>9, <1>10 DEF LockStep

\* What one command of fw_unlock leaves alone.
LEMMA UnlockEffects ==
    ASSUME TypeOK, NEW a \in Actors, UnlockStep(a)
    PROVE  /\ pc[a] \in UnlockSteps
           /\ pc'[a] \in UnlockSteps \cup {"unlocked"}
           /\ \A b \in Actors \ {a} : pc'[b] = pc[b] /\ fam'[b] = fam[b]
           /\ UNCHANGED <<settings, service, operation, edits, wgport, stale>>
<1> USE DEF TypeOK, Works, Errs, Goto, FamAndPort, Around, firewall, UnlockSteps
<1>1. CASE Unjump(a)
  BY <1>1 DEF Unjump
<1>2. CASE Flush(a)
  BY <1>2 DEF Flush
<1>3. CASE DropChain(a)
  BY <1>3 DEF DropChain, NextUnlock
<1> QED
  BY <1>1, <1>2, <1>3 DEF UnlockStep

----------------------------------------------------------------------------
\* fw_lock, of the hook before the core or of the timer.
LEMMA LockStepInv ==
    ASSUME GuardInv, NEW a \in Actors, LockStep(a)
    PROVE  OpInv' /\ ActorInv' /\ PreInv' /\ ListenInv'
<1> USE DEF Actors
<1>0. TypeOK /\ OpInv /\ ActorInv /\ PreInv /\ ListenInv
  BY DEF GuardInv
<1>1. pc[a] = "prune" => wgport[a] \notin stale[a]
  BY <1>0 DEF ActorInv
<1>2. /\ pc[a] \in LockSteps
      /\ pc'[a] \in LockSteps \cup {"locked", "refused"}
      /\ \A b \in Actors \ {a} : pc'[b] = pc[b] /\ fam'[b] = fam[b] /\ stale'[b] = stale[b]
      /\ UNCHANGED <<settings, service, operation, edits, wgport>>
      /\ pc'[a] = "prune" => wgport[a] \notin stale'[a]
      /\ \A f \in Fams : JumpFirst(f) => JumpFirst(f)'
      /\ \A f \in Fams : wgport[a] \in rules[f] => wgport[a] \in rules'[f]
  BY <1>0, <1>1, LockEffects
<1>3. UNCHANGED <<engine, port, cfgport, unit, after, core, op, restarts, edits, wgport>>
  BY <1>2 DEF settings, service, operation
<1>4. ~Free(a) /\ wgport[a] = port
  <2>1. ~Free(a)
    BY <1>2 DEF Free, Results, LockSteps
  <2>2. CASE a = "tick"
    BY <1>0, <2>1, <2>2 DEF ActorInv
  <2>3. CASE a = "unit"
    BY <1>0, <1>2, <2>1, <2>3 DEF ActorInv, Free, LockSteps, UnlockSteps, Results
  <2> QED
    BY <2>1, <2>2, <2>3
<1>5. a = "unit" => unit = "pre" /\ engine = "userspace"
  BY <1>0, <1>2, <1>4 DEF ActorInv, Free, LockSteps, UnlockSteps, Results, TypeOK, Engines
<1>6. a = "tick" => op = "idle"
  BY <1>0, <1>4 DEF OpInv
<1>7. \A f \in Fams : Locked(f) => Locked(f)'
  BY <1>2, <1>3, <1>4 DEF Locked
<1>8. OpInv'
  BY <1>0, <1>2, <1>3, <1>6 DEF OpInv, Free
<1>9. ActorInv'
  <2>1. a = "tick" => ~CleaningUp'
    BY <1>2 DEF CleaningUp, LockSteps, UnlockSteps
  <2>2. a = "unit" => (CleaningUp' <=> CleaningUp)
    BY <1>2 DEF CleaningUp
  <2>3. ~Free(a)' => wgport'[a] = port'
    BY <1>3, <1>4
  <2>4. CASE a = "tick"
    BY <1>0, <1>2, <1>3, <1>4, <2>1, <2>4 DEF ActorInv, Free, Listening
  <2>5. CASE a = "unit"
    BY <1>0, <1>2, <1>3, <1>4, <1>5, <2>2, <2>5 DEF ActorInv, Free, Listening
  <2> QED
    BY <2>4, <2>5
<1>10. ListenInv'
  <2>1. Listening => a = "tick" /\ core.port = port
    BY <1>0, <1>5, <1>6 DEF Listening, OpInv
  <2> QED
    BY <1>0, <1>2, <1>3, <1>4, <2>1 DEF ListenInv, Listening
<1>11. PreInv'
  <2> SUFFICES ASSUME unit = "pre", engine = "userspace"
               PROVE  PreInv'
    BY <1>3 DEF PreInv
  <2>0. fam["unit"] \in Fams
    BY <1>0 DEF TypeOK
  <2>1. CASE a = "tick"
    <3>1. pc'["unit"] = pc["unit"] /\ fam'["unit"] = fam["unit"]
      BY <1>2, <2>1
    <3>2. \A f \in 1 .. fam["unit"] - 1 : f \in Fams
      BY <2>0, FamsAssumption DEF Fams
    <3> QED
      BY <1>0, <1>2, <1>3, <1>4, <1>7, <2>0, <3>1, <3>2 DEF PreInv, Fams
  <2>2. CASE a = "unit"
    <3>1. /\ pc["unit"] \notin {"verify_rule"} => fam'["unit"] = fam["unit"]
          /\ pc'["unit"] \in RuleThere =>
                \/ pc["unit"] \in RuleThere /\ fam'["unit"] = fam["unit"]
                \/ port \in rules'[fam'["unit"]]
          /\ pc'["unit"] \in FirstThere =>
                \/ pc["unit"] \in FirstThere /\ fam'["unit"] = fam["unit"]
                \/ JumpFirst(fam["unit"])'
          /\ pc'["unit"] \in LockSteps =>
                \/ fam'["unit"] = fam["unit"]
                \/ /\ pc["unit"] = "verify_rule"
                   /\ fam'["unit"] = fam["unit"] + 1
                   /\ pc'["unit"] = "new"
          /\ pc'["unit"] = "locked" => pc["unit"] = "verify_rule" /\ fam["unit"] = NumFams
      BY <1>0, <1>1, <1>4, <2>2, LockEffects
    <3>2. pc["unit"] \in LockSteps
      BY <1>2, <2>2
    <3>3. \A f \in 1 .. fam["unit"] - 1 : f \in Fams /\ Locked(f)'
      BY <1>0, <1>7, <2>0, <3>2, FamsAssumption DEF PreInv, Fams
    <3>4. \A f \in Fams : pc["unit"] = "verify_rule" /\ f = fam["unit"] => Locked(f)'
      BY <1>0, <1>7, <2>0 DEF PreInv, Locked, RuleThere, FirstThere
    <3>5. pc'["unit"] \in LockSteps => \A f \in 1 .. fam'["unit"] - 1 : Locked(f)'
      BY <2>0, <3>1, <3>3, <3>4 DEF Fams
    <3>6. pc'["unit"] = "locked" => \A f \in Fams : Locked(f)'
      BY <2>0, <3>1, <3>3, <3>4, FamsAssumption DEF Fams
    <3>7. pc'["unit"] \in RuleThere => port' \in rules'[fam'["unit"]]
      BY <1>0, <1>2, <1>3, <1>4, <2>0, <2>2, <3>1 DEF PreInv
    <3>8. pc'["unit"] \in FirstThere /\ edits' = 0 => JumpFirst(fam["unit"])'
      <4>1. JumpFirst(fam["unit"]) /\ fam'["unit"] = fam["unit"] => JumpFirst(fam["unit"])'
        BY <1>2, <2>0 DEF JumpFirst
      <4> QED
        BY <1>0, <1>3, <3>1, <4>1 DEF PreInv
    <3> QED
      BY <3>5, <3>6, <3>7, <3>8 DEF PreInv
  <2> QED
    BY <2>1, <2>2
<1> QED
  BY <1>8, <1>9, <1>10, <1>11

\* fw_unlock, of the hooks or of the timer: the unit is not up, or the core is xray.
LEMMA UnlockStepInv ==
    ASSUME GuardInv, NEW a \in Actors, UnlockStep(a)
    PROVE  OpInv' /\ ActorInv' /\ PreInv' /\ ListenInv'
<1> USE DEF Actors
<1>0. TypeOK /\ OpInv /\ ActorInv /\ PreInv /\ ListenInv
  BY DEF GuardInv
<1>1. /\ pc[a] \in UnlockSteps
      /\ pc'[a] \in UnlockSteps \cup {"unlocked"}
      /\ \A b \in Actors \ {a} : pc'[b] = pc[b] /\ fam'[b] = fam[b]
      /\ UNCHANGED <<settings, service, operation, edits, wgport, stale>>
  BY <1>0, UnlockEffects
<1>2. UNCHANGED <<engine, port, cfgport, unit, after, core, op, restarts, edits, wgport, stale>>
  BY <1>1 DEF settings, service, operation
<1>3. ~Free(a)
  BY <1>1 DEF Free, Results, UnlockSteps
<1>4. ~Listening
  BY <1>0, <1>1, <1>3 DEF ActorInv, Listening, CleaningUp
<1>5. ~(unit = "pre" /\ engine = "userspace")
  BY <1>0, <1>1 DEF ActorInv, CleaningUp, LockSteps, UnlockSteps
<1>6. OpInv'
  BY <1>0, <1>1, <1>2, <1>3 DEF OpInv, Free
<1>7. ActorInv'
  <2>1. a = "unit" => unit \in {"pre", "post"}
    BY <1>0, <1>3 DEF ActorInv
  <2>2. CASE a = "tick"
    <3>1. unit # "pre"
      BY <1>0, <1>1, <2>2 DEF ActorInv, CleaningUp
    <3> QED
      BY <1>0, <1>1, <1>2, <1>3, <1>4, <2>2, <3>1 DEF ActorInv, Free, Listening, UnlockSteps
  <2>3. CASE a = "unit"
    BY <1>0, <1>1, <1>2, <1>4, <1>5, <2>1, <2>3 DEF ActorInv, Free, Listening, CleaningUp, UnlockSteps
  <2> QED
    BY <2>2, <2>3
<1>8. PreInv' /\ ListenInv'
  BY <1>2, <1>4, <1>5 DEF PreInv, ListenInv, Listening
<1> QED
  BY <1>6, <1>7, <1>8

----------------------------------------------------------------------------
\* The hook before a core starts afresh: it has done no family yet.
LEMMA StartPreInv ==
    ASSUME GuardInv, QuietTick, StartPre,
           UNCHANGED <<firewall, settings, core, edits>>,
           op' \in {"idle", "restarting"}, cfgport' = port',
           op' # "idle" => Free("tick")
    PROVE  OpInv' /\ ActorInv' /\ PreInv' /\ ListenInv'
<1> USE DEF GuardInv, TypeOK, Actors, StartPre, Begin, Goto, firewall, settings
<1>1. /\ unit' = "pre"
      /\ pc' = [pc EXCEPT !["unit"] = IF engine = "userspace" THEN "new" ELSE "unjump"]
      /\ fam'["unit"] = 1 /\ wgport'["unit"] = port /\ wgport'["tick"] = wgport["tick"]
      /\ stale'["unit"] = {} /\ stale'["tick"] = stale["tick"]
      /\ pc'["tick"] = pc["tick"]
  OBVIOUS
<1>2. OpInv'
  BY <1>1 DEF OpInv, Free
<1>3. ActorInv'
  BY <1>1 DEF ActorInv, Free, Listening, CleaningUp, LockSteps, UnlockSteps, Results
<1>4. PreInv'
  BY <1>1 DEF PreInv, RuleThere, FirstThere, Locked
<1>5. ListenInv'
  BY <1>1 DEF ListenInv, Listening
<1> QED
  BY <1>2, <1>3, <1>4, <1>5

\* The core ends: nothing listens any more.
LEMMA StopPostInv ==
    ASSUME GuardInv, QuietTick, NEW then \in {"off", "pre", "wait"}, StopPost(then),
           UNCHANGED <<firewall, settings, core, edits>>,
           Free("unit") \/ unit = "pre",
           op' \in {"idle", "restarting"}, cfgport' = port',
           then = "pre" => op' = "restarting",
           op' # "idle" => Free("tick"),
           unit = "pre" => pc["unit"] = "refused" /\ engine = "userspace"
    PROVE  OpInv' /\ ActorInv' /\ PreInv' /\ ListenInv'
<1>1. CASE engine = "userspace"
  <2> USE DEF GuardInv, TypeOK, Actors, StopPost, Begin, Goto, firewall, settings
  <2>1. /\ unit' = "post" /\ after' = then
        /\ pc'["unit"] = "unjump" /\ pc'["tick"] = pc["tick"]
        /\ wgport'["tick"] = wgport["tick"] /\ stale'["tick"] = stale["tick"]
    BY <1>1
  <2>2. OpInv'
    BY <2>1 DEF OpInv, Free
  <2>3. ActorInv'
    BY <2>1 DEF ActorInv, Free, Listening, UnlockSteps, Results
  <2>4. PreInv' /\ ListenInv'
    BY <2>1 DEF PreInv, ListenInv, Listening
  <2> QED
    BY <2>2, <2>3, <2>4
<1>2. CASE engine # "userspace" /\ then = "pre"
  BY <1>2, StartPreInv DEF StopPost
<1>3. CASE engine # "userspace" /\ then # "pre"
  <2> USE DEF GuardInv, TypeOK, Actors, firewall, settings, actors
  <2>1. unit' = then /\ after' = then /\ UNCHANGED <<pc, fam, wgport, stale>> /\ Free("unit")
    BY <1>3 DEF StopPost
  <2>2. OpInv'
    BY <1>3, <2>1 DEF OpInv, Free
  <2>3. ActorInv'
    BY <1>3, <2>1 DEF ActorInv, Free, Listening
  <2>4. PreInv' /\ ListenInv'
    BY <1>3, <2>1 DEF PreInv, ListenInv, Listening
  <2> QED
    BY <2>2, <2>3, <2>4
<1> QED
  BY <1>1, <1>2, <1>3

----------------------------------------------------------------------------
\* Every step, when the timing is quiet.
LEMMA InvStep ==
    ASSUME QuietTick, QuietOp, GuardInv, [Next]_vars
    PROVE  GuardInv'
<1>0. TypeOK /\ OpInv /\ ActorInv /\ PreInv /\ ListenInv
  BY DEF GuardInv
<1>1. TypeOK'
  BY <1>0, TypeStep
<1> DEFINE Inv == OpInv /\ ActorInv /\ PreInv /\ ListenInv
<1> SUFFICES Inv'
  BY <1>1 DEF GuardInv
<1>2. CASE UNCHANGED vars
  BY <1>0, <1>2 DEF vars, firewall, settings, service, actors, operation, OpInv, ActorInv, PreInv,
     ListenInv, Free, Listening, CleaningUp, Locked, JumpFirst
<1>3. ASSUME NEW a \in Actors, LockStep(a) PROVE Inv'
  BY <1>3, LockStepInv
<1>4. ASSUME NEW a \in Actors, UnlockStep(a) PROVE Inv'
  BY <1>4, UnlockStepInv
<1>5. CASE FwReconcile
  <2> USE DEF FwReconcile, Around, firewall, settings, service, operation, Begin, Goto
  <2>1. /\ op = "idle" /\ Free("tick")
        /\ UNCHANGED <<firewall, settings, service, operation, edits>>
        /\ pc'["unit"] = pc["unit"] /\ wgport'["unit"] = wgport["unit"]
        /\ fam'["unit"] = fam["unit"] /\ stale'["unit"] = stale["unit"]
        /\ wgport'["tick"] = port
        /\ \/ pc'["tick"] = "new"
           \/ pc'["tick"] = "unjump" /\ ~(engine = "userspace" /\ unit = "up") /\ unit # "pre"
    BY <1>0, <1>5 DEF TypeOK, Actors
  <2>2. Listening => engine = "userspace"
    BY <1>0, <2>1 DEF OpInv, Listening
  <2>3. OpInv'
    BY <1>0, <2>1 DEF OpInv, Free
  <2>4. ActorInv'
    BY <1>0, <2>1, <2>2 DEF ActorInv, Free, Listening, CleaningUp, UnlockSteps, Actors
  <2>5. PreInv' /\ ListenInv'
    BY <1>0, <2>1 DEF PreInv, ListenInv, Listening, Locked, JumpFirst
  <2> QED
    BY <2>3, <2>4, <2>5
<1>6. CASE Exec
  <2> USE DEF Exec, firewall, settings, actors, operation
  <2>1. /\ unit = "pre" /\ unit' = "up" /\ pc["unit"] \in {"locked", "unlocked"}
        /\ core' = [engine |-> engine, port |-> port]
        /\ op \in {"idle", "restarting"}
        /\ UNCHANGED <<firewall, settings, after, actors, operation, edits>>
    BY <1>0, <1>6 DEF OpInv
  <2>2. OpInv'
    BY <1>0, <2>1 DEF OpInv, Free
  <2>3. ActorInv'
    BY <1>0, <2>1 DEF ActorInv, Free, Listening, CleaningUp, Results
  <2>4. engine = "userspace" => pc["unit"] = "locked"
    BY <1>0, <2>1 DEF ActorInv, LockSteps
  <2>5. PreInv' /\ ListenInv'
    BY <1>0, <2>1, <2>4 DEF PreInv, ListenInv, Listening, Locked, JumpFirst
  <2> QED
    BY <2>2, <2>3, <2>5
<1>7. CASE PreFailed
  <2>1. engine = "userspace"
    BY <1>0, <1>7 DEF PreFailed, ActorInv, UnlockSteps
  <2>2. op \in {"idle", "restarting"} /\ cfgport = port /\ (op # "idle" => Free("tick"))
    BY <1>0, <1>7 DEF PreFailed, OpInv
  <2> QED
    BY <1>7, <2>1, <2>2, StopPostInv DEF PreFailed, settings, operation, firewall
<1>8. CASE PostDone
  <2>1. CASE after = "pre"
    <3>1. op = "restarting" /\ cfgport = port /\ Free("tick")
      BY <1>0, <1>8, <2>1 DEF PostDone, OpInv
    <3> QED
      BY <1>8, <2>1, <3>1, StartPreInv DEF PostDone, settings, operation, firewall
  <2>2. CASE after # "pre"
    BY <1>0, <1>8, <2>2 DEF PostDone, TypeOK, OpInv, ActorInv, PreInv, ListenInv, Free, Listening,
       CleaningUp, firewall, settings, actors, operation
  <2> QED
    BY <2>1, <2>2
<1>9. CASE Fail
  <2>1. op = "idle" /\ cfgport = port /\ Free("unit")
    BY <1>0, <1>9 DEF Fail, OpInv, ActorInv
  <2> QED
    BY <1>9, <2>1, StopPostInv DEF Fail, settings, operation, firewall
<1>10. CASE AutoRestart
  <2>1. op = "idle" /\ cfgport = port
    BY <1>0, <1>10 DEF AutoRestart, OpInv
  <2> QED
    BY <1>10, <2>1, StartPreInv DEF AutoRestart, settings, operation, firewall
<1>11. CASE SetPort
  <2> USE DEF SetPort, StartOp, Around2, firewall, service, actors
  <2>1. OpInv'
    BY <1>0, <1>11 DEF TypeOK, OpInv, Free
  <2>2. ActorInv'
    BY <1>0, <1>11 DEF OpInv, ActorInv, Free, Listening, CleaningUp
  <2>3. PreInv' /\ ListenInv'
    BY <1>0, <1>11 DEF PreInv, ListenInv, Listening, JumpFirst
  <2> QED
    BY <2>1, <2>2, <2>3
<1>12. CASE Import
  <2> USE DEF Import, StartOp, Around2, firewall, service, actors
  <2>1. OpInv'
    BY <1>0, <1>12 DEF OpInv, Free
  <2>2. ActorInv'
    BY <1>0, <1>12 DEF OpInv, ActorInv, Free, Listening, CleaningUp
  <2>3. PreInv' /\ ListenInv'
    BY <1>0, <1>12 DEF PreInv, ListenInv, Listening, JumpFirst
  <2> QED
    BY <2>1, <2>2, <2>3
<1>13. CASE Stop
  <2>1. unit = "up" /\ Free("unit") /\ Free("tick") /\ cfgport = port /\ op' = "restarting"
    BY <1>0, <1>13 DEF Stop, StartOp, OpInv, ActorInv
  <2> QED
    BY <1>13, <2>1, StopPostInv DEF Stop, settings, firewall
<1>14. CASE RegenConfig
  <2> USE DEF RegenConfig, Around2, firewall, service, actors
  <2>1. OpInv'
    BY <1>0, <1>14 DEF OpInv, Free
  <2>2. ActorInv' /\ PreInv' /\ ListenInv'
    BY <1>0, <1>14 DEF OpInv, ActorInv, PreInv, ListenInv, Free, Listening, CleaningUp, JumpFirst
  <2> QED
    BY <2>1, <2>2
<1>15. CASE RestartService
  <2>1. Free("tick") /\ cfgport = port /\ op' = "restarting" /\ Free("unit")
    BY <1>0, <1>15 DEF RestartService, OpInv, ActorInv
  <2>2. CASE unit = "up"
    BY <1>15, <2>1, <2>2, StopPostInv DEF RestartService, settings, firewall
  <2>3. CASE unit # "up"
    BY <1>15, <2>1, <2>3, StartPreInv DEF RestartService, settings, firewall
  <2> QED
    BY <2>2, <2>3
<1>16. CASE LeaveStopped
  <2> USE DEF LeaveStopped, Around2, firewall, settings, service, actors
  <2>1. OpInv'
    BY <1>0, <1>16 DEF OpInv, Free
  <2>2. ActorInv' /\ PreInv' /\ ListenInv'
    BY <1>0, <1>16 DEF ActorInv, PreInv, ListenInv, Free, Listening, CleaningUp, Locked, JumpFirst
  <2> QED
    BY <2>1, <2>2
<1>17. CASE OpDone
  <2> USE DEF OpDone, Around2, firewall, settings, service, actors
  <2>1. OpInv'
    BY <1>0, <1>17 DEF OpInv, Free
  <2>2. ActorInv' /\ PreInv' /\ ListenInv'
    BY <1>0, <1>17 DEF ActorInv, PreInv, ListenInv, Free, Listening, CleaningUp, Locked, JumpFirst
  <2> QED
    BY <2>1, <2>2
<1>18. CASE UniFiEdits
  <2> USE DEF UniFiEdits, settings, service, actors, operation
  <2>1. edits' # 0
    BY <1>0, <1>18 DEF TypeOK
  <2>2. OpInv' /\ ActorInv'
    BY <1>0, <1>18 DEF OpInv, ActorInv, Free, Listening, CleaningUp
  <2>3. PreInv' /\ ListenInv'
    BY <1>0, <1>18, <2>1 DEF PreInv, ListenInv, Listening, Locked
  <2> QED
    BY <2>2, <2>3
<1> QED
  BY <1>2, <1>3, <1>4, <1>5, <1>6, <1>7, <1>8, <1>9, <1>10, <1>11, <1>12, <1>13, <1>14, <1>15,
     <1>16, <1>17, <1>18 DEF Next, UnitNext, OpNext

LEMMA Invariant == ASSUME QuietTick, QuietOp PROVE Spec => []GuardInv
  BY InitInv, InvStep, PTL DEF Spec

\* As long as UniFi left INPUT alone, no core listens on all interfaces without
\* the guard, in any family, whichever iptables commands fail on the way:
\* "protection is fail-closed before either core binds".
THEOREM Guarding == ASSUME QuietTick, QuietOp PROVE Spec => []GuardedWhileListening
<1>1. GuardInv => GuardedWhileListening
  BY DEF GuardInv, ListenInv, GuardedWhileListening, Exposed, Guarded
<1> QED
  BY <1>1, Invariant, PTL

\* Whatever UniFi did before, no command of the project's own takes the guard
\* from a listening core: "protection never lapses".
THEOREM NoLapse == ASSUME QuietTick, QuietOp PROVE Spec => NeverLapses
<1> DEFINE Lapse == Listening /\ Listening' /\ Exposed' => Exposed \/ edits' # edits
<1>1. ASSUME GuardInv, GuardInv', [Next]_vars PROVE [Lapse]_vars
  <2> SUFFICES ASSUME Listening, Listening', Exposed', edits' = edits, ~Exposed, Next
               PROVE  FALSE
    BY <1>1
  <2>0. TypeOK /\ OpInv /\ ActorInv /\ ListenInv
    BY <1>1 DEF GuardInv
  <2>1. PICK f \in Fams : ~Guarded(f, core.port)'
    BY DEF Exposed, Fams
  <2>2. Guarded(f, core.port)
    BY DEF Exposed
  <2>3. \A g \in Fams : core'.port \in rules'[g]
    BY <1>1 DEF GuardInv, ListenInv
  <2>4. ~JumpFirst(f)'
    BY <2>1, <2>3 DEF Guarded
  <2>5. JumpFirst(f)
    BY <2>2 DEF Guarded
  <2>6. ~UNCHANGED firewall /\ UNCHANGED edits
    BY <2>4, <2>5 DEF JumpFirst, firewall
  <2>7. ASSUME NEW a \in Actors, LockStep(a) PROVE FALSE
    BY <2>0, <2>4, <2>5, <2>7, LockEffects DEF ActorInv
  <2>8. ASSUME NEW a \in Actors, UnlockStep(a) PROVE FALSE
    <3>1. pc[a] \in UnlockSteps
      BY <2>0, <2>8, UnlockEffects
    <3> QED
      BY <2>0, <3>1 DEF ActorInv, Actors, CleaningUp, Listening, Free, Results, UnlockSteps
  <2>9. UnitNext \/ Fail \/ AutoRestart \/ FwReconcile => UNCHANGED firewall
    BY DEF UnitNext, Exec, PreFailed, PostDone, Fail, AutoRestart, FwReconcile
  <2>10. SetPort \/ Import \/ Stop \/ OpNext => UNCHANGED firewall
    BY DEF OpNext, SetPort, Import, Stop, RegenConfig, RestartService, LeaveStopped, OpDone, Around2
  <2>11. UniFiEdits => edits' # edits
    BY <2>0 DEF UniFiEdits, TypeOK
  <2> QED
    BY <2>6, <2>7, <2>8, <2>9, <2>10, <2>11 DEF Next
<1>2. Spec => [][Lapse]_vars
  BY <1>1, Invariant, PTL DEF Spec
<1> QED
  BY <1>2 DEF NeverLapses
=============================================================================
