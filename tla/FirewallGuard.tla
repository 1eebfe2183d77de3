---------------------------- MODULE FirewallGuard ----------------------------
(***************************************************************************)
(* The external-exposure guard: sing-box and amnezia-box bind their        *)
(* WireGuard inbound on all interfaces, so an iptables chain of the        *)
(* project's own drops what does not come from loopback.                   *)
(*                                                                         *)
(* Two processes change the firewall, one iptables command at a time: the  *)
(* hooks that systemd runs around the core (the actor "unit": _fw-lock     *)
(* before it, _fw-unlock after it), and the guard timer's fw_reconcile     *)
(* (the actor "tick"). The operation lock keeps the tick away from CLI     *)
(* operations; nothing keeps it away from systemd's own restart of a core  *)
(* that failed. UniFi rewrites the INPUT chain when it provisions.         *)
(***************************************************************************)
EXTENDS Naturals, Sequences, SequencesExt

CONSTANTS Ports,      \* WireGuard ports
          NumFams,    \* 1: IPv4 only; 2: IPv6 is enabled as well
          MaxEdits,   \* UniFi changes INPUT at most so often
          MaxOps,     \* CLI operations
          MaxFails,   \* iptables commands that fail by themselves
          QuietTick,  \* the timer's clean-up never overlaps a start of the core
          QuietOp     \* the core does not fail or start by itself during an operation

ASSUME PortsAssumption == Ports # {}
ASSUME FamsAssumption == NumFams \in Nat \ {0}
ASSUME BoundsAssumption == MaxEdits \in Nat /\ MaxOps \in Nat /\ MaxFails \in Nat
ASSUME GuardFlagsAssumption == {QuietTick, QuietOp} \subseteq BOOLEAN

VARIABLES input,    \* INPUT of each family, its rules in order
          chain,    \* is there a PROXY_UNIFI_WG chain?
          rules,    \* the ports it drops
          engine,   \* the recorded engine, and the one of the unit file
          port,     \* WG_PORT of settings.env
          cfgport,  \* the port in the generated config
          unit,     \* the state of the systemd unit
          after,    \* where the unit goes from "post"
          core,     \* the engine and port of the running core
          pc,       \* the next command of each actor, or its result
          fam,      \* the family it works on
          wgport,   \* WG_PORT as it read it
          stale,    \* rules it is about to delete
          op,       \* the step of the CLI operation, which holds the lock
          restarts, \* the operation will restart the service
          ops,      \* operations so far
          edits,    \* what UniFi did so far
          fails     \* commands that failed by themselves so far

firewall == <<input, chain, rules>>
settings == <<engine, port, cfgport>>
service == <<unit, after, core>>
actors == <<pc, fam, wgport, stale>>
operation == <<op, restarts, ops>>
vars == <<firewall, settings, service, actors, operation, edits, fails>>

Fams == 1 .. NumFams
Actors == {"unit", "tick"}
\* "userspace": sing-box or amnezia-box.
Engines == {"xray", "userspace"}
Cores == [engine : Engines, port : Ports]

\* The results of fw_lock and fw_unlock.
Results == {"locked", "refused", "unlocked"}
LockSteps == {"new", "rule", "append", "list", "prune", "first", "insert",
              "verify_first", "verify_rule"}
UnlockSteps == {"unjump", "flush", "drop"}
Steps == LockSteps \cup UnlockSteps \cup Results

\* INPUT: the jumps to the project's chain among UniFi's own rules.
InputChains == Seq({"jump", "foreign"})

\* _fw_jump_first
JumpFirst(f) == input[f] # <<>> /\ Head(input[f]) = "jump"
\* Packets to the port are dropped whatever UniFi's own rules say.
Guarded(f, p) == JumpFirst(f) /\ p \in rules[f]

Listening == unit = "up" /\ core.engine = "userspace"
Exposed == Listening /\ \E f \in Fams : ~Guarded(f, core.port)

Init == /\ input = [f \in Fams |-> <<"foreign">>]
        /\ chain = [f \in Fams |-> FALSE]
        /\ rules = [f \in Fams |-> {}]
        /\ engine \in Engines
        /\ port \in Ports
        /\ cfgport = port
        /\ unit = "off"
        /\ after = "off"
        /\ core = [engine |-> engine, port |-> port]
        /\ pc = [a \in Actors |-> "unlocked"]
        /\ fam = [a \in Actors |-> 1]
        /\ wgport = [a \in Actors |-> port]
        /\ stale = [a \in Actors |-> {}]
        /\ op = "idle"
        /\ restarts = FALSE
        /\ ops = 0
        /\ edits = 0
        /\ fails = 0

Free(a) == pc[a] \in Results

----------------------------------------------------------------------------
\* fw_lock and fw_unlock, one iptables command at a time

Goto(a, step) == pc' = [pc EXCEPT ![a] = step]
FamAndPort == <<fam, wgport>>
Around == <<settings, service, operation, edits>>

\* A command of the actor succeeds, or fails: for a reason or by itself.
Works == UNCHANGED fails
Errs(reason) == \/ reason /\ UNCHANGED fails
                \/ fails < MaxFails /\ fails' = fails + 1

\* A slip of NextLock: fw_lock without the IPv6 half.
NextLockIPv4Only(a) == Goto(a, "locked") /\ UNCHANGED fam

\* fw_lock: what follows a family that is done.
NextLock(a) == IF fam[a] < NumFams
               THEN Goto(a, "new") /\ fam' = [fam EXCEPT ![a] = fam[a] + 1]
               ELSE Goto(a, "locked") /\ UNCHANGED fam
NextUnlock(a) == IF fam[a] < NumFams
                 THEN Goto(a, "unjump") /\ fam' = [fam EXCEPT ![a] = fam[a] + 1]
                 ELSE Goto(a, "unlocked") /\ UNCHANGED fam

\* -N, whose failure is ignored: the chain may exist.
NewChain(a) ==
    /\ pc[a] = "new"
    /\ \/ Works /\ chain' = [chain EXCEPT ![fam[a]] = TRUE]
       \/ Errs(FALSE) /\ UNCHANGED chain
    /\ Goto(a, "rule")
    /\ UNCHANGED <<input, rules, FamAndPort, stale, Around>>

CheckRule(a) ==
    /\ pc[a] = "rule"
    /\ \/ Works /\ wgport[a] \in rules[fam[a]] /\ Goto(a, "list")
       \/ Errs(wgport[a] \notin rules[fam[a]]) /\ Goto(a, "append")
    /\ UNCHANGED <<firewall, FamAndPort, stale, Around>>

AppendRule(a) ==
    /\ pc[a] = "append"
    /\ \/ /\ Works
          /\ chain[fam[a]]
          /\ rules' = [rules EXCEPT ![fam[a]] = @ \cup {wgport[a]}]
          /\ Goto(a, "list")
       \/ /\ Errs(~chain[fam[a]])
          /\ Goto(a, "refused")
          /\ UNCHANGED rules
    /\ UNCHANGED <<input, chain, FamAndPort, stale, Around>>

\* A slip of ListStale: without the grep -v of the wanted port.
ListStaleAll(a) ==
    /\ pc[a] = "list"
    /\ \/ Works /\ stale' = [stale EXCEPT ![a] = rules[fam[a]]]
       \/ Errs(FALSE) /\ stale' = [stale EXCEPT ![a] = {}]
    /\ Goto(a, "prune")
    /\ UNCHANGED <<firewall, FamAndPort, Around>>

\* -S of the chain, without the line of the wanted port.
ListStale(a) ==
    /\ pc[a] = "list"
    /\ \/ Works /\ stale' = [stale EXCEPT ![a] = rules[fam[a]] \ {wgport[a]}]
       \/ Errs(FALSE) /\ stale' = [stale EXCEPT ![a] = {}]
    /\ Goto(a, "prune")
    /\ UNCHANGED <<firewall, FamAndPort, Around>>

\* -D of one listed rule, whose failure is ignored.
Prune(a) ==
    /\ pc[a] = "prune"
    /\ \E p \in stale[a] :
          /\ \/ Works /\ rules' = [rules EXCEPT ![fam[a]] = @ \ {p}]
             \/ Errs(FALSE) /\ UNCHANGED rules
          /\ stale' = [stale EXCEPT ![a] = @ \ {p}]
    /\ UNCHANGED <<input, chain, pc, FamAndPort, Around>>

\* Slips of CheckFirst: always insert; be content with a jump anywhere.
CheckFirstNever(a) ==
    /\ pc[a] = "first"
    /\ Works
    /\ Goto(a, "insert")
    /\ UNCHANGED <<firewall, FamAndPort, stale, Around>>

CheckAnyJump(a) ==
    /\ pc[a] = "first"
    /\ \/ Works /\ "jump" \in Range(input[fam[a]]) /\ Goto(a, "verify_first")
       \/ Errs("jump" \notin Range(input[fam[a]])) /\ Goto(a, "insert")
    /\ UNCHANGED <<firewall, FamAndPort, stale, Around>>

CheckFirst(a) ==
    /\ pc[a] = "first"
    /\ \/ Works /\ JumpFirst(fam[a]) /\ Goto(a, "verify_first")
       \/ Errs(~JumpFirst(fam[a])) /\ Goto(a, "insert")
    /\ UNCHANGED <<firewall, FamAndPort, stale, Around>>

Pruned(a) ==
    /\ pc[a] = "prune"
    /\ stale[a] = {}
    /\ Works
    /\ Goto(a, "first")
    /\ UNCHANGED <<firewall, FamAndPort, stale, Around>>

\* A slip of InsertJump: the old copy, once first, is deleted by its position.
InsertJumpMoves(a) ==
    /\ pc[a] = "insert"
    /\ \/ /\ Works
          /\ chain[fam[a]]
          /\ input' = [input EXCEPT ![fam[a]] =
                          IF "jump" \in Range(@) THEN <<"jump">> \o Tail(@) ELSE <<"jump">> \o @]
          /\ Goto(a, "verify_first")
       \/ /\ Errs(~chain[fam[a]])
          /\ Goto(a, "refused")
          /\ UNCHANGED input
    /\ UNCHANGED <<chain, rules, FamAndPort, stale, Around>>

\* -I INPUT 1; an older jump stays where it is.
InsertJump(a) ==
    /\ pc[a] = "insert"
    /\ \/ /\ Works
          /\ chain[fam[a]]
          /\ input' = [input EXCEPT ![fam[a]] = <<"jump">> \o @]
          /\ Goto(a, "verify_first")
       \/ /\ Errs(~chain[fam[a]])
          /\ Goto(a, "refused")
          /\ UNCHANGED input
    /\ UNCHANGED <<chain, rules, FamAndPort, stale, Around>>

VerifyFirst(a) ==
    /\ pc[a] = "verify_first"
    /\ \/ Works /\ JumpFirst(fam[a]) /\ Goto(a, "verify_rule")
       \/ Errs(~JumpFirst(fam[a])) /\ Goto(a, "refused")
    /\ UNCHANGED <<firewall, FamAndPort, stale, Around>>

VerifyRule(a) ==
    /\ pc[a] = "verify_rule"
    /\ \/ Works /\ wgport[a] \in rules[fam[a]] /\ NextLock(a)
       \/ /\ Errs(wgport[a] \notin rules[fam[a]])
          /\ Goto(a, "refused")
          /\ UNCHANGED fam
    /\ UNCHANGED <<firewall, wgport, stale, Around>>

\* The loop of -C and -D: the first jump, until there is none or -D fails.
Unjump(a) ==
    /\ pc[a] = "unjump"
    /\ \/ /\ Works
          /\ \E i \in DOMAIN input[fam[a]] :
                /\ input[fam[a]][i] = "jump"
                /\ \A j \in 1 .. i - 1 : input[fam[a]][j] # "jump"
                /\ input' = [input EXCEPT ![fam[a]] = RemoveAt(@, i)]
          /\ UNCHANGED pc
       \/ /\ Errs("jump" \notin Range(input[fam[a]]))
          /\ Goto(a, "flush")
          /\ UNCHANGED input
    /\ UNCHANGED <<chain, rules, FamAndPort, stale, Around>>

Flush(a) ==
    /\ pc[a] = "flush"
    /\ \/ Works /\ rules' = [rules EXCEPT ![fam[a]] = {}]
       \/ Errs(FALSE) /\ UNCHANGED rules
    /\ Goto(a, "drop")
    /\ UNCHANGED <<input, chain, FamAndPort, stale, Around>>

\* -X fails for a chain that has rules or that a jump refers to.
DropChain(a) ==
    /\ pc[a] = "drop"
    /\ \/ /\ Works
          /\ rules[fam[a]] = {} /\ "jump" \notin Range(input[fam[a]])
          /\ chain' = [chain EXCEPT ![fam[a]] = FALSE]
       \/ /\ Errs(rules[fam[a]] # {} \/ "jump" \in Range(input[fam[a]]))
          /\ UNCHANGED chain
    /\ NextUnlock(a)
    /\ UNCHANGED <<input, rules, wgport, stale, Around>>

LockStep(a) == \/ NewChain(a) \/ CheckRule(a) \/ AppendRule(a) \/ ListStale(a)
               \/ Prune(a) \/ Pruned(a) \/ CheckFirst(a) \/ InsertJump(a)
               \/ VerifyFirst(a) \/ VerifyRule(a)
UnlockStep(a) == Unjump(a) \/ Flush(a) \/ DropChain(a)

----------------------------------------------------------------------------
\* Which of the two an actor begins

\* load_settings, then fw_lock or fw_unlock from the first family.
Begin(a, step) == /\ Goto(a, step)
                  /\ fam' = [fam EXCEPT ![a] = 1]
                  /\ wgport' = [wgport EXCEPT ![a] = port]
                  /\ stale' = [stale EXCEPT ![a] = {}]

CleaningUp == pc["tick"] \in UnlockSteps

\* A slip of FwReconcile: it repairs the guard and never removes it.
FwReconcileLocks ==
    /\ op = "idle"
    /\ Free("tick")
    /\ engine = "userspace" /\ unit = "up" /\ Begin("tick", "new")
    /\ UNCHANGED <<firewall, Around, fails>>

\* fw_reconcile, under the operation lock or, at the end of boot_recover and of
\* a rollback, by the operation that holds it.
FwReconcile ==
    /\ op = "idle"
    /\ Free("tick")
    /\ \/ engine = "userspace" /\ unit = "up" /\ Begin("tick", "new")
       \/ /\ ~(engine = "userspace" /\ unit = "up")
          /\ QuietTick => unit # "pre"
          /\ Begin("tick", "unjump")
    /\ UNCHANGED <<firewall, Around, fails>>

\* ExecStartPre of the unit file that write_service made for the engine.
StartPre == /\ unit' = "pre"
            /\ QuietTick => ~CleaningUp
            /\ Begin("unit", IF engine = "userspace" THEN "new" ELSE "unjump")
\* ExecStopPost, which the xray units do not have.
StopPost(then) ==
    IF engine = "userspace"
    THEN /\ unit' = "post" /\ after' = then /\ Begin("unit", "unjump")
    ELSE /\ after' = then
         /\ IF then = "pre" THEN StartPre ELSE unit' = then /\ UNCHANGED actors

----------------------------------------------------------------------------
\* The unit, as systemd runs it: Type=simple, Restart=on-failure, RestartSec=5

\* ExecStart, once ExecStartPre succeeded.
Exec == /\ unit = "pre"
        /\ pc["unit"] \in {"locked", "unlocked"}
        /\ unit' = "up"
        /\ core' = [engine |-> engine, port |-> cfgport]
        /\ UNCHANGED <<firewall, settings, after, actors, operation, edits, fails>>

PreFailed == /\ unit = "pre"
             /\ pc["unit"] = "refused"
             /\ StopPost("wait")
             /\ UNCHANGED <<firewall, settings, core, operation, edits, fails>>

PostDone == /\ unit = "post"
            /\ Free("unit")
            /\ IF after = "pre" THEN StartPre ELSE unit' = after /\ UNCHANGED actors
            /\ UNCHANGED <<firewall, settings, after, core, operation, edits, fails>>

\* The core fails by itself.
Fail == /\ unit = "up"
        /\ QuietOp => op = "idle"
        /\ StopPost("wait")
        /\ UNCHANGED <<firewall, settings, core, operation, edits, fails>>

AutoRestart == /\ unit = "wait"
               /\ QuietOp => op = "idle"
               /\ StartPre
               /\ UNCHANGED <<firewall, settings, after, core, operation, edits, fails>>

UnitNext == Exec \/ PreFailed \/ PostDone

----------------------------------------------------------------------------
\* A CLI operation that holds the lock, so no reconcile runs

Around2 == <<firewall, actors, edits, fails>>

StartOp(step) == /\ op = "idle"
                 /\ Free("tick")
                 /\ QuietOp => unit # "pre"
                 /\ ops < MaxOps
                 /\ ops' = ops + 1
                 /\ op' = step

\* cmd_set port: txn_begin notes whether the service is active; save_settings.
SetPort ==
    /\ StartOp("saved")
    /\ restarts' = (unit = "up")
    /\ \E p \in Ports : port' = p
    /\ UNCHANGED <<engine, cfgport, service, Around2>>

\* regen_config, for the recorded engine.
RegenConfig ==
    /\ op = "saved"
    /\ op' = "built"
    /\ cfgport' = port
    /\ UNCHANGED <<engine, port, service, restarts, ops, Around2>>

\* An import: the config, the engine marker and the unit file of its engine.
Import ==
    /\ StartOp("built")
    /\ restarts' = TRUE
    /\ cfgport' = port
    /\ \E e \in Engines : engine' = e
    /\ UNCHANGED <<port, service, Around2>>

\* systemctl restart, which waits for ExecStartPre.
RestartService ==
    /\ op = "built"
    /\ restarts
    /\ unit \in {"up", "off", "wait"}
    /\ op' = "restarting"
    /\ IF unit = "up" THEN StopPost("pre") ELSE StartPre /\ UNCHANGED after
    /\ UNCHANGED <<firewall, settings, core, restarts, ops, edits, fails>>

\* restart_if_previously_active: the service was not active at txn_begin.
LeaveStopped ==
    /\ op = "built"
    /\ ~restarts
    /\ op' = "idle"
    /\ UNCHANGED <<settings, service, restarts, ops, Around2>>

\* menu_stop
Stop == /\ StartOp("restarting")
        /\ unit = "up"
        /\ StopPost("off")
        /\ UNCHANGED <<firewall, settings, core, restarts, edits, fails>>

OpDone == /\ op = "restarting"
          /\ unit \in {"up", "off", "wait"}
          /\ op' = "idle"
          /\ UNCHANGED <<settings, service, restarts, ops, Around2>>

OpNext == RegenConfig \/ RestartService \/ LeaveStopped \/ OpDone

----------------------------------------------------------------------------
\* UniFi, outside this program

\* It puts a rule before the others, or writes its INPUT chain anew.
UniFiEdits ==
    /\ edits < MaxEdits
    /\ edits' = edits + 1
    /\ \E f \in Fams :
          \/ input' = [input EXCEPT ![f] = <<"foreign">> \o @]
          \/ input' = [input EXCEPT ![f] = <<"foreign">>]
    /\ UNCHANGED <<chain, rules, settings, service, actors, operation, fails>>

Next == \/ \E a \in Actors : LockStep(a) \/ UnlockStep(a)
        \/ FwReconcile
        \/ UnitNext \/ Fail \/ AutoRestart
        \/ SetPort \/ Import \/ Stop \/ OpNext
        \/ UniFiEdits

Spec == Init /\ [][Next]_vars

\* The timer fires every 30 s; commands and hooks end; an operation goes on.
Fairness == /\ WF_vars(FwReconcile)
            /\ \A a \in Actors : WF_vars(LockStep(a) \/ UnlockStep(a))
            /\ WF_vars(UnitNext)
            /\ WF_vars(OpNext)
FairSpec == Spec /\ Fairness

----------------------------------------------------------------------------
\* Every variable stays in its range.
TypeOK == /\ input \in [Fams -> InputChains]
          /\ chain \in [Fams -> BOOLEAN]
          /\ rules \in [Fams -> SUBSET Ports]
          /\ engine \in Engines
          /\ port \in Ports
          /\ cfgport \in Ports
          /\ unit \in {"off", "pre", "up", "post", "wait"}
          /\ after \in {"off", "pre", "wait"}
          /\ core \in Cores
          /\ pc \in [Actors -> Steps]
          /\ fam \in [Actors -> Fams]
          /\ wgport \in [Actors -> Ports]
          /\ stale \in [Actors -> SUBSET Ports]
          /\ op \in {"idle", "saved", "built", "restarting"}
          /\ restarts \in BOOLEAN
          /\ ops \in 0 .. MaxOps
          /\ edits \in 0 .. MaxEdits
          /\ fails \in 0 .. MaxFails

\* As long as UniFi left INPUT alone, a core that binds all interfaces never
\* listens without the guard, in either family, whatever iptables commands fail:
\* ExecStartPre=+ _fw-lock, and fw_lock's fail-closed checks.
GuardedWhileListening == edits = 0 => ~Exposed

\* No command of the project's own takes the guard from a listening core, UniFi's
\* changes or not: a repair adds before it removes.
NeverLapses == [][Listening /\ Listening' /\ Exposed' => Exposed \/ edits' # edits]_vars

\* No command removes a rule of UniFi's: a jump moved to the front leaves its old
\* copy in place rather than delete it by a position that may be another rule's.
ForeignRules(f) == SelectSeq(input[f], LAMBDA r : r = "foreign")
ForeignRulesKept == [][edits' = edits => \A f \in Fams : ForeignRules(f)' = ForeignRules(f)]_vars

\* INPUT does not fill up with those copies: "a correct guard is left untouched",
\* so a jump is added only after a change of UniFi's, a failed command, or when
\* the hook and the timer repair at the same time.
Jumps(f) == Len(SelectSeq(input[f], LAMBDA r : r = "jump"))
JumpsBounded == \A f \in Fams : Jumps(f) <= 2 + edits + fails

\* Both together: INPUT stays UniFi's chain.
InputIsShared == []JumpsBounded /\ ForeignRulesKept

\* Whatever UniFi does to INPUT and however the tick meets a restart, a listening
\* core has its guard again, or stops.
ExposureEnds == Exposed ~> ~Exposed

\* The guard of a core that is stopped or replaced by xray is removed in the end:
\* fw_unlock of the hooks, and fw_reconcile for what they leave.
Leftover == /\ unit \in {"off", "wait"} \/ (unit = "up" /\ core.engine = "xray")
            /\ \E f \in Fams : chain[f]
LeftoversGo == Leftover ~> ~Leftover

\* What a race, a failed command or a power cut leaves in the firewall is put right,
\* whether it is a guard too few or one too many.
GuardSettles == ExposureEnds /\ LeftoversGo
----------------------------------------------------------------------------
\* The inductive invariant behind the two safety properties, given QuietTick and
\* QuietOp

\* The steps of fw_lock after which the rule of the port is in the chain, and
\* those after which the jump comes first.
RuleThere == {"list", "prune", "first", "insert", "verify_first", "verify_rule"}
FirstThere == {"verify_first", "verify_rule"}

\* What an operation has changed when the unit may start, and when it may be up.
OpInv == /\ op # "idle" => Free("tick")
         /\ op # "saved" => cfgport = port
         /\ unit = "pre" => op \in {"idle", "restarting"}
         /\ unit = "post" /\ after = "pre" => op = "restarting"
         /\ op \in {"saved", "built"} /\ ~restarts => unit \in {"off", "wait", "post"}
         /\ unit = "up" /\ op \in {"idle", "restarting"}
               => core = [engine |-> engine, port |-> port]

\* Which program each actor runs, and for which port.
ActorInv == /\ unit = "pre" => pc["unit"] \in IF engine = "userspace"
                                              THEN LockSteps \cup {"locked", "refused"}
                                              ELSE UnlockSteps \cup {"unlocked"}
            /\ unit = "post" => pc["unit"] \in UnlockSteps \cup {"unlocked"}
            /\ unit \notin {"pre", "post"} => Free("unit")
            /\ unit = "pre" => wgport["unit"] = port
            /\ ~Free("tick") => wgport["tick"] = port
            /\ \A a \in Actors : pc[a] = "prune" => wgport[a] \notin stale[a]
            /\ unit = "pre" \/ Listening => ~CleaningUp

\* How far ExecStartPre=+ _fw-lock is: the families it is done with, and the
\* commands of the current one.
Locked(f) == (edits = 0 => JumpFirst(f)) /\ port \in rules[f]
PreInv == unit = "pre" /\ engine = "userspace" =>
             /\ pc["unit"] \in LockSteps => \A f \in 1 .. fam["unit"] - 1 : Locked(f)
             /\ pc["unit"] = "locked" => \A f \in Fams : Locked(f)
             /\ pc["unit"] \in RuleThere => port \in rules[fam["unit"]]
             /\ pc["unit"] \in FirstThere /\ edits = 0 => JumpFirst(fam["unit"])

ListenInv == Listening => \A f \in Fams : /\ edits = 0 => JumpFirst(f)
                                          /\ core.port \in rules[f]

GuardInv == TypeOK /\ OpInv /\ ActorInv /\ PreInv /\ ListenInv
=============================================================================
