------------------------------ MODULE SafeExec ------------------------------
(***************************************************************************)
(* The confined runner of src/src/safeexec.py: it starts a validator or a  *)
(* test core as the service account in a session of its own, and watches   *)
(* it. The CLI waits for the helper; the helper waits for the leader of    *)
(* that session and answers for the whole process group. Members may fork, *)
(* ignore signals, grow or end at any moment, and signals may reach the    *)
(* helper between any two of its steps.                                    *)
(*                                                                         *)
(* A step of the helper is what lies between two calls at which a signal   *)
(* handler can run or another process can matter.                          *)
(***************************************************************************)
EXTENDS Naturals, Sequences, Functions

CONSTANTS Family,     \* the processes the group may ever have
          Leader,     \* the one that Popen starts, whose pid is the group's
          Requests,   \* arguments: [ok, timeout, memory]
          Ignored,    \* the sets of signals that a member may ignore
          Codes,      \* the ways the leader may end by itself
          Signalled,  \* the return code of a leader that a signal ended
          Running,    \* the return code of a leader that has not ended
          Grace,      \* the time proc.wait gives after TERM
          MaxSignals, \* signals that the environment sends to the helper
          MaxRss      \* how far one member grows

Signals == {"TERM", "INT", "HUP"}
\* The helper's own verdicts; its fail() is 2, but so may the leader's code be.
Refused == 2
TimedOut == 124
TooLarge == 125

ASSUME GroupAssumption == Leader \in Family
ASSUME RequestsAssumption == Requests \subseteq [ok: BOOLEAN, timeout: Nat, memory: Nat]
ASSUME SignalsAssumption == Ignored \subseteq SUBSET Signals
ASSUME CodesAssumption == /\ {Running, Signalled} \cap Codes = {}
                          /\ Running # Signalled
                          /\ Running \notin {Refused, TimedOut, TooLarge}
ASSUME GraceAssumption == {Grace, MaxSignals, MaxRss} \subseteq Nat

VARIABLES stage,    \* the step of the helper
          request,  \* its arguments
          started,  \* the list started is not empty
          pending,  \* signals that came before
          heard,    \* every signal that came, as it is passed on (history)
          left,     \* time to the deadline, later to the end of the grace
          reason,   \* why the group is stopped
          result,   \* what the helper exits with
          group,    \* each member: "none", "live" or "dead"
          deaf,     \* what each member ignores
          doomed,   \* members that a signal they do not ignore has reached
          rss,      \* resident memory of each member
          code      \* the leader's return code

helper == <<stage, request, started, pending, heard, reason, result>>
members == <<group, deaf, doomed, rss, code>>
execVars == <<helper, left, members>>

Starting == {"check", "handlers", "popen", "started", "deliver", "arm"}
Watching == {"poll", "deadline", "memory"}
Stopping == {"term", "wait", "kill", "reap"}
Exited == {"done", "killed"}

Live == {p \in Family : group[p] = "live"}
Resident == SumFunctionOnSet(rss, Live)

ExecInit == /\ request \in Requests
            /\ deaf \in [Family -> Ignored]
            /\ stage = "check"
            /\ started = FALSE
            /\ pending = <<>>
            /\ heard = <<>>
            /\ left = 0
            /\ reason = "none"
            /\ result = Running
            /\ group = [p \in Family |-> "none"]
            /\ doomed = {}
            /\ rss = [p \in Family |-> 0]
            /\ code = Running
-----------------------------------------------------------------------------
(* Signals and the group *)

\* os.killpg(pgid, SIGKILL): no member survives it, one that is forking included.
Slay == /\ group' = [p \in Family |-> IF p \in Live THEN "dead" ELSE group[p]]
        /\ code' = IF group[Leader] = "live" THEN Signalled ELSE code
        /\ UNCHANGED <<deaf, doomed, rss>>

\* os.killpg(pgid, s) for another signal: who does not ignore it will end.
Tell(s) == /\ doomed' = doomed \cup {p \in Live : s \notin deaf[p]}
           /\ UNCHANGED <<group, deaf, rss, code>>

\* A slip of PassedOn: a hang-up is passed on as it came.
PassedOnAsIs(s) == s

\* A hang-up of the CLI's terminal is passed on as TERM.
PassedOn(s) == IF s = "HUP" THEN "TERM" ELSE s

\* The handler forward: to the group, or kept until there is one.
Forward(s) ==
    /\ Len(heard) < MaxSignals
    /\ heard' = Append(heard, PassedOn(s))
    /\ \/ /\ stage \in {"check", "handlers"}      \* no handler yet, nor a child
          /\ stage' = "killed"
          /\ UNCHANGED <<pending, members>>
       \/ /\ stage \notin {"check", "handlers"} \cup Exited
          /\ IF started
             THEN Tell(PassedOn(s)) /\ UNCHANGED pending
             ELSE pending' = Append(pending, PassedOn(s)) /\ UNCHANGED members
          /\ UNCHANGED stage
    /\ UNCHANGED <<request, started, left, reason, result>>
-----------------------------------------------------------------------------
(* The helper *)

Proceed(step) == stage' = step /\ UNCHANGED <<request, heard>>
Exit(status) == result' = status /\ Proceed("done")

CheckArguments ==
    /\ stage = "check"
    /\ IF request.ok THEN Proceed("handlers") /\ UNCHANGED result ELSE Exit(Refused)
    /\ UNCHANGED <<started, pending, left, reason, members>>

InstallHandlers ==
    /\ stage = "handlers"
    /\ Proceed("popen")
    /\ UNCHANGED <<started, pending, left, reason, result, members>>

\* Popen returns when prepare() has run in the child and exec has succeeded.
StartChild ==
    /\ stage = "popen"
    /\ group' = [group EXCEPT ![Leader] = "live"]
    /\ Proceed("started")
    /\ UNCHANGED <<started, pending, left, reason, result, deaf, doomed, rss, code>>

StartFails ==
    /\ stage = "popen"
    /\ Exit(Refused)
    /\ UNCHANGED <<started, pending, left, reason, members>>

\* A slip of RecordStart: the signals kept so far are looked at before the
\* handler can see the child, and not again.
RecordStartLate ==
    /\ stage = "started"
    /\ started' = TRUE
    /\ Proceed("arm")
    /\ UNCHANGED <<pending, left, reason, result, members>>

RecordStart ==
    /\ stage = "started"
    /\ started' = TRUE
    /\ Proceed("deliver")
    /\ UNCHANGED <<pending, left, reason, result, members>>

DeliverPending ==
    /\ stage = "deliver"
    /\ IF pending # <<>> THEN Tell(Head(pending)) ELSE UNCHANGED members
    /\ Proceed("arm")
    /\ UNCHANGED <<started, pending, left, reason, result>>

ArmDeadline ==
    /\ stage = "arm"
    /\ left' = request.timeout
    /\ Proceed("poll")
    /\ UNCHANGED <<started, pending, reason, result, members>>

Poll ==
    /\ stage = "poll"
    /\ Proceed(IF group[Leader] = "live" THEN "deadline" ELSE "finish")
    /\ UNCHANGED <<started, pending, left, reason, result, members>>

CheckDeadline ==
    /\ stage = "deadline"
    /\ IF left = 0
       THEN reason' = "timeout" /\ Proceed("term")
       ELSE UNCHANGED reason /\ Proceed("memory")
    /\ UNCHANGED <<started, pending, left, result, members>>

CheckMemory ==
    /\ stage = "memory"
    /\ IF Resident > request.memory
       THEN reason' = "memory" /\ Proceed("term")
       ELSE UNCHANGED reason /\ Proceed("poll")
    /\ UNCHANGED <<started, pending, left, result, members>>

\* A slip of Finish: what the leader left behind gets the chance to clean up.
FinishGently ==
    /\ stage = "finish"
    /\ Tell("TERM")
    /\ Exit(code)
    /\ UNCHANGED <<started, pending, left, reason>>

\* The leader has ended: what it left in its group goes too.
Finish ==
    /\ stage = "finish"
    /\ Slay
    /\ Exit(code)
    /\ UNCHANGED <<started, pending, left, reason>>

Terminate ==
    /\ stage = "term"
    /\ Tell("TERM")
    /\ left' = Grace
    /\ Proceed("wait")
    /\ UNCHANGED <<started, pending, reason, result>>

\* A slip of WaitGrace: proc.wait() without a timeout.
WaitForLeader ==
    /\ stage = "wait"
    /\ group[Leader] = "dead"
    /\ Proceed("kill")
    /\ UNCHANGED <<started, pending, left, reason, result, members>>

WaitGrace ==
    /\ stage = "wait"
    /\ group[Leader] = "dead" \/ left = 0
    /\ Proceed("kill")
    /\ UNCHANGED <<started, pending, left, reason, result, members>>

KillGroup ==
    /\ stage = "kill"
    /\ Slay
    /\ Proceed("reap")
    /\ UNCHANGED <<started, pending, left, reason, result>>

Verdict == IF reason = "timeout" THEN TimedOut ELSE TooLarge

\* A slip of Reap: it passes the leader's own code on, as Finish does.
ReapCode ==
    /\ stage = "reap"
    /\ group[Leader] = "dead"
    /\ Exit(code)
    /\ UNCHANGED <<started, pending, left, reason, members>>

Reap ==
    /\ stage = "reap"
    /\ group[Leader] = "dead"
    /\ Exit(Verdict)
    /\ UNCHANGED <<started, pending, left, reason, members>>

-----------------------------------------------------------------------------
(* The members, and time *)

MemberForks ==
    /\ Live # {}
    /\ \E p \in Family \ {Leader} :
          /\ group[p] = "none"
          /\ group' = [group EXCEPT ![p] = "live"]
    /\ UNCHANGED <<helper, left, deaf, doomed, rss, code>>

MemberEnds ==
    /\ \E p \in Live :
          /\ group' = [group EXCEPT ![p] = "dead"]
          /\ IF p = Leader THEN code' \in Codes \cup (IF p \in doomed THEN {Signalled} ELSE {})
                           ELSE UNCHANGED code
    /\ UNCHANGED <<helper, left, deaf, doomed, rss>>

MemberGrows ==
    /\ \E p \in Live : rss[p] < MaxRss /\ rss' = [rss EXCEPT ![p] = @ + 1]
    /\ UNCHANGED <<helper, left, group, deaf, doomed, code>>

Tick == /\ left > 0
        /\ left' = left - 1
        /\ UNCHANGED <<helper, members>>

Helper == \/ CheckArguments \/ InstallHandlers \/ StartChild \/ StartFails
          \/ RecordStart \/ DeliverPending \/ ArmDeadline
          \/ Poll \/ CheckDeadline \/ CheckMemory \/ Finish
          \/ Terminate \/ WaitGrace \/ KillGroup \/ Reap

ExecNext == \/ Helper
            \/ \E s \in Signals : Forward(s)
            \/ MemberForks \/ MemberEnds \/ MemberGrows
            \/ Tick

ExecSpec == ExecInit /\ [][ExecNext]_execVars

\* The kernel runs the helper and the clock goes on. Nothing is asked of the
\* members: they may ignore every signal and never end.
ExecFairSpec == ExecSpec /\ WF_execVars(Helper) /\ WF_execVars(Tick)
-----------------------------------------------------------------------------
(* Properties *)

ExecTypeOK ==
    /\ stage \in Starting \cup Watching \cup {"finish"} \cup Stopping \cup Exited
    /\ request \in Requests
    /\ started \in BOOLEAN
    /\ {pending, heard} \subseteq Seq({"TERM", "INT"})
    /\ left \in Nat
    /\ reason \in {"none", "timeout", "memory"}
    /\ result \in Codes \cup {Running, Signalled, Refused, TimedOut, TooLarge}
    /\ group \in [Family -> {"none", "live", "dead"}]
    /\ deaf \in [Family -> SUBSET Signals]
    /\ doomed \subseteq Family
    /\ rss \in [Family -> Nat]
    /\ code \in Codes \cup {Running, Signalled}

\* When the helper has ended, whatever its verdict and whichever signal came
\* when, no process of the validator's group is left: the CLI goes on with the
\* files and the port the group used. (safeexec.py 138-141, 142-150.)
NothingLeft == stage \in Exited => Live = {}

\* A cancellation is never lost: from the moment the helper watches the group,
\* a signal that reached it at any time, before the child was there included,
\* has reached the leader, unless the leader ignores that very signal.
\* (safeexec.py 110-119, 124-126.)
CancelArrives ==
    stage \in Watching /\ heard # <<>>
       => \/ group[Leader] = "dead"
          \/ Leader \in doomed
          \/ Head(heard) \in deaf[Leader]

\* What the CLI reads as the validator's verdict is one: a group that was
\* stopped for its time or memory never passes for a leader that ended by
\* itself, not even when the leader answers TERM with a clean exit.
VerdictIsTrue ==
    stage = "done" => /\ reason # "none" => result = Verdict
                      /\ reason = "none" /\ started => result = code /\ code # Running

\* What the CLI finds when the helper has ended: a true verdict and nobody left,
\* nor a state that the helper should not be in.
EndsHonestly == ExecTypeOK /\ NothingLeft /\ VerdictIsTrue

\* The helper ends, against members that ignore everything: the CLI that
\* waits for it (cmd_ping, validate_as_service) is never stuck.
AlwaysReturns == <>(stage \in Exited)
=============================================================================
