------------------------------- MODULE Helpers -------------------------------
(***************************************************************************)
(* What a command of the CLI relies on: the lock that it takes first       *)
(* (CliLock), the runner that confines a validator (SafeExec) and the      *)
(* worker that fetches a subscription (Fetch). They share no state with    *)
(* one another: a behaviour is of one of them, and the others have ended.  *)
(***************************************************************************)
EXTENDS CliLock, SafeExec, Fetch

VARIABLE helping        \* the one that this behaviour is of
helpersVars == <<helping, vars, execVars, fetchVars>>

LockRests == /\ dir = NoDir /\ pc = [p \in Procs |-> "done"]
             /\ ret = [p \in Procs |-> "mkdir"] /\ seen = [p \in Procs |-> NoPid]
             /\ empties = [p \in Procs |-> 0] /\ tries = [p \in Procs |-> 0]
             /\ behind = {} /\ raced = FALSE
ExecRests == /\ stage = "killed" /\ request \in {CHOOSE r \in Requests : TRUE}
             /\ started = FALSE /\ pending = <<>> /\ heard = <<>> /\ left = 0
             /\ reason = "none" /\ result = Running
             /\ group = [p \in Family |-> "none"] /\ deaf = [p \in Family |-> {}]
             /\ doomed = {} /\ rss = [p \in Family |-> 0] /\ code = Running
FetchRests == /\ at = "failed" /\ asked \in {CHOOSE u \in Urls : TRUE} /\ url = asked
              /\ gets = 0 /\ addrs = <<>> /\ peer = Nobody /\ told = {} /\ resp = NoAnswer
              /\ got = 0 /\ clock = 0 /\ budget = Timeout /\ armed = 0

HelpersInit ==
    \/ helping = "lock" /\ Init /\ ExecRests /\ FetchRests
    \/ helping = "runner" /\ LockRests /\ ExecInit /\ FetchRests
    \/ helping = "fetch" /\ LockRests /\ ExecRests /\ FetchInit

LockTurn == /\ helping = "lock" /\ Next
            /\ UNCHANGED <<helping, execVars, fetchVars>>
ExecTurn == /\ helping = "runner" /\ ExecNext
            /\ UNCHANGED <<helping, vars, fetchVars>>
FetchTurn == /\ helping = "fetch" /\ FetchNext
             /\ UNCHANGED <<helping, vars, execVars>>

HelpersSpec == HelpersInit /\ [][LockTurn \/ ExecTurn \/ FetchTurn]_helpersVars

\* The fairness of each: what has ended takes no step.
HelpersFairSpec ==
    /\ HelpersSpec
    /\ \A p \in Procs : WF_vars(Acquire(p))
    /\ WF_execVars(Helper) /\ WF_execVars(Tick)
    /\ WF_fetchVars(GoesOn)
=============================================================================
