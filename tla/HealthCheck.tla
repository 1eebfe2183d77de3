----------------------------- MODULE HealthCheck -----------------------------
(***************************************************************************)
(* restart_service and service_healthy of src/src/proxy-unifi, next to a   *)
(* core that listens some time after its start, may end after some more,   *)
(* and is started again by systemd. Time is counted in polls.              *)
(***************************************************************************)
EXTENDS Naturals

CONSTANTS MaxPolls,    \* 40
          Stable,      \* 8: polls in a row that a core must pass
          RestartPolls, \* RestartSec=5 is 20 polls
          Boots,       \* after how many polls the core may listen
          Lives,       \* for how many polls it may then listen
          Forever      \* a life without an end, not a number

ASSUME PollsAssumption == {MaxPolls, Stable, RestartPolls} \subseteq Nat \ {0}
ASSUME CoresAssumption == Boots \subseteq Nat /\ Lives \subseteq Nat \cup {Forever}
                          /\ Forever \notin Nat

VARIABLES boot, life, \* the core, the same at each start
          age,        \* polls since its last start
          polls,      \* _i
          stable,     \* _stable
          verdict

healthVars == <<boot, life, age, polls, stable, verdict>>

HealthInit ==
    /\ boot \in Boots /\ life \in Lives
    /\ age = 0 /\ polls = 0 /\ stable = 0 /\ verdict = "none"

Healthy == boot <= age /\ (life # Forever => age < boot + life)

\* Restart=on-failure
CoreAges ==
    age' = IF life # Forever /\ age + 1 = boot + life + RestartPolls THEN 0 ELSE age + 1

\* A slip of Counted: a poll that fails does not start the count again.
CountedInAll == IF Healthy THEN stable + 1 ELSE stable

Counted == IF Healthy THEN stable + 1 ELSE 0

Poll ==
    /\ verdict = "none" /\ polls < MaxPolls
    /\ stable' = Counted
    /\ \/ stable' >= Stable /\ verdict' = "healthy" /\ UNCHANGED <<polls, age>>
       \/ stable' < Stable /\ polls' = polls + 1 /\ CoreAges /\ UNCHANGED verdict
    /\ UNCHANGED <<boot, life>>

\* A slip of RunsOut: one poll too early.
RunsOutEarly == polls + 1 >= MaxPolls

RunsOut == polls >= MaxPolls

GiveUp ==
    /\ verdict = "none" /\ RunsOut
    /\ verdict' = "sick"
    /\ UNCHANGED <<boot, life, age, polls, stable>>

HealthNext == Poll \/ GiveUp

-----------------------------------------------------------------------------
(* Properties *)

\* A core that ends within two seconds of listening is not called healthy, however
\* often systemd starts it again during the check.
CrashLoopIsSeen == verdict = "healthy" => life = Forever \/ life >= Stable

\* One that comes to listen in time and stays is: an update of a gateway with a slow
\* core is not rolled back.
SlowStartIsFine == verdict = "sick" => life # Forever \/ boot + Stable > MaxPolls

\* Both verdicts are true.
HealthIsTrue == CrashLoopIsSeen /\ SlowStartIsFine
=============================================================================
