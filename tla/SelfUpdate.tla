----------------------------- MODULE SelfUpdate ------------------------------
(***************************************************************************)
(* update_candidate, self_update and auto_update of src/src/proxy-unifi,   *)
(* over the days: which commit of the branch is offered, while commits are *)
(* made and their tests run, pass, fail and are run again. The branch's    *)
(* own line is a sequence, oldest commit first. What an installation does  *)
(* is Installer's, what an update of the cores does CoreUpdate's: here     *)
(* each works or is undone. The file that records the installed commit is  *)
(* taken to be written.                                                    *)
(***************************************************************************)
EXTENDS Naturals, Sequences

CONSTANTS MaxCommits,  \* commits that come to exist
          MaxHistory,  \* commits of the line among the 100 that are asked for
          MaxLookups,  \* 5: commits whose tests are asked for
          MaxUpdates   \* runs of the daily timer and of the menu

ASSUME UpdateBoundsAssumption ==
    MaxCommits \in Nat /\ MaxUpdates \in Nat /\ {MaxHistory, MaxLookups} \subseteq Nat \ {0}

VARIABLES line,     \* the commits: [made, tests]
          have,     \* the installed commit, 0 if it is not on the line
          step, mode, \* of the run: its step, and whether the timer or the menu began it
          at, looked, offer,
          cores,    \* "old" or "new": is there a newer core than the installed one
          record,   \* AU_LAST
          updates

updateVars == <<line, have, step, mode, at, looked, offer, cores, record, updates>>

\* "passed" less than a day ago; "none": no test was begun.
Tests == {"none", "running", "failed", "passed", "passed long ago"}
Days == {"today", "earlier"}  \* made less than a day ago or before that
Commits == [made : Days, tests : Tests]
Modes == {"daily", "menu"}   \* who began the run: the timer or the menu

UpdateInit ==
    /\ line = <<[made |-> "earlier", tests |-> "passed long ago"]>> /\ have \in {0, 1}
    /\ step = "idle" /\ mode = "daily" /\ at = 0 /\ looked = 0 /\ offer = 0
    /\ cores = "old" /\ record = "none" /\ updates = 0

\* Between two runs.
NewCommit ==
    /\ step = "idle" /\ Len(line) < MaxCommits
    /\ line' = Append(line, [made |-> "today", tests |-> "none"])
    /\ UNCHANGED <<have, step, mode, at, looked, offer, cores, record, updates>>

TestsGoOn ==
    /\ step = "idle"
    /\ \E c \in DOMAIN line, result \in {"running", "failed", "passed"} :
           /\ <<line[c].tests, result>> \in {<<"none", "running">>, <<"running", "failed">>,
                                            <<"running", "passed">>, <<"failed", "running">>}
           /\ line' = [line EXCEPT ![c] = [made |-> @.made, tests |-> result]]
    /\ UNCHANGED <<have, step, mode, at, looked, offer, cores, record, updates>>

DayPasses ==
    /\ step = "idle"
    /\ line' = [c \in DOMAIN line |->
                   [made |-> "earlier", tests |-> IF line[c].tests = "passed" THEN "passed long ago"
                                            ELSE line[c].tests]]
    /\ UNCHANGED <<have, step, mode, at, looked, offer, cores, record, updates>>

\* auto_update, or self_update 0 from the menu.
RunBegins ==
    /\ step = "idle" /\ updates < MaxUpdates /\ updates' = updates + 1
    /\ mode' \in Modes
    /\ step' = "walk" /\ at' = Len(line) /\ looked' = 0 /\ offer' = 0
    /\ UNCHANGED <<line, have, cores, record>>

\* lock_busy
RunSkipped ==
    /\ step = "idle" /\ updates < MaxUpdates /\ updates' = updates + 1
    /\ mode' = "daily" /\ record' = "skipped"
    /\ UNCHANGED <<line, have, step, at, looked, offer, cores>>

\* A slip of Walked: it walks on over the installed commit.
WalkedOver == at = 0 \/ Len(line) - at >= MaxHistory \/ looked >= MaxLookups

Walked == at \in {0, have} \/ Len(line) - at >= MaxHistory \/ looked >= MaxLookups

\* A slip of Qualifies: a test that still runs is not looked at.
QualifiesRunning(commit) ==
    commit.tests \in {"passed long ago", "running"} \cup (IF mode = "daily" THEN {} ELSE {"passed"})

Qualifies(commit) ==
    commit.tests \in {"passed long ago"} \cup (IF mode = "daily" THEN {} ELSE {"passed"})

\* A commit that is too young needs no lookup.
Young(commit) == mode = "daily" /\ commit.made = "today"

TooYoung ==
    /\ step = "walk" /\ ~Walked
    /\ Young(line[at])
    /\ at' = at - 1
    /\ UNCHANGED <<line, have, step, mode, looked, offer, cores, record, updates>>

LookUp ==
    /\ step = "walk" /\ ~Walked
    /\ ~Young(line[at])
    /\ looked' = looked + 1
    /\ IF Qualifies(line[at]) THEN offer' = at /\ step' = "install" /\ UNCHANGED at
       ELSE at' = at - 1 /\ UNCHANGED <<offer, step>>
    /\ UNCHANGED <<line, have, mode, cores, record, updates>>

AfterSelf == step' = IF mode = "daily" THEN "cores" ELSE "idle"
Records(what) == record' = IF mode = "daily" THEN what ELSE record

UpToDate ==
    /\ step = "walk" /\ Walked
    /\ AfterSelf
    /\ UNCHANGED <<line, have, mode, at, looked, offer, cores, record, updates>>

Installs ==
    /\ step = "install"
    /\ have' = offer
    /\ AfterSelf
    /\ UNCHANGED <<line, mode, at, looked, offer, cores, record, updates>>

\* GitHub does not answer, a download or the installer fails.
SelfUpdateFails ==
    /\ step \in {"walk", "install"} /\ step' = "idle"
    /\ Records("failed")
    /\ UNCHANGED <<line, have, mode, at, looked, offer, cores, updates>>

\* A slip of CoresFail: its exit status is not looked at.
CoresFailSilently ==
    /\ step = "cores" /\ step' = "idle"
    /\ Records("ok")
    /\ UNCHANGED <<line, have, mode, at, looked, offer, cores, updates>>

\* The child takes the lock itself: whoever has it by now makes it fail.
CoresFail ==
    /\ step = "cores" /\ step' = "idle"
    /\ Records("failed")
    /\ UNCHANGED <<line, have, mode, at, looked, offer, cores, updates>>

CoresUpdated ==
    /\ step = "cores" /\ step' = "idle"
    /\ cores' = "new"
    /\ Records("ok")
    /\ UNCHANGED <<line, have, mode, at, looked, offer, updates>>

CoreReleased ==
    /\ step = "idle" /\ cores = "new" /\ cores' = "old"
    /\ UNCHANGED <<line, have, step, mode, at, looked, offer, record, updates>>

UpdateNext ==
    \/ NewCommit \/ TestsGoOn \/ DayPasses \/ RunBegins \/ RunSkipped \/ TooYoung \/ LookUp
    \/ UpToDate \/ Installs \/ SelfUpdateFails \/ CoresFail \/ CoresUpdated \/ CoreReleased

-----------------------------------------------------------------------------
(* Properties *)

\* An update never goes back to an older commit of the line, although the timer asks
\* for more than the menu, which may have installed a commit of today.
NeverGoesBack == [][have' >= have]_updateVars

\* Commits that are out of the walk's reach.
OutOfReach(c) == Len(line) - c >= MaxHistory \/ looked >= MaxLookups
Passed(commit) == commit.tests \in {"passed", "passed long ago"}
NothingNewer == \A c \in have + 1 .. Len(line) : Qualifies(line[c]) => OutOfReach(c)

\* Self-update misses nothing and takes nothing that failed: no commit that is newer
\* than the one it offers, or else than the one it leaves, has passed its tests, although
\* it does not look at the tests of young commits; and what it offers has.
\* (proxy-unifi:2017-2021.)
NewestTested ==
    /\ step = "install" => /\ Len(line) - offer < MaxHistory
                           /\ Passed(line[offer])
                           /\ \A c \in offer + 1 .. Len(line) : ~Qualifies(line[c])
    /\ step = "cores" => NothingNewer

\* What "Check status" says of the last run is true: after an ok the cores are the
\* newest, and so is proxy-unifi, of what has passed its tests for a day; whoever took
\* the lock between lock_busy and the child, and whatever failed in between.
RecordIsTrue ==
    [][step = "cores" /\ record' = "ok" => cores' = "new" /\ NothingNewer]_updateVars

\* Updates find the newest tested commit, never go back, and are recorded as they went.
UpdatesAreRight == []NewestTested /\ NeverGoesBack /\ RecordIsTrue
=============================================================================
