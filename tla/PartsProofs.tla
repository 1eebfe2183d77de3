----------------------------- MODULE PartsProofs -----------------------------
(***************************************************************************)
(* Proofs about the parts, each for all values of its constants. An        *)
(* invariant of a part that nothing happens to is what it rests at.        *)
(***************************************************************************)
EXTENDS Parts, FiniteSetTheorems, SequenceTheorems, WellFoundedInduction, TLAPS

\* A step is of one part, and leaves the others alone.
LEMMA OneMoves ==
  ASSUME [Next]_vars
  PROVE  /\ part' = part
         /\ IF part = "subscription" THEN [SubNext]_subVars ELSE UNCHANGED subVars
         /\ IF part = "awg" THEN [AwgNext]_awgVars ELSE UNCHANGED awgVars
         /\ IF part = "keys" THEN [KeyNext]_keyVars ELSE UNCHANGED keyVars
         /\ IF part = "health" THEN [HealthNext]_healthVars ELSE UNCHANGED healthVars
         /\ IF part = "update" THEN [UpdateNext]_updateVars ELSE UNCHANGED updateVars
BY DEF Next, SubStep, AwgStep, KeyStep, HealthStep, UpdateStep, vars

(***************************************************************************)
(* Lists                                                                   *)
(***************************************************************************)
\* A strict total order.
Orders(R, S) ==
    /\ \A x \in S : <<x, x>> \notin R
    /\ \A x, y, z \in S : <<x, y>> \in R /\ <<y, z>> \in R => <<x, z>> \in R
    /\ \A x, y \in S : x = y \/ <<x, y>> \in R \/ <<y, x>> \in R

\* Who comes later has the higher rank.
LEMMA RanksRise ==
  ASSUME NEW S, IsFiniteSet(S), NEW R, Orders(R, S), NEW x \in S, NEW y \in S, <<x, y>> \in R
  PROVE  Rank(S, R, x) < Rank(S, R, y)
<1> DEFINE Up(z) == {w \in S : w = z \/ <<w, z>> \in R}
<1>1. Up(x) \subseteq Up(y) /\ y \in Up(y) /\ y \notin Up(x)
  BY DEF Orders
<1>2. IsFiniteSet(Up(y)) /\ Up(x) \in SUBSET Up(y)
  BY <1>1, FS_Subset
<1> HIDE DEF Up
<1>3. Cardinality(Up(x)) <= Cardinality(Up(y)) /\ Cardinality(Up(x)) # Cardinality(Up(y))
  BY <1>1, <1>2, FS_Subset
<1>4. Cardinality(Up(x)) \in Nat /\ Cardinality(Up(y)) \in Nat
  BY <1>2, FS_Subset, FS_CardinalityType
<1>5. Cardinality(Up(x)) < Cardinality(Up(y))
  BY <1>3, <1>4
<1> QED
  BY <1>5 DEF Rank, Up

\* Ranked lists each member of a finite set once, each at its rank.
LEMMA RankedListsAll ==
  ASSUME NEW S, IsFiniteSet(S), NEW R, Orders(R, S)
  PROVE  /\ Cardinality(S) \in Nat
         /\ Ranked(S, R) \in [1..Cardinality(S) -> S]
         /\ \A x \in S : /\ Rank(S, R, x) \in 1..Cardinality(S)
                         /\ Ranked(S, R)[Rank(S, R, x)] = x
         /\ \A n \in 1..Cardinality(S) : Rank(S, R, Ranked(S, R)[n]) = n
<1> DEFINE c == Cardinality(S)
           f == [x \in S |-> Rank(S, R, x)]
<1>1. c \in Nat
  BY FS_CardinalityType
<1>2. ASSUME NEW x \in S PROVE Rank(S, R, x) \in 1..c
  <2> DEFINE Up == {w \in S : w = x \/ <<w, x>> \in R}
  <2>1. Up \in SUBSET S /\ x \in Up
    OBVIOUS
  <2> HIDE DEF Up
  <2>2. IsFiniteSet(Up) /\ Cardinality(Up) <= c
    BY <2>1, FS_Subset
  <2>3. Cardinality(Up) \in Nat /\ Cardinality(Up) # 0
    BY <2>1, <2>2, FS_CardinalityType, FS_EmptySet
  <2>4. Cardinality(Up) \in 1..c
    BY <1>1, <2>2, <2>3
  <2> QED
    BY <2>4 DEF Rank, Up
<1>3. ASSUME NEW x \in S, NEW y \in S, Rank(S, R, x) = Rank(S, R, y) PROVE x = y
  <2>1. Rank(S, R, x) \in 1..c
    BY <1>2
  <2>2. ~(<<x, y>> \in R) /\ ~(<<y, x>> \in R)
    BY <1>1, <1>3, <2>1, RanksRise
  <2> QED
    BY <2>2 DEF Orders
<1>4. f \in Injection(S, 1..c)
  BY <1>2, <1>3 DEF Injection, IsInjective
<1>5. IsFiniteSet(1..c) /\ Cardinality(1..c) = c
  BY <1>1, FS_Interval
<1>6. f \in Surjection(S, 1..c)
  BY <1>4, <1>5, FS_Injection
<1>7. ASSUME NEW n \in 1..c PROVE \E x \in S : Rank(S, R, x) = n
  BY <1>6 DEF Surjection
<1>8. ASSUME NEW n \in 1..c
      PROVE  Ranked(S, R)[n] \in S /\ Rank(S, R, Ranked(S, R)[n]) = n
  BY <1>7 DEF Ranked
<1>9. ASSUME NEW x \in S PROVE Ranked(S, R)[Rank(S, R, x)] = x
  <2>1. Rank(S, R, x) \in 1..c
    BY <1>2
  <2> QED
    BY <2>1, <1>3, <1>8
<1>10. Ranked(S, R) \in [1..c -> S]
  BY <1>8 DEF Ranked
<1> QED
  BY <1>1, <1>2, <1>8, <1>9, <1>10

\* Numbers are ordered.
LEMMA LessOrders == ASSUME NEW S \in SUBSET Nat PROVE Orders(Less(S), S)
BY DEF Orders, Less

\* A set of numbers that has a member has a least one.
LEMMA LeastExists ==
  ASSUME NEW S \in SUBSET Nat, S # {}
  PROVE  \E i \in S : \A j \in S : i <= j
<1> DEFINE T == {0..i : i \in S}
<1>1. T \subseteq FiniteSubsetsOf(Nat)
  <2> SUFFICES ASSUME NEW i \in S PROVE 0..i \in FiniteSubsetsOf(Nat)
    OBVIOUS
  <2>1. IsFiniteSet(0..i)
    BY FS_Interval
  <2> QED
    BY <2>1 DEF FiniteSubsetsOf
<1>2. T # {}
  OBVIOUS
<1>3. \E x \in T : \A y \in T : ~(<<y, x>> \in StrictSubsetOrdering(Nat))
  <2> HIDE DEF T
  <2> QED
    BY <1>1, <1>2, FS_StrictSubsetOrderingWellFounded, WFMin
<1>4. PICK i \in S : \A j \in S : ~(<<0..j, 0..i>> \in StrictSubsetOrdering(Nat))
  BY <1>3
<1>5. ASSUME NEW j \in S, j < i PROVE FALSE
  <2>1. 0..j \in SUBSET Nat /\ 0..i \in SUBSET Nat
    OBVIOUS
  <2>2. 0..j \subseteq 0..i /\ i \in 0..i /\ i \notin 0..j
    BY <1>5
  <2>3. <<0..j, 0..i>> \in StrictSubsetOrdering(Nat)
    BY <2>1, <2>2, Zenon DEF StrictSubsetOrdering
  <2> QED
    BY <1>4, <2>3
<1> QED
  BY <1>5

\* A bounded set of numbers that has a member has a greatest one.
LEMMA GreatestExists ==
  ASSUME NEW n \in Nat, NEW S \in SUBSET (0..n), S # {}
  PROVE  \E i \in S : \A j \in S : j <= i
<1> DEFINE T == {n - i : i \in S}
<1>1. T \in SUBSET Nat /\ T # {}
  <2>1. \A i \in S : n - i \in Nat
    OBVIOUS
  <2> QED
    BY <2>1
<1>2. PICK t \in T : \A u \in T : t <= u
  <2> HIDE DEF T
  <2> QED
    BY <1>1, LeastExists
<1>3. PICK i \in S : t = n - i
  BY <1>2
<1>4. ASSUME NEW j \in S PROVE j <= i
  <2>1. n - j \in T
    OBVIOUS
  <2>2. n - i <= n - j
    BY <1>2, <1>3, <2>1
  <2> QED
    BY <2>2
<1> QED
  BY <1>4

(***************************************************************************)
(* The health check                                                        *)
(***************************************************************************)
HealthTyped ==
    /\ boot \in Nat /\ life \in Nat \cup {Forever}
    /\ age \in Nat /\ polls \in Nat /\ stable \in Nat
    /\ verdict \in {"none", "healthy", "sick"}

\* The polls that count were one after the other since the core listens, in one life.
RunInv ==
    verdict = "none" /\ stable # 0 =>
        stable + boot <= age /\ (life # Forever => age <= boot + life)

\* Of a core that stays, every poll since it listens counts.
SlowInv ==
    verdict = "none" =>
        /\ stable < Stable
        /\ life = Forever =>
              /\ age = polls
              /\ boot <= polls => stable + boot = polls

HealthInv == HealthTyped /\ RunInv /\ SlowInv /\ HealthIsTrue

LEMMA HealthStarts == HealthInit => HealthInv
BY PollsAssumption, CoresAssumption
DEF HealthInit, HealthInv, HealthTyped, RunInv, SlowInv, HealthIsTrue, CrashLoopIsSeen,
    SlowStartIsFine

LEMMA HealthGoesOn == HealthInv /\ [HealthNext]_healthVars => HealthInv'
<1> SUFFICES ASSUME HealthInv, [HealthNext]_healthVars PROVE HealthInv'
  OBVIOUS
<1> USE PollsAssumption, CoresAssumption
    DEF HealthInv, HealthTyped, RunInv, SlowInv, HealthIsTrue, CrashLoopIsSeen, SlowStartIsFine
<1>1. CASE Poll
  <2>1. CASE Healthy /\ stable + 1 >= Stable
    BY <1>1, <2>1 DEF Poll, Counted, Healthy
  <2>2. CASE Healthy /\ stable + 1 < Stable
    <3>1. life # Forever => age + 1 # boot + life + RestartPolls
      BY <2>2 DEF Healthy
    <3>2. age' = age + 1 /\ polls' = polls + 1 /\ stable' = stable + 1
      BY <1>1, <2>2, <3>1 DEF Poll, Counted, CoreAges
    <3> QED
      BY <1>1, <2>2, <3>2 DEF Poll, Healthy
  <2>3. CASE ~Healthy
    <3>1. stable' = 0 /\ polls' = polls + 1 /\ verdict' = "none"
      BY <1>1, <2>3 DEF Poll, Counted
    <3>2. age' \in Nat /\ (life = Forever => age' = age + 1)
      BY <1>1, <2>3, <3>1 DEF Poll, CoreAges
    <3>3. life = Forever => age < boot
      BY <2>3 DEF Healthy
    <3> QED
      BY <1>1, <3>1, <3>2, <3>3 DEF Poll
  <2> QED
    BY <2>1, <2>2, <2>3
<1>2. CASE GiveUp
  BY <1>2 DEF GiveUp, RunsOut
<1>3. CASE UNCHANGED healthVars
  BY <1>3 DEF healthVars
<1> QED
  BY <1>1, <1>2, <1>3 DEF HealthNext

HealthPart == IF part = "health" THEN HealthInv ELSE HealthRests

LEMMA HealthPartHolds == Spec => []HealthPart
<1>1. Init => HealthPart
  BY HealthStarts DEF Init, HealthPart
<1>2. HealthPart /\ [Next]_vars => HealthPart'
  <2> SUFFICES ASSUME HealthPart, [Next]_vars PROVE HealthPart'
    OBVIOUS
  <2>1. CASE part = "health"
    BY <2>1, OneMoves, HealthGoesOn DEF HealthPart
  <2>2. CASE part # "health"
    BY <2>2, OneMoves DEF HealthPart, HealthRests, healthVars
  <2> QED
    BY <2>1, <2>2
<1> QED
  BY <1>1, <1>2, PTL DEF Spec

\* A core that dies within the time that it has to be stable is never called healthy,
\* and one that comes in time and stays never sick, however long each may take.
THEOREM VerdictsAreTrue == Spec => []HealthIsTrue
<1>1. HealthPart => HealthIsTrue
  BY DEF HealthPart, HealthInv, HealthRests, HealthIsTrue, CrashLoopIsSeen, SlowStartIsFine
<1> QED
  BY HealthPartHolds, <1>1, PTL

(***************************************************************************)
(* The choice of a new version                                             *)
(***************************************************************************)
Aged(commit) == commit.tests = "passed long ago" => commit.made = "earlier"

UpdateTyped ==
    /\ line \in Seq(Commits) /\ Len(line) \in Nat
    /\ step \in {"idle", "walk", "install", "cores"} /\ mode \in Modes
    /\ have \in 0..Len(line) /\ at \in Nat /\ offer \in Nat /\ looked \in Nat
    /\ \A c \in 1..Len(line) : Aged(line[c])

\* What the walk has left behind does not qualify, and it does not pass what is
\* installed.
WalkInv ==
    step = "walk" => /\ at \in have..Len(line)
                     /\ \A c \in at + 1 .. Len(line) : ~Qualifies(line[c])
OfferInv ==
    /\ step = "install" => offer \in have + 1 .. Len(line)
    /\ step = "cores" => mode = "daily"

UpdateInv == UpdateTyped /\ WalkInv /\ OfferInv /\ NewestTested

LEMMA UpdateStarts == UpdateInit => UpdateInv
<1> SUFFICES ASSUME UpdateInit PROVE UpdateInv
  OBVIOUS
<1> DEFINE first == [made |-> "earlier", tests |-> "passed long ago"]
<1>1. line = <<first>>
  BY DEF UpdateInit
<1>2. first \in Commits /\ Aged(first)
  BY DEF Commits, Days, Tests, Aged
<1>3. have \in {0, 1} /\ step = "idle" /\ mode = "daily" /\ at = 0 /\ looked = 0 /\ offer = 0
  BY DEF UpdateInit
<1> HIDE DEF first
<1>4. line \in Seq(Commits) /\ Len(line) = 1 /\ \A c \in 1..Len(line) : Aged(line[c])
  BY <1>1, <1>2
<1> QED
  BY <1>3, <1>4
  DEF UpdateInv, UpdateTyped, WalkInv, OfferInv, NewestTested, Modes

\* A walk that ends without an offer has nothing to offer.
LEMMA WalkedMeansNothing ==
    ASSUME UpdateTyped, WalkInv, step = "walk", Walked
    PROVE  NothingNewer
<1> SUFFICES ASSUME NEW c \in have + 1 .. Len(line), Qualifies(line[c]) PROVE OutOfReach(c)
  BY DEF NothingNewer
<1>1. c <= at
  BY DEF UpdateTyped, WalkInv
<1> QED
  BY <1>1, UpdateBoundsAssumption DEF UpdateTyped, WalkInv, Walked, OutOfReach

\* Nothing that decides what qualifies changes during a run.
LEMMA QualifyingStays ==
    ASSUME mode' = mode, line' = line
    PROVE  \A c : Qualifies(line[c])' <=> Qualifies(line[c])
BY DEF Qualifies

LEMMA UpdateGoesOn ==
    UpdateInv /\ [UpdateNext]_updateVars =>
        UpdateInv' /\ have' >= have /\ (step = "cores" => NothingNewer)
<1> SUFFICES ASSUME UpdateInv, [UpdateNext]_updateVars
             PROVE  UpdateInv' /\ have' >= have /\ (step = "cores" => NothingNewer)
  OBVIOUS
<1>0. UpdateTyped /\ WalkInv /\ OfferInv /\ NewestTested /\ Len(line) \in Nat
  BY DEF UpdateInv, UpdateTyped
<1>1. step = "cores" => NothingNewer
  BY <1>0 DEF NewestTested
<1>2. ASSUME step = "idle", step' = "idle", have' = have,
             line' \in Seq(Commits), Len(line') \in Nat, Len(line') >= Len(line),
             \A c \in 1..Len(line') : Aged(line'[c]),
             mode' \in Modes, at' = at, offer' = offer, looked' = looked
      PROVE  UpdateInv' /\ have' >= have
  BY <1>0, <1>2 DEF UpdateInv, UpdateTyped, WalkInv, OfferInv, NewestTested
<1>3. CASE NewCommit
  <2> DEFINE fresh == [made |-> "today", tests |-> "none"]
  <2>1. fresh \in Commits /\ Aged(fresh)
    BY DEF Commits, Days, Tests, Aged
  <2>2. line' = Append(line, fresh)
    BY <1>3 DEF NewCommit
  <2> HIDE DEF fresh
  <2>3. /\ line' \in Seq(Commits) /\ Len(line') = Len(line) + 1
        /\ \A c \in 1..Len(line) : line'[c] = line[c]
        /\ line'[Len(line) + 1] = fresh
    BY <1>0, <2>1, <2>2 DEF UpdateTyped
  <2>4. \A c \in 1..Len(line') : Aged(line'[c])
    BY <1>0, <2>1, <2>3 DEF UpdateTyped
  <2> QED
    BY <1>0, <1>1, <1>2, <1>3, <2>3, <2>4 DEF NewCommit, UpdateTyped
<1>4. CASE TestsGoOn
  <2>1. PICK c \in DOMAIN line, result \in {"running", "failed", "passed"} :
           line' = [line EXCEPT ![c] = [made |-> @.made, tests |-> result]]
    BY <1>4 DEF TestsGoOn
  <2> DEFINE tested == [made |-> line[c].made, tests |-> result]
  <2>2. tested \in Commits /\ Aged(tested)
    <3>1. line[c] \in Commits
      BY <1>0 DEF UpdateTyped
    <3> QED
      BY <3>1 DEF Commits, Tests, Aged
  <2>3. line' = [line EXCEPT ![c] = tested]
    BY <2>1
  <2> HIDE DEF tested
  <2>4. line' \in Seq(Commits) /\ Len(line') = Len(line)
    BY <1>0, <2>2, <2>3 DEF UpdateTyped
  <2>5. \A d \in 1..Len(line') : Aged(line'[d])
    BY <1>0, <2>2, <2>3, <2>4 DEF UpdateTyped
  <2> QED
    BY <1>0, <1>1, <1>2, <1>4, <2>4, <2>5 DEF TestsGoOn, UpdateTyped
<1>5. CASE DayPasses
  <2> DEFINE older(commit) ==
        [made |-> "earlier",
         tests |-> IF commit.tests = "passed" THEN "passed long ago" ELSE commit.tests]
  <2>1. \A commit \in Commits : older(commit) \in Commits /\ Aged(older(commit))
    BY DEF Commits, Days, Tests, Aged
  <2>2. line' = [c \in DOMAIN line |-> older(line[c])]
    BY <1>5 DEF DayPasses
  <2>a. step = "idle" /\ UNCHANGED <<have, step, mode, at, looked, offer>>
    BY <1>5 DEF DayPasses
  <2> HIDE DEF older
  <2>3. DOMAIN line = 1..Len(line) /\ \A c \in 1..Len(line) : line[c] \in Commits
    BY <1>0 DEF UpdateTyped
  <2>4. line' \in [1..Len(line) -> Commits]
    BY <2>1, <2>2, <2>3
  <2>5. line' \in Seq(Commits) /\ Len(line') = Len(line)
    BY <1>0, <2>4 DEF UpdateTyped
  <2>6. \A c \in 1..Len(line') : line'[c] = older(line[c])
    BY <2>2, <2>3, <2>5
  <2>7. \A c \in 1..Len(line') : Aged(line'[c])
    BY <2>1, <2>3, <2>5, <2>6
  <2> QED
    BY <1>0, <1>1, <1>2, <2>a, <2>5, <2>7 DEF UpdateTyped
<1>6. CASE RunBegins
  BY <1>0, <1>1, <1>6 DEF RunBegins, UpdateInv, UpdateTyped, WalkInv, OfferInv, NewestTested
<1>7. CASE RunSkipped \/ CoreReleased
  BY <1>0, <1>1, <1>2, <1>7 DEF RunSkipped, CoreReleased, UpdateTyped, Modes
<1>8. CASE TooYoung
  <2>1. /\ step = "walk" /\ step' = "walk" /\ at # have /\ at' = at - 1
        /\ Young(line[at])
    BY <1>8 DEF TooYoung, Walked
  <2>2. at \in have + 1 .. Len(line)
    BY <1>0, <2>1 DEF WalkInv, UpdateTyped
  <2>3. ~Qualifies(line[at])
    <3>1. Aged(line[at])
      BY <1>0, <2>2 DEF UpdateTyped
    <3> QED
      BY <2>1, <3>1 DEF Aged, Young, Qualifies
  <2>4. \A c \in at' + 1 .. Len(line) : ~Qualifies(line[c])
    BY <1>0, <2>1, <2>2, <2>3 DEF WalkInv
  <2>5. UNCHANGED <<line, have, mode, looked, offer>>
    BY <1>8 DEF TooYoung
  <2> QED
    BY <1>0, <1>1, <2>1, <2>2, <2>4, <2>5, QualifyingStays
    DEF UpdateInv, UpdateTyped, WalkInv, OfferInv, NewestTested
<1>9. CASE LookUp
  <2>1. /\ step = "walk" /\ at # have /\ Len(line) - at < MaxHistory
        /\ looked' \in Nat /\ UNCHANGED <<line, have, mode>>
    BY <1>0, <1>9, UpdateBoundsAssumption DEF LookUp, Walked, UpdateTyped
  <2>2. at \in have + 1 .. Len(line)
    BY <1>0, <2>1 DEF WalkInv, UpdateTyped
  <2>3. CASE Qualifies(line[at])
    <3>1. offer' = at /\ step' = "install" /\ at' = at
      BY <1>9, <2>3 DEF LookUp
    <3>2. Passed(line[at])
      BY <2>3 DEF Qualifies, Passed
    <3>3. \A c \in at + 1 .. Len(line) : ~Qualifies(line[c])'
      BY <1>0, <2>1, QualifyingStays DEF WalkInv
    <3> QED
      BY <1>0, <1>1, <2>1, <2>2, <3>1, <3>2, <3>3
      DEF UpdateInv, UpdateTyped, WalkInv, OfferInv, NewestTested
  <2>4. CASE ~Qualifies(line[at])
    <3>1. at' = at - 1 /\ offer' = offer /\ step' = "walk"
      BY <1>9, <2>1, <2>4 DEF LookUp
    <3>2. \A c \in at' + 1 .. Len(line) : ~Qualifies(line[c])'
      BY <1>0, <2>1, <2>2, <2>4, <3>1, QualifyingStays DEF WalkInv
    <3> QED
      BY <1>0, <1>1, <2>1, <2>2, <3>1, <3>2
      DEF UpdateInv, UpdateTyped, WalkInv, OfferInv, NewestTested
  <2> QED
    BY <2>3, <2>4
<1>10. CASE UpToDate
  <2>1. step = "walk" /\ Walked /\ UNCHANGED <<line, have, mode, at, looked, offer>>
        /\ step' = (IF mode = "daily" THEN "cores" ELSE "idle")
    BY <1>10 DEF UpToDate, AfterSelf
  <2>2. NothingNewer'
    BY <1>0, <2>1, WalkedMeansNothing, QualifyingStays DEF NothingNewer, OutOfReach
  <2> QED
    BY <1>0, <1>1, <2>1, <2>2 DEF UpdateInv, UpdateTyped, WalkInv, OfferInv, NewestTested
<1>11. CASE Installs
  <2>1. /\ step = "install" /\ have' = offer /\ UNCHANGED <<line, mode, at, looked, offer>>
        /\ step' = (IF mode = "daily" THEN "cores" ELSE "idle")
    BY <1>11 DEF Installs, AfterSelf
  <2>2. \A c \in offer + 1 .. Len(line) : ~Qualifies(line[c])
    BY <1>0, <2>1 DEF NewestTested
  <2>3. NothingNewer'
    BY <2>1, <2>2, QualifyingStays DEF NothingNewer
  <2> QED
    BY <1>0, <1>1, <2>1, <2>3 DEF UpdateInv, UpdateTyped, WalkInv, OfferInv, NewestTested
<1>12. CASE SelfUpdateFails \/ CoresFail \/ CoresUpdated
  BY <1>0, <1>1, <1>12 DEF SelfUpdateFails, CoresFail, CoresUpdated, UpdateInv, UpdateTyped,
                           WalkInv, OfferInv, NewestTested
<1>13. CASE UNCHANGED updateVars
  BY <1>0, <1>1, <1>13, QualifyingStays
  DEF updateVars, UpdateInv, UpdateTyped, WalkInv, OfferInv, NewestTested, NothingNewer, OutOfReach
<1> QED
  BY <1>3, <1>4, <1>5, <1>6, <1>7, <1>8, <1>9, <1>10, <1>11, <1>12, <1>13 DEF UpdateNext

UpdatePart == IF part = "update" THEN UpdateInv ELSE UpdateRests

LEMMA UpdatePartHolds == Spec => []UpdatePart
<1>1. Init => UpdatePart
  BY UpdateStarts DEF Init, UpdatePart
<1>2. UpdatePart /\ [Next]_vars => UpdatePart'
  <2> SUFFICES ASSUME UpdatePart, [Next]_vars PROVE UpdatePart'
    OBVIOUS
  <2>1. CASE part = "update"
    BY <2>1, OneMoves, UpdateGoesOn DEF UpdatePart
  <2>2. CASE part # "update"
    BY <2>2, OneMoves DEF UpdatePart, UpdateRests, updateVars
  <2> QED
    BY <2>1, <2>2
<1> QED
  BY <1>1, <1>2, PTL DEF Spec

\* Every update finds the newest tested commit within reach, none goes back, and after
\* an ok there was nothing left to find, for any number of commits, of runs, and of
\* lookups that GitHub allows.
THEOREM UpdatesFindTheNewest == Spec => UpdatesAreRight
<1>1. UpdateInv /\ [UpdateNext]_updateVars => [have' >= have]_updateVars
  BY UpdateGoesOn
<1>2. UpdateInv /\ [UpdateNext]_updateVars =>
        [step = "cores" /\ record' = "ok" => cores' = "new" /\ NothingNewer]_updateVars
  <2> SUFFICES ASSUME UpdateInv, UpdateNext, step = "cores", record' = "ok"
               PROVE  cores' = "new" /\ NothingNewer
    BY DEF updateVars
  <2>1. NothingNewer
    BY UpdateGoesOn
  <2>2. mode = "daily"
    BY DEF UpdateInv, OfferInv
  <2>3. CoresFail \/ CoresUpdated
    BY DEF UpdateNext, NewCommit, TestsGoOn, DayPasses, RunBegins, RunSkipped, TooYoung, LookUp,
           UpToDate, Installs, SelfUpdateFails, CoreReleased
  <2> QED
    BY <2>1, <2>2, <2>3 DEF CoresFail, CoresUpdated, Records
<1>3. UpdatePart => NewestTested
  BY DEF UpdatePart, UpdateInv, UpdateRests, NewestTested
<1>4. UpdatePart /\ [Next]_vars =>
        /\ [have' >= have]_updateVars
        /\ [step = "cores" /\ record' = "ok" => cores' = "new" /\ NothingNewer]_updateVars
  BY OneMoves, <1>1, <1>2 DEF UpdatePart
<1> QED
  BY UpdatePartHolds, <1>3, <1>4, PTL DEF Spec, UpdatesAreRight, NeverGoesBack, RecordIsTrue

(***************************************************************************)
(* The key pairs                                                           *)
(***************************************************************************)
KeyValues == made \cup {NoKey, NotAKey}

KeysTyped ==
    /\ FirstPairs \subseteq made /\ made \subseteq AllPairs
    /\ keys \in [KeyFiles -> KeyValues] /\ before \in [KeyFiles -> KeyValues]
    /\ known \in [KeyPairs -> made \cup {NoKey}]
    /\ caller \in {"rebuild", "change", "regen"} /\ ended \in {"none", "ok", "failed"}
    /\ stage \in {"idle", "clear", "private name", "public name", "wg", "wg public",
                  "unifi", "unifi public", "build"}

\* The private key of a pair, in any key directory.
PrivateOf(k, p) ==
    IF p = "wg" /\ k[<<"wg", "private">>] = NoKey THEN k[<<"xray", "private">>]
    ELSE k[<<p, "private">>]
Keeps(k) == \A p \in KeyPairs : known[p] # NoKey => PrivateOf(k, p) = known[p]

\* Except while they are replaced, the keys are those that UniFi knows, and so are the
\* ones that a failure brings back.
KeptInv ==
    /\ stage = "idle" \/ caller # "regen" => Keeps(keys)
    /\ stage # "idle" => Keeps(before)
    /\ stage = "clear" => caller = "regen"

\* Once migrated, the old name matters no more; and no new key is one that was known.
Migrated == {"public name", "wg", "wg public", "unifi", "unifi public", "build"}
MigratedInv ==
    stage \in Migrated /\ keys[<<"wg", "private">>] = NoKey =>
        keys[<<"xray", "private">>] = NoKey
NewInv ==
    caller = "regen" /\ stage \in Migrated \cup {"private name"} =>
        /\ keys[<<"xray", "private">>] = NoKey
        /\ \A p, q \in KeyPairs :
               keys[<<p, "private">>] # NoKey => keys[<<p, "private">>] # known[q]

\* A pair that ensure_keys is done with: two halves of one, or none.
Settled(p) ==
    /\ keys[<<p, "private">>] = keys[<<p, "public">>]
    /\ keys[<<p, "private">>] # NotAKey
SettledInv ==
    /\ stage \in {"unifi", "unifi public", "build"} => Settled("wg")
    /\ stage = "build" => Settled("unifi")
    /\ stage = "wg public" => keys[<<"wg", "private">>] \in AllPairs
    /\ stage = "unifi public" => keys[<<"unifi", "private">>] \in AllPairs
EndedInv == ended = "ok" => stage = "idle"

KeyInv == /\ KeysTyped /\ KeptInv /\ MigratedInv /\ NewInv /\ SettledInv /\ EndedInv
          /\ KeysKept /\ PairsMatch

LEMMA InUseIsPrivate == \A p : InUse(p) = PrivateOf(keys, p)
BY DEF InUse, PrivateOf

LEMMA KeysStart == KeyInit => KeyInv
<1> SUFFICES ASSUME KeyInit PROVE KeyInv
  OBVIOUS
<1> USE KeyStoresAssumption, PairsAssumption
<1>1. /\ keys \in [KeyFiles -> FirstPairs \cup {NoKey, NotAKey}] /\ before = keys
      /\ stage = "idle" /\ caller = "rebuild" /\ ended = "none" /\ made = FirstPairs
      /\ known = [p \in KeyPairs |-> IF InUse(p) = NotAKey THEN NoKey ELSE InUse(p)]
  BY DEF KeyInit
<1>2. \A p \in KeyPairs : InUse(p) \in FirstPairs \cup {NoKey, NotAKey}
  BY <1>1 DEF InUse, KeyPairs, KeyFiles
<1>3. KeysTyped
  BY <1>1, <1>2 DEF KeysTyped, KeyValues
<1>4. Keeps(keys)
  BY <1>1, InUseIsPrivate DEF Keeps
<1> QED
  BY <1>1, <1>3, <1>4, InUseIsPrivate
  DEF KeyInv, KeptInv, MigratedInv, NewInv, SettledInv, EndedInv, KeysKept, PairsMatch, Keeps,
      Migrated

LEMMA NewPairIsNew == AllPairs \ made # {} => NewPair \in AllPairs \ made
BY Zenon DEF NewPair

\* The files that a step writes, and what stays of the invariant when it writes no
\* private key.
LEMMA PublicStep ==
    ASSUME KeyInv, stage # "idle", stage' # "idle", ended' = ended,
           UNCHANGED <<caller, before, known, made>>,
           keys' \in [KeyFiles -> KeyValues],
           \A n \in {"wg", "unifi", "xray"} : keys'[<<n, "private">>] = keys[<<n, "private">>],
           stage' \in Migrated, stage \in Migrated
    PROVE  /\ KeysTyped' /\ KeptInv' /\ MigratedInv' /\ NewInv' /\ EndedInv'
           /\ KeysKept' /\ PairsMatch'
BY PairsAssumption
DEF KeyInv, KeysTyped, KeyValues, KeptInv, Keeps, PrivateOf, MigratedInv, NewInv,
    EndedInv, KeysKept, PairsMatch, Migrated, KeyFiles, KeyPairs

LEMMA KeysGoOn == KeyInv /\ [KeyNext]_keyVars => KeyInv'
<1> SUFFICES ASSUME KeyInv, [KeyNext]_keyVars PROVE KeyInv'
  OBVIOUS
<1> USE PairsAssumption
<1>0. /\ KeysTyped /\ KeptInv /\ MigratedInv /\ NewInv /\ SettledInv /\ EndedInv
      /\ KeysKept /\ PairsMatch
  BY DEF KeyInv
<1>00. \A p : InUse(p)' = PrivateOf(keys', p)
  BY DEF InUse, PrivateOf
<1>1. CASE CallBegins
  BY <1>0, <1>1, InUseIsPrivate
  DEF CallBegins, KeyInv, KeysTyped, KeyValues, KeptInv, MigratedInv, NewInv, SettledInv, EndedInv,
      KeysKept, PairsMatch, Keeps, Migrated, KeyPairs
<1>2. CASE ClearKeys
  BY <1>0, <1>2
  DEF ClearKeys, KeyInv, KeysTyped, KeyValues, KeptInv, MigratedInv, NewInv, SettledInv, EndedInv,
      KeysKept, PairsMatch, Keeps, Migrated, KeyPairs, KeyFiles
<1>3. CASE Migrate("private", "private name", "public name")
  <2>1. /\ stage = "private name" /\ stage' = "public name"
        /\ UNCHANGED <<caller, before, ended, known, made>>
    BY <1>3 DEF Migrate
  <2>2. /\ keys' \in [KeyFiles -> KeyValues]
        /\ keys'[<<"unifi", "private">>] = keys[<<"unifi", "private">>]
        /\ \/ /\ keys'[<<"wg", "private">>] = keys[<<"wg", "private">>]
              /\ keys'[<<"xray", "private">>] = keys[<<"xray", "private">>]
              /\ keys[<<"xray", "private">>] = NoKey \/ keys[<<"wg", "private">>] # NoKey
           \/ /\ keys[<<"xray", "private">>] # NoKey /\ keys[<<"wg", "private">>] = NoKey
              /\ keys'[<<"wg", "private">>] = keys[<<"xray", "private">>]
              /\ keys'[<<"xray", "private">>] = NoKey
    BY <1>0, <1>3 DEF Migrate, KeysTyped, KeyValues, KeyFiles
  <2>3. \A p \in KeyPairs : PrivateOf(keys', p) = PrivateOf(keys, p)
    BY <2>2 DEF PrivateOf, KeyPairs
  <2>4. KeysTyped' /\ EndedInv' /\ SettledInv' /\ KeysKept' /\ PairsMatch'
    BY <1>0, <2>1, <2>2
    DEF KeysTyped, KeyValues, EndedInv, SettledInv, KeysKept, PairsMatch
  <2>5. KeptInv'
    BY <1>0, <2>1, <2>3 DEF KeptInv, Keeps
  <2>6. MigratedInv' /\ NewInv'
    BY <1>0, <2>1, <2>2 DEF MigratedInv, NewInv, Migrated, KeyPairs
  <2> QED
    BY <2>4, <2>5, <2>6 DEF KeyInv
<1>4. CASE Migrate("public", "public name", "wg")
  <2>1. /\ stage = "public name" /\ stage' = "wg"
        /\ UNCHANGED <<caller, before, ended, known, made>>
    BY <1>4 DEF Migrate
  <2>2. /\ keys' \in [KeyFiles -> KeyValues]
        /\ \A n \in {"wg", "unifi", "xray"} : keys'[<<n, "private">>] = keys[<<n, "private">>]
    BY <1>0, <1>4 DEF Migrate, KeysTyped, KeyValues, KeyFiles
  <2> QED
    BY <2>1, <2>2, PublicStep DEF KeyInv, SettledInv, Migrated
<1>5. CASE EnsurePair("wg", "wg public", "unifi")
  <2>1. stage = "wg" /\ UNCHANGED <<caller, before, ended, known>>
    BY <1>5 DEF EnsurePair
  <2>2. CASE Rotates("wg") /\ stage' = "wg public"
    <3>1. /\ keys[<<"wg", "private">>] = NoKey /\ NewPair \in AllPairs \ made
          /\ made' = made \cup {NewPair}
          /\ keys' = [keys EXCEPT ![<<"wg", "private">>] = NewPair]
      BY <2>2, NewPairIsNew DEF Rotates
    <3>2. KeysTyped'
      BY <1>0, <2>1, <2>2, <3>1 DEF KeysTyped, KeyValues
    <3>3. /\ keys'[<<"wg", "private">>] = NewPair
          /\ keys'[<<"unifi", "private">>] = keys[<<"unifi", "private">>]
          /\ keys'[<<"xray", "private">>] = keys[<<"xray", "private">>]
      BY <1>0, <3>1 DEF KeysTyped, KeyFiles
    <3>4. PrivateOf(keys, "wg") = NoKey
      BY <1>0, <2>1, <3>1 DEF MigratedInv, Migrated, PrivateOf
    <3>5. EndedInv' /\ SettledInv' /\ KeysKept' /\ PairsMatch'
      <4>1. keys'[<<"wg", "private">>] \in AllPairs
        BY <3>1, <3>3
      <4> QED
        BY <1>0, <2>1, <2>2, <3>3, <4>1
        DEF EndedInv, SettledInv, KeysKept, PairsMatch
    <3>6. KeptInv'
      BY <1>0, <2>1, <2>2, <3>3, <3>4 DEF KeptInv, Keeps, PrivateOf, KeyPairs
    <3>7. MigratedInv' /\ NewInv'
      <4>1. \A q \in KeyPairs : known[q] # NewPair /\ NewPair # NoKey
        BY <1>0, <3>1 DEF KeysTyped
      <4> QED
        BY <1>0, <2>1, <2>2, <3>3, <4>1 DEF MigratedInv, NewInv, Migrated, KeyPairs
    <3> QED
      BY <3>2, <3>5, <3>6, <3>7 DEF KeyInv
  <2>3. CASE (Repairs("wg") \/ RotatesInVain("wg")) /\ stage' = "unifi" /\ UNCHANGED made
    <3>1. /\ keys' \in [KeyFiles -> KeyValues]
          /\ \A n \in {"wg", "unifi", "xray"} : keys'[<<n, "private">>] = keys[<<n, "private">>]
          /\ Settled("wg")'
      BY <1>0, <2>3 DEF Repairs, RotatesInVain, Settled, KeysTyped, KeyValues, KeyFiles
    <3> QED
      BY <2>1, <2>3, <3>1, PublicStep DEF KeyInv, SettledInv, Migrated
  <2> QED
    BY <1>5, <2>2, <2>3 DEF EnsurePair
<1>6. CASE StorePublic("wg", "wg public", "unifi")
  <2>1. /\ stage = "wg public" /\ stage' = "unifi"
        /\ UNCHANGED <<caller, before, ended, known, made>>
    BY <1>6 DEF StorePublic
  <2>2. /\ keys' \in [KeyFiles -> KeyValues]
        /\ \A n \in {"wg", "unifi", "xray"} : keys'[<<n, "private">>] = keys[<<n, "private">>]
        /\ Settled("wg")'
    BY <1>0, <1>6, <2>1 DEF StorePublic, SettledInv, Settled, KeysTyped, KeyValues, KeyFiles
  <2> QED
    BY <2>1, <2>2, PublicStep DEF KeyInv, SettledInv, Migrated
<1>7. CASE EnsurePair("unifi", "unifi public", "build")
  <2>1. stage = "unifi" /\ Settled("wg") /\ UNCHANGED <<caller, before, ended, known>>
    BY <1>0, <1>7 DEF EnsurePair, SettledInv
  <2>2. CASE Rotates("unifi") /\ stage' = "unifi public"
    <3>1. /\ keys[<<"unifi", "private">>] = NoKey /\ NewPair \in AllPairs \ made
          /\ made' = made \cup {NewPair}
          /\ keys' = [keys EXCEPT ![<<"unifi", "private">>] = NewPair]
      BY <2>2, NewPairIsNew DEF Rotates
    <3>2. KeysTyped'
      BY <1>0, <2>1, <2>2, <3>1 DEF KeysTyped, KeyValues
    <3>3. /\ keys'[<<"unifi", "private">>] = NewPair
          /\ \A h \in {"private", "public"} : keys'[<<"wg", h>>] = keys[<<"wg", h>>]
          /\ keys'[<<"xray", "private">>] = keys[<<"xray", "private">>]
      BY <1>0, <3>1 DEF KeysTyped, KeyFiles
    <3>4. EndedInv' /\ SettledInv' /\ KeysKept' /\ PairsMatch'
      <4>1. keys'[<<"unifi", "private">>] \in AllPairs
        BY <3>1, <3>3
      <4> QED
        BY <1>0, <2>1, <2>2, <3>3, <4>1
        DEF EndedInv, SettledInv, Settled, KeysKept, PairsMatch
    <3>5. KeptInv'
      BY <1>0, <2>1, <2>2, <3>1, <3>3 DEF KeptInv, Keeps, PrivateOf, KeyPairs
    <3>6. MigratedInv' /\ NewInv'
      <4>1. \A q \in KeyPairs : known[q] # NewPair /\ NewPair # NoKey
        BY <1>0, <3>1 DEF KeysTyped
      <4> QED
        BY <1>0, <2>1, <2>2, <3>3, <4>1 DEF MigratedInv, NewInv, Migrated, KeyPairs
    <3> QED
      BY <3>2, <3>4, <3>5, <3>6 DEF KeyInv
  <2>3. CASE (Repairs("unifi") \/ RotatesInVain("unifi")) /\ stage' = "build" /\ UNCHANGED made
    <3>1. /\ keys' \in [KeyFiles -> KeyValues]
          /\ \A n \in {"wg", "unifi", "xray"} : keys'[<<n, "private">>] = keys[<<n, "private">>]
          /\ Settled("wg")' /\ Settled("unifi")'
      BY <1>0, <2>1, <2>3 DEF Repairs, RotatesInVain, Settled, KeysTyped, KeyValues, KeyFiles
    <3> QED
      BY <2>1, <2>3, <3>1, PublicStep DEF KeyInv, SettledInv, Migrated
  <2> QED
    BY <1>7, <2>2, <2>3 DEF EnsurePair
<1>8. CASE StorePublic("unifi", "unifi public", "build")
  <2>1. /\ stage = "unifi public" /\ stage' = "build" /\ Settled("wg")
        /\ UNCHANGED <<caller, before, ended, known, made>>
    BY <1>0, <1>8 DEF StorePublic, SettledInv
  <2>2. /\ keys' \in [KeyFiles -> KeyValues]
        /\ \A n \in {"wg", "unifi", "xray"} : keys'[<<n, "private">>] = keys[<<n, "private">>]
        /\ Settled("wg")' /\ Settled("unifi")'
    BY <1>0, <1>8, <2>1 DEF StorePublic, SettledInv, Settled, KeysTyped, KeyValues, KeyFiles
  <2> QED
    BY <2>1, <2>2, PublicStep DEF KeyInv, SettledInv, Migrated
<1>9. CASE CallSucceeds
  <2>1. /\ stage = "build" /\ stage' = "idle" /\ ended' = "ok"
        /\ UNCHANGED <<keys, caller, before, made>>
        /\ known' = [p \in KeyPairs |-> IF caller = "regen" \/ known[p] = NoKey
                                        THEN keys[<<p, "private">>] ELSE known[p]]
        /\ keys[<<"wg", "private">>] # NoKey /\ keys[<<"unifi", "public">>] # NoKey
    BY <1>9 DEF CallSucceeds
  <2>2. \A p \in KeyPairs : /\ keys[<<p, "private">>] \in AllPairs
                            /\ keys[<<p, "public">>] = keys[<<p, "private">>]
                            /\ PrivateOf(keys, p) = keys[<<p, "private">>]
    BY <1>0, <2>1 DEF SettledInv, Settled, KeysTyped, KeyValues, KeyFiles, KeyPairs, PrivateOf
  <2>3. \A p \in KeyPairs : known'[p] = PrivateOf(keys, p)
    BY <1>0, <2>1, <2>2 DEF KeptInv, Keeps
  <2>4. KeysTyped'
    <3>1. \A p \in KeyPairs : keys[<<p, "private">>] \in made
      BY <1>0, <2>2 DEF KeysTyped, KeyValues, KeyPairs, KeyFiles
    <3>2. KeysTyped'
      BY <1>0, <2>1, <3>1 DEF KeysTyped, KeyValues
    <3> QED
      BY <3>2
  <2>5. KeptInv' /\ KeysKept'
    BY <2>1, <2>3, <1>00 DEF KeptInv, Keeps, KeysKept
  <2>6. PairsMatch'
    BY <2>1, <2>2 DEF PairsMatch
  <2> QED
    BY <2>1, <2>4, <2>5, <2>6 DEF KeyInv, MigratedInv, NewInv, SettledInv, EndedInv, Migrated
<1>10. CASE CallFails
  <2>1. /\ stage # "idle" /\ stage' = "idle" /\ ended' = "failed"
        /\ keys' = (IF caller = "rebuild" THEN keys ELSE before)
        /\ UNCHANGED <<caller, before, known, made>>
    BY <1>10 DEF CallFails
  <2>2. Keeps(keys')
    BY <1>0, <2>1 DEF KeptInv
  <2>3. KeptInv' /\ KeysKept'
    BY <2>1, <2>2, <1>00 DEF KeptInv, Keeps, KeysKept
  <2> QED
    BY <1>0, <2>1, <2>3
    DEF KeyInv, KeysTyped, KeyValues, MigratedInv, NewInv, SettledInv, EndedInv, PairsMatch,
        Migrated
<1>11. CASE UNCHANGED keyVars
  <2>1. UNCHANGED <<keys, stage, caller, before, ended, known, made>>
    BY <1>11 DEF keyVars
  <2>2. KeysTyped' /\ MigratedInv' /\ NewInv' /\ SettledInv' /\ EndedInv' /\ PairsMatch'
    BY <1>0, <2>1
    DEF KeysTyped, KeyValues, MigratedInv, NewInv, SettledInv, Settled, EndedInv, PairsMatch
  <2>3. KeptInv' /\ KeysKept'
    BY <1>0, <1>00, <2>1, InUseIsPrivate DEF KeptInv, Keeps, KeysKept
  <2> QED
    BY <2>2, <2>3 DEF KeyInv
<1> QED
  BY <1>1, <1>2, <1>3, <1>4, <1>5, <1>6, <1>7, <1>8, <1>9, <1>10, <1>11 DEF KeyNext

KeyPart == IF part = "keys" THEN KeyInv ELSE KeysRest

LEMMA KeyPartHolds == Spec => []KeyPart
<1>1. Init => KeyPart
  BY KeysStart DEF Init, KeyPart
<1>2. KeyPart /\ [Next]_vars => KeyPart'
  <2> SUFFICES ASSUME KeyPart, [Next]_vars PROVE KeyPart'
    OBVIOUS
  <2>1. CASE part = "keys"
    BY <2>1, OneMoves, KeysGoOn DEF KeyPart
  <2>2. CASE part # "keys"
    BY <2>2, OneMoves DEF KeyPart, KeysRest, keyVars, KeyPairs
  <2> QED
    BY <2>1, <2>2
<1> QED
  BY <1>1, <1>2, PTL DEF Spec

\* Whatever half of a pair is missing or wrong at first, and wherever calls end: the
\* keys that UniFi was set up with are kept until the user asks for new ones; then
\* both pairs are new; and after a call that went well both halves of both pairs
\* belong together.
THEOREM KeysStayRight == Spec => KeysAreRight
<1>1. KeyPart => KeysKept /\ PairsMatch
  BY DEF KeyPart, KeyInv, KeysRest, KeysKept, PairsMatch
<1>2. KeyInv /\ [KeyNext]_keyVars =>
        [caller = "regen" /\ stage = "build" /\ ended' = "ok" =>
            \A p \in KeyPairs : known'[p] # known[p]]_keyVars
  <2> SUFFICES ASSUME KeyInv, KeyNext, caller = "regen", stage = "build", ended' = "ok",
                      NEW p \in KeyPairs
               PROVE  known'[p] # known[p]
    BY DEF keyVars
  <2>1. CallSucceeds
    BY DEF KeyInv, EndedInv, KeyNext, CallBegins, ClearKeys, Migrate, EnsurePair, StorePublic,
           CallFails
  <2>2. known'[p] = keys[<<p, "private">>]
    BY <2>1 DEF CallSucceeds
  <2>3. keys[<<p, "private">>] # NoKey
    BY <2>1 DEF CallSucceeds, KeyInv, SettledInv, Settled, KeyPairs
  <2> QED
    BY <2>2, <2>3 DEF KeyInv, NewInv, Migrated
<1>3. KeyPart /\ [Next]_vars =>
        [caller = "regen" /\ stage = "build" /\ ended' = "ok" =>
            \A p \in KeyPairs : known'[p] # known[p]]_keyVars
  BY OneMoves, <1>2 DEF KeyPart
<1> QED
  BY KeyPartHolds, <1>1, <1>3, PTL DEF Spec, KeysAreRight, RotationIsReal

(***************************************************************************)
(* JSON profiles                                                           *)
(***************************************************************************)
\* Of the rules that decide in the profile none is missing, and none is added.
LEMMA RoutesStay ==
  ASSUME NEW p, Json!IsProfile(p), NEW c, c.rules = Json!Applying(p),
         c.outbounds = p.outbounds, c.inbounds[1].tag = Json!PrimaryTag(p)
  PROVE  Json!SameRoutes(p, c)
<1> DEFINE tag == p.inbounds[Json!PrimaryInbound(p)].tag
           Matches(rules, t, dest) == {i \in DOMAIN rules :
                        /\ rules[i].any \/ rules[i].tags = {} \/ t \in rules[i].tags
                        /\ dest \in rules[i].dests}
<1> SUFFICES ASSUME ~Json!ReadDifferently(p), NEW dest \in Destinations
             PROVE  Json!Route(c, Json!PrimaryTag(p), dest) = Json!Route(p, tag, dest)
  BY DEF Json!SameRoutes
<1>1. \A i \in DOMAIN p.rules :
        /\ ~p.rules[i].any => p.rules[i].tags # {}
        /\ tag = "" => {"socks", ""} \cap p.rules[i].tags = {}
  BY DEF Json!ReadDifferently, Json!Elements
<1>2. Json!PrimaryTag(p) = IF tag = "" THEN "socks" ELSE tag
  BY DEF Json!PrimaryTag
<1>3. DOMAIN c.rules = {i \in DOMAIN p.rules : Json!RuleApplies(p.rules[i], Json!PrimaryTag(p))}
  BY DEF Json!Applying
<1>4. \A i \in DOMAIN c.rules : c.rules[i] = p.rules[i]
  BY <1>3 DEF Json!Applying
<1>5. Matches(c.rules, Json!PrimaryTag(p), dest) = Matches(p.rules, tag, dest)
  <2>1. ASSUME NEW i \in DOMAIN p.rules
        PROVE  /\ Json!RuleApplies(p.rules[i], Json!PrimaryTag(p)) <=>
                      p.rules[i].any \/ Json!PrimaryTag(p) \in p.rules[i].tags
               /\ Json!PrimaryTag(p) \in p.rules[i].tags <=> tag \in p.rules[i].tags
    BY <1>1, <1>2 DEF Json!RuleApplies
  <2> QED
    BY <1>1, <1>3, <1>4, <2>1
<1> DEFINE First(s) == IF s = {} THEN 0 ELSE CHOOSE i \in s : \A j \in s : i <= j
           m == Matches(p.rules, tag, dest)
           mc == Matches(c.rules, Json!PrimaryTag(p), dest)
           d == Json!Decides(p, tag, dest)
<1>6. Json!Decides(c, Json!PrimaryTag(p), dest) = Json!Decides(p, tag, dest)
  <2>1. Json!Decides(c, Json!PrimaryTag(p), dest) = First(mc)
    BY DEF Json!Decides
  <2>2. Json!Decides(p, tag, dest) = First(m)
    BY DEF Json!Decides
  <2>3. mc = m
    BY <1>5
  <2> HIDE DEF m, mc, First
  <2> QED
    BY <2>1, <2>2, <2>3
<1>7. CASE m = {}
  <2>1. d = 0
    BY <1>7 DEF Json!Decides
  <2> QED
    BY <1>6, <2>1 DEF Json!Route
<1>8. CASE m # {}
  <2>1. m \in SUBSET Nat
    BY DEF Json!IsProfile
  <2>2. d = CHOOSE i \in m : \A j \in m : i <= j
    BY <1>8 DEF Json!Decides
  <2> HIDE DEF m
  <2>3. d \in m
    BY <1>8, <2>1, <2>2, LeastExists
  <2>4. d \in DOMAIN c.rules
    BY <1>5, <2>3 DEF m
  <2>5. c.rules[d] = p.rules[d] /\ d # 0
    BY <1>4, <2>4, <1>3 DEF Json!IsProfile
  <2> QED
    BY <1>6, <2>5 DEF Json!Route
<1> QED
  BY <1>7, <1>8

\* A field that the validation reads is in its place.
LEMMA NoStrayFields ==
  ASSUME NEW p, Json!IsProfile(p), Json!TreeOk(p), NEW m \in p.strays
  PROVE  m.field \notin DOMAIN Json!Spelled
BY DEF Json!IsProfile, Json!TreeOk

\* No host that is dialled, asked or smuggled in is private.
LEMMA NoneDialled ==
  ASSUME NEW p, Json!ProfileOk(p), NEW ob \in Json!Elements(p.outbounds)
  PROVE  Json!DialledBy(ob) \cap Private = {}
<1>1. Json!OutboundOk(ob)
  BY DEF Json!ProfileOk, Json!OutboundsOk
<1>2. /\ \A t \in Json!Targets(ob) : t[1] \notin Private
      /\ ob.protocol = "freedom" /\ ob.redirect # "" => ob.redirect \notin Private
  BY <1>1 DEF Json!OutboundOk, Json!PublicHost
<1> QED
  BY <1>2, NamesAssumption DEF Json!DialledBy, Json!Targets

LEMMA NoneAsked ==
  ASSUME NEW p, Json!ProfileOk(p)
  PROVE  Json!Asked(p) \cap Private = {}
<1>1. ASSUME NEW s \in p.dns.servers PROVE s[2] \notin Private
  <2>1. s[2] = "fakedns" \/ Json!PublicHost(s[2])
    BY DEF Json!ProfileOk, Json!DnsOk, Json!RemoteOk
  <2> QED
    BY <2>1, NamesAssumption DEF Json!PublicHost
<1>2. ASSUME NEW probe \in p.probes PROVE probe.url[2] \notin Private
  <2>1. Json!ProbeOk(probe)
    BY DEF Json!ProfileOk
  <2>2. probe.url[2] = "" \/ Json!PublicHost(probe.url[2])
    BY <2>1 DEF Json!ProbeOk, Json!RemoteOk
  <2> QED
    BY <2>2, NamesAssumption DEF Json!PublicHost
<1>3. p.dns.hosts \cap Private = {}
  BY DEF Json!ProfileOk, Json!DnsOk, Json!PublicHost
<1> QED
  BY <1>1, <1>2, <1>3 DEF Json!Asked

LEMMA NoneSmuggled ==
  ASSUME NEW p, Json!IsProfile(p), Json!ProfileOk(p), NEW o, o.strays = p.strays
  PROVE  Json!Smuggled(o) = {} /\ \A m \in p.strays : m.field # "inbounds"
<1>1. \A m \in p.strays : m.field \notin {"inbounds", "redirect", "address", "probeurl"}
  BY NoStrayFields DEF Json!ProfileOk, Json!Spelled
<1> QED
  BY <1>1 DEF Json!Smuggled

\* The configuration is the profile but for what the overlay replaces.
LEMMA OverlayIs ==
  ASSUME NEW p, Json!IsProfile(p)
  PROVE  LET o == Json!Overlaid(p)
         IN /\ o.rules = Json!Applying(p) /\ o.outbounds = p.outbounds
            /\ o.balancers = p.balancers
            /\ o.dns = p.dns /\ o.probes = p.probes /\ o.strays = p.strays
            /\ o.services = p.services \ Json!ControlBlocks
            /\ o.inbounds = <<[tag |-> Json!PrimaryTag(p), protocol |-> "wireguard",
                               accounts |-> FALSE]>>
BY DEF Json!Overlaid, Json!Sanitized, Json!IsProfile

LEMMA ProbedIs ==
  ASSUME NEW p, Json!IsProfile(p)
  PROVE  LET o == Json!Probed(p)
         IN /\ o.rules = Json!Applying(p) /\ o.outbounds = p.outbounds
            /\ o.inbounds[1].tag = Json!PrimaryTag(p)
BY DEF Json!Probed, Json!Sanitized, Json!IsProfile

\* What an accepted profile becomes routes as it does and does nothing else.
LEMMA AcceptedIsContained ==
  ASSUME NEW p, Json!IsProfile(p), Json!ProfileOk(p), NEW o, o = Json!Overlaid(p)
  PROVE  /\ Json!SameRoutes(p, o) /\ Json!SameRoutes(p, Json!Probed(p))
         /\ ~Json!Dangling(o)
         /\ Json!Dialled(o) \cap Private = {}
         /\ \A i \in DOMAIN o.inbounds : o.inbounds[i].protocol = "wireguard"
         /\ \A m \in o.strays : m.field # "inbounds"
         /\ o.services \cap Json!ControlBlocks = {}
<1>1. /\ o.rules = Json!Applying(p) /\ o.outbounds = p.outbounds /\ o.balancers = p.balancers
      /\ o.dns = p.dns /\ o.probes = p.probes /\ o.strays = p.strays
      /\ o.services = p.services \ Json!ControlBlocks
      /\ o.inbounds = <<[tag |-> Json!PrimaryTag(p), protocol |-> "wireguard", accounts |-> FALSE]>>
  BY OverlayIs
<1>2. Json!SameRoutes(p, o)
  BY <1>1, RoutesStay
<1>3. Json!SameRoutes(p, Json!Probed(p))
  BY ProbedIs, RoutesStay
<1>4. ~Json!Dangling(o)
  BY <1>1 DEF Json!Dangling, Json!ProfileOk, Json!RulesOk
<1>5. Json!Dialled(o) \cap Private = {}
  <2>1. Json!Elements(o.outbounds) = Json!Elements(p.outbounds)
    BY <1>1
  <2>2. Json!Asked(o) = Json!Asked(p)
    BY <1>1 DEF Json!Asked
  <2>3. Json!Smuggled(o) = {}
    BY <1>1, NoneSmuggled
  <2>4. \A ob \in Json!Elements(o.outbounds) : Json!DialledBy(ob) \cap Private = {}
    BY <2>1, NoneDialled
  <2>5. Json!Asked(o) \cap Private = {}
    BY <2>2, NoneAsked
  <2> SUFFICES ASSUME NEW h \in Json!Dialled(o), h \in Private PROVE FALSE
    OBVIOUS
  <2>6. h \in UNION {Json!DialledBy(ob) : ob \in Json!Elements(o.outbounds)} \/ h \in Json!Asked(o)
    BY <2>3, Zenon DEF Json!Dialled
  <2> QED
    BY <2>4, <2>5, <2>6, Zenon
<1>6. \A i \in DOMAIN o.inbounds : o.inbounds[i].protocol = "wireguard"
  BY <1>1
<1>7. \A m \in o.strays : m.field # "inbounds"
  BY <1>1, NoneSmuggled
<1>8. o.services \cap Json!ControlBlocks = {}
  BY <1>1
<1> QED
  BY <1>2, <1>3, <1>4, <1>5, <1>6, <1>7, <1>8

\* A list without one of its members.
LEMMA WithoutIs ==
  ASSUME NEW lines, Len(lines) \in Nat, DOMAIN lines = 1..Len(lines),
         NEW i \in DOMAIN lines, NEW less, less = WithoutLine(lines, i)
  PROVE  /\ Len(less) = Len(lines) - 1 /\ DOMAIN less = 1..Len(lines) - 1
         /\ \A j \in DOMAIN less : less[j] = IF j < i THEN lines[j] ELSE lines[j + 1]
<1> DEFINE S == {lines[j] : j \in DOMAIN lines}
           n == Len(lines)
           a == SubSeq(lines, 1, i - 1)
           b == SubSeq(lines, i + 1, n)
<1>1. n \in Nat /\ DOMAIN lines = 1..n /\ i \in 1..n
  OBVIOUS
<1>2. \A j \in 1..n : lines[j] \in S
  BY <1>1
<1> HIDE DEF S, n
<1>3. /\ a \in Seq(S) /\ Len(a) = i - 1
      /\ \A j \in 1..i - 1 : a[j] = lines[j]
  <2>1. \A j \in 1..i - 1 : lines[j] \in S
    BY <1>1, <1>2
  <2>2. 1 \in Int /\ i - 1 \in Int
    BY <1>1
  <2>3. /\ a \in Seq(S) /\ Len(a) = IF 1 <= i - 1 THEN i - 1 - 1 + 1 ELSE 0
        /\ \A j \in 1..i - 1 - 1 + 1 : a[j] = lines[1 + j - 1]
    BY <2>1, <2>2, SubSeqProperties
  <2> HIDE DEF a
  <2> QED
    BY <1>1, <2>3
<1>4. /\ b \in Seq(S) /\ Len(b) = n - i
      /\ \A j \in 1..n - i : b[j] = lines[i + j]
  <2>1. \A j \in i + 1 .. n : lines[j] \in S
    BY <1>1, <1>2
  <2>2. i + 1 \in Int /\ n \in Int
    BY <1>1
  <2>3. /\ b \in Seq(S) /\ Len(b) = IF i + 1 <= n THEN n - (i + 1) + 1 ELSE 0
        /\ \A j \in 1..n - (i + 1) + 1 : b[j] = lines[i + 1 + j - 1]
    BY <2>1, <2>2, SubSeqProperties
  <2> HIDE DEF b
  <2>4. Len(b) = n - i
    BY <1>1, <2>3
  <2>5. ASSUME NEW j \in 1..n - i PROVE b[j] = lines[i + j]
    <3>1. j \in 1..n - (i + 1) + 1 /\ i + 1 + j - 1 = i + j
      BY <1>1
    <3> QED
      BY <2>3, <3>1
  <2> QED
    BY <2>3, <2>4, <2>5
<1>5. less = a \o b
  BY DEF WithoutLine, n, a, b
<1> HIDE DEF a, b
<1>6. /\ Len(less) = n - 1 /\ DOMAIN less = 1..n - 1
      /\ \A j \in 1..n - 1 : less[j] = IF j <= Len(a) THEN a[j] ELSE b[j - Len(a)]
  <2>0. /\ Len(a \o b) = Len(a) + Len(b) /\ a \o b \in Seq(S)
        /\ \A j \in 1..Len(a) + Len(b) :
              (a \o b)[j] = IF j <= Len(a) THEN a[j] ELSE b[j - Len(a)]
    <3>1. a \in Seq(S) /\ b \in Seq(S)
      BY <1>3, <1>4
    <3> QED
      BY <3>1, ConcatProperties
  <2>1. /\ Len(less) = Len(a) + Len(b)
        /\ \A j \in 1..Len(less) : less[j] = IF j <= Len(a) THEN a[j] ELSE b[j - Len(a)]
        /\ less \in Seq(S)
    BY <1>5, <2>0, Zenon
  <2>2. DOMAIN less = 1..Len(less)
    BY <2>1
  <2>3. Len(less) = n - 1
    BY <1>1, <1>3, <1>4, <2>1
  <2> QED
    BY <2>1, <2>2, <2>3
<1>7. ASSUME NEW j \in 1..n - 1 PROVE less[j] = IF j < i THEN lines[j] ELSE lines[j + 1]
  <2>1. CASE j < i
    BY <1>1, <1>3, <1>6, <2>1
  <2>2. CASE ~(j < i)
    <3>1. j - (i - 1) \in 1..n - i /\ i + (j - (i - 1)) = j + 1
      BY <1>1, <2>2
    <3>2. b[j - (i - 1)] = lines[j + 1]
      BY <1>4, <3>1
    <3> QED
      BY <1>1, <1>3, <1>6, <2>2, <3>2
  <2> QED
    BY <2>1, <2>2
<1> QED
  BY <1>6, <1>7 DEF n

(***************************************************************************)
(* Share links                                                             *)
(***************************************************************************)
\* The value of an option that is there once.
LEMMA QueryIs ==
  ASSUME NEW pairs, Flat(pairs), NEW i \in DOMAIN pairs
  PROVE  pairs[i][1] \in DOMAIN Query(pairs) /\ Query(pairs)[pairs[i][1]] = pairs[i][2]
<1> DEFINE n == pairs[i][1]
           k == CHOOSE j \in DOMAIN pairs : pairs[j][1] = n
<1>1. k \in DOMAIN pairs /\ pairs[k][1] = n
  OBVIOUS
<1>2. k = i
  BY <1>1 DEF Flat
<1> HIDE DEF k
<1>3. n \in {pairs[j][1] : j \in DOMAIN pairs}
  OBVIOUS
<1>4. Query(pairs)[n] = pairs[k][2]
  BY <1>3 DEF Query, k
<1> QED
  BY <1>2, <1>3, <1>4 DEF Query

\* The order of options that are there once does not count.
LEMMA OrderDoesNotCount ==
  ASSUME NEW s, Flat(s), NEW t, Flat(t), {s[i] : i \in DOMAIN s} = {t[i] : i \in DOMAIN t}
  PROVE  Query(s) = Query(t)
<1>1. \A i \in DOMAIN s : \E j \in DOMAIN t : t[j] = s[i]
  BY Zenon
<1>2. \A j \in DOMAIN t : \E i \in DOMAIN s : t[j] = s[i]
  BY Zenon
<1>3. DOMAIN Query(s) = {s[i][1] : i \in DOMAIN s} /\ DOMAIN Query(t) = {t[i][1] : i \in DOMAIN t}
  BY DEF Query
<1>4. DOMAIN Query(s) = DOMAIN Query(t)
  BY <1>1, <1>2, <1>3
<1>5. ASSUME NEW n \in DOMAIN Query(s) PROVE Query(s)[n] = Query(t)[n]
  <2>1. PICK i \in DOMAIN s : s[i][1] = n
    BY <1>3
  <2>2. PICK j \in DOMAIN t : t[j] = s[i]
    BY <1>1
  <2>3. Query(s)[s[i][1]] = s[i][2]
    BY QueryIs
  <2>4. Query(t)[t[j][1]] = t[j][2]
    BY QueryIs
  <2> QED
    BY <2>1, <2>2, <2>3, <2>4
<1>6. /\ Query(s) = [n \in DOMAIN Query(s) |-> Query(s)[n]]
      /\ Query(t) = [n \in DOMAIN Query(t) |-> Query(t)[n]]
  BY DEF Query
<1> QED
  BY <1>4, <1>5, <1>6

\* Two links that say the same, whatever the order of their options.
Alike(a, b) ==
    /\ a.scheme = b.scheme /\ a.form = b.form /\ a.user = b.user /\ a.pass = b.pass
    /\ a.host = b.host /\ a.port = b.port /\ a.label = b.label
    /\ Flat(a.query) /\ Flat(b.query)
    /\ {a.query[i] : i \in DOMAIN a.query} = {b.query[i] : i \in DOMAIN b.query}

LEMMA AlikeBuildTheSame ==
  ASSUME NEW a, NEW b, Alike(a, b)
  PROVE  /\ EngineForLink(a) = EngineForLink(b)
         /\ \A engine : /\ Accepts(engine, a) <=> Accepts(engine, b)
                        /\ Outbound(engine, a) = Outbound(engine, b)
<1> DEFINE q == Query(a.query)
<1>1. Query(b.query) = q
  BY OrderDoesNotCount DEF Alike
<1>2. /\ a.scheme = b.scheme /\ a.form = b.form /\ a.user = b.user /\ a.pass = b.pass
      /\ a.host = b.host /\ a.port = b.port /\ Flat(a.query) /\ Flat(b.query)
  BY DEF Alike
<1> HIDE DEF q
<1>3. /\ OnePort(a) <=> OnePort(b)
      /\ Port(a) = Port(b) /\ Server(a) = Server(b) /\ Listed(a) = Listed(b)
  BY <1>2 DEF OnePort, Port, Server, Listed
<1>4. (ServerOk(a) <=> ServerOk(b)) /\ (Readable(a) <=> Readable(b))
  BY <1>2, <1>3 DEF ServerOk, Readable
<1>5. /\ CredentialsOk(a) <=> CredentialsOk(b)
      /\ Credentials(a) = Credentials(b)
      /\ SsEngineOf(a, q) = SsEngineOf(b, q)
      /\ HopPorts(a, q) = HopPorts(b, q)
  BY <1>2, <1>3, <1>4 DEF CredentialsOk, Credentials, SsEngineOf, HopPorts
<1>6. EngineForLink(a) = EngineForLink(b)
  BY <1>1, <1>2, <1>4, <1>5 DEF EngineForLink, q
<1>7. /\ VlessOk(a, q) <=> VlessOk(b, q)
      /\ TrojanOk(a, q) <=> TrojanOk(b, q)
      /\ XraySsOk(a, q) <=> XraySsOk(b, q)
      /\ VmessJsonOk(a, q) <=> VmessJsonOk(b, q)
      /\ VmessUriOk(a, q) <=> VmessUriOk(b, q)
  BY <1>2, <1>4, <1>5 DEF VlessOk, TrojanOk, XraySsOk, VmessJsonOk, VmessUriOk, VmessOutOk
<1>8. /\ Vless(a, q) = Vless(b, q) /\ Trojan(a, q) = Trojan(b, q) /\ XraySs(a, q) = XraySs(b, q)
      /\ VmessJson(a, q) = VmessJson(b, q) /\ VmessUri(a, q) = VmessUri(b, q)
  BY <1>2, <1>3, <1>5 DEF Vless, Trojan, XraySs, VmessJson, VmessUri, VmessOut
<1>9. /\ Hysteria2Ok(a, q) <=> Hysteria2Ok(b, q)
      /\ TuicOk(a, q) <=> TuicOk(b, q)
      /\ SingboxSsOk(a, q) <=> SingboxSsOk(b, q)
  <2>1. Hysteria2Ok(a, q) <=> Hysteria2Ok(b, q)
    <3>1. HopOk(a, q) <=> HopOk(b, q)
      BY <1>3, <1>5 DEF HopOk
    <3> QED
      BY <1>2, <1>3, <3>1 DEF Hysteria2Ok
  <2>2. TuicOk(a, q) <=> TuicOk(b, q)
    BY <1>2, <1>4 DEF TuicOk
  <2>3. SingboxSsOk(a, q) <=> SingboxSsOk(b, q)
    BY <1>2, <1>5 DEF SingboxSsOk
  <2> QED
    BY <2>1, <2>2, <2>3
<1>10. /\ Hysteria2(a, q) = Hysteria2(b, q) /\ Tuic(a, q) = Tuic(b, q)
       /\ SingboxSs(a, q) = SingboxSs(b, q)
  <2>1. Hysteria2(a, q) = Hysteria2(b, q)
    <3>1. Auth(a) = Auth(b)
      BY <1>2 DEF Auth
    <3> QED
      BY <1>2, <1>3, <1>5, <3>1 DEF Hysteria2
  <2>2. Tuic(a, q) = Tuic(b, q)
    BY <1>2, <1>3, <1>5 DEF Tuic
  <2>3. SingboxSs(a, q) = SingboxSs(b, q)
    BY <1>2, <1>3, <1>5 DEF SingboxSs
  <2> QED
    BY <2>1, <2>2, <2>3
<1>11. (XrayOk(a) <=> XrayOk(b)) /\ (SingboxOk(a) <=> SingboxOk(b))
  BY <1>1, <1>2, <1>4, <1>7, <1>9 DEF XrayOk, SingboxOk, q
<1>12. Xray(a) = Xray(b) /\ Singbox(a) = Singbox(b)
  BY <1>1, <1>2, <1>8, <1>10 DEF Xray, Singbox, q
<1> QED
  BY <1>6, <1>11, <1>12 DEF Accepts, Outbound

\* The last plugin of a link without repetitions is its only one.
LEMMA OnePlugin ==
  ASSUME NEW link, IsLink(link), Flat(link.query)
  PROVE  CatalogSsEngine(link) = IF link.form = "broken" \/ link.user = "" \/ link.pass = "" THEN ""
                                 ELSE SsEngineOf(link, Query(link.query))
<1> DEFINE q == Query(link.query)
           plugins == {i \in DOMAIN link.query : link.query[i][1] = "plugin"}
           last == CHOOSE i \in plugins : \A j \in plugins : j <= i
           plugin == IF plugins = {} THEN "" ELSE link.query[last][2]
           called == IF plugin = "" THEN "" ELSE Plugin[plugin].name
<1>1. \A i, j \in plugins : i = j
  BY DEF Flat
<1>2. plugins \subseteq Nat
  <2>1. Len(link.query) \in Nat /\ DOMAIN link.query = 1..Len(link.query)
    BY DEF IsLink
  <2> QED
    BY <2>1
<1>3. PluginOf(q).name = called
  <2>1. CASE plugins = {}
    <3>1. "plugin" \notin DOMAIN q
      BY <2>1 DEF Query
    <3>2. PluginOf(q) = NoPlugin
      BY <3>1 DEF PluginOf, Given
    <3>3. called = ""
      BY <2>1
    <3> HIDE DEF called, q
    <3> QED
      <4>1. NoPlugin.name = ""
        BY DEF NoPlugin
      <4> QED
        BY <3>2, <3>3, <4>1
  <2>2. CASE plugins # {}
    <3>1. last \in plugins
      <4>1. PICK i \in plugins : TRUE
        BY <2>2
      <4>2. \A j \in plugins : j <= i
        <5> SUFFICES ASSUME NEW j \in plugins PROVE j <= i
          OBVIOUS
        <5>1. i \in Nat /\ j = i
          BY <1>1, <1>2
        <5> QED
          BY <5>1
      <4> QED
        BY <4>2
    <3>2. last \in DOMAIN link.query /\ link.query[last][1] = "plugin"
      BY <3>1
    <3>3. plugin = link.query[last][2]
      BY <2>2
    <3> HIDE DEF last, plugins, plugin
    <3>4. "plugin" \in DOMAIN q /\ q["plugin"] = plugin
      BY <3>2, <3>3, QueryIs
    <3> QED
      BY <3>4 DEF PluginOf, Given, NoPlugin
  <2> QED
    BY <2>1, <2>2
<1>4. CatalogSsEngine(link) = IF link.form = "broken" \/ link.user = "" \/ link.pass = "" THEN ""
                              ELSE SsEngine(link.user, link.pass, called)
  BY DEF CatalogSsEngine
<1> QED
  <2> HIDE DEF called, q
  <2> QED
    BY <1>3, <1>4 DEF SsEngineOf, q

LEMMA SsEnginesAre ==
  \A method, pass, plugin : SsEngine(method, pass, plugin) \in {"", "xray", "singbox"}
BY DEF SsEngine

\* What the catalog takes for a node, the CLI gives to the engine whose generator
\* the catalog asked.
LEMMA EnginesAgree ==
  ASSUME NEW link, IsLink(link), Recognized(link)
  PROVE  /\ EngineForLink(link) = CatalogEngine(link)
         /\ EngineForLink(link) \in {"xray", "singbox"}
         /\ Accepts(EngineForLink(link), link)
         /\ Flat(link.query)
<1> DEFINE engine == CatalogEngine(link)
           q == Query(link.query)
<1>1. engine # "" /\ Accepts(engine, link)
  BY DEF Recognized
<1>2. Readable(link)
  <2>1. XrayOk(link) \/ SingboxOk(link)
    BY <1>1 DEF Accepts
  <2>2. XrayOk(link) => Readable(link)
    BY DEF XrayOk
  <2>3. SingboxOk(link) => Readable(link)
    BY DEF SingboxOk
  <2> QED
    BY <2>1, <2>2, <2>3
<1>3. Flat(link.query)
  BY <1>2 DEF Readable, IsLink
<1>4. CASE link.scheme \in QuicSchemes
  <2>1. engine = "singbox"
    BY <1>4 DEF CatalogEngine
  <2>2. EngineForLink(link) = "singbox"
    BY <1>4 DEF EngineForLink, QuicSchemes, XraySchemes
  <2> QED
    BY <1>1, <1>3, <2>1, <2>2
<1>5. CASE link.scheme = "ss"
  <2>1. engine = CatalogSsEngine(link)
    BY <1>5 DEF CatalogEngine, QuicSchemes
  <2>2. engine = SsEngineOf(link, q)
    <3> HIDE DEF engine
    <3> QED
      BY <1>1, <1>3, <2>1, OnePlugin
  <2>3. engine \in {"xray", "singbox"}
    BY <1>1, <2>2, SsEnginesAre DEF SsEngineOf
  <2>4. CredentialsOk(link) /\ Known(q, SsQuery)
    <3>1. XraySsOk(link, q) \/ SingboxSsOk(link, q)
      BY <1>1, <1>2, <1>5 DEF Accepts, XrayOk, SingboxOk
    <3> QED
      BY <3>1 DEF XraySsOk, SingboxSsOk
  <2>5. EngineForLink(link) = engine
    BY <1>2, <1>5, <2>2, <2>4 DEF EngineForLink, QuicSchemes, XraySchemes
  <2> QED
    BY <1>1, <1>3, <2>3, <2>5
<1>6. CASE link.scheme \notin QuicSchemes \cup {"ss"}
  <2>1. engine = "xray"
    BY <1>6 DEF CatalogEngine
  <2>2. link.scheme \in {"vless", "trojan", "vmess"}
    BY <1>1, <1>2, <1>6, <2>1 DEF Accepts, XrayOk, IsLink
  <2>3. EngineForLink(link) = "xray"
    BY <2>2 DEF EngineForLink, QuicSchemes, XraySchemes
  <2> QED
    BY <1>1, <1>3, <2>1, <2>3
<1> QED
  BY <1>4, <1>5, <1>6

\* Rows that have one id are one tunnel.
LEMMA SameIdSameTunnel ==
  ASSUME NEW a, IsLink(a), NEW b, IsLink(b), Canonical(a) = Canonical(b), Recognized(a)
  PROVE  Recognized(b) /\ Tunnel(a) = Tunnel(b)
<1>1. Flat(a.query)
  BY EnginesAgree
<1>2. CASE Canonical(a)[1] = "raw"
  <2>1. a = b
    BY <1>2 DEF Canonical
  <2> QED
    BY <2>1
<1>3. CASE Canonical(a)[1] = "canonical"
  <2> DEFINE x == {a.query[i] : i \in DOMAIN a.query}
             y == {b.query[i] : i \in DOMAIN b.query}
  <2>1. [a EXCEPT !.query = x] = [b EXCEPT !.query = y] /\ (b.form = "json" \/ Flat(b.query))
    BY <1>3 DEF Canonical
  <2>2. Flat(b.query)
    BY <2>1 DEF IsLink
  <2>3. /\ a.scheme = b.scheme /\ a.form = b.form /\ a.user = b.user /\ a.pass = b.pass
        /\ a.host = b.host /\ a.port = b.port /\ a.label = b.label /\ x = y
    <3> HIDE DEF x, y
    <3> QED
      BY <2>1 DEF IsLink
  <2>4. Alike(a, b)
    BY <1>1, <2>2, <2>3 DEF Alike
  <2>5. /\ EngineForLink(a) = EngineForLink(b)
        /\ \A e : (Accepts(e, a) <=> Accepts(e, b)) /\ Outbound(e, a) = Outbound(e, b)
    BY <2>4, AlikeBuildTheSame
  <2>6. Tunnel(a) = Tunnel(b)
    BY <2>3, <2>5 DEF Tunnel
  <2>7. CatalogEngine(b) = CatalogEngine(a)
    <3>1. a.scheme = "ss" /\ a.scheme \notin QuicSchemes => CatalogSsEngine(b) = CatalogSsEngine(a)
      <4> SUFFICES ASSUME a.scheme = "ss", a.scheme \notin QuicSchemes
                   PROVE  CatalogSsEngine(b) = CatalogSsEngine(a)
        OBVIOUS
      <4>1. Query(a.query) = Query(b.query)
        BY <1>1, <2>2, <2>3, OrderDoesNotCount
      <4>2. SsEngineOf(a, Query(a.query)) = SsEngineOf(b, Query(b.query))
        BY <2>3, <4>1 DEF SsEngineOf
      <4> QED
        BY <1>1, <2>2, <2>3, <4>2, OnePlugin
    <3> QED
      BY <2>3, <3>1 DEF CatalogEngine
  <2>8. Recognized(b)
    BY <2>3, <2>5, <2>7 DEF Recognized
  <2> QED
    BY <2>6, <2>8
<1> QED
  BY <1>2, <1>3 DEF Canonical

(***************************************************************************)
(* The catalog                                                             *)
(***************************************************************************)
\* The rows that are kept are first rows, each once, and all of them if the limit allows.
LEMMA KeptAreFirsts ==
  ASSUME NEW b \in Bodies
  PROVE  /\ IsFiniteSet(Firsts(b)) /\ Cardinality(Firsts(b)) \in Nat
         /\ Kept(b) \in Seq(Firsts(b))
         /\ Len(Kept(b)) <= MaxNodes
         /\ \A m, n \in 1..Len(Kept(b)) : Kept(b)[m] = Kept(b)[n] => m = n
         /\ Cardinality(Firsts(b)) <= MaxNodes =>
               \A i \in Firsts(b) : \E n \in 1..Len(Kept(b)) : Kept(b)[n] = i
<1> DEFINE S == Firsts(b)
           c == Cardinality(S)
           order == Ranked(S, Less(S))
           k == IF c < MaxNodes THEN c ELSE MaxNodes
<1>1. S \in SUBSET Nat /\ IsFiniteSet(S)
  <2>1. S \subseteq 1..Len(b.rows) /\ Len(b.rows) \in Nat
    BY BodiesAssumption DEF Firsts, Rows
  <2>2. IsFiniteSet(1..Len(b.rows))
    BY <2>1, FS_Interval
  <2> QED
    BY <2>1, <2>2, FS_Subset
<1>2. /\ c \in Nat
      /\ order \in [1..c -> S]
      /\ \A x \in S : Rank(S, Less(S), x) \in 1..c /\ order[Rank(S, Less(S), x)] = x
      /\ \A n \in 1..c : Rank(S, Less(S), order[n]) = n
  <2> HIDE DEF S
  <2>1. Orders(Less(S), S)
    BY <1>1, LessOrders
  <2> QED
    BY <1>1, <2>1, RankedListsAll
<1>3. k \in Nat /\ k <= c /\ k <= MaxNodes
  BY <1>2, LimitsAssumption
<1>4. Kept(b) = SubSeq(order, 1, k)
  <2>1. Len(order) = c
    BY <1>2
  <2> QED
    BY <2>1 DEF Kept
<1>5. /\ Kept(b) \in Seq(S) /\ Len(Kept(b)) = k
      /\ \A n \in 1..k : Kept(b)[n] = order[n]
  <2> HIDE DEF S, order, k
  <2>1. \A n \in 1..k : order[n] \in S
    BY <1>2, <1>3
  <2>2. /\ SubSeq(order, 1, k) \in Seq(S)
        /\ Len(SubSeq(order, 1, k)) = IF 1 <= k THEN k - 1 + 1 ELSE 0
        /\ \A n \in 1..k - 1 + 1 : SubSeq(order, 1, k)[n] = order[1 + n - 1]
    BY <2>1, <1>3, SubSeqProperties
  <2> QED
    BY <1>3, <1>4, <2>2
<1>6. \A m, n \in 1..k : Kept(b)[m] = Kept(b)[n] => m = n
  BY <1>2, <1>3, <1>5
<1>7. c <= MaxNodes => \A i \in S : \E n \in 1..k : Kept(b)[n] = i
  <2> SUFFICES ASSUME c <= MaxNodes, NEW i \in S PROVE \E n \in 1..k : Kept(b)[n] = i
    OBVIOUS
  <2>1. k = c
    BY <1>2, LimitsAssumption
  <2> QED
    BY <1>2, <1>5, <2>1
<1> QED
  BY <1>1, <1>2, <1>3, <1>5, <1>6, <1>7

\* What the list holds of a body.
LEMMA NodesAre ==
  ASSUME NEW b \in Bodies
  PROVE  /\ DOMAIN Nodes(b) = 1..Len(Kept(b))
         /\ \A n \in DOMAIN Nodes(b) : \E i \in Firsts(b) :
               i = Kept(b)[n] /\ Nodes(b)[n] = Node(b.rows[i])
<1>1. DOMAIN Kept(b) = 1..Len(Kept(b)) /\ \A n \in 1..Len(Kept(b)) : Kept(b)[n] \in Firsts(b)
  BY KeptAreFirsts
<1> QED
  BY <1>1 DEF Nodes

NodeFields == {"id", "kind", "recognized", "link", "profile"}
\* A node of a body, and what it is made of.
NodeOf(b, node) == \E i \in Rows(b) : node = Node(b.rows[i])

LEMMA NodesAreOfRows ==
  ASSUME NEW b \in Bodies, NEW n \in DOMAIN Nodes(b)
  PROVE  NodeOf(b, Nodes(b)[n])
BY NodesAre DEF NodeOf, Firsts

LEMMA NodeShape ==
  ASSUME NEW b \in Bodies, NEW node, NodeOf(b, node)
  PROVE  /\ DOMAIN node = NodeFields
         /\ node.kind \in {"link", "pool"}
         /\ node.kind = "link" => IsLink(node.link)
         /\ node.kind = "pool" => Json!IsProfile(node.profile)
         /\ Judged(node) = node
<1>1. PICK i \in Rows(b) : node = Node(b.rows[i])
  BY DEF NodeOf
<1>2. i \in DOMAIN b.rows /\ b.rows[i].kind \in {"link", "profile", "wrapped"}
  BY DEF Rows
<1>3. CASE b.rows[i].kind = "link"
  BY <1>1, <1>2, <1>3, BodiesAssumption DEF Node, LinkNode, Judged, NodeFields
<1>4. CASE b.rows[i].kind # "link"
  <2>1. node = PoolNode(b.rows[i]) /\ Json!IsProfile(b.rows[i].profile)
    BY <1>1, <1>2, <1>4, BodiesAssumption DEF Node
  <2>2. node.kind = "pool" /\ node.profile = b.rows[i].profile
    BY <2>1 DEF PoolNode
  <2>3. Judged(node) = node
    BY <2>1 DEF PoolNode, Judged
  <2> QED
    BY <2>1, <2>2, <2>3 DEF PoolNode, NodeFields
<1> QED
  BY <1>3, <1>4

\* A verdict on a profile that is in the file does not count.
LEMMA VerdictsAreForgotten ==
  ASSUME NEW node, DOMAIN node = NodeFields,
         node.kind = "pool", NEW v
  PROVE  Judged([node EXCEPT !.recognized = v]) = Judged(node)
BY DEF Judged, NodeFields

\* A catalog has a length.
LEMMA TextIsNat == ASSUME NEW b \in Bodies PROVE Text(b) \in Nat
<1> DEFINE kept == Kept(b)
           Part(n) == {n} \X (1..b.rows[kept[n]].size)
           Parts1 == {Part(n) : n \in DOMAIN kept}
<1>1. IsFiniteSet(DOMAIN kept)
  <2>1. DOMAIN kept = 1..Len(kept) /\ Len(kept) \in Nat
    BY KeptAreFirsts
  <2> QED
    BY <2>1, FS_Interval
<1>2. ASSUME NEW n \in DOMAIN kept PROVE IsFiniteSet(Part(n))
  <2>0. kept[n] \in Firsts(b)
    BY KeptAreFirsts
  <2>1. kept[n] \in DOMAIN b.rows
    BY <2>0 DEF Firsts, Rows
  <2>2. b.rows[kept[n]].size \in Nat
    BY <2>1, BodiesAssumption
  <2> DEFINE size == b.rows[kept[n]].size
  <2> HIDE DEF size
  <2>4. size \in Nat
    BY <2>2 DEF size
  <2>3. IsFiniteSet({n}) /\ IsFiniteSet(1..size)
    <3>1. 1 \in Int /\ size \in Int
      BY <2>4
    <3>2. IsFiniteSet({n})
      BY FS_Singleton, Zenon
    <3> QED
      BY <3>1, <3>2, FS_Interval
  <2>5. IsFiniteSet({n} \X (1..size))
    BY <2>3, FS_Product
  <2> QED
    BY <2>5 DEF size
<1>3. IsFiniteSet(Parts1)
  <2> DEFINE f == [n \in DOMAIN kept |-> Part(n)]
  <2>1. f \in Surjection(DOMAIN kept, Parts1)
    <3> HIDE DEF kept, Part
    <3> QED
      BY DEF Surjection
  <2> HIDE DEF f, Parts1, kept
  <2> QED
    BY <1>1, <2>1, FS_Surjection
<1>4. IsFiniteSet(UNION Parts1)
  <2>1. \A x \in Parts1 : IsFiniteSet(x)
    <3> HIDE DEF Part, kept
    <3> QED
      BY <1>2
  <2> HIDE DEF Parts1
  <2> QED
    BY <1>3, <2>1, FS_UNION
<1>5. Text(b) = Cardinality(UNION Parts1)
  BY DEF Text
<1> QED
  <2> HIDE DEF Parts1
  <2> QED
    BY <1>4, <1>5, FS_CardinalityType

\* What Build makes of a node.
Built(node) ==
    LET engine == IF node.kind = "link" THEN EngineForLink(node.link) ELSE "xraypool"
    IN CASE engine = "xraypool" /\ Json!ProfileOk(node.profile) ->
               [kind |-> "pool", out |-> Json!Overlaid(node.profile)]
         [] engine \in {"xray", "singbox"} /\ Accepts(engine, node.link) ->
               [kind |-> engine, out |-> Outbound(engine, node.link)]
         [] OTHER -> Refused

\* The file holds the nodes of the body, but for the verdicts on profiles.
FileInv ==
    file # None =>
        /\ BodyOk(body)
        /\ DOMAIN file = {"nodes", "size"} /\ file.size = Text(body) + 1
        /\ DOMAIN file.nodes = DOMAIN Nodes(body)
        /\ \A n \in DOMAIN Nodes(body) :
             /\ DOMAIN file.nodes[n] = NodeFields /\ file.nodes[n].id = Nodes(body)[n].id
             /\ Judged(file.nodes[n]) = Nodes(body)[n]
\* The list holds them with the verdicts, too.
ListInv == listed # None => file # None /\ listed = Nodes(body) /\ file.size <= MaxText
ChosenInv ==
    chosen # None =>
        listed # None /\ \E n \in DOMAIN listed : chosen = listed[n] /\ listed[n].recognized
\* A configuration is that of the node chosen, or there is no list to choose from.
ConfigInv ==
    config # None =>
        \/ chosen # None /\ config = Built(chosen)
        \/ /\ chosen = None /\ listed = None /\ config = Refused
           /\ file = None \/ file.size > MaxText

SubInv == body \in Bodies /\ FileInv /\ ListInv /\ ChosenInv /\ ConfigInv

LEMMA SubStarts == SubInit => SubInv
BY DEF SubInit, SubInv, FileInv, ListInv, ChosenInv, ConfigInv, Nothing

LEMMA SubGoesOn == SubInv /\ [SubNext]_subVars => SubInv'
<1> SUFFICES ASSUME SubInv, [SubNext]_subVars PROVE SubInv'
  OBVIOUS
<1>0. body \in Bodies /\ FileInv /\ ListInv /\ ChosenInv /\ ConfigInv
  BY DEF SubInv
<1>1. CASE FetchBody
  <2>1. /\ file = None /\ config = None /\ listed = None /\ chosen = None
        /\ UNCHANGED <<body, listed, chosen>>
    BY <1>0, <1>1 DEF FetchBody, Nothing, ListInv, ChosenInv
  <2>2. FileInv'
    <3>1. CASE ~BodyOk(body)
      BY <1>1, <2>1, <3>1 DEF FetchBody, FileInv
    <3>2. CASE BodyOk(body)
      <4>1. file' = [nodes |-> Nodes(body), size |-> Text(body) + 1]
        BY <1>1, <3>2 DEF FetchBody, Catalog
      <4>2. ASSUME NEW n \in DOMAIN Nodes(body)
            PROVE  DOMAIN Nodes(body)[n] = NodeFields /\ Judged(Nodes(body)[n]) = Nodes(body)[n]
        BY <1>0, NodesAreOfRows, NodeShape DEF NodeFields
      <4>3. /\ DOMAIN file' = {"nodes", "size"} /\ file'.size = Text(body) + 1
            /\ file'.nodes = Nodes(body)
        BY <4>1
      <4> QED
        BY <2>1, <3>2, <4>2, <4>3 DEF FileInv, Judged
    <3> QED
      BY <3>1, <3>2
  <2>3. config' # None => file' = None /\ config' = Refused
    BY <1>1, <2>1 DEF FetchBody
  <2> QED
    BY <1>0, <2>1, <2>2, <2>3 DEF SubInv, ListInv, ChosenInv, ConfigInv
<1>2. CASE Upgrade
  <2>1. file # None /\ listed = None /\ chosen = None /\ UNCHANGED <<body, listed, chosen, config>>
    BY <1>0, <1>2 DEF Upgrade, Nothing, ChosenInv
  <2>2. PICK n \in DOMAIN file.nodes :
           /\ file.nodes[n].kind = "pool"
           /\ file' = [file EXCEPT !.nodes[n].recognized = ~@]
    BY <1>2 DEF Upgrade
  <2> DEFINE v == ~file.nodes[n].recognized
             node == [file.nodes[n] EXCEPT !.recognized = v]
  <2>3. /\ DOMAIN file' = {"nodes", "size"} /\ file'.size = file.size
        /\ file'.nodes = [file.nodes EXCEPT ![n] = node]
    <3>1. file' = [file EXCEPT !.nodes = [file.nodes EXCEPT ![n] = node]]
      BY <2>2
    <3> HIDE DEF node
    <3> QED
      BY <1>0, <2>1, <3>1 DEF FileInv
  <2>4. Judged(node) = Judged(file.nodes[n])
    <3> HIDE DEF v
    <3> QED
      BY <1>0, <2>1, <2>2, VerdictsAreForgotten DEF FileInv, NodeFields
  <2>5. DOMAIN node = NodeFields /\ node.id = file.nodes[n].id
    <3> HIDE DEF v
    <3> QED
      BY <1>0, <2>1, <2>2 DEF FileInv, NodeFields
  <2>6. FileInv'
    <3> HIDE DEF node
    <3>1. DOMAIN file'.nodes = DOMAIN Nodes(body)
      BY <1>0, <2>1, <2>3 DEF FileInv
    <3>2. ASSUME NEW m \in DOMAIN Nodes(body)
          PROVE  /\ DOMAIN file'.nodes[m] = NodeFields /\ file'.nodes[m].id = Nodes(body)[m].id
                 /\ Judged(file'.nodes[m]) = Nodes(body)[m]
      <4>1. CASE m = n
        <5>1. file'.nodes[m] = node
          BY <1>0, <2>1, <2>3, <4>1 DEF FileInv
        <5> QED
          BY <1>0, <2>1, <2>4, <2>5, <4>1, <5>1 DEF FileInv
      <4>2. CASE m # n
        <5>1. file'.nodes[m] = file.nodes[m]
          BY <1>0, <2>1, <2>3, <4>2 DEF FileInv
        <5> QED
          BY <1>0, <2>1, <5>1 DEF FileInv
      <4> QED
        BY <4>1, <4>2
    <3> QED
      BY <1>0, <2>1, <2>3, <3>1, <3>2 DEF FileInv, Judged
  <2> QED
    BY <1>0, <2>1, <2>3, <2>6 DEF SubInv, ListInv, ChosenInv, ConfigInv
<1>3. CASE Load
  <2>1. /\ file # None /\ listed = None /\ chosen = None /\ config = None
        /\ UNCHANGED <<body, file, chosen>>
    BY <1>0, <1>3 DEF Load, Nothing, ChosenInv
  <2>2. CASE file.size > MaxText
    BY <1>0, <1>3, <2>1, <2>2 DEF Load, SubInv, FileInv, ListInv, ChosenInv, ConfigInv
  <2>3. CASE ~(file.size > MaxText)
    <3>1. listed' = [n \in DOMAIN file.nodes |-> Judged(file.nodes[n])] /\ config' = None
      BY <1>3, <2>1, <2>3 DEF Load
    <3>2. listed' = [n \in DOMAIN Nodes(body) |-> Nodes(body)[n]]
      BY <1>0, <2>1, <3>1 DEF FileInv
    <3>3. listed' = Nodes(body)
      BY <3>2 DEF Nodes
    <3>4. file.size <= MaxText
      <4>1. Text(body) <= MaxText /\ file.size = Text(body) + 1
        BY <1>0, <2>1 DEF FileInv, BodyOk, Fits
      <4>2. Text(body) \in Nat /\ MaxText \in Nat
        BY <1>0, TextIsNat, LimitsAssumption
      <4> QED
        BY <2>3, <4>1, <4>2
    <3> QED
      BY <1>0, <2>1, <3>1, <3>3, <3>4 DEF SubInv, FileInv, ListInv, ChosenInv, ConfigInv
  <2> QED
    BY <2>2, <2>3
<1>4. CASE listed # Nothing /\ \E n \in DOMAIN listed : Extract(n)
  <2>1. PICK n \in DOMAIN listed : Extract(n)
    BY <1>4
  <2>2. /\ listed # None /\ chosen = None /\ chosen' = listed[n] /\ listed[n].recognized
        /\ UNCHANGED <<body, file, listed, config>>
    BY <2>1 DEF Extract, Nothing
  <2> QED
    BY <1>0, <2>1, <2>2 DEF SubInv, FileInv, ListInv, ChosenInv, ConfigInv
<1>5. CASE Build
  <2>1. chosen # None /\ config' = Built(chosen) /\ UNCHANGED <<body, file, listed, chosen>>
    BY <1>5 DEF Build, Built, Nothing
  <2> QED
    BY <1>0, <2>1 DEF SubInv, FileInv, ListInv, ChosenInv, ConfigInv
<1>6. CASE UNCHANGED subVars
  BY <1>0, <1>6 DEF subVars, SubInv, FileInv, ListInv, ChosenInv, ConfigInv
<1> QED
  BY <1>1, <1>2, <1>3, <1>4, <1>5, <1>6 DEF SubNext

\* Each row has its id from a first row.
LEMMA FirstHasIt ==
  ASSUME NEW b \in Bodies, NEW i \in Rows(b)
  PROVE  \E j \in Firsts(b) : Id(b.rows[j]) = Id(b.rows[i])
<1> DEFINE same == {j \in Rows(b) : Id(b.rows[j]) = Id(b.rows[i])}
<1>1. same \in SUBSET Nat
  <2>1. DOMAIN b.rows \subseteq Nat
    BY BodiesAssumption
  <2> QED
    BY <2>1 DEF Rows
<1>2. same # {}
  OBVIOUS
<1>3. PICK j \in same : \A k \in same : j <= k
  <2> HIDE DEF same
  <2> QED
    BY <1>1, <1>2, LeastExists
<1>4. \A k \in Rows(b) : k < j => Id(b.rows[k]) # Id(b.rows[j])
  <2> SUFFICES ASSUME NEW k \in Rows(b), k < j, Id(b.rows[k]) = Id(b.rows[j])
               PROVE  FALSE
    OBVIOUS
  <2>1. k \in same
    BY <1>3
  <2>2. j <= k /\ j \in Nat /\ k \in Nat
    BY <1>1, <1>3, <2>1
  <2> QED
    BY <2>2
<1> QED
  BY <1>3, <1>4 DEF Firsts

\* A link and a profile have different ids.
LEMMA IdsTell ==
  ASSUME NEW row, NEW other, row.kind = "link", Id(row) = Id(other)
  PROVE  other.kind = "link" /\ Canonical(row.link) = Canonical(other.link)
<1>1. Id(row) = Canonical(row.link)
  BY DEF Id
<1>2. Canonical(row.link)[1] \in {"raw", "canonical"}
  BY DEF Canonical
<1>3. other.kind # "link" => Id(other)[1] = "profile"
  BY DEF Id
<1>4. other.kind = "link" => Id(other) = Canonical(other.link)
  BY DEF Id
<1> QED
  BY <1>1, <1>2, <1>3, <1>4

LEMMA TunnelsAreOffered == SubInv => OffersEveryTunnel
<1> SUFFICES ASSUME SubInv, listed # None, Cardinality(Firsts(body)) <= MaxNodes,
                    NEW i \in Rows(body), Usable(body.rows[i])
             PROVE  \E n \in DOMAIN listed :
                       /\ listed[n].kind = "link" /\ listed[n].recognized
                       /\ Tunnel(listed[n].link) = Tunnel(body.rows[i].link)
  BY DEF OffersEveryTunnel
<1> DEFINE row == body.rows[i]
<1>1. body \in Bodies /\ listed = Nodes(body)
  BY DEF SubInv, ListInv
<1>2. PICK j \in Firsts(body) : Id(body.rows[j]) = Id(row)
  BY <1>1, FirstHasIt
<1> DEFINE other == body.rows[j]
<1>3. row.kind = "link" /\ Recognized(row.link) /\ i \in DOMAIN body.rows /\ j \in DOMAIN body.rows
  BY <1>2 DEF Usable, Rows, Firsts
<1>4. other.kind = "link" /\ Canonical(row.link) = Canonical(other.link)
  BY <1>2, <1>3, IdsTell
<1>5. IsLink(row.link) /\ IsLink(other.link)
  BY <1>1, <1>3, <1>4, BodiesAssumption
<1>6. Recognized(other.link) /\ Tunnel(row.link) = Tunnel(other.link)
  BY <1>3, <1>4, <1>5, SameIdSameTunnel
<1>7. PICK n \in DOMAIN Nodes(body) : Kept(body)[n] = j
  BY <1>1, KeptAreFirsts, NodesAre
<1>8. Nodes(body)[n] = Node(other)
  BY <1>1, <1>7, NodesAre
<1>9. /\ Node(other).kind = "link" /\ Node(other).link = other.link
      /\ Node(other).recognized = Recognized(other.link)
  BY <1>4 DEF Node, LinkNode
<1> QED
  BY <1>1, <1>6, <1>7, <1>8, <1>9

\* What is recognized is built.
LEMMA RecognizedIsBuilt ==
  ASSUME NEW b \in Bodies, NEW node, NodeOf(b, node), node.recognized
  PROVE  Built(node).kind # "refused"
<1>1. PICK i \in Rows(b) : node = Node(b.rows[i])
  BY DEF NodeOf
<1>2. i \in DOMAIN b.rows /\ b.rows[i].kind \in {"link", "profile", "wrapped"}
  BY DEF Rows
<1>3. CASE b.rows[i].kind = "link"
  <2> DEFINE link == b.rows[i].link
  <2>1. node.kind = "link" /\ node.link = link /\ node.recognized = Recognized(link)
    BY <1>1, <1>3 DEF Node, LinkNode
  <2>2. IsLink(link) /\ Recognized(link)
    BY <1>2, <1>3, <2>1, BodiesAssumption
  <2>3. EngineForLink(link) \in {"xray", "singbox"} /\ Accepts(EngineForLink(link), link)
    BY <2>2, EnginesAgree
  <2> QED
    BY <2>1, <2>3 DEF Built
<1>4. CASE b.rows[i].kind # "link"
  <2>1. node.kind = "pool" /\ Json!ProfileOk(node.profile)
    BY <1>1, <1>4 DEF Node, PoolNode
  <2> QED
    BY <2>1 DEF Built
<1> QED
  BY <1>3, <1>4

LEMMA OffersAreBuilt == SubInv => OfferedBuilds
<1> SUFFICES ASSUME SubInv, chosen # None, config # None PROVE config.kind # "refused"
  BY DEF OfferedBuilds
<1>1. PICK n \in DOMAIN listed : chosen = listed[n] /\ listed[n].recognized
  BY DEF SubInv, ChosenInv
<1>2. listed = Nodes(body) /\ body \in Bodies /\ config = Built(chosen)
  BY DEF SubInv, ListInv, ChosenInv, ConfigInv
<1>3. NodeOf(body, chosen)
  BY <1>1, <1>2, NodesAreOfRows
<1> QED
  BY <1>1, <1>2, <1>3, RecognizedIsBuilt

LEMMA CatalogOpens == SubInv => SavedOpens
<1> SUFFICES ASSUME SubInv, file # None, ~ExactlyFull, listed = None, config # None PROVE FALSE
  BY DEF SavedOpens
<1>1. file.size > MaxText
  BY DEF SubInv, ChosenInv, ConfigInv
<1>2. file.size = Text(body) + 1 /\ Text(body) <= MaxText /\ Text(body) # MaxText
  BY DEF SubInv, FileInv, BodyOk, Fits, ExactlyFull
<1>3. Text(body) \in Nat /\ MaxText \in Nat
  BY TextIsNat, LimitsAssumption DEF SubInv
<1> QED
  BY <1>1, <1>2, <1>3

\* What a profile becomes.
LEMMA ProfilesBecome == SubInv => ProfileIsContained
<1> SUFFICES ASSUME SubInv, IsPool PROVE RoutesKept /\ NothingSmuggled
  BY DEF ProfileIsContained, RoutesKept, NothingSmuggled
<1>1. config # None /\ config.kind = "pool"
  BY DEF IsPool
<1>2. Refused.kind # "pool"
  BY DEF Refused
<1>3. chosen # None /\ config = Built(chosen)
  BY <1>1, <1>2 DEF SubInv, ConfigInv
<1>4. body \in Bodies /\ NodeOf(body, chosen)
  BY <1>3, NodesAreOfRows DEF SubInv, ChosenInv, ListInv
<1> DEFINE p == chosen.profile
<1>5. EngineForLink(chosen.link) \in {"", "xray", "singbox"}
  BY SsEnginesAre DEF EngineForLink, SsEngineOf
<1>6. /\ chosen.kind # "link" /\ Json!ProfileOk(p)
      /\ config = [kind |-> "pool", out |-> Json!Overlaid(p)]
  BY <1>1, <1>2, <1>3, <1>5 DEF Built
<1>7. Json!IsProfile(p)
  BY <1>4, <1>6, NodeShape
<1> DEFINE o == config.out
<1>8. o = Json!Overlaid(p)
  BY <1>6
<1>9. /\ Json!SameRoutes(p, o) /\ Json!SameRoutes(p, Json!Probed(p)) /\ ~Json!Dangling(o)
      /\ Json!Dialled(o) \cap Private = {}
      /\ \A i \in DOMAIN o.inbounds : o.inbounds[i].protocol = "wireguard"
      /\ \A m \in o.strays : m.field # "inbounds"
      /\ o.services \cap Json!ControlBlocks = {}
  <2> HIDE DEF p, o
  <2> QED
    BY <1>6, <1>7, <1>8, AcceptedIsContained DEF p, o
<1> QED
  BY <1>9 DEF RoutesKept, NothingSmuggled

\* The part of TypeOK that is about the catalog.
CatalogTyped ==
    /\ file # None => /\ Len(file.nodes) \in 1..MaxNodes
                      /\ \A m, n \in DOMAIN file.nodes :
                            file.nodes[m].id = file.nodes[n].id => m = n
    /\ listed # None => file # None /\ DOMAIN listed = DOMAIN file.nodes
    /\ chosen # None => \E n \in DOMAIN listed : listed[n] = chosen

LEMMA CatalogIsTyped == SubInv => CatalogTyped
<1> SUFFICES ASSUME SubInv PROVE CatalogTyped
  OBVIOUS
<1>1. ASSUME file # None
      PROVE  /\ Len(file.nodes) \in 1..MaxNodes
             /\ \A m, n \in DOMAIN file.nodes : file.nodes[m].id = file.nodes[n].id => m = n
  <2> DEFINE k == Len(Kept(body))
  <2>1. /\ body \in Bodies /\ BodyOk(body) /\ DOMAIN file.nodes = DOMAIN Nodes(body)
        /\ \A n \in DOMAIN Nodes(body) : file.nodes[n].id = Nodes(body)[n].id
    BY <1>1 DEF SubInv, FileInv
  <2>2. DOMAIN file.nodes = 1..k /\ k \in Nat /\ k <= MaxNodes
    BY <2>1, NodesAre, KeptAreFirsts
  <2>3. k # 0
    BY <2>1, <2>2 DEF BodyOk
  <2>4. Len(file.nodes) = k
    <3> HIDE DEF k
    <3> QED
      BY <2>2
  <2>5. Len(file.nodes) \in 1..MaxNodes
    BY <2>2, <2>3, <2>4, LimitsAssumption
  <2>6. ASSUME NEW m \in 1..k, NEW n \in 1..k, Nodes(body)[m].id = Nodes(body)[n].id
        PROVE  m = n
    <3> DEFINE i == Kept(body)[m]
               j == Kept(body)[n]
    <3>1. i \in Firsts(body) /\ j \in Firsts(body)
      BY <2>1, KeptAreFirsts
    <3>2. Nodes(body)[m] = Node(body.rows[i]) /\ Nodes(body)[n] = Node(body.rows[j])
      BY <2>1, NodesAre
    <3>3. i \in Rows(body) /\ j \in Rows(body) /\ i \in Nat /\ j \in Nat
      BY <2>1, <3>1, BodiesAssumption DEF Firsts, Rows
    <3>4. Id(body.rows[i]) = Id(body.rows[j])
      BY <2>6, <3>2 DEF Node, LinkNode, PoolNode
    <3>5. i = j
      BY <3>1, <3>3, <3>4 DEF Firsts
    <3> QED
      BY <2>1, <3>5, KeptAreFirsts
  <2> QED
    BY <2>1, <2>2, <2>5, <2>6
<1>2. listed # None => file # None /\ DOMAIN listed = DOMAIN file.nodes
  BY DEF SubInv, ListInv, FileInv
<1>3. chosen # None => \E n \in DOMAIN listed : listed[n] = chosen
  BY DEF SubInv, ChosenInv
<1> QED
  BY <1>1, <1>2, <1>3 DEF CatalogTyped

SubPart == IF part = "subscription" THEN SubInv ELSE SubRests

LEMMA SubPartHolds == Spec => []SubPart
<1>1. Init => SubPart
  BY SubStarts DEF Init, SubPart
<1>2. SubPart /\ [Next]_vars => SubPart'
  <2> SUFFICES ASSUME SubPart, [Next]_vars PROVE SubPart'
    OBVIOUS
  <2>1. CASE part = "subscription"
    BY <2>1, OneMoves, SubGoesOn DEF SubPart
  <2>2. CASE part # "subscription"
    BY <2>2, OneMoves DEF SubPart, SubRests, subVars
  <2> QED
    BY <2>1, <2>2
<1> QED
  BY <1>1, <1>2, PTL DEF Spec

\* A profile of any provider that is in use routes what enters by the WireGuard inbound as
\* the profile routes what enters by the inbound it replaces, and makes the core dial,
\* open and start nothing else, whatever the profile holds, however it is spelled.
THEOREM ProfilesAreContained == Spec => []ProfileIsContained
<1>1. SubPart => ProfileIsContained
  BY ProfilesBecome
  DEF SubPart, SubRests, ProfileIsContained, RoutesKept, NothingSmuggled, IsPool
<1> QED
  BY SubPartHolds, <1>1, PTL

(***************************************************************************)
(* The AmneziaWG menu                                                      *)
(***************************************************************************)
\* The list of a directory has each of its profiles once.
LEMMA ListedIs ==
  ASSUME NEW d, IsDirectory(d)
  PROVE  /\ IsFiniteSet(DOMAIN d) /\ Cardinality(DOMAIN d) \in 0..Cardinality(Ids)
         /\ Awg!Listed(d) \in [1..Cardinality(DOMAIN d) -> DOMAIN d]
         /\ \A id \in DOMAIN d : \E n \in 1..Cardinality(DOMAIN d) : Awg!Listed(d)[n] = id
<1> DEFINE ids == DOMAIN d
           R == {p \in ids \X ids : \/ d[p[1]].name < d[p[2]].name
                                    \/ d[p[1]].name = d[p[2]].name /\ p[1] < p[2]}
<1>1. ids \subseteq Ids /\ ids \subseteq Nat /\ \A id \in ids : d[id].name \in Nat
  BY IdsAssumption DEF IsDirectory
<1>2. IsFiniteSet(ids) /\ Cardinality(ids) \in 0..Cardinality(Ids)
  <2>1. IsFiniteSet(ids) /\ Cardinality(ids) <= Cardinality(Ids)
    BY <1>1, IdsAssumption, FS_Subset
  <2>2. Cardinality(ids) \in Nat /\ Cardinality(Ids) \in Nat
    BY <2>1, IdsAssumption, FS_CardinalityType
  <2> QED
    BY <2>1, <2>2
<1>3. Orders(R, ids)
  <2> DEFINE name == [id \in ids |-> d[id].name]
  <2>1. \A id \in ids : name[id] \in Nat /\ id \in Nat
    BY <1>1
  <2>2. \A x, y \in ids : <<x, y>> \in R <=> name[x] < name[y] \/ (name[x] = name[y] /\ x < y)
    OBVIOUS
  <2> HIDE DEF name, R, ids
  <2> QED
    BY <2>1, <2>2 DEF Orders
<1>4. Awg!Listed(d) = Ranked(ids, R)
  <2>1. Awg!Listed(d) = Awg!Ranked(ids, R)
    BY DEF Awg!Listed
  <2>2. ASSUME NEW S, NEW T PROVE Awg!Ranked(S, T) = Ranked(S, T)
    BY DEF Awg!Ranked, Awg!Rank, Awg!Cardinality, Ranked, Rank, Cardinality
  <2> QED
    BY <2>1, <2>2
<1>5. /\ Ranked(ids, R) \in [1..Cardinality(ids) -> ids]
      /\ \A id \in ids : /\ Rank(ids, R, id) \in 1..Cardinality(ids)
                         /\ Ranked(ids, R)[Rank(ids, R, id)] = id
  <2> HIDE DEF ids, R
  <2> QED
    BY <1>2, <1>3, RankedListsAll
<1> QED
  <2> HIDE DEF R
  <2> QED
    BY <1>2, <1>4, <1>5

AwgTyped == IsDirectory(dir) /\ changes \in 0..MaxChanges
ShownInv == map # Unpicked => IsDirectory(shown) /\ map = Awg!Listed(shown)
PickedInv ==
    /\ map = Unpicked => number = 0 /\ selected = Unpicked
    /\ number # 0 => number \in DOMAIN map
    /\ selected # Unpicked => number \in DOMAIN map /\ selected = map[number]
BuiltInv ==
    endpoint # Unpicked => /\ Awg!IsText(endpoint.lines) /\ Awg!ProfileOk(endpoint.lines)
                           /\ endpoint.json = Awg!Endpoint(endpoint.lines)

AwgInv == AwgTyped /\ ShownInv /\ PickedInv /\ BuiltInv

LEMMA AwgStarts == AwgInit => AwgInv
BY IdsAssumption, TextsAssumption
DEF AwgInit, AwgInv, AwgTyped, ShownInv, PickedInv, BuiltInv

LEMMA AwgGoesOn == AwgInv /\ [AwgNext]_awgVars => AwgInv'
<1> SUFFICES ASSUME AwgInv, [AwgNext]_awgVars PROVE AwgInv'
  OBVIOUS
<1>0. AwgTyped /\ ShownInv /\ PickedInv /\ BuiltInv
  BY DEF AwgInv
<1>1. CASE List
  BY <1>0, <1>1 DEF List, AwgInv, AwgTyped, ShownInv, PickedInv, BuiltInv
<1>2. CASE map # Unpicked /\ \E n \in DOMAIN map : Choose(n)
  BY <1>0, <1>2 DEF Choose, AwgInv, AwgTyped, ShownInv, PickedInv, BuiltInv
<1>3. CASE Select
  <2>1. selected \in DOMAIN dir /\ Awg!ProfileOk(dir[selected].lines)
    BY <1>3 DEF Select, Awg!Picked
  <2>2. /\ endpoint'.lines = dir[selected].lines
        /\ endpoint'.json = Awg!Endpoint(dir[selected].lines)
        /\ UNCHANGED <<dir, shown, map, number, selected, changes>>
    BY <1>3 DEF Select
  <2> QED
    BY <1>0, <2>1, <2>2 DEF AwgInv, AwgTyped, IsDirectory, ShownInv, PickedInv, BuiltInv
<1>4. CASE Change
  <2>1. changes' \in 0..MaxChanges /\ UNCHANGED <<shown, map, number, selected, endpoint>>
    BY <1>0, <1>4, IdsAssumption DEF Change, AwgTyped
  <2>2. IsDirectory(dir')
    <3>1. ASSUME NEW id \in Ids, NEW name \in Names, NEW lines \in Edits,
                 dir' = [i \in DOMAIN dir \cup {id} |->
                           IF i = id THEN [name |-> name, lines |-> lines] ELSE dir[i]]
          PROVE  IsDirectory(dir')
      BY <1>0, <3>1, TextsAssumption DEF AwgTyped, IsDirectory
    <3>2. ASSUME NEW id \in DOMAIN dir, NEW lines \in Edits,
                 dir' = [dir EXCEPT ![id].lines = lines]
          PROVE  IsDirectory(dir')
      BY <1>0, <3>2, TextsAssumption DEF AwgTyped, IsDirectory
    <3>3. ASSUME NEW id \in DOMAIN dir, NEW name \in Names,
                 dir' = [dir EXCEPT ![id].name = name]
          PROVE  IsDirectory(dir')
      BY <1>0, <3>3 DEF AwgTyped, IsDirectory
    <3>4. ASSUME NEW id \in DOMAIN dir, dir' = [i \in DOMAIN dir \ {id} |-> dir[i]]
          PROVE  IsDirectory(dir')
      BY <1>0, <3>4 DEF AwgTyped, IsDirectory
    <3> QED
      BY <1>4, <3>1, <3>2, <3>3, <3>4 DEF Change
  <2> QED
    BY <1>0, <2>1, <2>2 DEF AwgInv, AwgTyped, ShownInv, PickedInv, BuiltInv
<1>5. CASE UNCHANGED awgVars
  BY <1>0, <1>5 DEF awgVars, AwgInv, AwgTyped, IsDirectory, ShownInv, PickedInv, BuiltInv
<1> QED
  BY <1>1, <1>2, <1>3, <1>4, <1>5 DEF AwgNext
\* Fewer values than a word has do not wrap.
LEMMA FewDoNotWrap ==
  ASSUME NEW max \in Nat, NEW low \in 0..max, NEW high \in low..max, <<low, high>> # <<0, max>>
  PROVE  (high - low + 1) % (max + 1) # 0
<1>1. high - low + 1 \in 1..max
  OBVIOUS
<1>2. \A n \in 1..max : n % (max + 1) = n
  OBVIOUS
<1> QED
  BY <1>1, <1>2

\* The headers.
LEMMA HeadersAreApart == AwgInv => HeadersApart
<1> SUFFICES ASSUME AwgInv, endpoint # Unpicked PROVE HeadersApart
  BY DEF HeadersApart
<1> DEFINE s == Awg!Interface(endpoint.lines)
           range(h) == RangeOf[s[h]]
           given == {h \in Awg!H : Awg!Given(s, h)}
<1>1. Awg!HeadersOk(s)
  BY DEF AwgInv, BuiltInv, Awg!ProfileOk, Awg!InterfaceOk
<1> HIDE DEF s
<1>2. ASSUME NEW h \in given
      PROVE  /\ range(h)[1] \in 0..MaxWord /\ range(h)[2] \in range(h)[1]..MaxWord
             /\ <<range(h)[1], range(h)[2]>> # <<0, MaxWord>>
  <2>1. s[h] \in DOMAIN RangeOf
    BY <1>1 DEF Awg!HeadersOk, Awg!IsRange
  <2>2. range(h) = <<range(h)[1], range(h)[2]>>
    BY <2>1, RangesAssumption
  <2>3. /\ range(h)[1] \in 0..MaxWord /\ range(h)[2] \in range(h)[1]..MaxWord
        /\ range(h) # <<0, MaxWord>>
    BY <1>1 DEF Awg!HeadersOk, Awg!IsRange
  <2> QED
    BY <2>2, <2>3
<1>3. ASSUME NEW g \in given, NEW h \in given, g # h
      PROVE  (range(g)[1]..range(g)[2]) \cap (range(h)[1]..range(h)[2]) = {}
  <2>1. range(g)[2] < range(h)[1] \/ range(h)[2] < range(g)[1]
    BY <1>1, <1>3 DEF Awg!HeadersOk, Awg!Apart
  <2> DEFINE a == range(g)[1]
             b == range(g)[2]
             c == range(h)[1]
             d == range(h)[2]
  <2>2. a \in Int /\ b \in Int /\ c \in Int /\ d \in Int
    BY <1>2, RangesAssumption
  <2> HIDE DEF a, b, c, d
  <2>3. b < c \/ d < a => (a..b) \cap (c..d) = {}
    BY <2>2
  <2> QED
    BY <2>1, <2>3 DEF a, b, c, d
<1>4. ASSUME NEW h \in given
      PROVE  (range(h)[2] - range(h)[1] + 1) % (MaxWord + 1) # 0
  <2> DEFINE low == range(h)[1]
             high == range(h)[2]
  <2>1. low \in 0..MaxWord /\ high \in low..MaxWord /\ <<low, high>> # <<0, MaxWord>>
    BY <1>2
  <2> HIDE DEF low, high
  <2>2. (high - low + 1) % (MaxWord + 1) # 0
    BY <2>1, RangesAssumption, FewDoNotWrap
  <2> QED
    BY <2>2 DEF low, high
<1> QED
  BY <1>3, <1>4 DEF HeadersApart, s

\* The choice.
LEMMA PickedAsShown == AwgInv => PickedIsShown
BY DEF AwgInv, ShownInv, PickedInv, PickedIsShown
(***************************************************************************)
(* AmneziaWG profiles                                                      *)
(***************************************************************************)
\* The line that opens a section is the last one before.
LEMMA SectionIs ==
  ASSUME NEW lines, Awg!IsText(lines), NEW i \in DOMAIN lines
  PROVE  /\ Awg!Section(lines, i) # 0 => Awg!Section(lines, i) \in Awg!Sections(lines)
         /\ \A s \in Awg!Sections(lines) :
               Awg!Section(lines, i) = s <=>
                   s <= i /\ \A k \in Awg!Sections(lines) : k <= i => k <= s
<1> DEFINE all == Awg!Sections(lines)
           earlier == {j \in all : j <= i}
           last == CHOOSE j \in earlier : \A k \in earlier : k <= j
<1>1. all \in SUBSET (1..Len(lines)) /\ Len(lines) \in Nat /\ i \in 1..Len(lines)
  BY DEF Awg!Sections, Awg!IsText
<1>2. Awg!Section(lines, i) = IF earlier = {} THEN 0 ELSE last
  BY DEF Awg!Section
<1> HIDE DEF all
<1>3. earlier # {} => last \in earlier /\ \A k \in earlier : k <= last
  <2> SUFFICES ASSUME earlier # {} PROVE last \in earlier /\ \A k \in earlier : k <= last
    OBVIOUS
  <2>1. earlier \in SUBSET (0..Len(lines))
    <3>1. \A j \in earlier : j \in 0..Len(lines)
      BY <1>1
    <3> QED
      BY <3>1
  <2>2. \E j \in earlier : \A k \in earlier : k <= j
    <3> HIDE DEF earlier
    <3> QED
      BY <1>1, <2>1, GreatestExists
  <2> QED
    BY <2>2
<1> HIDE DEF last
<1> QED
  BY <1>1, <1>2, <1>3 DEF all

\* The line of a text that comes to a place when line i is taken out.
Old(i, j) == IF j < i THEN j ELSE j + 1

\* A section keeps its other lines when a setting is taken out after its beginning.
LEMMA SectionsStay ==
  ASSUME NEW lines, Awg!IsText(lines), NEW i \in DOMAIN lines, lines[i].kind = "setting",
         NEW less, less = WithoutLine(lines, i)
  PROVE  /\ Awg!IsText(less) /\ \A j \in DOMAIN less : less[j] = lines[Old(i, j)]
         /\ \A t \in Awg!Sections(lines) : t < i => t \in Awg!Sections(less) /\ less[t] = lines[t]
         /\ \A t \in Awg!Sections(lines) : t < i =>
               \A j \in DOMAIN less : j \in Awg!In(less, t) <=> Old(i, j) \in Awg!In(lines, t)
<1> DEFINE n == Len(lines)
           all == Awg!Sections(lines)
           left == Awg!Sections(less)
<1>1. n \in Nat /\ DOMAIN lines = 1..n /\ i \in 1..n /\ i \notin all /\ all \subseteq 1..n
  BY DEF Awg!IsText, Awg!Sections
<1>2. /\ Len(less) = n - 1 /\ DOMAIN less = 1..n - 1
      /\ \A j \in DOMAIN less : less[j] = IF j < i THEN lines[j] ELSE lines[j + 1]
  BY WithoutIs DEF Awg!IsText
<1> HIDE DEF n
<1>3. \A j \in 1..n - 1 : Old(i, j) \in 1..n /\ Old(i, j) # i
  BY <1>1 DEF Old
<1>4. \A j \in 1..n - 1 : less[j] = lines[Old(i, j)]
  BY <1>1, <1>2 DEF Old
<1>5. Awg!IsText(less)
  <2>1. Len(less) \in Nat
    BY <1>1, <1>2
  <2> QED
    BY <1>1, <1>2, <1>3, <1>4, <2>1 DEF Awg!IsText
<1>6. left \subseteq 1..n - 1 /\ \A j \in 1..n - 1 : j \in left <=> Old(i, j) \in all
  BY <1>1, <1>2, <1>3, <1>4 DEF Awg!Sections
<1> HIDE DEF all, left
<1>7. ASSUME NEW t \in all, t < i PROVE t \in left /\ less[t] = lines[t]
  <2>1. t \in 1..n - 1 /\ Old(i, t) = t
    BY <1>1, <1>7 DEF Old
  <2> QED
    BY <1>4, <1>6, <1>7, <2>1
<1>8. ASSUME NEW t \in all, t < i, NEW j \in 1..n - 1, j \notin left
      PROVE  Awg!Section(less, j) = t <=> Awg!Section(lines, Old(i, j)) = t
  <2> DEFINE m == Old(i, j)
  <2>1. m \in 1..n /\ m # i /\ m \notin all /\ t \in 1..n /\ j \in Nat
    BY <1>1, <1>3, <1>6, <1>8
  <2>2. Awg!Section(less, j) = t <=> t <= j /\ \A k \in left : k <= j => k <= t
    BY <1>2, <1>5, <1>7, <1>8, SectionIs DEF left
  <2>3. Awg!Section(lines, m) = t <=> t <= m /\ \A k \in all : k <= m => k <= t
    <3> HIDE DEF m
    <3> QED
      BY <1>1, <2>1, SectionIs DEF all
  <2>4. ASSUME t <= m, \A k \in all : k <= m => k <= t
        PROVE  t <= j /\ \A k \in left : k <= j => k <= t
    <3>1. t <= j
      BY <1>1, <1>8, <2>1, <2>4 DEF Old
    <3>2. ASSUME NEW k \in left, k <= j PROVE k <= t
      <4>1. k \in 1..n - 1 /\ Old(i, k) \in all
        BY <1>6
      <4>2. Old(i, k) <= m /\ k <= Old(i, k) /\ Old(i, k) \in Nat
        BY <1>1, <3>2, <4>1 DEF Old
      <4>3. Old(i, k) <= t
        BY <2>4, <4>1, <4>2
      <4> QED
        BY <1>1, <2>1, <4>1, <4>2, <4>3
    <3> QED
      BY <3>1, <3>2
  <2>5. ASSUME t <= j, \A k \in left : k <= j => k <= t
        PROVE  t <= m /\ \A k \in all : k <= m => k <= t
    <3>1. t <= m
      BY <1>1, <2>1, <2>5 DEF Old
    <3>2. ASSUME NEW k \in all, k <= m PROVE k <= t
      <4>1. k \in 1..n /\ k # i
        BY <1>1
      <4>2. CASE k < i
        <5>1. k \in 1..n - 1 /\ Old(i, k) = k /\ k <= j
          BY <1>1, <2>1, <3>2, <4>1, <4>2 DEF Old
        <5> QED
          BY <1>6, <2>5, <5>1
      <4>3. CASE k > i
        <5>1. k - 1 \in 1..n - 1 /\ Old(i, k - 1) = k /\ k - 1 <= j
          BY <1>1, <2>1, <3>2, <4>1, <4>3 DEF Old
        <5>2. k - 1 <= t
          BY <1>6, <2>5, <5>1
        <5> QED
          BY <1>1, <1>8, <2>1, <4>1, <4>3, <5>2
      <4> QED
        BY <1>1, <4>1, <4>2, <4>3
    <3> QED
      BY <3>1, <3>2
  <2> QED
    BY <2>2, <2>3, <2>4, <2>5
<1>9. ASSUME NEW t \in all, t < i, NEW j \in 1..n - 1
      PROVE  j \in Awg!In(less, t) <=> Old(i, j) \in Awg!In(lines, t)
  <2>1. CASE j \in left
    BY <1>6, <2>1 DEF Awg!In, all, left
  <2>2. CASE j \notin left
    BY <1>1, <1>2, <1>3, <1>6, <1>8, <1>9, <2>2 DEF Awg!In, all, left
  <2> QED
    BY <2>1, <2>2
<1> QED
  BY <1>2, <1>4, <1>5, <1>7, <1>9 DEF all, left
\* A setting of a section that names none twice has the value of its line.
LEMMA SettingIs ==
  ASSUME NEW lines, Awg!IniOk(lines), NEW s \in Awg!Sections(lines), NEW j \in Awg!In(lines, s)
  PROVE  /\ Awg!Canonical(lines[j].key) \in DOMAIN Awg!Settings(lines, s)
         /\ Awg!Settings(lines, s)[Awg!Canonical(lines[j].key)] = lines[j].value
<1> DEFINE key(i) == Awg!Canonical(lines[i].key)
           in == Awg!In(lines, s)
<1>1. \A i, k \in in : key(i) = key(k) => i = k
  BY DEF Awg!IniOk
<1>2. key(j) \in DOMAIN Awg!Settings(lines, s)
  BY DEF Awg!Settings
<1>3. Awg!Settings(lines, s)[key(j)] = lines[CHOOSE i \in in : key(i) = key(j)].value
  BY DEF Awg!Settings
<1>4. (CHOOSE i \in in : key(i) = key(j)) = j
  <2> HIDE DEF key, in
  <2>1. j \in in
    BY DEF in
  <2> QED
    BY <1>1, <2>1
<1> QED
  BY <1>2, <1>3, <1>4

\* The sections of a text that is accepted.
LEMMA SectionsAre ==
  ASSUME NEW lines, Awg!IsText(lines), Awg!IniOk(lines)
  PROVE  /\ \A s \in Awg!Sections(lines) : lines[s].name \in {"interface", "peer"}
         /\ \A s \in Awg!Sections(lines) :
               lines[s].name = "interface" => Awg!Interface(lines) = Awg!Settings(lines, s)
         /\ DOMAIN Awg!Peers(lines) \subseteq Nat
         /\ \A s \in Awg!Sections(lines) :
               lines[s].name = "peer" =>
                   \E n \in DOMAIN Awg!Peers(lines) : Awg!Peers(lines)[n] = Awg!Settings(lines, s)
<1> DEFINE all == Awg!Sections(lines)
           first == Awg!Named(lines, "interface")
           peers == Awg!Named(lines, "peer")
<1>1. /\ \A s \in all : lines[s].name \in {"interface", "peer"}
      /\ \A s \in all : s \in first <=> lines[s].name = "interface"
      /\ \A s \in all : s \in peers <=> lines[s].name = "peer"
      /\ first \subseteq all /\ peers \subseteq all
  BY DEF Awg!IniOk, Awg!Named
<1>2. all \in SUBSET Nat /\ IsFiniteSet(all)
  <2>1. all \subseteq 1..Len(lines) /\ Len(lines) \in Nat
    BY DEF Awg!Sections, Awg!IsText
  <2>2. IsFiniteSet(1..Len(lines))
    BY <2>1, FS_Interval
  <2> QED
    BY <2>1, <2>2, FS_Subset
<1>3. \A s \in all : lines[s].name = "interface" => Awg!Interface(lines) = Awg!Settings(lines, s)
  <2>1. Cardinality(first) = 1
    <3>1. Awg!Cardinality(first) = 1
      BY Zenon DEF Awg!IniOk
    <3>2. ASSUME NEW S PROVE Awg!Cardinality(S) = Cardinality(S)
      BY DEF Awg!Cardinality, Cardinality
    <3> QED
      BY <3>1, <3>2
  <2>2. IsFiniteSet(first)
    BY <1>1, <1>2, FS_Subset
  <2>3. PICK x : first = {x}
    <3> HIDE DEF first
    <3> QED
      BY <2>1, <2>2, FS_Singleton
  <2>4. (CHOOSE s \in all : lines[s].name = "interface") = x
    <3>1. \A s \in all : lines[s].name = "interface" <=> s = x
      BY <1>1, <2>3
    <3>2. x \in all
      BY <1>1, <2>3
    <3> HIDE DEF all
    <3> QED
      BY <3>1, <3>2
  <2> QED
    BY <1>1, <2>3, <2>4 DEF Awg!Interface
<1>4. /\ DOMAIN Awg!Peers(lines) = 1..Cardinality(peers)
      /\ \A n \in 1..Cardinality(peers) :
            Awg!Peers(lines)[n] = Awg!Settings(lines, Ranked(peers, Less(peers))[n])
  <2>1. Awg!Less(peers) = Less(peers)
    BY DEF Awg!Less, Less
  <2>2. ASSUME NEW S, NEW T PROVE Awg!Ranked(S, T) = Ranked(S, T)
    BY DEF Awg!Ranked, Awg!Rank, Awg!Cardinality, Ranked, Rank, Cardinality
  <2>3. Awg!Peers(lines) = [n \in DOMAIN Ranked(peers, Less(peers)) |->
                              Awg!Settings(lines, Ranked(peers, Less(peers))[n])]
    BY <2>1, <2>2 DEF Awg!Peers
  <2>4. DOMAIN Ranked(peers, Less(peers)) = 1..Cardinality(peers)
    BY DEF Ranked
  <2> QED
    BY <2>3, <2>4
<1>5. /\ Cardinality(peers) \in Nat
      /\ \A s \in peers : \E n \in 1..Cardinality(peers) : Ranked(peers, Less(peers))[n] = s
  <2>1. peers \in SUBSET Nat /\ IsFiniteSet(peers)
    BY <1>1, <1>2, FS_Subset
  <2> HIDE DEF peers
  <2>2. Orders(Less(peers), peers)
    BY <2>1, LessOrders
  <2> QED
    BY <2>1, <2>2, RankedListsAll
<1> HIDE DEF peers, all, first
<1>6. ASSUME NEW s \in all, lines[s].name = "peer"
      PROVE  \E n \in DOMAIN Awg!Peers(lines) : Awg!Peers(lines)[n] = Awg!Settings(lines, s)
  BY <1>1, <1>4, <1>5, <1>6
<1>7. DOMAIN Awg!Peers(lines) \subseteq Nat
  BY <1>4, <1>5
<1> QED
  BY <1>1, <1>3, <1>6, <1>7 DEF all

\* What is left of the settings when one is taken out of an accepted text.
LEMMA OneSettingLess ==
  ASSUME NEW lines, Awg!IsText(lines), Awg!IniOk(lines), NEW i \in DOMAIN lines,
         lines[i].kind = "setting", NEW less, less = WithoutLine(lines, i), Awg!IniOk(less)
  PROVE  \E t \in Awg!Sections(lines) :
            /\ t \in Awg!Sections(less) /\ less[t] = lines[t] /\ i \in Awg!In(lines, t)
            /\ Awg!Canonical(lines[i].key) \notin DOMAIN Awg!Settings(less, t)
            /\ \A key \in DOMAIN Awg!Settings(lines, t) \ {Awg!Canonical(lines[i].key)} :
                  /\ key \in DOMAIN Awg!Settings(less, t)
                  /\ Awg!Settings(less, t)[key] = Awg!Settings(lines, t)[key]
<1> DEFINE t == Awg!Section(lines, i)
           key(j) == Awg!Canonical(lines[j].key)
<1>1. i \in Awg!In(lines, t) /\ t \in Awg!Sections(lines) /\ t \in Nat /\ i \in Nat /\ t < i
  <2>1. i \notin Awg!Sections(lines) /\ i \in Awg!In(lines, t)
    BY DEF Awg!Sections, Awg!In
  <2>2. t # 0
    BY <2>1 DEF Awg!IniOk
  <2>3. t \in Awg!Sections(lines)
    BY <2>2, SectionIs
  <2>4. t <= i
    BY <2>3, SectionIs
  <2>5. t \in Nat /\ i \in Nat
    BY <2>3 DEF Awg!Sections, Awg!IsText
  <2> QED
    BY <2>1, <2>3, <2>4, <2>5
<1> HIDE DEF t
<1>2. /\ Awg!IsText(less) /\ \A j \in DOMAIN less : less[j] = lines[Old(i, j)]
      /\ t \in Awg!Sections(less) /\ less[t] = lines[t]
      /\ \A j \in DOMAIN less : j \in Awg!In(less, t) <=> Old(i, j) \in Awg!In(lines, t)
  BY <1>1, SectionsStay
<1>3. \A j \in DOMAIN less : Old(i, j) # i
  <2>1. DOMAIN less \subseteq Nat
    BY <1>2 DEF Awg!IsText
  <2> QED
    BY <1>1, <2>1 DEF Old
<1>4. key(i) \notin DOMAIN Awg!Settings(less, t)
  <2> SUFFICES ASSUME NEW j \in Awg!In(less, t), Awg!Canonical(less[j].key) = key(i)
               PROVE  FALSE
    BY DEF Awg!Settings
  <2>1. j \in DOMAIN less
    BY DEF Awg!In
  <2>2. Old(i, j) \in Awg!In(lines, t) /\ key(Old(i, j)) = key(i)
    BY <1>2, <2>1
  <2>3. Old(i, j) = i
    BY <1>1, <2>2 DEF Awg!IniOk
  <2> QED
    BY <1>3, <2>1, <2>3
<1>5. ASSUME NEW k \in DOMAIN Awg!Settings(lines, t) \ {key(i)}
      PROVE  /\ k \in DOMAIN Awg!Settings(less, t)
             /\ Awg!Settings(less, t)[k] = Awg!Settings(lines, t)[k]
  <2>1. PICK m \in Awg!In(lines, t) : key(m) = k
    BY DEF Awg!Settings
  <2>2. PICK j \in DOMAIN less : Old(i, j) = m
    <3>1. m # i
      BY <2>1
    <3>2. /\ Len(less) = Len(lines) - 1 /\ DOMAIN less = 1..Len(lines) - 1
          /\ m \in 1..Len(lines) /\ Len(lines) \in Nat /\ i \in 1..Len(lines)
      BY WithoutIs DEF Awg!IsText, Awg!In
    <3>3. CASE m < i
      BY <1>1, <3>2, <3>3 DEF Old
    <3>4. CASE m > i
      <4>1. m - 1 \in DOMAIN less /\ Old(i, m - 1) = m
        BY <1>1, <3>2, <3>4 DEF Old
      <4> QED
        BY <4>1
    <3> QED
      BY <1>1, <3>1, <3>2, <3>3, <3>4
  <2>3. j \in Awg!In(less, t) /\ less[j] = lines[m]
    BY <1>2, <2>1, <2>2
  <2>4. k \in DOMAIN Awg!Settings(less, t) /\ Awg!Settings(less, t)[k] = lines[m].value
    BY <1>2, <2>1, <2>3, SettingIs
  <2>5. Awg!Settings(lines, t)[k] = lines[m].value
    BY <1>1, <2>1, SettingIs
  <2> QED
    BY <2>4, <2>5
<1> QED
  BY <1>1, <1>2, <1>4, <1>5

\* Two of the values that stand for a setting that is not there.
LEMMA DefaultSize ==
  ASSUME NEW setting, setting.key = "mtu", NumberOf[setting.value] = 1408
  PROVE  SaysZero(setting)
BY DEF SaysZero

LEMMA FlagOff ==
  ASSUME NEW setting, setting.key \in Awg!Awg31Flags, ~FlagOf[setting.value]
  PROVE  SaysZero(setting)
BY DEF SaysZero

\* Every setting of the endpoint makes a difference.
LEMMA SettingsAreKept == AwgInv => SettingsKept
<1> SUFFICES ASSUME AwgInv, endpoint # Unpicked,
                    NEW i \in DOMAIN endpoint.lines, endpoint.lines[i].kind = "setting",
                    endpoint.lines[i].key \notin LeftOut, ~SaysZero(endpoint.lines[i]),
                    Awg!ProfileOk(WithoutLine(endpoint.lines, i))
             PROVE  Awg!Endpoint(WithoutLine(endpoint.lines, i)) # endpoint.json
  BY DEF SettingsKept
<1> DEFINE lines == endpoint.lines
           less == WithoutLine(lines, i)
           value == lines[i].value
           key == Awg!Canonical(lines[i].key)
<1>1. Awg!IsText(lines) /\ Awg!ProfileOk(lines) /\ endpoint.json = Awg!Endpoint(lines)
  BY DEF AwgInv, BuiltInv
<1>2. /\ Awg!IniOk(lines) /\ Awg!InterfaceOk(Awg!Interface(lines))
      /\ \A n \in DOMAIN Awg!Peers(lines) : Awg!PeerOk(Awg!Peers(lines)[n])
      /\ \A m, n \in DOMAIN Awg!Peers(lines) :
            Awg!Peers(lines)[m].public_key = Awg!Peers(lines)[n].public_key => m = n
  BY <1>1 DEF Awg!ProfileOk
<1>3. /\ Awg!IniOk(less) /\ Awg!InterfaceOk(Awg!Interface(less))
      /\ \A n \in DOMAIN Awg!Peers(less) : Awg!PeerOk(Awg!Peers(less)[n])
  BY DEF Awg!ProfileOk
<1>0. key = lines[i].key \/ key = "persistent_keepalive"
  BY DEF Awg!Canonical
<1>4. value # ""
  BY DEF SaysZero
<1>13. value \in DOMAIN NumberOf => NumberOf[value] # 0
  BY DEF SaysZero
<1>14. key = "persistent_keepalive" => RangeOf[value][1] # 0
  BY DEF SaysZero
<1>15. key = "mtu" => NumberOf[value] # 1408
  <2>1. lines[i].key = "mtu" => NumberOf[value] # 1408
    BY DefaultSize
  <2>2. key = "mtu" => lines[i].key = "mtu"
    BY <1>0
  <2> HIDE DEF lines, key, value
  <2> QED
    BY <2>1, <2>2
<1>16. key \in Awg!Awg31Flags => FlagOf[value]
  <2>1. lines[i].key \in Awg!Awg31Flags => FlagOf[value]
    BY FlagOff
  <2>2. key \in Awg!Awg31Flags => lines[i].key \in Awg!Awg31Flags
    BY <1>0 DEF Awg!Awg31Flags
  <2> HIDE DEF lines, key, value
  <2> QED
    BY <2>1, <2>2, Zenon
<1>5. key \notin LeftOut
  BY DEF Awg!Canonical, LeftOut
<1> HIDE DEF lines, less, value
<1>6. PICK t \in Awg!Sections(lines) :
            /\ t \in Awg!Sections(less) /\ less[t] = lines[t] /\ i \in Awg!In(lines, t)
            /\ key \notin DOMAIN Awg!Settings(less, t)
            /\ \A k \in DOMAIN Awg!Settings(lines, t) \ {key} :
                  /\ k \in DOMAIN Awg!Settings(less, t)
                  /\ Awg!Settings(less, t)[k] = Awg!Settings(lines, t)[k]
  BY <1>1, <1>2, <1>3, OneSettingLess DEF lines, less
<1> DEFINE s == Awg!Settings(lines, t)
           r == Awg!Settings(less, t)
<1>7. key \in DOMAIN s /\ s[key] = value
  BY <1>2, <1>6, SettingIs DEF value
<1>8. Awg!Given(s, key) /\ ~Awg!Given(r, key)
  BY <1>4, <1>6, <1>7 DEF Awg!Given
<1>9. Awg!IsText(less)
  BY <1>1, SectionsStay DEF lines, less
<1>10. /\ lines[t].name \in {"interface", "peer"}
       /\ key \in IF lines[t].name = "interface" THEN Awg!InterfaceKeys ELSE Awg!PeerKeys
  BY <1>1, <1>2, <1>6, SectionsAre DEF Awg!IniOk
<1> HIDE DEF key, s, r
<1>11. CASE lines[t].name = "interface"
  <2>1. Awg!Interface(lines) = s /\ Awg!Interface(less) = r
    BY <1>1, <1>2, <1>3, <1>6, <1>9, <1>11, SectionsAre DEF s, r
  <2>2. Awg!InterfaceOk(s) /\ Awg!InterfaceOk(r)
    BY <1>2, <1>3, <2>1
  <2>3. key # "private_key" /\ key # "address"
    BY <1>8, <2>2 DEF Awg!InterfaceOk, Awg!IsKey
  <2>4. SUFFICES Awg!Mtu(s) # Awg!Mtu(r) \/ Awg!Optional(s) # Awg!Optional(r)
    <3>1. /\ Awg!Endpoint(lines).mtu = Awg!Mtu(s) /\ Awg!Endpoint(less).mtu = Awg!Mtu(r)
          /\ Awg!Endpoint(lines).optional = Awg!Optional(s)
          /\ Awg!Endpoint(less).optional = Awg!Optional(r)
      BY <2>1 DEF Awg!Endpoint
    <3> QED
      BY <1>1, <3>1 DEF lines, less
  <2>5. CASE key = "mtu"
    BY <1>7, <1>8, <1>15, <2>5 DEF Awg!Mtu
  <2>6. CASE key \in Awg!Amounts
    <3>1. Awg!IsInt(s, key, 0, IF key = "jc" THEN 128 ELSE IF key = "s1" THEN MaxPacket - 148
              ELSE IF key = "s2" THEN MaxPacket - 92 ELSE IF key = "s3" THEN MaxPacket - 64
              ELSE IF key = "s4" THEN MaxPacket - Awg!Mtu(s) - 32 ELSE MaxPacket)
      BY <2>2, <2>6 DEF Awg!InterfaceOk, Awg!SizesOk, Awg!Amounts
    <3>2. Awg!Whole(s, key) # 0
      BY <1>7, <1>8, <1>13, <3>1 DEF Awg!Whole, Awg!IsInt
    <3>3. <<key, Awg!Whole(s, key)>> \in Awg!Optional(s)
      BY <2>6, <3>2 DEF Awg!Optional
    <3>4. Awg!Whole(r, key) = 0
      BY <1>8 DEF Awg!Whole
    <3>5. <<key, Awg!Whole(s, key)>> \notin Awg!Optional(r)
      BY <2>6, <3>4 DEF Awg!Optional, Awg!Amounts, Awg!H, Awg!I, Awg!Awg3Ranges, Awg!Awg31Flags
    <3> QED
      BY <3>3, <3>5
  <2>7. CASE key \in Awg!H \cup Awg!I \cup Awg!Awg3Ranges \cup {"header_protection_key"}
    <3>1. <<key, s[key]>> \in Awg!Optional(s)
      BY <1>8, <2>7 DEF Awg!Optional
    <3>2. <<key, s[key]>> \notin Awg!Optional(r)
      BY <1>8, <2>7 DEF Awg!Optional, Awg!Amounts, Awg!H, Awg!I, Awg!Awg3Ranges, Awg!Awg31Flags
    <3> QED
      BY <3>1, <3>2
  <2>8. CASE key \in Awg!Awg31Flags
    <3>1. <<key, TRUE>> \in Awg!Optional(s)
      <4>1. Awg!Flag(s, key)
        BY <1>7, <1>8, <1>16, <2>8, Zenon DEF Awg!Flag
      <4> QED
        BY <2>8, <4>1 DEF Awg!Optional
    <3>2. <<key, TRUE>> \notin Awg!Optional(r)
      BY <1>8, <2>8
      DEF Awg!Optional, Awg!Flag, Awg!Amounts, Awg!H, Awg!I, Awg!Awg3Ranges, Awg!Awg31Flags
    <3> QED
      BY <3>1, <3>2
  <2> QED
    BY <1>5, <1>10, <1>11, <2>3, <2>5, <2>6, <2>7, <2>8 DEF Awg!InterfaceKeys, LeftOut
<1>12. CASE lines[t].name = "peer"
  <2>1. PICK n \in DOMAIN Awg!Peers(lines) : Awg!Peers(lines)[n] = s
    BY <1>1, <1>2, <1>6, <1>12, SectionsAre DEF s
  <2>2. PICK m \in DOMAIN Awg!Peers(less) : Awg!Peers(less)[m] = r
    BY <1>3, <1>6, <1>9, <1>12, SectionsAre DEF r
  <2>3. Awg!PeerOk(s) /\ Awg!PeerOk(r)
    BY <1>2, <1>3, <2>1, <2>2
  <2>4. key \notin {"endpoint", "public_key", "allowed_ips"}
    BY <1>8, <2>3 DEF Awg!PeerOk, Awg!IsKey
  <2>5. key \in {"preshared_key", "persistent_keepalive"}
    BY <1>5, <1>10, <1>12, <2>4 DEF Awg!PeerKeys, LeftOut
  <2>6. r.public_key = s.public_key
    <3>1. "public_key" \in DOMAIN s \ {key}
      BY <2>3, <2>4 DEF Awg!PeerOk, Awg!IsKey, Awg!Given
    <3> QED
      BY <1>6, <3>1 DEF s, r
  <2>7. Awg!PeerJson(r) # Awg!PeerJson(s)
    <3>1. CASE key = "preshared_key"
      <4>1. Awg!Value(s, key) = value /\ Awg!Value(r, key) = ""
        BY <1>7, <1>8 DEF Awg!Value
      <4> QED
        BY <1>4, <3>1, <4>1 DEF Awg!PeerJson
    <3>2. CASE key = "persistent_keepalive"
      <4>1. Awg!Keepalive(s) # 0
        BY <1>7, <1>8, <1>14, <3>2 DEF Awg!Keepalive
      <4>2. Awg!Keepalive(r) = 0
        BY <1>8, <3>2 DEF Awg!Keepalive
      <4> QED
        BY <4>1, <4>2 DEF Awg!PeerJson
    <3> QED
      BY <2>5, <3>1, <3>2
  <2>8. /\ Awg!Endpoint(lines).peers = [p \in DOMAIN Awg!Peers(lines) |->
                                          Awg!PeerJson(Awg!Peers(lines)[p])]
        /\ Awg!Endpoint(less).peers = [p \in DOMAIN Awg!Peers(less) |->
                                         Awg!PeerJson(Awg!Peers(less)[p])]
    BY DEF Awg!Endpoint
  <2> SUFFICES ASSUME Awg!Endpoint(less).peers = Awg!Endpoint(lines).peers PROVE FALSE
    BY <1>1 DEF lines, less
  <2>9. m \in DOMAIN Awg!Peers(lines) /\ Awg!PeerJson(Awg!Peers(lines)[m]) = Awg!PeerJson(r)
    BY <2>2, <2>8
  <2>10. Awg!Peers(lines)[m].public_key = s.public_key
    BY <2>6, <2>9 DEF Awg!PeerJson
  <2>11. m = n
    BY <1>2, <2>1, <2>9, <2>10
  <2> QED
    BY <2>1, <2>7, <2>9, <2>11
<1> QED
  BY <1>10, <1>11, <1>12
AwgPart == IF part = "awg" THEN AwgInv ELSE AwgRests

LEMMA AwgPartHolds == Spec => []AwgPart
<1>1. Init => AwgPart
  BY AwgStarts DEF Init, AwgPart
<1>2. AwgPart /\ [Next]_vars => AwgPart'
  <2> SUFFICES ASSUME AwgPart, [Next]_vars PROVE AwgPart'
    OBVIOUS
  <2>1. CASE part = "awg"
    BY <2>1, OneMoves, AwgGoesOn DEF AwgPart
  <2>2. CASE part # "awg"
    BY <2>2, OneMoves DEF AwgPart, AwgRests, awgVars
  <2> QED
    BY <2>1, <2>2
<1> QED
  BY <1>1, <1>2, PTL DEF Spec

\* Whatever another session does to the directory meanwhile, what the menu showed under the
\* number is what is built or nothing is; every setting of any profile that is accepted
\* reaches the core or stands for one that is not there; and its headers never overlap.
THEOREM AwgIsFaithfulAlways == Spec => []AwgIsFaithful
<1>1. AwgPart => AwgIsFaithful
  <2>1. AwgInv => AwgIsFaithful
    BY PickedAsShown, SettingsAreKept, HeadersAreApart DEF AwgIsFaithful
  <2>2. AwgRests => AwgIsFaithful
    BY DEF AwgRests, AwgIsFaithful, PickedIsShown, SettingsKept, HeadersApart
  <2> QED
    BY <2>1, <2>2 DEF AwgPart
<1> QED
  BY AwgPartHolds, <1>1, PTL

(***************************************************************************)
(* The shapes                                                              *)
(***************************************************************************)
\* The bounds that are not in the invariants above.
HealthBounds == stable \in 0..Stable /\ polls \in 0..MaxPolls
UpdateBounds == at \in 0..Len(line) /\ looked \in 0..MaxLookups

LEMMA HealthStaysBounded ==
  ASSUME HealthInv, HealthBounds, [HealthNext]_healthVars PROVE HealthBounds'
<1>1. CASE Poll
  <2>1. verdict = "none" /\ polls < MaxPolls /\ stable' \in {0, stable + 1}
    BY <1>1 DEF Poll, Counted
  <2>2. stable < Stable
    BY <2>1 DEF HealthInv, SlowInv
  <2>3. polls' \in {polls, polls + 1}
    BY <1>1 DEF Poll
  <2> QED
    BY <2>1, <2>2, <2>3, PollsAssumption DEF HealthBounds
<1>2. CASE UNCHANGED <<stable, polls>>
  BY <1>2 DEF HealthBounds
<1> QED
  BY <1>1, <1>2 DEF HealthNext, GiveUp, healthVars

LEMMA UpdateStaysBounded ==
  ASSUME UpdateInv, UpdateInv', UpdateBounds, [UpdateNext]_updateVars PROVE UpdateBounds'
<1>0. Len(line) \in Nat /\ Len(line') \in Nat /\ MaxLookups \in Nat
  BY UpdateBoundsAssumption DEF UpdateInv, UpdateTyped
<1>1. CASE NewCommit
  <2>1. Len(line') = Len(line) + 1 /\ UNCHANGED <<at, looked>>
    BY <1>1 DEF NewCommit, UpdateInv, UpdateTyped
  <2> QED
    BY <1>0, <2>1 DEF UpdateBounds
<1>2. CASE TestsGoOn \/ DayPasses
  <2>1. DOMAIN line' = DOMAIN line /\ UNCHANGED <<at, looked>>
    BY <1>2 DEF TestsGoOn, DayPasses
  <2>2. DOMAIN line = 1..Len(line) /\ DOMAIN line' = 1..Len(line')
    BY DEF UpdateInv, UpdateTyped
  <2>3. Len(line') = Len(line)
    BY <1>0, <2>1, <2>2
  <2> QED
    BY <2>1, <2>3 DEF UpdateBounds
<1>3. CASE RunBegins
  BY <1>0, <1>3 DEF RunBegins, UpdateBounds
<1>4. CASE TooYoung \/ LookUp
  <2>1. at # 0 /\ ~(looked >= MaxLookups)
    BY <1>4 DEF TooYoung, LookUp, Walked
  <2>2. at' \in {at, at - 1} /\ looked' \in {looked, looked + 1} /\ line' = line
    BY <1>4 DEF TooYoung, LookUp
  <2> QED
    BY <1>0, <2>1, <2>2 DEF UpdateBounds
<1>5. CASE UNCHANGED <<line, at, looked>>
  BY <1>5 DEF UpdateBounds
<1> QED
  BY <1>1, <1>2, <1>3, <1>4, <1>5
  DEF UpdateNext, RunSkipped, UpToDate, Installs, SelfUpdateFails, CoresFail, CoresUpdated,
      CoreReleased, updateVars

\* All the parts at once.
OnePart == part \in {"subscription", "awg", "keys", "health", "update"}
PartsInv == OnePart /\ SubPart /\ AwgPart /\ KeyPart /\ HealthPart /\ UpdatePart

Bounded == HealthBounds /\ UpdateBounds

LEMMA BoundsHold == Spec => [](PartsInv /\ Bounded)
<1>1. Init => Bounded /\ OnePart
  <2>1. Init => \/ HealthInit \/ HealthRests
    BY DEF Init
  <2>2. Init => \/ UpdateInit \/ UpdateRests
    BY DEF Init
  <2>3. HealthInit \/ HealthRests => HealthBounds
    BY PollsAssumption DEF HealthInit, HealthRests, HealthBounds
  <2>4. UpdateInit \/ UpdateRests => UpdateBounds
    <3>1. UpdateInit => Len(line) \in Nat
      BY UpdateStarts DEF UpdateInv, UpdateTyped
    <3>2. UpdateRests => Len(line) = 0
      BY DEF UpdateRests
    <3>3. MaxLookups \in Nat
      BY UpdateBoundsAssumption
    <3>4. UpdateInit => at = 0 /\ looked = 0
      BY DEF UpdateInit
    <3>5. UpdateRests => at = 0 /\ looked = 0
      BY DEF UpdateRests
    <3> QED
      BY <3>1, <3>2, <3>3, <3>4, <3>5 DEF UpdateBounds
  <2> QED
    BY <2>1, <2>2, <2>3, <2>4 DEF Init, Bounded, OnePart
<1>2. HealthPart /\ UpdatePart /\ UpdatePart' /\ Bounded /\ [Next]_vars => Bounded'
  <2> SUFFICES ASSUME HealthPart, UpdatePart, UpdatePart', Bounded, [Next]_vars PROVE Bounded'
    OBVIOUS
  <2>1. HealthBounds'
    <3>1. CASE part = "health"
      BY <3>1, OneMoves, HealthStaysBounded DEF HealthPart, Bounded
    <3>2. CASE part # "health"
      BY <3>2, OneMoves DEF Bounded, HealthBounds, healthVars
    <3> QED
      BY <3>1, <3>2
  <2>2. UpdateBounds'
    <3>1. CASE part = "update"
      BY <3>1, OneMoves, UpdateStaysBounded DEF UpdatePart, Bounded
    <3>2. CASE part # "update"
      BY <3>2, OneMoves DEF Bounded, UpdateBounds, updateVars
    <3> QED
      BY <3>1, <3>2
  <2> QED
    BY <2>1, <2>2 DEF Bounded
<1>3. OnePart /\ [Next]_vars => OnePart'
  BY OneMoves DEF OnePart
<1> QED
  BY <1>1, <1>2, <1>3, SubPartHolds, AwgPartHolds, KeyPartHolds, HealthPartHolds, UpdatePartHolds,
     PTL DEF Spec, PartsInv

\* The type invariant.
LEMMA ShapesAreRight == PartsInv /\ Bounded => TypeOK
<1> SUFFICES ASSUME PartsInv, Bounded PROVE TypeOK
  OBVIOUS
<1>0. SubPart /\ AwgPart /\ KeyPart /\ HealthPart /\ UpdatePart
  BY DEF PartsInv
<1>1. CatalogTyped
  BY <1>0, CatalogIsTyped DEF SubPart, SubRests, CatalogTyped
<1>2. /\ DOMAIN dir \subseteq Ids
      /\ map # Unpicked => {map[n] : n \in DOMAIN map} = DOMAIN shown
      /\ number \in 0..Cardinality(Ids) /\ changes \in 0..MaxChanges
  <2>0. Cardinality(Ids) \in Nat /\ MaxChanges \in Nat
    BY IdsAssumption, FS_CardinalityType
  <2>1. CASE AwgInv
    <3>1. AwgTyped /\ ShownInv /\ PickedInv
      BY <2>1 DEF AwgInv
    <3>2. ASSUME map # Unpicked
          PROVE  /\ {map[n] : n \in DOMAIN map} = DOMAIN shown
                 /\ DOMAIN map \subseteq 1..Cardinality(Ids)
      <4> DEFINE count == Cardinality(DOMAIN shown)
      <4>1. /\ count \in 0..Cardinality(Ids) /\ map \in [1..count -> DOMAIN shown]
            /\ \A id \in DOMAIN shown : \E n \in 1..count : map[n] = id
        BY <3>1, <3>2, ListedIs DEF ShownInv
      <4> HIDE DEF count
      <4>2. DOMAIN map = 1..count /\ 1..count \subseteq 1..Cardinality(Ids)
        BY <2>0, <4>1
      <4> QED
        BY <4>1, <4>2
    <3>3. number \in 0..Cardinality(Ids)
      BY <2>0, <3>1, <3>2 DEF PickedInv
    <3> QED
      BY <3>1, <3>2, <3>3 DEF AwgTyped, IsDirectory
  <2>2. CASE AwgRests
    BY <2>0, <2>2 DEF AwgRests
  <2> QED
    BY <1>0, <2>1, <2>2 DEF AwgPart
<1>3. made \subseteq AllPairs
  BY <1>0 DEF KeyPart, KeyInv, KeysTyped, KeysRest
<1>4. have \in 0..Len(line)
  <2>1. CASE UpdateInv
    BY <2>1 DEF UpdateInv, UpdateTyped
  <2>2. CASE UpdateRests
    BY <2>2 DEF UpdateRests
  <2> QED
    BY <1>0, <2>1, <2>2 DEF UpdatePart
<1> QED
  BY <1>1, <1>2, <1>3, <1>4
  DEF TypeOK, CatalogTyped, PartsInv, OnePart, Bounded, HealthBounds, UpdateBounds

\* A catalog of any answer lists every tunnel of it and none that it would refuse, can be
\* opened again, and has the shape that its readers take for granted, as what the other
\* parts leave has.
THEOREM CatalogStaysHonest == Spec => []CatalogIsHonest
<1>1. SubPart => OffersEveryTunnel /\ OfferedBuilds /\ SavedOpens
  <2>1. SubRests => OffersEveryTunnel /\ OfferedBuilds /\ SavedOpens
    BY DEF SubRests, OffersEveryTunnel, OfferedBuilds, SavedOpens
  <2> QED
    BY <2>1, TunnelsAreOffered, OffersAreBuilt, CatalogOpens DEF SubPart
<1>2. PartsInv /\ Bounded => CatalogIsHonest
  BY <1>1, ShapesAreRight DEF PartsInv, CatalogIsHonest
<1> QED
  BY BoundsHold, <1>2, PTL
=============================================================================
