---------------------------- MODULE HelperProofs ----------------------------
(***************************************************************************)
(* Proofs about the two helpers that stand between the CLI and what it     *)
(* does not trust: SafeExec, between it and the members of a validator's   *)
(* process group, and Fetch, between it and a provider. Each is proved of  *)
(* its own specification, for all values of its constants.                 *)
(***************************************************************************)
EXTENDS SafeExec, Fetch, SequenceTheorems, TLAPS

(***************************************************************************)
(* The confined runner                                                     *)
(***************************************************************************)
Forked == {"started", "deliver", "arm"} \cup Watching \cup {"finish"} \cup Stopping
Recorded == Forked \ {"started"}

\* The group begins with the leader, of which code tells whether it has ended, and
\* while the helper has yet to stop it nothing says that it is gone.
GroupInv ==
    /\ group[Leader] = "dead" <=> code # Running
    /\ stage \in {"check", "handlers", "popen"} => Live = {} /\ group[Leader] = "none"
    /\ stage \in Forked => group[Leader] # "none"
    /\ stage = "finish" => group[Leader] = "dead"
    /\ stage \in {"reap"} \cup Exited => Live = {}

\* What the helper has recorded at each step, and that it has a reason to stop the group.
ReasonInv ==
    /\ stage # "done" => (started <=> stage \in Recorded)
    /\ stage \notin Stopping \cup Exited => reason = "none"
    /\ stage \in Stopping => reason # "none"
    /\ VerdictIsTrue

\* The first signal has reached the leader.
Reached == \/ group[Leader] = "dead"
           \/ Leader \in doomed
           \/ Head(heard) \in deaf[Leader]

\* Until the child is recorded every signal is kept; then the first of them, if there
\* is one, is delivered before any step at which the helper watches.
SignalInv ==
    /\ stage \in {"check", "handlers"} => heard = <<>>
    /\ stage \in {"check", "handlers", "popen", "started"} => pending = heard
    /\ stage = "deliver" /\ pending # <<>> => heard # <<>> /\ Head(heard) = Head(pending)
    /\ stage = "deliver" /\ pending = <<>> /\ heard # <<>> => Reached
    /\ stage \in Recorded \ {"deliver"} /\ heard # <<>> => Reached

HelperInv == ExecTypeOK /\ GroupInv /\ ReasonInv /\ SignalInv

LEMMA HelperStarts == ExecInit => HelperInv
<1> SUFFICES ASSUME ExecInit PROVE HelperInv
  OBVIOUS
<1>1. ExecTypeOK
  <2>1. <<>> \in Seq({"TERM", "INT"})
    BY EmptySeq
  <2> QED
    BY <2>1, SignalsAssumption DEF ExecInit, ExecTypeOK, Starting
<1>2. GroupInv
  BY GroupAssumption
  DEF ExecInit, GroupInv, Live, Forked, Starting, Watching, Stopping, Exited
<1>3. ReasonInv /\ SignalInv
  BY DEF ExecInit, ReasonInv, SignalInv, VerdictIsTrue, Recorded, Forked, Watching, Stopping, Exited
<1> QED
  BY <1>1, <1>2, <1>3 DEF HelperInv

\* The first signal stays the first.
LEMMA FirstStays ==
  ASSUME NEW S, NEW s \in Seq(S), NEW e \in S
  PROVE  /\ Append(s, e) \in Seq(S) /\ Append(s, e) # <<>>
         /\ s # <<>> => Head(Append(s, e)) = Head(s)
         /\ s = <<>> => Head(Append(s, e)) = e
<1>1. Append(s, e) \in Seq(S) /\ Append(s, e) # <<>>
  BY AppendProperties
<1>2. Len(s) \in Nat /\ (s # <<>> <=> Len(s) # 0) /\ Len(Append(s, e)) = Len(s) + 1
  BY AppendProperties, LenProperties, EmptySeq
<1>3. Head(Append(s, e)) = Append(s, e)[1]
  BY <1>1, HeadTailProperties
<1>4. s # <<>> => Head(s) = s[1] /\ Append(s, e)[1] = s[1]
  BY <1>2, HeadTailProperties, AppendProperties
<1>5. s = <<>> => Append(s, e)[1] = e
  BY <1>2, AppendProperties
<1> QED
  BY <1>1, <1>3, <1>4, <1>5

\* The steps of the helper that leave the group alone.
Deciding == \/ CheckArguments \/ InstallHandlers \/ StartFails \/ RecordStart \/ ArmDeadline
            \/ Poll \/ CheckDeadline \/ CheckMemory \/ WaitGrace \/ Reap

LEMMA DecidingFrame == Deciding => UNCHANGED <<heard, pending, request, members>>
BY DEF Deciding, CheckArguments, InstallHandlers, StartFails, RecordStart, ArmDeadline, Poll,
       CheckDeadline, CheckMemory, WaitGrace, Reap, Proceed, Exit

LEMMA HelperTyped == HelperInv /\ [ExecNext]_execVars => ExecTypeOK'
<1> SUFFICES ASSUME HelperInv, [ExecNext]_execVars PROVE ExecTypeOK'
  OBVIOUS
<1>0. ExecTypeOK
  BY DEF HelperInv
<1> USE <1>0 DEF ExecTypeOK
<1>1. CASE Deciding
  <2>1. UNCHANGED <<heard, pending, request, members>>
    BY <1>1, DecidingFrame
  <2>2. /\ stage' \in Starting \cup Watching \cup {"finish"} \cup Stopping \cup Exited
        /\ started' \in BOOLEAN /\ reason' \in {"none", "timeout", "memory"}
    BY <1>1 DEF Deciding, CheckArguments, InstallHandlers, StartFails, RecordStart, ArmDeadline,
                Poll, CheckDeadline, CheckMemory, WaitGrace, Reap, Proceed, Exit,
                Starting, Watching, Stopping, Exited
  <2>3. left' \in Nat
    BY <1>1, RequestsAssumption
       DEF Deciding, CheckArguments, InstallHandlers, StartFails, RecordStart, ArmDeadline,
           Poll, CheckDeadline, CheckMemory, WaitGrace, Reap
  <2>4. result' \in Codes \cup {Running, Signalled, Refused, TimedOut, TooLarge}
    BY <1>1 DEF Deciding, CheckArguments, InstallHandlers, StartFails, RecordStart, ArmDeadline,
                Poll, CheckDeadline, CheckMemory, WaitGrace, Reap, Exit, Verdict
  <2> QED
    BY <2>1, <2>2, <2>3, <2>4 DEF members
<1>2. CASE StartChild \/ DeliverPending \/ Finish \/ Terminate \/ KillGroup
  <2>1. group' \in [Family -> {"none", "live", "dead"}]
    BY <1>2 DEF StartChild, DeliverPending, Finish, Terminate, KillGroup, Slay, Tell, members
  <2>2. doomed' \subseteq Family
    BY <1>2 DEF StartChild, DeliverPending, Finish, Terminate, KillGroup, Slay, Tell, members, Live
  <2>3. /\ stage' \in Starting \cup Watching \cup {"finish"} \cup Stopping \cup Exited
        /\ left' \in Nat /\ UNCHANGED <<request, heard, started, pending, reason, deaf, rss>>
    BY <1>2, GraceAssumption
       DEF StartChild, DeliverPending, Finish, Terminate, KillGroup, Slay, Tell, Proceed, Exit,
           members, Starting, Stopping, Exited
  <2>4. /\ code' \in Codes \cup {Running, Signalled}
        /\ result' \in Codes \cup {Running, Signalled, Refused, TimedOut, TooLarge}
    BY <1>2 DEF StartChild, DeliverPending, Finish, Terminate, KillGroup, Slay, Tell, Exit, members
  <2> QED
    BY <2>1, <2>2, <2>3, <2>4
<1>3. ASSUME NEW s \in Signals, Forward(s) PROVE ExecTypeOK'
  <2>1. PassedOn(s) \in {"TERM", "INT"}
    BY DEF PassedOn, Signals
  <2>2. /\ heard' \in Seq({"TERM", "INT"}) /\ pending' \in Seq({"TERM", "INT"})
    <3>1. /\ Append(heard, PassedOn(s)) \in Seq({"TERM", "INT"})
          /\ Append(pending, PassedOn(s)) \in Seq({"TERM", "INT"})
      BY <2>1, FirstStays
    <3>2. /\ heard' = Append(heard, PassedOn(s))
          /\ pending' \in {pending, Append(pending, PassedOn(s))}
      BY <1>3 DEF Forward
    <3> QED
      BY <3>1, <3>2
  <2>3. /\ UNCHANGED <<request, started, left, reason, result, group, deaf, rss, code>>
        /\ doomed' \subseteq Family
        /\ stage' \in Starting \cup Watching \cup {"finish"} \cup Stopping \cup Exited
    BY <1>3 DEF Forward, Tell, members, Live, Exited
  <2> QED
    BY <2>2, <2>3
<1>4. CASE MemberForks
  BY <1>4 DEF MemberForks, helper
<1>5. CASE MemberEnds
  BY <1>5 DEF MemberEnds, helper
<1>6. CASE MemberGrows
  <2>1. PICK p \in Family : rss' = [rss EXCEPT ![p] = @ + 1]
    BY <1>6 DEF MemberGrows, Live
  <2>2. rss[p] + 1 \in Nat
    OBVIOUS
  <2>3. rss' \in [Family -> Nat]
    BY <2>1, <2>2
  <2> QED
    BY <1>6, <2>3 DEF MemberGrows, helper
<1>7. CASE Tick
  BY <1>7 DEF Tick, helper, members
<1>8. CASE UNCHANGED execVars
  BY <1>8 DEF execVars, helper, members
<1> QED
  BY <1>1, <1>2, <1>3, <1>4, <1>5, <1>6, <1>7, <1>8 DEF ExecNext, Helper, Deciding

LEMMA GroupStep == HelperInv /\ [ExecNext]_execVars => GroupInv'
<1> SUFFICES ASSUME HelperInv, [ExecNext]_execVars PROVE GroupInv'
  OBVIOUS
<1>0. /\ ExecTypeOK /\ GroupInv /\ Leader \in Family /\ Running \notin Codes \cup {Signalled}
      /\ group \in [Family -> {"none", "live", "dead"}]
  BY GroupAssumption, CodesAssumption DEF HelperInv, ExecTypeOK
<1> USE DEF Forked, Watching, Stopping, Exited
<1>1. CASE Deciding
  <2>1. UNCHANGED <<group, code>> /\ Live' = Live
    BY <1>1, DecidingFrame DEF members, Live
  <2> QED
    BY <1>0, <1>1, <2>1
       DEF GroupInv, Deciding, CheckArguments, InstallHandlers, StartFails, RecordStart,
           ArmDeadline, Poll, CheckDeadline, CheckMemory, WaitGrace, Reap, Proceed, Exit
<1>2. CASE StartChild
  BY <1>0, <1>2 DEF StartChild, Proceed, GroupInv
<1>3. CASE DeliverPending \/ Terminate
  <2>1. UNCHANGED <<group, code>> /\ Live' = Live
    BY <1>3 DEF DeliverPending, Terminate, Tell, members, Live
  <2> QED
    BY <1>0, <1>3, <2>1 DEF DeliverPending, Terminate, Proceed, GroupInv
<1>4. CASE Finish \/ KillGroup
  <2>1. Live' = {} /\ group'[Leader] # "none" /\ (group'[Leader] = "dead" <=> code' # Running)
    BY <1>0, <1>4 DEF Finish, KillGroup, Slay, Live, GroupInv
  <2> QED
    BY <1>4, <2>1 DEF Finish, KillGroup, Proceed, Exit, GroupInv
<1>5. ASSUME NEW s \in Signals, Forward(s) PROVE GroupInv'
  <2>1. UNCHANGED <<group, code>> /\ Live' = Live
    BY <1>5 DEF Forward, Tell, members, Live
  <2> QED
    BY <1>0, <1>5, <2>1 DEF Forward, GroupInv
<1>6. CASE MemberForks
  <2>1. UNCHANGED <<stage, code>> /\ group'[Leader] = group[Leader] /\ Live # {}
    BY <1>0, <1>6 DEF MemberForks, helper
  <2> QED
    BY <1>0, <2>1 DEF GroupInv
<1>7. CASE MemberEnds
  <2>1. UNCHANGED stage /\ Live # {} /\ (group[Leader] # "none" => group'[Leader] # "none")
    BY <1>0, <1>7 DEF MemberEnds, helper
  <2>2. (group'[Leader] = "dead" <=> code' # Running)
    BY <1>0, <1>7 DEF MemberEnds, Live, GroupInv
  <2>3. group[Leader] = "dead" => group'[Leader] = "dead"
    BY <1>0, <1>7 DEF MemberEnds, Live
  <2> QED
    BY <1>0, <2>1, <2>2, <2>3 DEF GroupInv
<1>8. CASE MemberGrows \/ Tick \/ UNCHANGED execVars
  <2>1. UNCHANGED <<stage, group, code>> /\ Live' = Live
    BY <1>8 DEF MemberGrows, Tick, execVars, helper, members, Live
  <2> QED
    BY <1>0, <2>1 DEF GroupInv
<1> QED
  BY <1>1, <1>2, <1>3, <1>4, <1>5, <1>6, <1>7, <1>8 DEF ExecNext, Helper, Deciding

LEMMA ReasonStep == HelperInv /\ [ExecNext]_execVars => ReasonInv'
<1> SUFFICES ASSUME HelperInv, [ExecNext]_execVars PROVE ReasonInv'
  OBVIOUS
<1>0. ExecTypeOK /\ GroupInv /\ ReasonInv /\ Running \notin {Refused, TimedOut, TooLarge}
  BY CodesAssumption DEF HelperInv
<1> USE DEF Recorded, Forked, Watching, Stopping, Exited
<1>1. CASE UNCHANGED <<stage, started, reason, result, code>>
  BY <1>0, <1>1 DEF ReasonInv, VerdictIsTrue, Verdict
<1>2. CASE Deciding
  BY <1>0, <1>2
     DEF ReasonInv, VerdictIsTrue, Verdict, Deciding, CheckArguments, InstallHandlers, StartFails,
         RecordStart, ArmDeadline, Poll, CheckDeadline, CheckMemory, WaitGrace, Reap, Proceed, Exit,
         members
<1>3. CASE StartChild \/ DeliverPending \/ Terminate \/ KillGroup
  BY <1>0, <1>3 DEF ReasonInv, VerdictIsTrue, StartChild, DeliverPending, Terminate, KillGroup, Proceed
<1>4. CASE Finish
  BY <1>0, <1>4 DEF ReasonInv, VerdictIsTrue, Finish, Slay, Exit, Proceed, GroupInv
<1>5. ASSUME NEW s \in Signals, Forward(s) PROVE ReasonInv'
  BY <1>0, <1>5 DEF ReasonInv, VerdictIsTrue, Verdict, Forward
<1>6. CASE MemberForks \/ MemberEnds
  <2>1. UNCHANGED <<stage, started, reason, result>> /\ Live # {}
    BY <1>6 DEF MemberForks, MemberEnds, helper
  <2>2. stage # "done"
    BY <1>0, <2>1 DEF GroupInv
  <2> QED
    BY <1>0, <2>1, <2>2 DEF ReasonInv, VerdictIsTrue
<1>7. CASE MemberGrows \/ Tick \/ UNCHANGED execVars
  BY <1>1, <1>7 DEF MemberGrows, Tick, execVars, helper, members
<1> QED
  BY <1>2, <1>3, <1>4, <1>5, <1>6, <1>7 DEF ExecNext, Helper, Deciding

LEMMA SignalStep == HelperInv /\ [ExecNext]_execVars => SignalInv'
<1> SUFFICES ASSUME HelperInv, [ExecNext]_execVars PROVE SignalInv'
  OBVIOUS
<1>0. /\ ExecTypeOK /\ GroupInv /\ ReasonInv /\ SignalInv /\ Leader \in Family
      /\ group \in [Family -> {"none", "live", "dead"}] /\ doomed \subseteq Family
      /\ {pending, heard} \subseteq Seq({"TERM", "INT"})
  BY GroupAssumption DEF HelperInv, ExecTypeOK
<1> USE DEF Recorded, Forked, Watching, Stopping
\* A signal that is told to the group reaches the leader.
<1>1. ASSUME NEW s, Tell(s), stage \in Recorded
      PROVE  \/ group'[Leader] = "dead" \/ Leader \in doomed' \/ s \in deaf'[Leader]
  BY <1>0, <1>1 DEF Tell, Live, GroupInv
<1>2. CASE Deciding
  <2>1. UNCHANGED <<heard, pending, group, deaf, doomed>> /\ Reached' = Reached
    BY <1>2, DecidingFrame DEF members, Reached
  <2> QED
    BY <1>0, <1>2, <2>1
       DEF SignalInv, Deciding, CheckArguments, InstallHandlers, StartFails, RecordStart,
           ArmDeadline, Poll, CheckDeadline, CheckMemory, WaitGrace, Reap, Proceed, Exit
<1>3. CASE StartChild
  BY <1>0, <1>3 DEF StartChild, Proceed, SignalInv
<1>4. CASE DeliverPending
  <2>1. UNCHANGED heard /\ stage = "deliver" /\ stage' = "arm"
    BY <1>4 DEF DeliverPending, Proceed
  <2>2. CASE pending # <<>>
    BY <1>0, <1>1, <1>4, <2>1, <2>2 DEF DeliverPending, SignalInv, Reached
  <2>3. CASE pending = <<>>
    BY <1>0, <1>4, <2>1, <2>3 DEF DeliverPending, SignalInv, Reached, members
  <2> QED
    BY <2>2, <2>3
<1>5. CASE Terminate \/ Finish \/ KillGroup
  <2>1. /\ UNCHANGED <<heard, deaf>> /\ doomed \subseteq doomed'
        /\ group[Leader] = "dead" => group'[Leader] = "dead"
        /\ stage \in Recorded \ {"deliver"} /\ stage' \in {"wait", "reap", "done"}
    BY <1>0, <1>5 DEF Terminate, Finish, KillGroup, Tell, Slay, Proceed, Exit, Live
  <2> QED
    BY <1>0, <2>1 DEF SignalInv, Reached
<1>6. ASSUME NEW s \in Signals, Forward(s) PROVE SignalInv'
  <2>1. /\ PassedOn(s) \in {"TERM", "INT"} /\ heard' = Append(heard, PassedOn(s))
        /\ UNCHANGED <<started, group, deaf>> /\ heard' # <<>>
        /\ heard # <<>> => Head(heard') = Head(heard)
        /\ heard = <<>> => Head(heard') = PassedOn(s)
    BY <1>0, <1>6, FirstStays DEF Forward, PassedOn, Signals, Tell, members
  <2>2. CASE stage \in {"check", "handlers"}
    BY <1>6, <2>2 DEF Forward, SignalInv, Exited
  <2>3. CASE stage \in {"popen", "started"}
    <3>1. ~started /\ pending = heard
      BY <1>0, <2>3 DEF ReasonInv, SignalInv
    <3> QED
      BY <1>6, <2>1, <2>3, <3>1 DEF Forward, SignalInv
  <2>4. CASE stage \in Recorded
    <3>1. /\ UNCHANGED <<stage, pending>> /\ Tell(PassedOn(s))
      BY <1>0, <1>6, <2>4 DEF Forward, ReasonInv
    <3>2. heard = <<>> => Reached'
      BY <1>1, <2>1, <2>4, <3>1 DEF Reached
    <3>3. heard # <<>> /\ Reached => Reached'
      BY <2>1, <3>1 DEF Reached, Tell
    <3> QED
      BY <1>0, <2>1, <2>4, <3>1, <3>2, <3>3 DEF SignalInv
  <2>5. CASE stage \in Exited
    BY <1>6, <2>5 DEF Forward, Exited
  <2> QED
    BY <1>0, <2>2, <2>3, <2>4, <2>5 DEF ExecTypeOK, Starting
<1>7. CASE MemberForks \/ MemberEnds \/ MemberGrows \/ Tick \/ UNCHANGED execVars
  <2>1. /\ UNCHANGED <<stage, heard, pending, deaf, doomed>>
        /\ group[Leader] = "dead" => group'[Leader] = "dead"
    BY <1>0, <1>7 DEF MemberForks, MemberEnds, MemberGrows, Tick, execVars, helper, members, Live
  <2> QED
    BY <1>0, <2>1 DEF SignalInv, Reached
<1> QED
  BY <1>2, <1>3, <1>4, <1>5, <1>6, <1>7 DEF ExecNext, Helper, Deciding

LEMMA HelperInvariant == ExecSpec => []HelperInv
<1>1. HelperInv /\ [ExecNext]_execVars => HelperInv'
  BY HelperTyped, GroupStep, ReasonStep, SignalStep DEF HelperInv
<1> QED
  BY HelperStarts, <1>1, PTL DEF ExecSpec

\* When the helper has ended its verdict is one, and nobody of the group is left,
\* whichever signals came when and whatever the members did.
THEOREM HelperIsHonest == ExecSpec => []EndsHonestly
<1>1. HelperInv => EndsHonestly
  BY DEF HelperInv, GroupInv, ReasonInv, NothingLeft, EndsHonestly
<1> QED
  BY HelperInvariant, <1>1, PTL

\* A signal that reached the helper at any time has reached the leader by the time the
\* helper watches it.
THEOREM CancellationsArrive == ExecSpec => []CancelArrives
<1>1. HelperInv => CancelArrives
  BY DEF HelperInv, SignalInv, Reached, CancelArrives, Recorded, Forked, Watching
<1> QED
  BY HelperInvariant, <1>1, PTL
-----------------------------------------------------------------------------
(***************************************************************************)
(* The fetch                                                               *)
(***************************************************************************)

\* How many requests were made: one more than the redirects is the last that waits.
HopsInv == /\ at = "begin" => gets = 0
           /\ at \in Waiting => gets <= MaxRedirects + 1

\* Every address that is still to be tried passed the check.
AddressesInv == at \in {"connect", "tls"} => \A i \in DOMAIN addrs : addrs[i] \in Public

\* What was read of the body, and that a chunked one is not decoded before its end.
BodyInv ==
    /\ at \in {"body", "decode"} => got <= resp.body.size
    /\ at = "decode" /\ resp.framing = "chunked" => got = resp.body.size

FetchInv == /\ TalksToTheRight /\ HopsInv /\ AddressesInv
            /\ BodyInv /\ AcceptedIsWhole /\ InTime

LEMMA Limits ==
    /\ MaxRedirects \in Nat /\ MaxBytes \in Nat /\ MaxRatio \in Nat
    /\ Timeout \in Nat \ {0} /\ Deadline \in Nat \ {0}
    /\ AlarmAt \in Nat \ {0}
BY LimitsAssumption DEF AlarmAt

\* The type of a response, spelled out.
LEMMA ResponseFields ==
  ASSUME NEW r \in Responses
  PROVE  /\ r.status \in {"ok", "redirect"} /\ r.to \in Urls \cup {NoUrl}
         /\ r.length \in Nat \cup {NoLength, Invalid}
         /\ r.framing \in {"length", "chunked", "close"}
         /\ r.body.size \in Nat
         /\ r # NoAnswer
         /\ r.framing = "length" => r.length = r.body.size
BY ResponsesAssumption DEF ResponseType, Bodies

LEMMA FetchStarts == FetchInit => FetchInv
<1> SUFFICES ASSUME FetchInit PROVE FetchInv
  OBVIOUS
<1>1. FetchTypeOK
  <2>1. <<>> \in Seq(Addresses)
    BY EmptySeq
  <2>2. /\ gets \in 0 .. MaxRedirects + 2 /\ clock \in 0 .. AlarmAt
        /\ budget \in 1 .. Timeout /\ armed \in 0 .. AlarmAt + Timeout /\ got \in Nat
    BY Limits DEF FetchInit
  <2> QED
    BY <2>1, <2>2 DEF FetchInit, FetchTypeOK, Waiting, Over
<1> QED
  BY <1>1
  DEF FetchInit, FetchInv, TalksToTheRight, HwidStaysHome, OnlyPublic, HopsInv, AddressesInv,
      BodyInv, AcceptedIsWhole, InTime, Waiting

\* What waiting, and giving up, do to the clocks.
LEMMA AwaitTimes ==
  ASSUME FetchTypeOK, NEW call, Await(call)
  PROVE  /\ at' \in {call, "failed"} /\ clock' = clock
         /\ budget' \in 1 .. Timeout /\ armed' \in 0 .. AlarmAt + Timeout
<1> USE Limits DEF FetchTypeOK
<1>1. CASE clock >= Deadline
  BY <1>1 DEF Await, GiveUp, time
<1>2. CASE ~(clock >= Deadline)
  <2>1. /\ at' = call /\ clock' = clock /\ armed' = clock + budget'
        /\ budget' = IF Deadline - clock < Timeout THEN Deadline - clock ELSE Timeout
    BY <1>2 DEF Await
  <2>2. budget' \in 1 .. Timeout
    BY <1>2, <2>1
  <2>3. armed' \in 0 .. AlarmAt + Timeout
    BY <2>1, <2>2
  <2> QED
    BY <2>1, <2>2, <2>3
<1> QED
  BY <1>1, <1>2

LEMMA DieTimes == ASSUME GiveUp PROVE at' = "failed" /\ UNCHANGED <<clock, budget, armed>>
BY DEF GiveUp, time

LEMMA VisitTimes ==
  ASSUME FetchTypeOK, HopsInv, at \in Waiting \/ at = "begin", NEW u \in Urls, Visit(u)
  PROVE  /\ at' \in {"resolve", "failed"} /\ clock' = clock
         /\ budget' \in 1 .. Timeout /\ armed' \in 0 .. AlarmAt + Timeout
         /\ url' \in Urls /\ asked' = asked
         /\ gets' \in 0 .. MaxRedirects + 2
         /\ at' = "resolve" => gets' <= MaxRedirects + 1
<1>1. /\ at' \in {"resolve", "failed"} /\ clock' = clock
      /\ budget' \in 1 .. Timeout /\ armed' \in 0 .. AlarmAt + Timeout
  BY AwaitTimes, DieTimes DEF Visit, FetchTypeOK
<1>2. at' = "resolve" => gets <= MaxRedirects
  BY DieTimes DEF Visit
<1>3. gets' = gets + 1 /\ url' = u /\ asked' = asked
  BY DEF Visit
<1>4. gets <= MaxRedirects + 1 /\ gets \in Nat
  BY Limits DEF HopsInv, FetchTypeOK
<1> QED
  BY <1>1, <1>2, <1>3, <1>4, Limits

\* What the steps must keep, apart from the types of what all but a few leave alone.
ClocksOk == clock \in 0 .. AlarmAt /\ budget \in 1 .. Timeout /\ armed \in 0 .. AlarmAt + Timeout

LEMMA FetchTyped == FetchInv /\ [FetchNext]_fetchVars => FetchTypeOK'
<1> SUFFICES ASSUME FetchInv, [FetchNext]_fetchVars PROVE FetchTypeOK'
  OBVIOUS
<1>0. FetchTypeOK /\ HopsInv
  BY DEF FetchInv, TalksToTheRight
<1> USE Limits DEF Waiting, Over
\* A step that gives up, and may drop the connection.
<1>1. ASSUME at' = "failed", UNCHANGED <<hop, told, resp, got, clock, budget, armed>>,
             addrs' \in Seq(Addresses), peer' \in {peer, Nobody}
      PROVE  FetchTypeOK'
  BY <1>0, <1>1 DEF FetchTypeOK, hop
<1>2. CASE Begin
  <2>1. /\ at' \in {"resolve", "failed"} /\ ClocksOk'
        /\ url' \in Urls /\ asked' = asked /\ gets' \in 0 .. MaxRedirects + 2
    BY <1>0, <1>2, VisitTimes DEF Begin, FetchTypeOK, ClocksOk
  <2> QED
    BY <1>0, <1>2, <2>1 DEF Begin, FetchTypeOK, ClocksOk, link
<1>3. CASE Redirected
  <2>1. PICK r \in Responses : IF r.to = NoUrl THEN GiveUp /\ UNCHANGED hop ELSE Visit(r.to)
    BY <1>3 DEF Redirected
  <2>2. /\ at' \in {"resolve", "failed"} /\ ClocksOk'
        /\ url' \in Urls /\ asked' = asked /\ gets' \in 0 .. MaxRedirects + 2
    <3>1. CASE r.to = NoUrl
      BY <1>0, <2>1, <3>1, DieTimes DEF FetchTypeOK, ClocksOk, hop
    <3>2. CASE r.to # NoUrl
      <4>1. r.to \in Urls
        BY <3>2, ResponseFields
      <4>2. at \in Waiting
        BY <1>3 DEF Redirected
      <4> QED
        BY <1>0, <2>1, <3>2, <4>1, <4>2, VisitTimes DEF FetchTypeOK, ClocksOk
    <3> QED
      BY <3>1, <3>2
  <2> QED
    BY <1>0, <1>3, <2>2 DEF Redirected, FetchTypeOK, ClocksOk
<1>4. CASE Resolved
  <2>1. PICK answer \in Answers : /\ addrs' = answer
                                  /\ IF Safe(answer) THEN Await("connect") ELSE GiveUp
    BY <1>4 DEF Resolved
  <2>2. addrs' \in Seq(Addresses)
    BY <2>1, AddressesAssumption
  <2>3. at' \in {"connect", "failed"} /\ ClocksOk' /\ (at' = "connect" => addrs' # <<>>)
    BY <1>0, <2>1, AwaitTimes, DieTimes DEF FetchTypeOK, ClocksOk, Safe
  <2> QED
    BY <1>0, <1>4, <2>2, <2>3 DEF Resolved, FetchTypeOK, ClocksOk, hop
<1>5. CASE Connected
  <2>1. peer' \in Addresses
    BY <1>0, <1>5, HeadTailProperties DEF Connected, FetchTypeOK
  <2>2. at' \in {"tls", "failed"} /\ ClocksOk'
    BY <1>0, <1>5, AwaitTimes DEF Connected, ClocksOk, FetchTypeOK
  <2> QED
    BY <1>0, <1>5, <2>1, <2>2 DEF Connected, FetchTypeOK, ClocksOk, hop
<1>6. CASE NextAddress
  <2>1. addrs' \in Seq(Addresses) /\ peer' = Nobody
    BY <1>0, <1>6, HeadTailProperties DEF NextAddress, FetchTypeOK
  <2>2. at' \in {"connect", "failed"} /\ ClocksOk' /\ (at' = "connect" => addrs' # <<>>)
    BY <1>0, <1>6, AwaitTimes, DieTimes DEF NextAddress, ClocksOk, FetchTypeOK
  <2> QED
    BY <1>0, <1>6, <2>1, <2>2 DEF NextAddress, FetchTypeOK, ClocksOk, hop
<1>7. CASE Secured
  <2>1. at' \in {"request", "failed"} /\ ClocksOk'
    BY <1>0, <1>7, AwaitTimes DEF Secured, ClocksOk, FetchTypeOK
  <2>2. told' \subseteq {Origin(u) : u \in Urls}
    BY <1>0, <1>7 DEF Secured, FetchTypeOK
  <2> QED
    BY <1>0, <1>7, <2>1, <2>2 DEF Secured, FetchTypeOK, ClocksOk, hop, link
<1>8. CASE Answered
  <2>1. /\ resp' \in Responses /\ resp' # NoAnswer /\ resp'.status = "ok"
    BY <1>8, ResponseFields DEF Answered
  <2>2. at' \in {"body", "decode", "failed"} /\ ClocksOk'
    <3>1. GiveUp \/ (at' = "decode" /\ UNCHANGED time) \/ Await("body")
      BY <1>8 DEF Answered
    <3> QED
      BY <1>0, <3>1, AwaitTimes, DieTimes DEF ClocksOk, FetchTypeOK, time
  <2> QED
    BY <1>0, <1>8, <2>1, <2>2 DEF Answered, FetchTypeOK, ClocksOk, hop, link
<1>9. CASE ReadChunk
  <2>1. at' \in {"body", "decode", "failed"} /\ ClocksOk'
    <3>1. GiveUp \/ (at' = "decode" /\ UNCHANGED time) \/ Await("body")
      BY <1>9 DEF ReadChunk
    <3> QED
      BY <1>0, <3>1, AwaitTimes, DieTimes DEF ClocksOk, FetchTypeOK, time
  <2>2. got' \in Nat
    BY <1>0, <1>9 DEF ReadChunk, FetchTypeOK
  <2> QED
    BY <1>0, <1>9, <2>1, <2>2 DEF ReadChunk, FetchTypeOK, ClocksOk, hop, link
<1>10. CASE BodyEnds \/ Decode \/ Process
  <2>1. /\ at' \in {"decode", "process", "failed", "accepted"}
        /\ at \in {"body", "decode", "process"} /\ peer' \in {peer, Nobody}
        /\ UNCHANGED <<hop, addrs, told, resp, got, clock, budget, armed>>
    BY <1>10 DEF BodyEnds, Decode, Process, GiveUp, link, time
  <2> QED
    BY <1>0, <2>1 DEF FetchTypeOK, hop
<1>11. CASE ResolveFails \/ RequestFails \/ ReadFails \/ Rings
  <2>1. at' = "failed" /\ UNCHANGED <<hop, link, told, resp, got, clock, budget, armed>>
    BY <1>11, DieTimes DEF ResolveFails, RequestFails, ReadFails, Rings
  <2> QED
    BY <1>0, <1>1, <2>1 DEF link, FetchTypeOK
<1>12. CASE TimesOut
  <2>1. NextAddress \/ (GiveUp /\ UNCHANGED <<hop, link, told, resp, got>>)
    BY <1>12 DEF TimesOut
  <2> QED
    BY <1>0, <1>1, <1>6, <2>1, DieTimes DEF link, FetchTypeOK
<1>13. CASE Trickle \/ TimePasses
  <2>1. UNCHANGED <<at, hop, link, told, resp, got, budget>>
    BY <1>13 DEF Trickle, TimePasses
  <2>2. ClocksOk'
    BY <1>0, <1>13 DEF Trickle, TimePasses, ClocksOk, FetchTypeOK
  <2> QED
    BY <1>0, <2>1, <2>2 DEF FetchTypeOK, ClocksOk, hop, link
<1>14. CASE UNCHANGED fetchVars
  BY <1>0, <1>14 DEF fetchVars, hop, link, time, FetchTypeOK
<1> QED
  BY <1>2, <1>3, <1>4, <1>5, <1>6, <1>7, <1>8, <1>9, <1>10, <1>11, <1>12, <1>13, <1>14
  DEF FetchNext

\* Who is spoken to, after how many redirects.
PathInv == HwidStaysHome /\ OnlyPublic /\ HopsInv /\ AddressesInv

LEMMA PathKept == FetchInv /\ [FetchNext]_fetchVars => PathInv'
<1> SUFFICES ASSUME FetchInv, [FetchNext]_fetchVars PROVE PathInv'
  OBVIOUS
<1>0. FetchTypeOK /\ PathInv
  BY DEF FetchInv, TalksToTheRight, PathInv
<1> USE DEF Waiting, Over
<1>1. ASSUME at' \notin {"begin", "resolve", "connect", "tls", "request", "body"},
             peer' \in {peer, Nobody}, UNCHANGED <<told, asked>>
      PROVE  PathInv'
  BY <1>0, <1>1 DEF PathInv, HwidStaysHome, OnlyPublic, HopsInv, AddressesInv
<1>2. ASSUME at' \in {"resolve", "failed"}, peer' \in {peer, Nobody}, UNCHANGED <<told, asked>>,
             at' = "resolve" => gets' <= MaxRedirects + 1
      PROVE  PathInv'
  BY <1>0, <1>2 DEF PathInv, HwidStaysHome, OnlyPublic, HopsInv, AddressesInv
<1>3. CASE Begin
  BY <1>0, <1>2, <1>3, VisitTimes DEF Begin, PathInv, FetchTypeOK, link
<1>4. CASE Redirected
  <2>1. PICK r \in Responses : IF r.to = NoUrl THEN GiveUp /\ UNCHANGED hop ELSE Visit(r.to)
    BY <1>4 DEF Redirected
  <2>2. peer' = Nobody /\ UNCHANGED told /\ at \in Waiting
    BY <1>4 DEF Redirected
  <2>3. CASE r.to = NoUrl
    BY <1>1, <2>1, <2>2, <2>3, DieTimes DEF hop
  <2>4. CASE r.to # NoUrl
    <3>1. r.to \in Urls
      BY <2>4, ResponseFields
    <3> QED
      BY <1>0, <1>2, <2>1, <2>2, <2>4, <3>1, VisitTimes DEF PathInv
  <2> QED
    BY <2>3, <2>4
<1>5. CASE Resolved
  <2>1. PICK answer \in Answers : /\ addrs' = answer
                                  /\ IF Safe(answer) THEN Await("connect") ELSE GiveUp
    BY <1>5 DEF Resolved
  <2>2. UNCHANGED <<hop, peer, told>> /\ at = "resolve"
    BY <1>5 DEF Resolved
  <2>3. CASE Safe(answer)
    BY <1>0, <2>1, <2>2, <2>3, AwaitTimes
       DEF Safe, PathInv, HwidStaysHome, OnlyPublic, HopsInv, AddressesInv, hop
  <2>4. CASE ~Safe(answer)
    BY <1>1, <2>1, <2>2, <2>4, DieTimes DEF hop
  <2> QED
    BY <2>3, <2>4
<1>6. CASE Connected
  <2>1. /\ at = "connect" /\ at' \in {"tls", "failed"} /\ UNCHANGED <<hop, addrs, told>>
    BY <1>0, <1>6, AwaitTimes DEF Connected
  <2>2. peer' \in Public
    <3>1. addrs \in Seq(Addresses) /\ addrs # <<>> /\ \A i \in DOMAIN addrs : addrs[i] \in Public
      BY <1>0, <2>1 DEF FetchTypeOK, PathInv, AddressesInv
    <3>2. Head(addrs) = addrs[1] /\ 1 \in DOMAIN addrs
      BY <3>1, HeadTailProperties, LenProperties, EmptySeq
    <3> QED
      BY <1>6, <3>1, <3>2 DEF Connected
  <2> QED
    BY <1>0, <2>1, <2>2 DEF PathInv, HwidStaysHome, OnlyPublic, HopsInv, AddressesInv, hop
<1>7. CASE NextAddress
  <2>1. /\ at' \in {"connect", "failed"} /\ UNCHANGED <<hop, told>> /\ peer' = Nobody
        /\ addrs' = Tail(addrs) /\ at \in {"connect", "tls"}
    BY <1>0, <1>7, AwaitTimes, DieTimes DEF NextAddress
  <2>2. \A i \in DOMAIN addrs' : addrs'[i] \in Public
    <3>1. addrs \in Seq(Addresses) /\ addrs # <<>> /\ \A i \in DOMAIN addrs : addrs[i] \in Public
      BY <1>0, <2>1 DEF FetchTypeOK, PathInv, AddressesInv
    <3>2. SUFFICES ASSUME NEW i \in DOMAIN Tail(addrs) PROVE Tail(addrs)[i] \in Public
      BY <2>1
    <3>3. Tail(addrs)[i] = addrs[i + 1] /\ i + 1 \in DOMAIN addrs
      BY <3>1, HeadTailProperties, LenProperties
    <3> QED
      BY <3>1, <3>3
  <2> QED
    BY <1>0, <2>1, <2>2 DEF PathInv, HwidStaysHome, OnlyPublic, HopsInv, AddressesInv, hop
<1>8. CASE Secured
  <2>1. at = "tls" /\ at' \in {"request", "failed"} /\ UNCHANGED <<hop, link>>
    BY <1>0, <1>8, AwaitTimes DEF Secured
  <2>2. told' \subseteq {Origin(asked)}
    BY <1>0, <1>8 DEF Secured, SameOrigin, PathInv, HwidStaysHome
  <2> QED
    BY <1>0, <2>1, <2>2 DEF PathInv, HwidStaysHome, OnlyPublic, HopsInv, AddressesInv, hop, link
<1>9. CASE Answered \/ ReadChunk
  <2>1. /\ GiveUp \/ (at' = "decode" /\ UNCHANGED time) \/ Await("body")
        /\ UNCHANGED <<hop, link, told>> /\ at \in {"request", "body"}
    BY <1>9 DEF Answered, ReadChunk
  <2>2. at' \in {"body", "decode", "failed"}
    BY <1>0, <2>1, AwaitTimes, DieTimes
  <2> QED
    BY <1>0, <2>1, <2>2 DEF PathInv, HwidStaysHome, OnlyPublic, HopsInv, AddressesInv, hop, link
<1>10. CASE BodyEnds \/ Decode \/ Process
  <2>1. /\ at' \in {"decode", "process", "failed", "accepted"} /\ peer' \in {peer, Nobody}
        /\ UNCHANGED <<hop, told>>
    BY <1>10 DEF BodyEnds, Decode, Process, GiveUp, link
  <2> QED
    BY <1>1, <2>1 DEF hop
<1>11. CASE ResolveFails \/ RequestFails \/ ReadFails \/ Rings
  <2>1. at' = "failed" /\ UNCHANGED <<hop, link, told>>
    BY <1>11, DieTimes DEF ResolveFails, RequestFails, ReadFails, Rings
  <2> QED
    BY <1>1, <2>1 DEF hop, link
<1>12. CASE TimesOut
  <2>1. NextAddress \/ (GiveUp /\ UNCHANGED <<hop, link, told>>)
    BY <1>12 DEF TimesOut
  <2> QED
    BY <1>1, <1>7, <2>1, DieTimes DEF hop, link
<1>13. CASE Trickle \/ TimePasses \/ UNCHANGED fetchVars
  BY <1>0, <1>13
     DEF Trickle, TimePasses, fetchVars, hop, link, PathInv, HwidStaysHome, OnlyPublic, HopsInv,
         AddressesInv
<1> QED
  BY <1>3, <1>4, <1>5, <1>6, <1>7, <1>8, <1>9, <1>10, <1>11, <1>12, <1>13 DEF FetchNext

\* What was read, and whether it is all.
WholeInv == BodyInv /\ AcceptedIsWhole /\ InTime

LEMMA WholeKept == FetchInv /\ [FetchNext]_fetchVars => WholeInv'
<1> SUFFICES ASSUME FetchInv, [FetchNext]_fetchVars PROVE WholeInv'
  OBVIOUS
<1>0. FetchTypeOK /\ WholeInv /\ resp \in Responses \cup {NoAnswer}
  BY DEF FetchInv, TalksToTheRight, WholeInv, FetchTypeOK
<1> USE DEF Waiting, Over
<1>1. ASSUME at' \notin {"body", "decode", "process", "accepted"} PROVE WholeInv'
  BY <1>1 DEF WholeInv, BodyInv, AcceptedIsWhole, InTime
<1>2. CASE Begin \/ Redirected
  <2>1. at' \in {"resolve", "failed"}
    BY <1>0, <1>2, AwaitTimes, DieTimes DEF Begin, Redirected, Visit
  <2> QED
    BY <1>1, <2>1
<1>3. CASE Resolved \/ Connected \/ NextAddress \/ Secured
  <2>1. at' \in {"connect", "tls", "request", "failed"}
    BY <1>0, <1>3, AwaitTimes, DieTimes DEF Resolved, Connected, NextAddress, Secured
  <2> QED
    BY <1>1, <2>1
<1>4. CASE Answered
  <2>1. PICK r \in Responses :
           /\ resp' = r /\ got' = 0
           /\ \/ GiveUp \/ Await("body")
              \/ /\ at' = "decode" /\ UNCHANGED time
                 /\ r.framing = "length" /\ r.length = 0
    BY <1>4 DEF Answered
  <2>2. /\ at' \in {"body", "decode", "failed"}
        /\ at' = "decode" => r.framing = "length"
    BY <1>0, <2>1, AwaitTimes, DieTimes
  <2>3. r.body.size \in Nat
    BY ResponseFields
  <2> QED
    BY <2>1, <2>2, <2>3 DEF WholeInv, BodyInv, AcceptedIsWhole, InTime
<1>5. CASE ReadChunk
  <2>1. /\ resp' = resp /\ got' = got + 1 /\ got < resp.body.size /\ at = "body"
        /\ \/ GiveUp \/ Await("body")
           \/ /\ at' = "decode" /\ UNCHANGED time /\ clock < Deadline /\ Closed(got')
    BY <1>5 DEF ReadChunk
  <2>2. /\ at' \in {"body", "decode", "failed"}
        /\ at' = "decode" => clock' < Deadline /\ resp.framing = "length"
    BY <1>0, <2>1, AwaitTimes, DieTimes DEF Closed, time
  <2>3. resp.body.size \in Nat /\ got \in Nat
    BY <1>0, <2>1, ResponseFields DEF FetchTypeOK
  <2> QED
    BY <2>1, <2>2, <2>3 DEF WholeInv, BodyInv, AcceptedIsWhole, InTime
<1>6. CASE BodyEnds
  <2>1. /\ at = "body" /\ UNCHANGED <<resp, got, clock>> /\ at' \in {"decode", "failed"}
        /\ at' = "decode" => ~(clock >= Deadline)
        /\ at' = "decode" => ~(resp.framing = "chunked" /\ got < resp.body.size)
    BY <1>6 DEF BodyEnds, GiveUp, time
  <2>2. resp.body.size \in Nat /\ got \in Nat /\ clock \in Nat /\ Deadline \in Nat
    BY <1>0, <2>1, ResponseFields, Limits DEF FetchTypeOK
  <2>3. got <= resp.body.size
    BY <1>0, <2>1 DEF WholeInv, BodyInv
  <2> QED
    BY <2>1, <2>2, <2>3 DEF WholeInv, BodyInv, AcceptedIsWhole, InTime
<1>7. CASE Decode
  <2>1. /\ at = "decode" /\ UNCHANGED <<resp, got, clock>> /\ at' \in {"process", "failed"}
        /\ at' = "process" => resp.length \in {NoLength, got} /\ Decodes
    BY <1>7 DEF Decode, time
  <2>2. resp \in Responses /\ got \in Nat
    BY <1>0, <2>1 DEF FetchTypeOK
  <2>3. ASSUME at' = "process", ~(resp.framing = "close" /\ resp.enc = "identity")
        PROVE  got = resp.body.size
    <3>1. CASE resp.framing = "length"
      BY <2>1, <2>2, <2>3, <3>1, ResponseFields, ResponsesAssumption
    <3>2. CASE resp.framing = "chunked"
      BY <1>0, <2>1, <3>2 DEF WholeInv, BodyInv
    <3>3. CASE resp.framing = "close"
      BY <2>1, <2>3, <3>3 DEF Decodes, Inflates
    <3> QED
      BY <2>2, <3>1, <3>2, <3>3, ResponseFields
  <2> QED
    BY <1>0, <2>1, <2>3 DEF WholeInv, BodyInv, AcceptedIsWhole, InTime
<1>8. CASE Process
  BY <1>0, <1>8 DEF Process, time, WholeInv, BodyInv, AcceptedIsWhole, InTime
<1>9. CASE ResolveFails \/ RequestFails \/ ReadFails \/ Rings
  BY <1>1, <1>9, DieTimes DEF ResolveFails, RequestFails, ReadFails, Rings
<1>10. CASE TimesOut
  BY <1>1, <1>3, <1>10, DieTimes DEF TimesOut
<1>11. CASE Trickle \/ TimePasses
  <2>1. UNCHANGED <<at, resp, got>> /\ at \in Waiting
    BY <1>11 DEF Trickle, TimePasses
  <2> QED
    BY <1>0, <2>1 DEF WholeInv, BodyInv, AcceptedIsWhole, InTime
<1>12. CASE UNCHANGED fetchVars
  BY <1>0, <1>12 DEF fetchVars, time, WholeInv, BodyInv, AcceptedIsWhole, InTime
<1> QED
  BY <1>2, <1>3, <1>4, <1>5, <1>6, <1>7, <1>8, <1>9, <1>10, <1>11, <1>12 DEF FetchNext

LEMMA FetchInvariant == FetchSpec => []FetchInv
<1>1. FetchInv /\ [FetchNext]_fetchVars => FetchInv'
  BY FetchTyped, PathKept, WholeKept
  DEF FetchInv, TalksToTheRight, PathInv, WholeInv
<1> QED
  BY FetchStarts, <1>1, PTL DEF FetchSpec

\* Whatever the provider answers and DNS says, the fetch speaks to public addresses only,
\* and tells who the user is to nobody but the origin of the subscription.
THEOREM FetchIsDiscreet == FetchSpec => []TalksToTheRight
<1>1. FetchInv => TalksToTheRight
  BY DEF FetchInv
<1> QED
  BY FetchInvariant, <1>1, PTL

\* However the body was framed, encoded and cut, what is processed is all of it, save for
\* the one body whose end nothing tells.
THEOREM NothingCutIsAccepted == FetchSpec => []AcceptedIsWhole
<1>1. FetchInv => AcceptedIsWhole
  BY DEF FetchInv
<1> QED
  BY FetchInvariant, <1>1, PTL

\* A body of which anything was read was read before the deadline.
THEOREM BodiesAreInTime == FetchSpec => []InTime
<1>1. FetchInv => InTime
  BY DEF FetchInv
<1> QED
  BY FetchInvariant, <1>1, PTL
=============================================================================
