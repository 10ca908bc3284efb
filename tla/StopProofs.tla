------------------------------ MODULE StopProofs ------------------------------
(* What a Stop, an abort and an emergency stop promise, for any threads, limits, *)
(* inputs and bound, what the test oracle makes of such a controller, the        *)
(* interlock beside it, and the pendants that stop before they jog.              *)
EXTENDS MotionOracle, SafetyLink, TeachPendant, ControllerAgentProofs, SequenceTheorems

\* Only motions that were started have a history.
HistoryType == asked \cup estopped \cup wasReset \subseteq 1..next_motion_id - 1

\* Why a motion in progress can be aborted, and why a stopped one will be: the flags of
\* the controller and the history say the same of the current motion.
FlagsAsked == busy /\ AbortRequested => current_motion_id \in asked
AskedFlags ==
  busy /\ current_motion_id \in (asked \cup estopped) \ wasReset
    => AbortRequested \/ emergency_requested

HInv ==
  /\ HistoryType
  /\ FlagsAsked /\ AskedFlags
  /\ StoppedIsNotDone /\ AbortedOnlyWhenAsked

\* What the theorems about the controller give.
Known == IInv /\ OutcomeMatchesTrajectory

\* The kinds of step the history tells apart.
LEMMA HistoryIsController ==
  ASSUME [NextHistory]_<<vars, history>>
  PROVE  [Next]_vars
BY DEF NextHistory, Asking, NotAsking, Next

LEMMA CurrentFacts ==
  ASSUME Known, busy
  PROVE  /\ current_motion_id = next_motion_id - 1 /\ current_motion_id \in 1..next_motion_id - 1
         /\ current_motion_id \notin DOMAIN outcomes
BY BusyHasId DEF Known, IInv, TypeOK, OutcomeMatchesTrajectory

\* Steps that raise a request: the motion in progress enters the history with it.
LEMMA RequestKeeps ==
  ASSUME Known, HInv,
         UNCHANGED <<busy, current_motion_id, next_motion_id, outcomes>>,
         \/ RecordAsked /\ AbortRequested' /\ emergency_requested' = emergency_requested
         \/ RecordEmergency /\ emergency_requested' /\ AbortRequested' = AbortRequested
  PROVE  HInv'
<1>1. busy => /\ current_motion_id \in 1..next_motion_id - 1
              /\ current_motion_id \notin DOMAIN outcomes
  BY CurrentFacts
<1>2. /\ asked \subseteq asked' /\ asked' \cup estopped' \subseteq asked \cup estopped \cup Current
      /\ wasReset' = wasReset /\ asked' \subseteq asked \cup Current
      /\ asked' \cup estopped' = asked \cup estopped \cup Current
  BY DEF RecordAsked, RecordEmergency
<1>3. HistoryType'
  BY <1>1, <1>2 DEF HInv, HistoryType, Current
<1>4. FlagsAsked' /\ AskedFlags'
  BY <1>2 DEF HInv, FlagsAsked, AskedFlags, Current, RecordAsked, RecordEmergency
<1>5. StoppedIsNotDone' /\ AbortedOnlyWhenAsked'
  BY <1>1, <1>2 DEF HInv, StoppedIsNotDone, AbortedOnlyWhenAsked, Current
<1>. QED  BY <1>3, <1>4, <1>5 DEF HInv

LEMMA ResetKeeps ==
  ASSUME Known, HInv, Reset, RecordReset
  PROVE  HInv'
<1>1. /\ UNCHANGED <<busy, current_motion_id, next_motion_id, outcomes, asked, estopped>>
      /\ ~AbortRequested' /\ wasReset' = wasReset \cup Current
  BY DEF Reset, RecordReset, motionVars, AbortRequested
<1>2. Current \subseteq 1..next_motion_id - 1 /\ (busy => current_motion_id \in Current)
  BY CurrentFacts DEF Current
<1>3. HistoryType'
  BY <1>1, <1>2 DEF HInv, HistoryType
<1>4. FlagsAsked' /\ AskedFlags'
  BY <1>1, <1>2 DEF FlagsAsked, AskedFlags
<1>5. StoppedIsNotDone' /\ AbortedOnlyWhenAsked'
  BY <1>1 DEF HInv, StoppedIsNotDone, AbortedOnlyWhenAsked
<1>. QED  BY <1>3, <1>4, <1>5 DEF HInv

\* Steps that change neither what is in progress nor what is asked of it.
LEMMA QuietKeeps ==
  ASSUME HInv, UNCHANGED history,
         UNCHANGED <<current_motion_id, next_motion_id, flagVars>>,
         busy' => busy,
         \A id \in DOMAIN outcomes' : id \in DOMAIN outcomes /\ outcomes'[id] = outcomes[id]
  PROVE  HInv'
<1>1. UNCHANGED <<asked, estopped, wasReset>>
  BY DEF history
<1>2. HistoryType'
  BY <1>1 DEF HInv, HistoryType
<1>3. FlagsAsked' /\ AskedFlags'
  BY <1>1 DEF HInv, FlagsAsked, AskedFlags, AbortRequested, flagVars
<1>4. StoppedIsNotDone' /\ AbortedOnlyWhenAsked'
  BY <1>1 DEF HInv, StoppedIsNotDone, AbortedOnlyWhenAsked
<1>. QED  BY <1>2, <1>3, <1>4 DEF HInv

\* A motion that starts is new to the history.
LEMMA StartsNew ==
  ASSUME Known, HInv, UNCHANGED history, NEW t \in Threads, NEW r, Start(t, r)
  PROVE  HInv'
<1>1. /\ UNCHANGED <<asked, estopped, wasReset, outcomes>>
      /\ next_motion_id \in Nat \ {0} /\ current_motion_id' = next_motion_id
      /\ next_motion_id' = next_motion_id + 1 /\ ~AbortRequested'
  BY DEF Known, IInv, TypeOK, Start, TakeId, ClearRequests, AbortRequested, history
<1>2. current_motion_id' \notin asked \cup estopped \cup wasReset
  BY <1>1 DEF HInv, HistoryType
<1>3. HistoryType'
  BY <1>1 DEF HInv, HistoryType
<1>4. FlagsAsked' /\ AskedFlags'
  BY <1>1, <1>2 DEF FlagsAsked, AskedFlags
<1>5. StoppedIsNotDone' /\ AbortedOnlyWhenAsked'
  BY <1>1 DEF HInv, StoppedIsNotDone, AbortedOnlyWhenAsked
<1>. QED  BY <1>3, <1>4, <1>5 DEF HInv

LEMMA CheckIsQuiet ==
  ASSUME Known, HInv, UNCHANGED history, NEW t \in Threads, NEW r, CheckLimitsAndStart(t, r)
  PROVE  HInv'
<1>1. CASE RejectTarget(t, r)
  BY <1>1, QuietKeeps DEF RejectTarget, motionVars
<1>2. CASE Start(t, r)
  BY <1>2, StartsNew
<1>. QED  BY <1>1, <1>2 DEF CheckLimitsAndStart

LEMMA RunIsQuiet ==
  ASSUME Known, HInv, UNCHANGED history, NEW t \in Threads, NEW r, NEW a,
         RunMotion(t, r, a), ~RequestAbort(t, r)
  PROVE  HInv'
<1>1. CASE Reject(t)
  BY <1>1, QuietKeeps DEF Reject, motionVars
<1>2. CASE CheckLimitsAndStart(t, r)
  BY <1>2, CheckIsQuiet
<1>. QED  BY <1>1, <1>2 DEF RunMotion

\* The control loop ends a motion as the requests say.
LEMMA CycleIsAsked ==
  ASSUME Known, HInv, UNCHANGED history, ControlCycle
  PROVE  HInv'
<1>1. UNCHANGED <<asked, estopped, wasReset, current_motion_id, next_motion_id>>
  BY DEF history, ControlCycle, CycleEmergency, CycleAbort, CycleAdvance, CycleDone, motionVars
<1>2. CASE CycleAdvance
  BY <1>2, QuietKeeps DEF CycleAdvance, motionVars
<1>3. CASE CycleEmergency \/ CycleAbort \/ CycleDone
  <2>1. PICK filed :  /\ busy /\ busy' = FALSE
                      /\ outcomes' = Put(outcomes, current_motion_id, filed)
                      /\ filed.ok => ~AbortRequested /\ ~emergency_requested
                      /\ filed.error_code = "ABORTED" => AbortRequested
    BY <1>3 DEF CycleEmergency, CycleAbort, CycleDone, Finish, Outcome
  <2>2. filed.ok => current_motion_id \notin (asked \cup estopped) \ wasReset
    BY <2>1 DEF HInv, AskedFlags
  <2>3. filed.error_code = "ABORTED" => current_motion_id \in asked
    BY <2>1 DEF HInv, FlagsAsked
  <2>4. StoppedIsNotDone' /\ AbortedOnlyWhenAsked'
    BY <1>1, <2>1, <2>2, <2>3 DEF HInv, StoppedIsNotDone, AbortedOnlyWhenAsked, Put
  <2>5. HistoryType' /\ FlagsAsked' /\ AskedFlags'
    BY <1>1, <2>1 DEF HInv, HistoryType, FlagsAsked, AskedFlags
  <2>. QED  BY <2>4, <2>5 DEF HInv
<1>. QED  BY <1>2, <1>3 DEF ControlCycle

\* The controller with no motion recorded satisfies HInv.
THEOREM InitHInv == InitHistory => HInv
<1>. SUFFICES ASSUME InitHistory PROVE HInv
  OBVIOUS
<1>1. busy = FALSE /\ DOMAIN outcomes = {} /\ asked = {} /\ estopped = {} /\ wasReset = {}
  BY DEF InitHistory, Init
<1>. QED
  BY <1>1 DEF HInv, HistoryType, FlagsAsked, AskedFlags, StoppedIsNotDone, AbortedOnlyWhenAsked

\* Every step of the controller, recorded in the history, keeps HInv.
THEOREM NextHInv == Known /\ HInv /\ [NextHistory]_<<vars, history>> => HInv'
<1>. SUFFICES ASSUME Known, HInv, [NextHistory]_<<vars, history>> PROVE HInv'
  OBVIOUS
<1>1. CASE Stop /\ RecordAsked
  BY <1>1, RequestKeeps DEF Stop, motionVars, AbortRequested
<1>2. CASE EmergencyStop /\ RecordEmergency
  BY <1>2, RequestKeeps DEF EmergencyStop, motionVars, AbortRequested
<1>3. CASE Reset /\ RecordReset
  BY <1>3, ResetKeeps
<1>4. CASE (\E t \in Threads : MoveAbsolute(t) /\ pc'[t] = "aborting") /\ RecordAsked
  <2>1. PICK t \in Threads : MoveAbsolute(t) /\ pc'[t] = "aborting"
    BY <1>4
  <2>2. PICK target \in Targets, profile \in Profiles, a \in BOOLEAN :
          RunMotion(t, Request(target, profile), a)
    BY <2>1 DEF MoveAbsolute
  <2>3. RequestAbort(t, Request(target, profile))
    BY <2>1, <2>2 DEF RunMotion, Reject, Return, CheckLimitsAndStart, RejectTarget, Start,
                      Known, IInv, TypeOK
  <2>. QED
    BY <1>4, <2>3, RequestKeeps DEF RequestAbort, motionVars, AbortRequested
<1>5. CASE NotAsking /\ UNCHANGED history
  <2>1. CASE Enable \/ Disable
    BY <1>5, <2>1, QuietKeeps DEF Enable, Disable, CutMotion, motionVars
  <2>2. CASE \E t \in Threads : MoveAbsolute(t) /\ pc'[t] # "aborting"
    <3>1. PICK t \in Threads : MoveAbsolute(t) /\ pc'[t] # "aborting"
      BY <2>2
    <3>2. PICK target \in Targets, profile \in Profiles, a \in BOOLEAN :
            RunMotion(t, Request(target, profile), a)
      BY <3>1 DEF MoveAbsolute
    <3>3. ~RequestAbort(t, Request(target, profile))
      BY <3>1 DEF RequestAbort, Known, IInv, TypeOK
    <3>. QED  BY <1>5, <3>2, <3>3, RunIsQuiet
  <2>3. CASE \E t \in Threads : Home(t) \/ RunRelative(t)
    <3>1. PICK t \in Threads : \E r : RunMotion(t, r, FALSE)
      BY <2>3 DEF Home, RunRelative
    <3>2. PICK r : RunMotion(t, r, FALSE)
      BY <3>1
    <3>. QED  BY <1>5, <3>2, RunIsQuiet, CheckIsQuiet, QuietKeeps DEF RunMotion, Reject, motionVars
  <2>4. CASE \E t \in Threads : MoveRelative(t) \/ WaitAgain(t) \/ SpuriousWakeup(t)
    BY <1>5, <2>4, QuietKeeps DEF MoveRelative, WaitAgain, SpuriousWakeup, motionVars
  <2>5. CASE \E t \in Threads : ProceedAfterAbort(t)
    BY <1>5, <2>5, CheckIsQuiet DEF ProceedAfterAbort
  <2>6. CASE \E t \in Threads : CollectResult(t)
    BY <1>5, <2>6, QuietKeeps DEF CollectResult, Erase, Restrict
  <2>7. CASE ControlCycle
    BY <1>5, <2>7, CycleIsAsked
  <2>. QED
    BY <1>5, <2>1, <2>2, <2>3, <2>4, <2>5, <2>6, <2>7 DEF NotAsking, Resume
<1>6. CASE UNCHANGED <<vars, history>>
  BY <1>6, QuietKeeps DEF vars, motionVars
<1>. QED
  BY <1>1, <1>2, <1>3, <1>4, <1>5, <1>6 DEF NextHistory, Asking
-----------------------------------------------------------------------------
(* The theorems about stopping. *)

\* The history only watches: the controller beside it is the controller.
LEMMA WatchedIsController == SpecHistory => Spec
<1>1. InitHistory => Init
  BY DEF InitHistory
<1>2. [NextHistory]_<<vars, history>> => [Next]_vars
  BY HistoryIsController
<1>. QED  BY <1>1, <1>2, PTL DEF SpecHistory, Spec

\* What the flags of the controller say of the motion in progress, and the history of what
\* was asked of it, agree in every state (controller_agent.cpp, stop, reset, control_cycle).
THEOREM HistoryInvariance == SpecHistory => [](Known /\ HInv)
<1>1. SpecHistory => []IInv /\ []OutcomeMatchesTrajectory
  BY WatchedIsController, Invariance, Outcomes
<1>2. IInv /\ OutcomeMatchesTrajectory => Known
  BY DEF Known
<1>. QED  BY <1>1, <1>2, InitHInv, NextHInv, PTL DEF SpecHistory

\* What was told to stop is not reported DONE (controller_agent.cpp 56-77): the control
\* loop looks at the requests before it advances, and only Reset takes them back.
THEOREM StoppedNotDone == SpecHistory => []StoppedIsNotDone
<1>1. HInv => StoppedIsNotDone
  BY DEF HInv
<1>. QED  BY <1>1, HistoryInvariance, PTL

\* ABORTED is reported of motions that were asked to end (controller_agent.cpp 64-77
\* and 223-226): a start clears what was asked of the motions before.
THEOREM AbortIsAsked == SpecHistory => []AbortedOnlyWhenAsked
<1>1. HInv => AbortedOnlyWhenAsked
  BY DEF HInv
<1>. QED  BY <1>1, HistoryInvariance, PTL

\* A stopped motion moves the arm no more (controller_agent.cpp 56-100).
THEOREM StoppedStays == SpecHistory => StoppedMotionStays
<1>1. Known /\ HInv /\ [NextHistory]_<<vars, history>>
        => [position' # position
              => current_motion_id \notin (asked \cup estopped) \ wasReset]_<<vars, history>>
  <2>. SUFFICES ASSUME HInv, [NextHistory]_<<vars, history>>, position' # position
                PROVE  current_motion_id \notin (asked \cup estopped) \ wasReset
    OBVIOUS
  <2>1. CASE CycleAdvance \/ CycleDone
    BY <2>1 DEF HInv, AskedFlags, CycleAdvance, CycleDone
  <2>2. CASE Enable \/ Disable \/ Stop \/ EmergencyStop \/ Reset \/ UNCHANGED vars
    BY <2>2 DEF Enable, Disable, Stop, EmergencyStop, Reset, vars, robotVars
  <2>3. CASE CycleEmergency \/ CycleAbort
    BY <2>3 DEF CycleEmergency, CycleAbort
  <2>4. CASE \E t \in Threads : MoveAbsolute(t) \/ Home(t) \/ RunRelative(t) \/ ProceedAfterAbort(t)
    BY <2>4 DEF MoveAbsolute, Home, RunRelative, ProceedAfterAbort, RunMotion, Reject, RequestAbort,
                CheckLimitsAndStart, RejectTarget, Start, robotVars
  <2>5. CASE \E t \in Threads : MoveRelative(t) \/ CollectResult(t) \/ WaitAgain(t) \/ SpuriousWakeup(t)
    BY <2>5 DEF MoveRelative, CollectResult, WaitAgain, SpuriousWakeup, robotVars
  <2>. QED
    BY HistoryIsController, <2>1, <2>2, <2>3, <2>4, <2>5 DEF Next, Resume, ControlCycle
<1>. QED  BY <1>1, HistoryInvariance, PTL DEF StoppedMotionStays, SpecHistory
-----------------------------------------------------------------------------
(* The verdict of the test oracle. *)

Finals == {"DONE", "ABORTED", "ERROR"}

\* The motion in progress has no final sample, and an outcome says what its motion's
\* newest sample says.
Unfinished ==
  busy /\ current_motion_id \in DOMAIN last_sample
    => last_sample[current_motion_id] \in {"none", "ACTIVE"}
CodesAgree ==
  \A id \in DOMAIN outcomes :
    /\ last_sample[id] \in Finals
    /\ outcomes[id].error_code = "EMERGENCY_STOP" <=> last_sample[id] = "ERROR"
    /\ outcomes[id].error_code = "ABORTED" <=> last_sample[id] = "ABORTED"

\* The distinct states of a motion, as far as its newest sample tells.
SeenBy(sample, states) ==
  \/ sample = "none" /\ states = <<>>
  \/ sample = "ACTIVE" /\ states = <<"ACTIVE">>
  \/ sample \in Finals /\ (states = <<sample>> \/ states = <<"ACTIVE", sample>>)
SeenShape ==
  /\ DOMAIN seen = DOMAIN last_sample
  /\ \A id \in DOMAIN last_sample : SeenBy(last_sample[id], seen[id])

OracleInv == Unfinished /\ CodesAgree /\ SeenShape

\* What a step can do to the newest sample of a motion.
SampleStep(id) ==
  \/ id \in DOMAIN last_sample /\ last_sample'[id] = last_sample[id]
  \/ id \notin DOMAIN last_sample /\ last_sample'[id] = "none"
  \/ /\ busy /\ id = current_motion_id
     /\ last_sample'[id] \in {"ACTIVE"} \cup Finals

\* Steps that leave the recorder and the motion in progress alone.
LEMMA RecorderUntouched ==
  ASSUME Unfinished, CodesAgree,
         UNCHANGED <<current_motion_id, last_sample, outcomes>>, busy' => busy
  PROVE  Unfinished' /\ CodesAgree' /\ \A id \in DOMAIN last_sample' : SampleStep(id)
BY DEF Unfinished, CodesAgree, SampleStep

LEMMA RecorderStarts ==
  ASSUME Known, Unfinished, CodesAgree, NEW t \in Threads, NEW r, CheckLimitsAndStart(t, r)
  PROVE  Unfinished' /\ CodesAgree' /\ \A id \in DOMAIN last_sample' : SampleStep(id)
<1>1. CASE RejectTarget(t, r)
  BY <1>1, RecorderUntouched DEF RejectTarget, motionVars, robotVars
<1>2. CASE Start(t, r)
  <2>1. /\ last_sample' = Put(last_sample, next_motion_id, "none") /\ outcomes' = outcomes
        /\ current_motion_id' = next_motion_id
        /\ next_motion_id \notin DOMAIN last_sample /\ next_motion_id \notin DOMAIN outcomes
    BY <1>2 DEF Start, TakeId, Known, IInv, TypeOK
  <2>2. DOMAIN outcomes \subseteq DOMAIN last_sample
    BY DEF Known, OutcomeMatchesTrajectory
  <2>. QED
    BY <2>1, <2>2 DEF Unfinished, CodesAgree, SampleStep, Put
<1>. QED  BY <1>1, <1>2 DEF CheckLimitsAndStart

LEMMA RecorderRuns ==
  ASSUME Known, Unfinished, CodesAgree, NEW t \in Threads, NEW r, NEW a, RunMotion(t, r, a)
  PROVE  Unfinished' /\ CodesAgree' /\ \A id \in DOMAIN last_sample' : SampleStep(id)
<1>1. CASE Reject(t) \/ RequestAbort(t, r)
  BY <1>1, RecorderUntouched DEF Reject, RequestAbort, motionVars, robotVars
<1>2. CASE CheckLimitsAndStart(t, r)
  BY <1>2, RecorderStarts
<1>. QED  BY <1>1, <1>2 DEF RunMotion

LEMMA RecorderCycles ==
  ASSUME Known, Unfinished, CodesAgree, ControlCycle
  PROVE  Unfinished' /\ CodesAgree' /\ \A id \in DOMAIN last_sample' : SampleStep(id)
<1>1. busy /\ current_motion_id \notin DOMAIN outcomes
  BY CurrentFacts DEF ControlCycle, CycleEmergency, CycleAbort, CycleAdvance, CycleDone
<1>2. CASE CycleAdvance
  <2>1. /\ last_sample' = Put(last_sample, current_motion_id, "ACTIVE")
        /\ UNCHANGED <<outcomes, current_motion_id>>
    BY <1>2 DEF CycleAdvance, motionVars
  <2>2. CodesAgree'
    BY <1>1, <2>1 DEF CodesAgree, Put, Known, OutcomeMatchesTrajectory
  <2>3. \A id \in DOMAIN last_sample' : SampleStep(id)
    BY <1>1, <2>1 DEF SampleStep, Put
  <2>. QED  BY <2>1, <2>2, <2>3 DEF Unfinished, Put
<1>3. CASE CycleEmergency \/ CycleAbort \/ CycleDone
  <2>1. PICK final \in Finals, code \in {"OK", "ABORTED", "EMERGENCY_STOP"} :
          /\ last_sample' = Put(last_sample, current_motion_id, final)
          /\ outcomes' = Put(outcomes, current_motion_id, Outcome(final = "DONE", code, final))
          /\ code = "EMERGENCY_STOP" <=> final = "ERROR"
          /\ code = "ABORTED" <=> final = "ABORTED"
          /\ busy' = FALSE
    BY <1>3 DEF CycleEmergency, CycleAbort, CycleDone, Finish, Finals
  <2>2. CodesAgree'
    BY <2>1 DEF CodesAgree, Put, Outcome, Known, OutcomeMatchesTrajectory
  <2>3. \A id \in DOMAIN last_sample' : SampleStep(id)
    BY <1>1, <2>1 DEF SampleStep, Put
  <2>. QED  BY <2>1, <2>2, <2>3 DEF Unfinished
<1>. QED  BY <1>2, <1>3 DEF ControlCycle

LEMMA RecorderSteps ==
  ASSUME Known, Unfinished, CodesAgree, [Next]_vars
  PROVE  Unfinished' /\ CodesAgree' /\ \A id \in DOMAIN last_sample' : SampleStep(id)
<1>1. CASE Enable \/ Disable \/ Stop \/ EmergencyStop \/ Reset \/ UNCHANGED vars
  BY <1>1, RecorderUntouched
     DEF Enable, Disable, CutMotion, Stop, EmergencyStop, Reset, vars, motionVars, robotVars
<1>2. CASE \E t \in Threads : MoveAbsolute(t) \/ Home(t) \/ RunRelative(t)
  BY <1>2, RecorderRuns DEF MoveAbsolute, Home, RunRelative
<1>3. CASE \E t \in Threads : ProceedAfterAbort(t)
  BY <1>3, RecorderStarts DEF ProceedAfterAbort
<1>4. CASE \E t \in Threads : MoveRelative(t) \/ WaitAgain(t) \/ SpuriousWakeup(t)
  BY <1>4, RecorderUntouched DEF MoveRelative, WaitAgain, SpuriousWakeup, motionVars, robotVars
<1>5. CASE \E t \in Threads : CollectResult(t)
  <2>1. PICK t \in Threads :
          /\ outcomes' = Erase(outcomes, my_id[t]) /\ last_sample' = Erase(last_sample, my_id[t])
          /\ UNCHANGED <<busy, current_motion_id>>
    BY <1>5 DEF CollectResult
  <2>2. CodesAgree'
    BY <2>1 DEF CodesAgree, Erase, Restrict, Known, OutcomeMatchesTrajectory
  <2>3. \A id \in DOMAIN last_sample' : SampleStep(id)
    BY <2>1 DEF SampleStep, Erase, Restrict
  <2>. QED  BY <2>1, <2>2, <2>3 DEF Unfinished, Erase, Restrict
<1>6. CASE ControlCycle
  BY <1>6, RecorderCycles
<1>. QED
  BY <1>1, <1>2, <1>3, <1>4, <1>5, <1>6 DEF Next, Resume

\* A pair, built by Append.
LEMMA AppendToOne ==
  ASSUME NEW a, NEW b PROVE Append(<<a>>, b) = <<a, b>>
<1>. DEFINE two == Append(<<a>>, b)
            S == {a, b}
<1>1. <<a>> \in Seq(S) /\ b \in S
  OBVIOUS
<1>2. two \in Seq(S)
  BY <1>1, AppendProperties
<1>3. Len(two) = 2
  BY <1>1, AppendProperties
<1>4. two[1] = a
  BY <1>1, AppendProperties
<1>5. two[2] = b
  BY <1>1, AppendProperties
<1>. HIDE DEF two, S
<1>6. two = <<a, b>>
  BY <1>2, <1>3, <1>4, <1>5
<1>. QED  BY <1>6 DEF two

\* The newest state is among the distinct ones, and the next one is appended once.
LEMMA StatesInRange ==
  ASSUME NEW sample, NEW states, SeenBy(sample, states)
  PROVE  sample \in Range(states) \cup {"none"}
<1>1. CASE states = <<sample>>
  BY <1>1 DEF Range
<1>2. CASE states = <<"ACTIVE", sample>>
  BY <1>2 DEF Range
<1>. QED  BY <1>1, <1>2 DEF SeenBy

LEMMA NextState ==
  ASSUME NEW sample \in {"ACTIVE"} \cup Finals,
         NEW old, old = <<>> \/ old = <<"ACTIVE">>,
         NEW states,
         sample \in Range(old) \cup {"none"} => states = old,
         sample \notin Range(old) \cup {"none"} => states = Append(old, sample)
  PROVE  SeenBy(sample, states)
<1>1. sample # "none"
  BY DEF Finals
<1>2. CASE old = <<>>
  <2>1. Range(old) = {}
    BY <1>2 DEF Range
  <2>2. states = Append(old, sample)
    BY <1>1, <2>1
  <2>3. states = <<sample>>
    BY <1>2, <2>2
  <2>. QED  BY <2>3 DEF SeenBy
<1>3. CASE old = <<"ACTIVE">>
  <2>1. Range(old) = {"ACTIVE"}
    BY <1>3 DEF Range
  <2>2. CASE sample = "ACTIVE"
    <3>1. states = old
      BY <2>1, <2>2
    <3>. QED  BY <1>3, <2>2, <3>1 DEF SeenBy
  <2>3. CASE sample # "ACTIVE"
    <3>1. states = Append(old, sample)
      BY <1>1, <2>1, <2>3
    <3>2. sample \in Finals
      BY <2>3
    <3>3. states = <<"ACTIVE", sample>>
      BY <1>3, <3>1, AppendToOne, Zenon
    <3>. QED  BY <3>2, <3>3 DEF SeenBy
  <2>. QED  BY <2>2, <2>3
<1>. QED  BY <1>2, <1>3

\* The oracle's states follow the newest samples.
LEMMA SampledKeepsShape ==
  ASSUME Unfinished, SeenShape, \A id \in DOMAIN last_sample' : SampleStep(id), seen' = Sampled
  PROVE  SeenShape'
<1>1. DOMAIN seen' = DOMAIN last_sample'
  BY DEF Sampled
<1>2. ASSUME NEW id \in DOMAIN last_sample' PROVE SeenBy(last_sample'[id], seen'[id])
  <2>. DEFINE old == IF id \in DOMAIN seen THEN seen[id] ELSE <<>>
              new == last_sample'[id]
  <2>1. /\ new \in Range(old) \cup {"none"} => seen'[id] = old
        /\ new \notin Range(old) \cup {"none"} => seen'[id] = Append(old, new)
    BY <1>2 DEF Sampled
  <2>2. CASE id \in DOMAIN last_sample /\ new = last_sample[id]
    BY <2>1, <2>2, StatesInRange DEF SeenShape
  <2>3. CASE id \notin DOMAIN last_sample /\ new = "none"
    BY <2>1, <2>3 DEF SeenShape, SeenBy
  <2>4. CASE busy /\ id = current_motion_id /\ new \in {"ACTIVE"} \cup Finals
    <3>1. old = <<>> \/ old = <<"ACTIVE">>
      BY <2>4 DEF Unfinished, SeenShape, SeenBy, Finals
    <3>2. new \in {"ACTIVE"} \cup Finals
      BY <2>4
    <3>. HIDE DEF old, new
    <3>3. SeenBy(new, seen'[id])
      BY <2>1, <3>1, <3>2, NextState
    <3>. QED  BY <3>3 DEF new
  <2>. QED  BY <1>2, <2>2, <2>3, <2>4 DEF SampleStep
<1>. QED  BY <1>1, <1>2 DEF SeenShape

\* What the invariant says of an outcome is what the oracle says of the samples.
LEMMA ShapeIsVerdict ==
  ASSUME Known, OracleInv
  PROVE  VerdictIsOutcome
<1>. SUFFICES ASSUME NEW id \in DOMAIN outcomes
              PROVE  /\ CheckMoveSequence(seen[id]) <=> outcomes[id].ok
                     /\ CheckErrorSequence(seen[id]) <=> outcomes[id].error_code = "EMERGENCY_STOP"
                     /\ CheckAbortedSequence(seen[id])
                          <=> outcomes[id].error_code = "ABORTED" /\ Len(seen[id]) > 1
  BY DEF VerdictIsOutcome
<1>. DEFINE f == last_sample[id]
<1>1. /\ id \in DOMAIN last_sample /\ f \in Finals
      /\ outcomes[id].ok <=> f = "DONE"
      /\ outcomes[id].error_code = "EMERGENCY_STOP" <=> f = "ERROR"
      /\ outcomes[id].error_code = "ABORTED" <=> f = "ABORTED"
  BY DEF Known, OutcomeMatchesTrajectory, OracleInv, CodesAgree
<1>2. seen[id] = <<f>> \/ seen[id] = <<"ACTIVE", f>>
  BY <1>1 DEF OracleInv, SeenShape, SeenBy, Finals
<1>3. \A final : EndsWith(seen[id], final) <=> f = final
  <2>1. CASE seen[id] = <<f>>
    <3>1. seen[id] # <<>> /\ Len(seen[id]) = 1 /\ seen[id][1] = f
      BY <2>1
    <3>. QED  BY <3>1 DEF EndsWith, Last
  <2>2. CASE seen[id] = <<"ACTIVE", f>>
    <3>1. seen[id] # <<>> /\ Len(seen[id]) = 2 /\ seen[id][2] = f
      BY <2>2
    <3>. QED  BY <3>1 DEF EndsWith, Last
  <2>. QED  BY <1>2, <2>1, <2>2
<1>4. Range(seen[id]) \subseteq {"ACTIVE", f}
  BY <1>2 DEF Range
<1>5. CheckMoveSequence(seen[id]) <=> f = "DONE"
  BY <1>2, <1>3, <1>4 DEF CheckMoveSequence
<1>6. CheckErrorSequence(seen[id]) <=> f = "ERROR"
  BY <1>3 DEF CheckErrorSequence
<1>7. CheckAbortedSequence(seen[id]) <=> f = "ABORTED" /\ Len(seen[id]) > 1
  <2>1. CASE seen[id] = <<f>>
    BY <2>1, <1>1, <1>3 DEF CheckAbortedSequence, Range, Finals
  <2>2. CASE seen[id] = <<"ACTIVE", f>>
    BY <2>2, <1>1, <1>3 DEF CheckAbortedSequence, Range, Finals
  <2>. QED  BY <1>2, <2>1, <2>2
<1>. QED  BY <1>1, <1>5, <1>6, <1>7

\* The state oracle of the tests agrees with the controller about every motion
\* (state_machine.py 28-76, controller_agent.cpp 280-345), whatever the limits and
\* however many callers there are.
THEOREM Verdicts == JudgedSpec => []VerdictIsOutcome
<1>1. JudgedInit => InitHistory /\ OracleInv
  BY DEF JudgedInit, InitHistory, Init, OracleInv, Unfinished, CodesAgree, SeenShape
<1>2. [JudgedNext]_<<vars, history, seen>> => [NextHistory]_<<vars, history>>
  BY DEF JudgedNext
<1>3. JudgedSpec => SpecHistory
  BY <1>1, <1>2, PTL DEF JudgedSpec, SpecHistory
<1>4. JudgedSpec => []Known
  BY <1>3, HistoryInvariance, PTL
<1>5. Known /\ OracleInv /\ [JudgedNext]_<<vars, history, seen>> => OracleInv'
  <2>. SUFFICES ASSUME Known, OracleInv, [JudgedNext]_<<vars, history, seen>> PROVE OracleInv'
    OBVIOUS
  <2>1. CASE JudgedNext
    <3>1. [Next]_vars /\ seen' = Sampled
      BY <2>1, HistoryIsController DEF JudgedNext
    <3>. QED  BY <3>1, RecorderSteps, SampledKeepsShape DEF OracleInv
  <2>2. CASE UNCHANGED <<vars, history, seen>>
    BY <2>2 DEF OracleInv, Unfinished, CodesAgree, SeenShape, vars, motionVars, robotVars
  <2>. QED  BY <2>1, <2>2
<1>6. Known /\ OracleInv => VerdictIsOutcome
  BY ShapeIsVerdict
<1>. QED  BY <1>1, <1>4, <1>5, <1>6, PTL DEF JudgedSpec
-----------------------------------------------------------------------------
(* The interlock, with one handler at a time. *)

\* Between its accesses the handler's result, and from the second store on the shared
\* outputs, are what the matrix says of the inputs.
EdgeKnown(h) == step[h] = "idle" => prev_stop_required = outputs.stop_required
InterlockInv(h) ==
  /\ step[h] \in {"idle", "flags", "state", "edge", "emergency", "stop", "remember"}
  /\ result = [k \in {h} |-> result[k]]
  /\ step = [k \in {h} |-> step[k]]
  /\ step[h] \in {"flags", "state"} => result[h] = Interlock!Evaluate(inputs)
  /\ step[h] = "state" => outputs = [result[h] EXCEPT !.state = outputs.state]
  /\ step[h] \in {"edge", "emergency", "stop", "remember"} => outputs = Interlock!Evaluate(inputs)
  /\ step[h] = "idle" /\ inputs.estop => outputs = Interlock!Interlocked("ESTOP")
  /\ EdgeKnown(h)

\* Either way of a step of LinkNext is a step of the one handler, or leaves the interlock.
LEMMA LinkIsHandler ==
  ASSUME NEW h, Handlers = {h}, [LinkNext]_allVars
  PROVE  Interlock!HandlerStep(h) \/ UNCHANGED safetyVars
BY DEF LinkNext, SetSafetyInput, LinkStop, Interlock!HandlerStep, allVars

LEMMA HandlerKeeps ==
  ASSUME NEW h, InterlockInv(h), Interlock!HandlerStep(h)
  PROVE  InterlockInv(h)'
<1>. USE DEF Interlock!Goto
<1>1. CASE Interlock!SetInputs(h)
  BY <1>1 DEF InterlockInv, EdgeKnown, Interlock!SetInputs
<1>2. CASE Interlock!StoreFlags(h)
  BY <1>2 DEF InterlockInv, EdgeKnown, Interlock!StoreFlags, Interlock!Evaluate, Interlock!Interlocked,
              Interlock!Safe
<1>3. CASE Interlock!StoreState(h)
  BY <1>3 DEF InterlockInv, EdgeKnown, Interlock!StoreState, Interlock!Evaluate, Interlock!Interlocked,
              Interlock!Safe
<1>4. CASE Interlock!DetectEdge(h)
  BY <1>4 DEF InterlockInv, EdgeKnown, Interlock!DetectEdge
<1>5. CASE Interlock!CallEmergencyStop(h) \/ Interlock!CallStop(h)
  BY <1>5 DEF InterlockInv, EdgeKnown, Interlock!CallEmergencyStop, Interlock!CallStop
<1>6. CASE Interlock!Remember(h)
  BY <1>6 DEF InterlockInv, EdgeKnown, Interlock!Remember, Interlock!Evaluate
<1>. QED
  BY <1>1, <1>2, <1>3, <1>4, <1>5, <1>6 DEF Interlock!HandlerStep, Interlock!InterlockStep

LEMMA LinkInterlock ==
  ASSUME NEW h, Handlers = {h}
  PROVE  LinkSpec => []InterlockInv(h)
<1>1. LinkInit => InterlockInv(h)
  <2>1. Interlock!Safe(TRUE).stop_required = FALSE
    BY DEF Interlock!Safe
  <2>2. LinkInit => EdgeKnown(h)
    BY <2>1 DEF LinkInit, Interlock!SafetyInit, EdgeKnown
  <2>. QED
    BY <2>2 DEF LinkInit, Interlock!SafetyInit, InterlockInv, Interlock!NoInputs
<1>2. InterlockInv(h) /\ [LinkNext]_allVars => InterlockInv(h)'
  <2>1. CASE UNCHANGED safetyVars
    BY <2>1 DEF InterlockInv, EdgeKnown, safetyVars, Interlock!Evaluate, Interlock!Interlocked
  <2>. QED  BY <2>1, LinkIsHandler, HandlerKeeps
<1>. QED  BY <1>1, <1>2, PTL DEF LinkSpec

\* Whatever the controller does and was asked: with one call of SetSafetyInput at a time,
\* a pressed emergency stop shows as ESTOP once the call is over, all other inputs aside
\* (safety_state_machine.cpp 7-12).  With two handlers at once it does not hold.
THEOREM EstopShows ==
  ASSUME NEW h, Handlers = {h}
  PROVE  LinkSpec => []EstopWins
<1>1. InterlockInv(h) => EstopWins
  BY DEF InterlockInv, EstopWins, Interlock!EstopWins, Interlock!NoCallOpen, Interlock!Interlocked
<1>. QED  BY <1>1, LinkInterlock, PTL

\* Likewise the edge detector (main.cpp 411-416): between calls it knows whether a stop is
\* demanded, so the next demand is a rising edge and a repeated one is not.
THEOREM EdgeIsSeen ==
  ASSUME NEW h, Handlers = {h}
  PROVE  LinkSpec => []Interlock!EdgeInStep
<1>1. InterlockInv(h) => Interlock!EdgeInStep
  BY DEF InterlockInv, EdgeKnown, Interlock!EdgeInStep, Interlock!NoCallOpen
<1>. QED  BY <1>1, LinkInterlock, PTL
-----------------------------------------------------------------------------
(* The jog of the pendants. *)

JogTypeOK == jog \in [Threads -> {"none", "stopped", "moving"}] /\ disturbed \subseteq Threads

\* From its Stop to the start of its own motion.
Jogging(t) == jog[t] = "stopped" \/ (jog[t] = "moving" /\ pc[t] = "relative")

\* A motion in progress has been told to stop in every undisturbed jog.
JogInv ==
  /\ JogTypeOK
  /\ \A t \in Threads : jog[t] = "stopped" => pc[t] = "idle"
  /\ \A t \in Threads \ disturbed : Jogging(t) /\ busy => stop_requested

LEMMA PendantIsController ==
  ASSUME [PendantNext]_pendantVars
  PROVE  [Next]_vars
BY DEF PendantNext, pendantVars, JogStop, StopFirst, JogMove, Command, Continue, Next

\* Whoever starts a motion disturbs the jogs of all others and is in no jog any more; of
\* the controller's other steps by a thread none raises busy or takes a stop request back.
LEMMA ThreadStep ==
  ASSUME IInv, NEW t \in Threads,
         MoveAbsolute(t) \/ Home(t) \/ MoveRelative(t) \/ Resume(t) \/ SpuriousWakeup(t)
  PROVE  /\ \A u \in Threads \ {t} : pc'[u] = pc[u]
         /\ \/ UNCHANGED <<busy, stop_requested>>
            \/ ~busy /\ busy' /\ pc'[t] = "running"
<1>1. ASSUME NEW r, NEW a, RunMotion(t, r, a)
      PROVE  /\ \A u \in Threads \ {t} : pc'[u] = pc[u]
             /\ UNCHANGED <<busy, stop_requested>> \/ (~busy /\ busy' /\ pc'[t] = "running")
  BY <1>1 DEF RunMotion, Reject, RejectTarget, CheckLimitsAndStart, Start, RequestAbort, Return,
              motionVars, flagVars, IInv, TypeOK
<1>2. CASE MoveAbsolute(t) \/ Home(t) \/ RunRelative(t)
  BY <1>1, <1>2 DEF MoveAbsolute, Home, RunRelative
<1>3. CASE ProceedAfterAbort(t)
  BY <1>3 DEF ProceedAfterAbort, CheckLimitsAndStart, RejectTarget, Start, Return,
              motionVars, flagVars, IInv, TypeOK
<1>4. CASE MoveRelative(t) \/ CollectResult(t) \/ WaitAgain(t) \/ SpuriousWakeup(t)
  BY <1>4 DEF MoveRelative, CollectResult, WaitAgain, SpuriousWakeup, Return,
              motionVars, flagVars, threadVars, IInv, TypeOK
<1>. QED  BY <1>2, <1>3, <1>4 DEF Resume

LEMMA NextJogInv ==
  ASSUME IInv, JogInv, [PendantNext]_pendantVars
  PROVE  JogInv'
<1>1. CASE \E t \in Threads : JogStop(t)
  <2>1. PICK t \in Threads : JogStop(t)
    BY <1>1
  <2>2. /\ jog' = [jog EXCEPT ![t] = "stopped"] /\ pc[t] = "idle"
        /\ disturbed' = disturbed \ {t} /\ stop_requested' = TRUE
        /\ UNCHANGED pc
    BY <2>1 DEF JogStop, StopFirst, Stop, MayIssue, threadVars
  <2>. QED  BY <2>2 DEF JogInv, JogTypeOK, Jogging
<1>2. CASE \E t \in Threads : JogMove(t)
  <2>1. PICK t \in Threads : JogMove(t)
    BY <1>2
  <2>2. /\ jog' = [jog EXCEPT ![t] = "moving"] /\ jog[t] = "stopped"
        /\ pc' = [pc EXCEPT ![t] = "relative"]
        /\ UNCHANGED <<disturbed, busy, stop_requested>>
    BY <2>1 DEF JogMove, MoveRelative, motionVars, flagVars
  <2>. QED  BY <2>2 DEF JogInv, JogTypeOK, Jogging, IInv, TypeOK
<1>3. CASE \E t \in Threads : Command(t) \/ Continue(t)
  <2>1. PICK t \in Threads : Command(t) \/ Continue(t)
    BY <1>3
  <2>2. /\ \A u \in Threads \ {t} : pc'[u] = pc[u] /\ jog'[u] = jog[u]
        /\ \/ UNCHANGED <<busy, stop_requested>>
           \/ ~busy /\ busy' /\ pc'[t] = "running"
        /\ disturbed' = IF ~busy /\ busy' THEN disturbed \cup (Threads \ {t}) ELSE disturbed
    BY <2>1, ThreadStep DEF Command, Continue, DisturbOthers, JogInv, JogTypeOK
  <2>3. JogTypeOK'
    <3>1. jog' \in {jog, [jog EXCEPT ![t] = "none"]}
      BY <2>1 DEF Command, Continue
    <3>. QED  BY <2>2, <3>1 DEF JogInv, JogTypeOK
  <2>4. jog'[t] # "stopped" /\ ~(jog'[t] = "moving" /\ pc'[t] = "relative")
    <3>1. CASE Command(t)
      BY <3>1 DEF Command
    <3>2. CASE Continue(t)
      <4>1. pc[t] # "idle" /\ pc'[t] # "relative"
        BY <3>2 DEF Continue, Resume, RunRelative, RunMotion, Reject, RejectTarget, Return, Start,
                    CheckLimitsAndStart, RequestAbort, ProceedAfterAbort, CollectResult, WaitAgain,
                    SpuriousWakeup, threadVars, IInv, NoLostWakeup, TypeOK
      <4>. QED  BY <3>2, <4>1 DEF Continue, JogInv, JogTypeOK
    <3>. QED  BY <2>1, <3>1, <3>2
  <2>. QED  BY <2>2, <2>3, <2>4 DEF JogInv, Jogging
<1>4. CASE (Enable \/ Disable \/ Stop \/ EmergencyStop \/ ControlCycle) /\ UNCHANGED <<jog, disturbed>>
  <2>1. CASE Enable \/ EmergencyStop \/ CycleAdvance
    BY <1>4, <2>1 DEF Enable, EmergencyStop, CycleAdvance, motionVars, flagVars, threadVars,
                      JogInv, JogTypeOK, Jogging
  <2>2. CASE Disable
    <3>1. UNCHANGED <<pc, stop_requested>> /\ (busy' => busy)
      BY <2>2 DEF Disable, CutMotion, flagVars, threadVars
    <3>. QED  BY <1>4, <3>1 DEF JogInv, JogTypeOK, Jogging
  <2>3. CASE Stop
    <3>1. UNCHANGED pc /\ stop_requested'
      BY <2>3 DEF Stop, threadVars
    <3>. QED  BY <1>4, <3>1 DEF JogInv, JogTypeOK, Jogging
  <2>4. CASE CycleEmergency \/ CycleAbort \/ CycleDone
    <3>1. UNCHANGED pc /\ ~busy'
      BY <2>4 DEF CycleEmergency, CycleAbort, CycleDone, Finish, threadVars
    <3>. QED  BY <1>4, <3>1 DEF JogInv, JogTypeOK, Jogging
  <2>. QED  BY <1>4, <2>1, <2>2, <2>3, <2>4 DEF ControlCycle
<1>5. CASE Reset /\ disturbed' = Threads /\ UNCHANGED jog
  BY <1>5 DEF Reset, threadVars, JogInv, JogTypeOK
<1>6. CASE UNCHANGED pendantVars
  BY <1>6 DEF pendantVars, vars, motionVars, flagVars, threadVars, JogInv, JogTypeOK, Jogging
<1>. QED  BY <1>1, <1>2, <1>3, <1>4, <1>5, <1>6 DEF PendantNext

LEMMA PendantInvariance == PendantSpec => [](IInv /\ JogInv)
<1>1. PendantInit => Init /\ JogInv
  BY DEF PendantInit, JogInv, JogTypeOK, Jogging
<1>2. PendantSpec => Spec
  BY PendantIsController, PTL DEF PendantSpec, PendantInit, Spec
<1>. QED  BY <1>1, <1>2, NextJogInv, Invariance, PTL DEF PendantSpec

\* Only a cycle that looks at no request moves the arm.
LEMMA WhoMoves ==
  ASSUME [Next]_vars, position' # position
  PROVE  busy /\ ~stop_requested
<1>1. ASSUME NEW t \in Threads, NEW r, NEW a, RunMotion(t, r, a) \/ CheckLimitsAndStart(t, r)
      PROVE  UNCHANGED position
  BY <1>1 DEF RunMotion, Reject, RejectTarget, CheckLimitsAndStart, Start, RequestAbort, robotVars
<1>2. CASE \E t \in Threads : MoveAbsolute(t) \/ Home(t) \/ Resume(t)
  BY <1>1, <1>2 DEF MoveAbsolute, Home, Resume, RunRelative, ProceedAfterAbort, CollectResult,
                    WaitAgain, robotVars
<1>. QED
  BY <1>2 DEF Next, Enable, Disable, Stop, EmergencyStop, Reset, MoveRelative,
              SpuriousWakeup, ControlCycle, CycleEmergency, CycleAbort, CycleAdvance, CycleDone,
              AbortRequested, robotVars, vars

\* From the Stop of a jog to the start of its own step the arm rests (main.py:294-295,
\* tp_bridge.py:143-146): the request is there as long as a motion is in progress, unless
\* somebody else starts a motion, which clears it, or resets the controller.
THEOREM JogRests == PendantSpec => JogReadsRestingArm
<1>1. IInv /\ JogInv /\ [PendantNext]_pendantVars =>
        [\A t \in Threads \ disturbed :
           jog[t] = "stopped" \/ (jog[t] = "moving" /\ pc[t] = "relative")
             => position' = position]_pendantVars
  BY PendantIsController, WhoMoves DEF JogInv, Jogging
<1>. QED  BY <1>1, PendantInvariance, PTL DEF PendantSpec, JogReadsRestingArm
=============================================================================
