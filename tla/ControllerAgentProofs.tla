------------------------ MODULE ControllerAgentProofs ------------------------
(* Safety of ControllerAgent for any threads, limits, inputs and bound, and that   *)
(* its every step is a step of MotionService or a stutter.                         *)
EXTENDS ControllerRefinement, TLAPS

IInv ==
  /\ TypeOK
  /\ FinishedInOrder
  /\ NoLostWakeup
  /\ OneCallerPerMotion

Count == IF busy THEN next_motion_id - 2 ELSE next_motion_id - 1

LEMMA FinishedRange ==
  ASSUME IInv
  PROVE  Finished = 1..Count
BY DEF IInv, FinishedInOrder, Finished, Range, Count

LEMMA BusyHasId ==
  ASSUME IInv, busy
  PROVE  /\ next_motion_id >= 2
         /\ current_motion_id = next_motion_id - 1
         /\ current_motion_id \notin Finished
<1>1. PICK t \in Threads : pc[t] = "running" /\ my_id[t] = current_motion_id
  BY DEF IInv, OneCallerPerMotion
<1>2. current_motion_id # 0 /\ current_motion_id = next_motion_id - 1
  BY <1>1 DEF IInv, TypeOK, FinishedInOrder
<1>3. next_motion_id \in Nat /\ next_motion_id >= 2
  BY <1>2 DEF IInv, TypeOK
<1>. QED  BY <1>2, <1>3, FinishedRange DEF Count

LEMMA AppendNext ==
  ASSUME IInv, busy
  PROVE  Append(finished_ids, current_motion_id) = [i \in 1..next_motion_id - 1 |-> i]
<1>1. next_motion_id \in Nat /\ next_motion_id >= 2 /\ current_motion_id = next_motion_id - 1
  BY BusyHasId DEF IInv, TypeOK
<1>2. finished_ids = [i \in 1..next_motion_id - 2 |-> i]
  BY DEF IInv, FinishedInOrder
<1>3. finished_ids \in Seq(Nat) /\ Len(finished_ids) = next_motion_id - 2
  BY <1>1, <1>2 DEF IInv, TypeOK
<1>. QED  BY <1>1, <1>2, <1>3

\* Doubles: every way to come by one.
LEMMA DoubleSum ==
  ASSUME NEW a \in Doubles, NEW b \in Doubles
  PROVE  Plus(a, b) \in Doubles
<1>1. CASE NaN \in {a, b}
  BY <1>1, NaNAssumption DEF Plus, Doubles
<1>2. CASE NaN \notin {a, b}
  <2>1. a \in Int /\ b \in Int
    BY <1>2, InputAssumption DEF Doubles, Unordered
  <2>. QED  BY <1>2, <2>1 DEF Plus, Doubles
<1>. QED  BY <1>1, <1>2

LEMMA RequestTyped ==
  ASSUME NEW target \in Doubles, NEW profile \in Profiles
  PROVE  Request(target, profile) \in Requests
BY DEF Request, Requests

LEMMA NoRequestTyped == NoRequest \in Requests
BY DEF NoRequest, Request, Requests, Doubles

LEMMA InputsAreDoubles == 0 \in Doubles /\ Targets \subseteq Doubles /\ Deltas \subseteq Doubles
BY DEF Doubles, Unordered

\* A double inside the limits, or one that the limit check lets pass.
LEMMA Passes ==
  ASSUME NEW q \in Doubles, ~OutsideLimits(q)
  PROVE  q \in WithinLimits \cup Unordered
BY NaNAssumption DEF OutsideLimits, Doubles

\* The controller as constructed satisfies IInv.
THEOREM InitIInv == Init => IInv
<1>. SUFFICES ASSUME Init PROVE IInv
  OBVIOUS
<1>1. TypeOK
  <2>1. NoRequest \in Requests
    BY NoRequestTyped
  <2>2. DOMAIN outcomes = {} /\ DOMAIN last_sample = {}
    BY DEF Init
  <2>3. finished_ids \in Seq(Nat)
    BY DEF Init
  <2>4. my_id \in [Threads -> 0..next_motion_id - 1]
    BY DEF Init
  <2>5. pc \in [Threads -> {"idle", "relative", "aborting", "running"}]
    BY DEF Init
  <2>6. \A t \in Threads : pc[t] = "running" <=> my_id[t] # 0
    BY DEF Init
  <2>7. plan \in Requests /\ req \in [Threads -> Requests]
    BY <2>1 DEF Init
  <2>8. ctrl_state \in CtrlStates /\ motion_state \in MotionStates /\ error_code \in ErrorCodes
    BY DEF Init, CtrlStates, MotionStates, ErrorCodes
  <2>9. /\ enabled \in BOOLEAN /\ busy \in BOOLEAN /\ at_rest \in BOOLEAN
        /\ stop_requested \in BOOLEAN /\ emergency_requested \in BOOLEAN
        /\ pending_abort \in BOOLEAN
    BY DEF Init
  <2>10. /\ next_motion_id \in Nat \ {0} /\ current_motion_id \in Nat
         /\ position \in Doubles /\ waitSet \subseteq Threads
    BY DEF Init, Doubles
  <2>. QED
    BY <2>2, <2>3, <2>4, <2>5, <2>6, <2>7, <2>8, <2>9, <2>10 DEF TypeOK
<1>2. FinishedInOrder
  BY DEF Init, FinishedInOrder
<1>3. NoLostWakeup /\ OneCallerPerMotion
  BY DEF Init, NoLostWakeup, OneCallerPerMotion
<1>. QED  BY <1>1, <1>2, <1>3 DEF IInv
-----------------------------------------------------------------------------
(* run_motion. *)

\* A thread that may leave run_motion: it runs no motion and is not asleep.
Loose(t) == pc[t] # "running" /\ t \notin waitSet

LEMMA ReturnKeeps ==
  ASSUME IInv, NEW t \in Threads, Loose(t), Return(t),
         motion_state' \in MotionStates, error_code' \in ErrorCodes,
         UNCHANGED <<ctrl_state, enabled, motionVars, flagVars, robotVars, waitSet>>
  PROVE  IInv'
<1>. USE DEF IInv
<1>1. NoRequest \in Requests
  BY NoRequestTyped
<1>2. my_id[t] = 0
  BY DEF Loose, TypeOK
<1>3. my_id' = my_id
  BY <1>2 DEF Return, TypeOK
<1>4. pc' = [pc EXCEPT ![t] = "idle"] /\ req' = [req EXCEPT ![t] = NoRequest]
  BY DEF Return
<1>5. TypeOK'
  <2>1. pc' \in [Threads -> {"idle", "relative", "aborting", "running"}]
    BY <1>4 DEF TypeOK
  <2>2. req' \in [Threads -> Requests]
    BY <1>1, <1>4 DEF TypeOK
  <2>3. \A u \in Threads : pc'[u] = "running" <=> my_id'[u] # 0
    BY <1>2, <1>3, <1>4 DEF TypeOK
  <2>. QED
    BY <1>3, <2>1, <2>2, <2>3 DEF TypeOK, motionVars, flagVars, robotVars
<1>6. FinishedInOrder'
  BY DEF FinishedInOrder, motionVars
<1>7. NoLostWakeup'
  BY <1>3, <1>4 DEF NoLostWakeup, Finished, Range, motionVars, Loose, TypeOK
<1>8. OneCallerPerMotion'
  BY <1>3, <1>4 DEF OneCallerPerMotion, motionVars, Loose, TypeOK
<1>. QED  BY <1>5, <1>6, <1>7, <1>8

LEMMA StartKeeps ==
  ASSUME IInv, NEW t \in Threads, NEW r \in Requests, ~busy, Loose(t), Start(t, r)
  PROVE  IInv'
<1>. USE DEF IInv
<1>1. NoRequest \in Requests
  BY NoRequestTyped
<1>2. /\ pc' = [pc EXCEPT ![t] = "running"]
      /\ req' = [req EXCEPT ![t] = NoRequest]
      /\ my_id' = [my_id EXCEPT ![t] = next_motion_id]
      /\ next_motion_id' = next_motion_id + 1 /\ current_motion_id' = next_motion_id
      /\ next_motion_id \in Nat \ {0}
      /\ busy' = TRUE
      /\ waitSet' = waitSet \cup {t}
      /\ finished_ids' = finished_ids
  BY DEF Start, TakeId, TypeOK
<1>3. Finished' = 1..next_motion_id - 1
  BY <1>2, FinishedRange DEF Count, Finished
<1>4. TypeOK'
  <2>1. /\ pc' \in [Threads -> {"idle", "relative", "aborting", "running"}]
        /\ req' \in [Threads -> Requests]
    BY <1>1, <1>2 DEF TypeOK
  <2>2. my_id' \in [Threads -> 0..next_motion_id' - 1]
    BY <1>2 DEF TypeOK
  <2>3. \A u \in Threads : pc'[u] = "running" <=> my_id'[u] # 0
    BY <1>2 DEF TypeOK
  <2>4. DOMAIN last_sample' \subseteq 1..next_motion_id' - 1
    BY <1>2 DEF TypeOK, Start, Put
  <2>5. DOMAIN outcomes' \subseteq 1..next_motion_id' - 1
    BY <1>2 DEF TypeOK, Start
  <2>6. /\ stop_requested' \in BOOLEAN /\ pending_abort' \in BOOLEAN
        /\ emergency_requested' \in BOOLEAN
        /\ enabled' \in BOOLEAN /\ at_rest' \in BOOLEAN
    BY DEF Start, ClearRequests, TypeOK
  <2>7. ctrl_state' \in CtrlStates /\ motion_state' \in MotionStates /\ error_code' \in ErrorCodes
    BY DEF Start, TypeOK, MotionStates, ErrorCodes
  <2>8. plan' \in Requests /\ position' \in Doubles
    BY DEF Start, TypeOK
  <2>. QED
    BY <1>2, <2>1, <2>2, <2>3, <2>4, <2>5, <2>6, <2>7, <2>8 DEF TypeOK
<1>5. FinishedInOrder'
  BY <1>2 DEF FinishedInOrder
<1>6. NoLostWakeup'
  BY <1>2, <1>3, FinishedRange DEF NoLostWakeup, Count, TypeOK
<1>7. OneCallerPerMotion'
  BY <1>2 DEF OneCallerPerMotion, TypeOK
<1>. QED  BY <1>4, <1>5, <1>6, <1>7

LEMMA RequestAbortKeeps ==
  ASSUME IInv, NEW t \in Threads, NEW r \in Requests, busy, Loose(t), RequestAbort(t, r)
  PROVE  IInv'
<1>. USE DEF IInv
<1>1. /\ pc' = [pc EXCEPT ![t] = "aborting"]
      /\ req' = [req EXCEPT ![t] = r]
      /\ waitSet' = {t} /\ my_id' = my_id /\ UNCHANGED motionVars
  BY DEF RequestAbort
<1>2. TypeOK'
  <2>1. /\ pc' \in [Threads -> {"idle", "relative", "aborting", "running"}]
        /\ req' \in [Threads -> Requests]
    BY <1>1 DEF TypeOK
  <2>2. \A u \in Threads : pc'[u] = "running" <=> my_id'[u] # 0
    BY <1>1 DEF TypeOK, Loose
  <2>. QED
    BY <1>1, <2>1, <2>2
       DEF TypeOK, RequestAbort, controlVars, motionVars, robotVars
<1>3. FinishedInOrder'
  BY <1>1 DEF FinishedInOrder, motionVars
<1>4. NoLostWakeup'
  BY <1>1 DEF NoLostWakeup, motionVars, TypeOK
<1>5. OneCallerPerMotion'
  BY <1>1 DEF OneCallerPerMotion, motionVars, TypeOK, Loose
<1>. QED  BY <1>2, <1>3, <1>4, <1>5

LEMMA CheckKeeps ==
  ASSUME IInv, NEW t \in Threads, NEW r \in Requests, ~busy, Loose(t),
         CheckLimitsAndStart(t, r)
  PROVE  IInv'
<1>1. CASE RejectTarget(t, r)
  BY <1>1, ReturnKeeps DEF RejectTarget, MotionStates, ErrorCodes
<1>2. CASE Start(t, r)
  BY <1>2, StartKeeps
<1>. QED  BY <1>1, <1>2 DEF CheckLimitsAndStart

LEMMA RunMotionKeeps ==
  ASSUME IInv, NEW t \in Threads, NEW r \in Requests, NEW a \in BOOLEAN, Loose(t),
         RunMotion(t, r, a)
  PROVE  IInv'
<1>1. CASE Reject(t)
  <2>1. motion_state' \in MotionStates /\ error_code' \in ErrorCodes
    BY <1>1 DEF Reject, controlVars, IInv, TypeOK
  <2>. QED  BY <1>1, <2>1, ReturnKeeps DEF Reject, controlVars
<1>2. CASE busy /\ RequestAbort(t, r)
  BY <1>2, RequestAbortKeeps
<1>3. CASE ~busy /\ CheckLimitsAndStart(t, r)
  BY <1>3, CheckKeeps
<1>. QED  BY <1>1, <1>2, <1>3 DEF RunMotion

-----------------------------------------------------------------------------
(* The control loop and the commands that end a motion. *)

LEMMA EndKeepsOrder ==
  ASSUME IInv, busy, busy' = FALSE,
         finished_ids' = Append(finished_ids, current_motion_id),
         UNCHANGED <<current_motion_id, next_motion_id, threadVars>>,
         waitSet' = NotifyAll
  PROVE  /\ finished_ids' \in Seq(Nat)
         /\ FinishedInOrder' /\ NoLostWakeup' /\ OneCallerPerMotion'
<1>. USE DEF IInv
<1>1. finished_ids' \in Seq(Nat)
  BY DEF TypeOK
<1>2. FinishedInOrder'
  BY AppendNext DEF FinishedInOrder
<1>3. NoLostWakeup'
  BY DEF NoLostWakeup, NotifyAll
<1>4. OneCallerPerMotion'
  BY DEF OneCallerPerMotion, threadVars
<1>. QED  BY <1>1, <1>2, <1>3, <1>4

LEMMA FinishKeeps ==
  ASSUME IInv, busy, NEW motion \in MotionStates, NEW result,
         Finish(motion, result),
         UNCHANGED <<current_motion_id, next_motion_id, threadVars>>,
         UNCHANGED <<ctrl_state, enabled, plan>>,
         error_code' \in ErrorCodes, at_rest' \in BOOLEAN, position' \in Doubles,
         stop_requested' \in BOOLEAN, emergency_requested' \in BOOLEAN,
         pending_abort' \in BOOLEAN
  PROVE  IInv'
<1>. USE DEF IInv
<1>1. busy' = FALSE /\ motion_state' = motion /\ waitSet' = {}
  BY DEF Finish, NotifyAll
<1>2. finished_ids' \in Seq(Nat) /\ FinishedInOrder' /\ NoLostWakeup' /\ OneCallerPerMotion'
  BY EndKeepsOrder DEF Finish
<1>3. TypeOK'
  <2>1. current_motion_id \in 1..next_motion_id - 1
    BY BusyHasId DEF TypeOK
  <2>2. /\ DOMAIN outcomes' \subseteq 1..next_motion_id' - 1
        /\ DOMAIN last_sample' \subseteq 1..next_motion_id' - 1
    BY <2>1 DEF TypeOK, Finish, Put
  <2>. QED
    BY <1>1, <1>2, <2>2 DEF TypeOK, threadVars
<1>. QED  BY <1>2, <1>3

LEMMA HaveDistance ==
  ASSUME IInv, ~NoDistance
  PROVE  position \in Int /\ plan.target \in Int
BY InputAssumption DEF IInv, TypeOK, Requests, NoDistance, Doubles, Unordered

LEMMA AdvancedIsInt ==
  ASSUME IInv, ~NoDistance PROVE Advanced \in Int
BY HaveDistance DEF Advanced

\* Where a motion ends: at its target, unless the way to it was NaN.
LEMMA WhereDone ==
  ASSUME IInv, Arrive \/ Blunder
  PROVE  /\ position' = plan.target \/ (NaN \in {position, plan.target} /\ position' = NaN)
         /\ position' \in Doubles
         /\ at_rest' \in BOOLEAN
<1>1. position \in Doubles /\ plan.target \in Doubles
  BY DEF IInv, TypeOK, Requests
<1>. QED  BY <1>1 DEF Arrive, Blunder, NoDistance

LEMMA CycleKeeps ==
  ASSUME IInv, ControlCycle PROVE IInv'
<1>. USE DEF IInv
<1>1. CASE CycleEmergency
  BY <1>1, FinishKeeps DEF CycleEmergency, TypeOK, MotionStates, ErrorCodes
<1>2. CASE CycleAbort
  BY <1>2, FinishKeeps DEF CycleAbort, TypeOK, MotionStates, ErrorCodes
<1>3. CASE CycleDone
  <2>1. position' \in Doubles /\ at_rest' \in BOOLEAN
    BY <1>3, WhereDone DEF CycleDone
  <2>. QED
    BY <1>3, <2>1, FinishKeeps DEF CycleDone, flagVars, TypeOK, MotionStates
<1>4. CASE CycleAdvance
  <2>1. /\ UNCHANGED <<motionVars, threadVars, waitSet, flagVars, ctrl_state, error_code, enabled, plan>>
        /\ busy
    BY <1>4 DEF CycleAdvance
  <2>2. TypeOK'
    <3>1. DOMAIN last_sample' \subseteq 1..next_motion_id' - 1
      BY <1>4, BusyHasId DEF CycleAdvance, TypeOK, Put, motionVars
    <3>2. position' \in Doubles /\ at_rest' \in BOOLEAN /\ motion_state' \in MotionStates
      BY <1>4, AdvancedIsInt DEF CycleAdvance, MotionStates, Doubles
    <3>. QED
      BY <2>1, <3>1, <3>2 DEF TypeOK, motionVars, threadVars, flagVars
  <2>3. FinishedInOrder' /\ NoLostWakeup' /\ OneCallerPerMotion'
    BY <2>1 DEF FinishedInOrder, NoLostWakeup, OneCallerPerMotion, Finished, Range,
                motionVars, threadVars
  <2>. QED  BY <2>2, <2>3
<1>. QED  BY <1>1, <1>2, <1>3, <1>4 DEF ControlCycle

LEMMA DisableKeeps ==
  ASSUME IInv, Disable PROVE IInv'
<1>. USE DEF IInv
<1>1. CASE CutMotion
  <2>1. finished_ids' \in Seq(Nat) /\ FinishedInOrder' /\ NoLostWakeup' /\ OneCallerPerMotion'
    BY <1>1, EndKeepsOrder DEF CutMotion, Disable
  <2>2. TypeOK'
    BY <1>1, <2>1 DEF CutMotion, Disable, TypeOK, CtrlStates, MotionStates, NotifyAll,
                      flagVars, robotVars, threadVars
  <2>. QED  BY <2>1, <2>2
<1>2. CASE UNCHANGED <<busy, motion_state, finished_ids, waitSet>>
  <2>1. TypeOK'
    BY <1>2 DEF Disable, TypeOK, CtrlStates, flagVars, robotVars, threadVars
  <2>. QED
    BY <1>2, <2>1 DEF Disable, FinishedInOrder, NoLostWakeup, OneCallerPerMotion,
                      Finished, Range, threadVars
<1>. QED  BY <1>1, <1>2 DEF Disable

\* Steps that leave motions and threads alone and can only wake threads.
LEMMA FlagStepKeeps ==
  ASSUME IInv, UNCHANGED <<motionVars, robotVars, threadVars>>,
         waitSet' \subseteq waitSet,
         ctrl_state' \in CtrlStates, motion_state' \in MotionStates,
         error_code' \in ErrorCodes, enabled' \in BOOLEAN,
         stop_requested' \in BOOLEAN, emergency_requested' \in BOOLEAN,
         pending_abort' \in BOOLEAN
  PROVE  IInv'
<1>. USE DEF IInv
<1>1. TypeOK'
  BY DEF TypeOK, motionVars, robotVars, threadVars
<1>2. FinishedInOrder' /\ NoLostWakeup' /\ OneCallerPerMotion'
  BY DEF FinishedInOrder, NoLostWakeup, OneCallerPerMotion, Finished, Range,
         motionVars, threadVars
<1>. QED  BY <1>1, <1>2

-----------------------------------------------------------------------------
(* The steps of a call. *)

LEMMA CallKeeps ==
  ASSUME IInv, NEW t \in Threads, MoveAbsolute(t) \/ Home(t) \/ MoveRelative(t)
  PROVE  IInv'
<1>. USE DEF IInv
<1>1. Loose(t) /\ pc[t] = "idle"
  BY DEF Loose, NoLostWakeup, MoveAbsolute, Home, MoveRelative, MayIssue, TypeOK
<1>2. CASE MoveAbsolute(t)
  <2>1. PICK target \in Targets, profile \in Profiles, a \in BOOLEAN :
          RunMotion(t, Request(target, profile), a)
    BY <1>2 DEF MoveAbsolute
  <2>2. Request(target, profile) \in Requests
    BY RequestTyped, InputsAreDoubles
  <2>. QED  BY <1>1, <2>1, <2>2, RunMotionKeeps
<1>3. CASE Home(t)
  <2>1. PICK profile \in Profiles : RunMotion(t, Request(0, profile), FALSE)
    BY <1>3 DEF Home
  <2>2. Request(0, profile) \in Requests
    BY RequestTyped, InputsAreDoubles
  <2>. QED  BY <1>1, <2>1, <2>2, RunMotionKeeps
<1>4. CASE MoveRelative(t)
  <2>1. PICK delta \in Deltas, profile \in Profiles :
          req' = [req EXCEPT ![t] = Request(Plus(position, delta), profile)]
    BY <1>4 DEF MoveRelative
  <2>2. Request(Plus(position, delta), profile) \in Requests
    BY DoubleSum, RequestTyped, InputsAreDoubles DEF TypeOK
  <2>3. /\ pc' = [pc EXCEPT ![t] = "relative"]
        /\ UNCHANGED <<controlVars, motionVars, flagVars, robotVars, my_id, waitSet>>
    BY <1>4 DEF MoveRelative
  <2>4. TypeOK'
    <3>1. /\ req' \in [Threads -> Requests]
          /\ pc' \in [Threads -> {"idle", "relative", "aborting", "running"}]
          /\ \A u \in Threads : pc'[u] = "running" <=> my_id'[u] # 0
      BY <1>1, <2>1, <2>2, <2>3 DEF TypeOK
    <3>. QED
      BY <2>3, <3>1 DEF TypeOK, controlVars, motionVars, flagVars, robotVars
  <2>5. FinishedInOrder'
    BY <2>3 DEF FinishedInOrder, motionVars
  <2>6. NoLostWakeup'
    BY <1>1, <2>3 DEF NoLostWakeup, Finished, Range, motionVars, Loose, TypeOK
  <2>7. OneCallerPerMotion'
    BY <1>1, <2>3 DEF OneCallerPerMotion, motionVars, TypeOK
  <2>. QED  BY <2>4, <2>5, <2>6, <2>7
<1>. QED  BY <1>2, <1>3, <1>4

LEMMA CollectKeeps ==
  ASSUME IInv, NEW t \in Threads, CollectResult(t) PROVE IInv'
<1>. USE DEF IInv
<1>1. /\ pc' = [pc EXCEPT ![t] = "idle"]
      /\ req' = [req EXCEPT ![t] = NoRequest]
      /\ my_id' = [my_id EXCEPT ![t] = 0]
      /\ my_id[t] \in Finished /\ t \notin waitSet
      /\ UNCHANGED <<busy, current_motion_id, next_motion_id, finished_ids, waitSet>>
  BY DEF CollectResult, Return
<1>2. TypeOK'
  <2>1. NoRequest \in Requests
    BY NoRequestTyped
  <2>2. /\ pc' \in [Threads -> {"idle", "relative", "aborting", "running"}]
        /\ req' \in [Threads -> Requests]
        /\ my_id' \in [Threads -> 0..next_motion_id' - 1]
    BY <1>1, <2>1 DEF TypeOK
  <2>3. \A u \in Threads : pc'[u] = "running" <=> my_id'[u] # 0
    BY <1>1 DEF TypeOK
  <2>4. /\ DOMAIN outcomes' \subseteq 1..next_motion_id' - 1
        /\ DOMAIN last_sample' \subseteq 1..next_motion_id' - 1
    BY <1>1 DEF TypeOK, CollectResult, Erase, Restrict
  <2>. QED
    BY <1>1, <2>2, <2>3, <2>4 DEF TypeOK, CollectResult, controlVars, flagVars
<1>3. FinishedInOrder'
  BY <1>1 DEF FinishedInOrder
<1>4. NoLostWakeup'
  BY <1>1 DEF NoLostWakeup, Finished, Range, TypeOK
<1>5. OneCallerPerMotion'
  <2>1. busy => my_id[t] # current_motion_id
    BY <1>1, BusyHasId
  <2>. QED
    BY <1>1, <2>1 DEF OneCallerPerMotion, TypeOK
<1>. QED  BY <1>2, <1>3, <1>4, <1>5

LEMMA WaitKeeps ==
  ASSUME IInv, NEW t \in Threads, WaitAgain(t) PROVE IInv'
<1>. USE DEF IInv
<1>1. TypeOK'
  BY DEF WaitAgain, TypeOK, controlVars, motionVars, flagVars, robotVars, threadVars
<1>2. NoLostWakeup'
  BY DEF WaitAgain, NoLostWakeup, Finished, Range, motionVars, threadVars
<1>3. FinishedInOrder' /\ OneCallerPerMotion'
  BY DEF WaitAgain, FinishedInOrder, OneCallerPerMotion, motionVars, threadVars
<1>. QED  BY <1>1, <1>2, <1>3

LEMMA ResumeKeeps ==
  ASSUME IInv, NEW t \in Threads, Resume(t) PROVE IInv'
<1>1. CASE RunRelative(t)
  <2>1. Loose(t) /\ req[t] \in Requests
    BY <1>1 DEF RunRelative, Loose, IInv, NoLostWakeup, TypeOK
  <2>. QED  BY <1>1, <2>1, RunMotionKeeps DEF RunRelative
<1>2. CASE ProceedAfterAbort(t)
  <2>1. Loose(t) /\ req[t] \in Requests
    BY <1>2 DEF ProceedAfterAbort, Loose, IInv, TypeOK
  <2>. QED  BY <1>2, <2>1, CheckKeeps DEF ProceedAfterAbort
<1>3. CASE CollectResult(t)
  BY <1>3, CollectKeeps
<1>4. CASE WaitAgain(t)
  BY <1>4, WaitKeeps
<1>. QED  BY <1>1, <1>2, <1>3, <1>4 DEF Resume

\* Every critical section of the controller and every control cycle keeps IInv.
THEOREM NextIInv == IInv /\ [Next]_vars => IInv'
<1>. SUFFICES ASSUME IInv, [Next]_vars PROVE IInv'
  OBVIOUS
<1>. USE DEF IInv
<1>1. CASE Enable
  BY <1>1, FlagStepKeeps DEF Enable, TypeOK, CtrlStates, MotionStates, ErrorCodes, flagVars
<1>2. CASE Disable
  BY <1>2, DisableKeeps
<1>3. CASE Stop
  BY <1>3, FlagStepKeeps DEF Stop, TypeOK, controlVars, NotifyAll
<1>4. CASE EmergencyStop
  BY <1>4, FlagStepKeeps DEF EmergencyStop, TypeOK, CtrlStates, MotionStates, ErrorCodes, NotifyAll
<1>5. CASE Reset
  BY <1>5, FlagStepKeeps DEF Reset, TypeOK, CtrlStates, MotionStates, ErrorCodes
<1>6. CASE \E t \in Threads : MoveAbsolute(t) \/ Home(t) \/ MoveRelative(t)
  BY <1>6, CallKeeps
<1>7. CASE \E t \in Threads : Resume(t)
  BY <1>7, ResumeKeeps
<1>8. CASE \E t \in Threads : SpuriousWakeup(t)
  BY <1>8, FlagStepKeeps DEF SpuriousWakeup, controlVars, flagVars, TypeOK
<1>9. CASE ControlCycle
  BY <1>9, CycleKeeps
<1>10. CASE UNCHANGED vars
  BY <1>10, FlagStepKeeps DEF vars, controlVars, flagVars, TypeOK
<1>. QED
  BY <1>1, <1>2, <1>3, <1>4, <1>5, <1>6, <1>7, <1>8, <1>9, <1>10 DEF Next

\* IInv holds in every state of Spec (controller_agent.cpp).
THEOREM Invariance == Spec => []IInv
BY InitIInv, NextIInv, PTL DEF Spec

\* A thread asleep in cv_.wait never sleeps past the event it waits for.
THEOREM Wakeups == Spec => []NoLostWakeup
<1>1. IInv => NoLostWakeup
  BY DEF IInv
<1>. QED  BY <1>1, Invariance, PTL

\* Motions complete once each, in the order in which they were started.
THEOREM CompletionOrder == Spec => []FinishedInOrder
<1>1. IInv => FinishedInOrder
  BY DEF IInv
<1>. QED  BY <1>1, Invariance, PTL

\* Every motion in progress has its one caller.
THEOREM Callers == Spec => []OneCallerPerMotion
<1>1. IInv => OneCallerPerMotion
  BY DEF IInv
<1>. QED  BY <1>1, Invariance, PTL

\* The members of the controller and the locals of its callers have their types.
THEOREM Typing == Spec => []TypeOK
<1>1. IInv => TypeOK
  BY DEF IInv
<1>. QED  BY <1>1, Invariance, PTL

-----------------------------------------------------------------------------
(* The joint limits. *)

\* One cycle of a plan inside the limits stays inside them.
LEMMA AdvancedWithinLimits ==
  ASSUME IInv, StaysWithinLimits, busy, ~NoDistance PROVE Advanced \in WithinLimits
<1>1. position \in WithinLimits /\ plan.target \in WithinLimits
  BY HaveDistance DEF StaysWithinLimits, Unordered
<1>. QED  BY <1>1, LimitsAssumption DEF WithinLimits, Advanced

\* The last cycle of a plan ends there too, or at the NaN it met.
LEMMA DoneWithinLimits ==
  ASSUME IInv, StaysWithinLimits, busy, Arrive \/ Blunder
  PROVE  position' \in WithinLimits \cup Unordered
<1>1. CASE position' = plan.target
  BY <1>1 DEF StaysWithinLimits
<1>2. CASE NaN \in {position, plan.target} /\ position' = NaN
  BY <1>2 DEF StaysWithinLimits
<1>. QED  BY <1>1, <1>2, WhereDone

LEMMA StartWithinLimits ==
  ASSUME StaysWithinLimits, ~busy, NEW t \in Threads, NEW r \in Requests, CheckLimitsAndStart(t, r)
  PROVE  StaysWithinLimits'
<1>1. r.target \in Doubles
  BY DEF Requests
<1>2. CASE RejectTarget(t, r)
  BY <1>2 DEF RejectTarget, StaysWithinLimits, WithinLimits, motionVars, robotVars
<1>3. CASE ~OutsideLimits(r.target) /\ Start(t, r)
  BY <1>1, <1>3, Passes DEF Start, StaysWithinLimits, WithinLimits
<1>. QED  BY <1>2, <1>3 DEF CheckLimitsAndStart

LEMMA RunMotionWithinLimits ==
  ASSUME StaysWithinLimits, NEW t \in Threads, NEW r \in Requests, NEW a, RunMotion(t, r, a)
  PROVE  StaysWithinLimits'
<1>1. CASE Reject(t) \/ RequestAbort(t, r)
  BY <1>1 DEF Reject, RequestAbort, StaysWithinLimits, WithinLimits, motionVars, robotVars
<1>2. CASE ~busy /\ CheckLimitsAndStart(t, r)
  BY <1>2, StartWithinLimits
<1>. QED  BY <1>1, <1>2 DEF RunMotion

\* The threads enter run_motion with a request.
LEMMA CallsRunMotion ==
  ASSUME IInv, NEW t \in Threads, MoveAbsolute(t) \/ Home(t) \/ RunRelative(t)
  PROVE  \E r \in Requests, a \in BOOLEAN : RunMotion(t, r, a)
<1>1. CASE MoveAbsolute(t)
  <2>1. PICK target \in Targets, profile \in Profiles, a \in BOOLEAN :
          RunMotion(t, Request(target, profile), a)
    BY <1>1 DEF MoveAbsolute
  <2>2. Request(target, profile) \in Requests
    BY RequestTyped, InputsAreDoubles
  <2>. QED  BY <2>1, <2>2
<1>2. CASE Home(t)
  <2>1. PICK profile \in Profiles : RunMotion(t, Request(0, profile), FALSE)
    BY <1>2 DEF Home
  <2>2. Request(0, profile) \in Requests
    BY RequestTyped, InputsAreDoubles
  <2>. QED  BY <2>1, <2>2
<1>3. CASE RunRelative(t)
  BY <1>3 DEF RunRelative, IInv, TypeOK
<1>. QED  BY <1>1, <1>2, <1>3

\* The arm and its plans stay within the joint limits, or at NaN; and if no client sends
\* NaN, then strictly within (robot_model.hpp 48-56).
THEOREM Limits == Spec => []StaysWithinLimits
<1>1. Init => StaysWithinLimits
  BY LimitsAssumption DEF Init, StaysWithinLimits, WithinLimits
<1>2. IInv /\ StaysWithinLimits /\ [Next]_vars => StaysWithinLimits'
  <2>. SUFFICES ASSUME IInv, StaysWithinLimits, [Next]_vars PROVE StaysWithinLimits'
    OBVIOUS
  <2>. USE DEF StaysWithinLimits, motionVars, robotVars
  <2>1. CASE Enable \/ Stop \/ EmergencyStop \/ Reset \/ UNCHANGED vars
    BY <2>1 DEF Enable, Stop, EmergencyStop, Reset, vars
  <2>2. CASE Disable
    BY <2>2 DEF Disable, CutMotion
  <2>3. CASE \E t \in Threads : MoveAbsolute(t) \/ Home(t) \/ RunRelative(t)
    BY <2>3, CallsRunMotion, RunMotionWithinLimits
  <2>4. CASE \E t \in Threads : ProceedAfterAbort(t)
    BY <2>4, StartWithinLimits DEF ProceedAfterAbort, IInv, TypeOK
  <2>5. CASE \E t \in Threads : MoveRelative(t) \/ CollectResult(t) \/ WaitAgain(t) \/ SpuriousWakeup(t)
    BY <2>5 DEF MoveRelative, CollectResult, WaitAgain, SpuriousWakeup
  <2>6. CASE CycleEmergency \/ CycleAbort
    BY <2>6 DEF CycleEmergency, CycleAbort, Finish
  <2>7. CASE CycleAdvance \/ CycleDone
    BY <2>7, AdvancedWithinLimits, DoneWithinLimits DEF CycleAdvance, CycleDone, Finish
  <2>. QED
    BY <2>1, <2>2, <2>3, <2>4, <2>5, <2>6, <2>7 DEF Next, Resume, ControlCycle
<1>. QED  BY <1>1, <1>2, Invariance, PTL DEF Spec

-----------------------------------------------------------------------------
(* Results and trajectories. *)

LEMMA FinishedRangeNext ==
  ASSUME IInv' PROVE Finished' = 1..Count'
BY DEF IInv, FinishedInOrder, Finished, Range, Count

LEMMA FinishMatches ==
  ASSUME IInv, IInv', OutcomeMatchesTrajectory, busy, NEW motion, NEW result,
         Finish(motion, result), UNCHANGED next_motion_id,
         result.motion_state = motion, result.ok <=> motion = "DONE"
  PROVE  OutcomeMatchesTrajectory'
<1>1. Finished' = 1..next_motion_id - 1 /\ Finished = 1..next_motion_id - 2
  BY FinishedRange, FinishedRangeNext DEF Count, Finish
<1>2. current_motion_id = next_motion_id - 1 /\ next_motion_id \in Nat /\ next_motion_id >= 2
  BY BusyHasId DEF IInv, TypeOK
<1>3. current_motion_id \in Finished' /\ \A id \in Finished : id \in Finished'
  BY <1>1, <1>2
<1>. QED
  BY <1>3 DEF OutcomeMatchesTrajectory, Finish, Put

LEMMA StartMatches ==
  ASSUME IInv, OutcomeMatchesTrajectory, NEW t \in Threads, NEW r, CheckLimitsAndStart(t, r)
  PROVE  OutcomeMatchesTrajectory'
<1>1. CASE RejectTarget(t, r)
  BY <1>1 DEF RejectTarget, OutcomeMatchesTrajectory, Finished, Range, motionVars, robotVars
<1>2. CASE Start(t, r)
  <2>1. next_motion_id \notin DOMAIN outcomes
    BY DEF IInv, TypeOK
  <2>. QED
    BY <1>2, <2>1 DEF Start, OutcomeMatchesTrajectory, Finished, Range, Put
<1>. QED  BY <1>1, <1>2 DEF CheckLimitsAndStart

LEMMA RunMotionMatches ==
  ASSUME IInv, OutcomeMatchesTrajectory, NEW t \in Threads, NEW r, NEW a, RunMotion(t, r, a)
  PROVE  OutcomeMatchesTrajectory'
<1>1. CASE Reject(t) \/ RequestAbort(t, r)
  BY <1>1 DEF Reject, RequestAbort, OutcomeMatchesTrajectory, Finished, Range, motionVars, robotVars
<1>2. CASE CheckLimitsAndStart(t, r)
  BY <1>2, StartMatches
<1>. QED  BY <1>1, <1>2 DEF RunMotion

\* What run_motion files for a motion agrees with the motion's own trajectory.
THEOREM Outcomes == Spec => []OutcomeMatchesTrajectory
<1>1. Init => OutcomeMatchesTrajectory
  BY DEF Init, OutcomeMatchesTrajectory
<1>2. IInv /\ IInv' /\ OutcomeMatchesTrajectory /\ [Next]_vars => OutcomeMatchesTrajectory'
  <2>. SUFFICES ASSUME IInv, IInv', OutcomeMatchesTrajectory, [Next]_vars
                PROVE  OutcomeMatchesTrajectory'
    OBVIOUS
  <2>1. CASE UNCHANGED <<outcomes, last_sample, finished_ids>>
    BY <2>1 DEF OutcomeMatchesTrajectory, Finished, Range
  <2>2. CASE Enable \/ Stop \/ EmergencyStop \/ Reset \/ UNCHANGED vars
    BY <2>1, <2>2 DEF Enable, Stop, EmergencyStop, Reset, vars, motionVars, robotVars
  <2>3. CASE Disable
    <3>1. CASE CutMotion
      <4>1. Finished' = 1..next_motion_id - 1 /\ Finished = 1..next_motion_id - 2
        BY <2>3, <3>1, FinishedRange, FinishedRangeNext DEF Count, CutMotion, Disable
      <4>2. next_motion_id \in Nat
        BY DEF IInv, TypeOK
      <4>3. \A id \in Finished : id \in Finished'
        BY <4>1, <4>2
      <4>. QED
        BY <2>3, <4>3 DEF Disable, OutcomeMatchesTrajectory, robotVars
    <3>2. CASE UNCHANGED finished_ids
      BY <2>1, <2>3, <3>2 DEF Disable, robotVars
    <3>. QED  BY <2>3, <3>1, <3>2 DEF Disable
  <2>4. CASE \E t \in Threads : MoveAbsolute(t) \/ Home(t) \/ RunRelative(t)
    BY <2>4, RunMotionMatches DEF MoveAbsolute, Home, RunRelative
  <2>5. CASE \E t \in Threads : ProceedAfterAbort(t)
    BY <2>5, StartMatches DEF ProceedAfterAbort
  <2>6. CASE \E t \in Threads : MoveRelative(t) \/ WaitAgain(t) \/ SpuriousWakeup(t)
    BY <2>1, <2>6 DEF MoveRelative, WaitAgain, SpuriousWakeup, motionVars, robotVars
  <2>7. CASE \E t \in Threads : CollectResult(t)
    BY <2>7 DEF CollectResult, OutcomeMatchesTrajectory, Erase, Restrict, Finished, Range
  <2>8. CASE CycleEmergency
    BY <2>8, FinishMatches DEF CycleEmergency, Outcome
  <2>9. CASE CycleAbort
    BY <2>9, FinishMatches DEF CycleAbort, Outcome
  <2>10. CASE CycleDone
    BY <2>10, FinishMatches DEF CycleDone, Outcome
  <2>11. CASE CycleAdvance
    <3>1. current_motion_id \notin DOMAIN outcomes
      BY <2>11, BusyHasId DEF CycleAdvance, OutcomeMatchesTrajectory
    <3>. QED
      BY <2>11, <3>1 DEF CycleAdvance, OutcomeMatchesTrajectory, Put, Finished, Range, motionVars
  <2>. QED
    BY <2>2, <2>3, <2>4, <2>5, <2>6, <2>7, <2>8, <2>9, <2>10, <2>11
       DEF Next, Resume, ControlCycle
<1>. QED  BY <1>1, <1>2, Invariance, PTL DEF Spec
-----------------------------------------------------------------------------
(* The refinement. *)

Open == Running \cap Finished
Busy == IF busy THEN current_motion_id ELSE 0

\* Steps that a client of the service cannot see.
LEMMA Invisible ==
  ASSUME UNCHANGED <<busy, current_motion_id, next_motion_id, finished_ids, position>>,
         Running' = Running
  PROVE  UNCHANGED Service!serviceVars
BY DEF Service!serviceVars, Finished, Range

LEMMA RunningSame ==
  ASSUME TypeOK, NEW t \in Threads, pc[t] # "running", NEW where \in {"idle", "relative", "aborting"},
         pc' = [pc EXCEPT ![t] = where],
         \A u \in Threads : u # t => my_id'[u] = my_id[u]
  PROVE  Running' = Running
BY DEF TypeOK, Running

LEMMA ReturnInvisible ==
  ASSUME IInv, NEW t \in Threads, pc[t] # "running", Return(t),
         UNCHANGED <<motionVars, robotVars>>
  PROVE  UNCHANGED Service!serviceVars
<1>1. Running' = Running
  BY RunningSame DEF Return, IInv, TypeOK
<1>. QED  BY <1>1, Invisible DEF motionVars, robotVars

LEMMA StartBegins ==
  ASSUME IInv, NEW t \in Threads, NEW r, ~busy, pc[t] # "running", Start(t, r)
  PROVE  Service!Begin
<1>1. /\ next_motion_id \in Nat \ {0}
      /\ busy' = TRUE /\ current_motion_id' = next_motion_id
      /\ next_motion_id' = next_motion_id + 1
      /\ UNCHANGED <<finished_ids, position>>
      /\ pc' = [pc EXCEPT ![t] = "running"]
      /\ my_id' = [my_id EXCEPT ![t] = next_motion_id]
  BY DEF Start, TakeId, IInv, TypeOK
<1>2. next_motion_id \notin Finished /\ Finished' = Finished
  BY <1>1, FinishedRange DEF Count, Finished
<1>3. Running' = Running \cup {next_motion_id}
  BY <1>1 DEF Running, IInv, TypeOK
<1>. QED
  BY <1>1, <1>2, <1>3 DEF Service!Begin

LEMMA EndsMotion ==
  ASSUME IInv, IInv', busy, busy' = FALSE, position' \in WithinLimits \cup Unordered,
         UNCHANGED <<current_motion_id, next_motion_id, threadVars>>
  PROVE  Service!End
<1>1. /\ next_motion_id \in Nat /\ next_motion_id >= 2
      /\ current_motion_id = next_motion_id - 1
  BY BusyHasId DEF IInv, TypeOK
<1>2. Finished = 1..next_motion_id - 2 /\ Finished' = 1..next_motion_id - 1
  BY FinishedRange, FinishedRangeNext DEF Count
<1>3. Finished' = Finished \cup {current_motion_id}
  BY <1>1, <1>2
<1>4. current_motion_id \in Running /\ Running' = Running
  BY DEF Running, IInv, OneCallerPerMotion, threadVars
<1>. QED
  BY <1>1, <1>3, <1>4 DEF Service!End, WithinLimits

LEMMA CollectAnswers ==
  ASSUME IInv, NEW t \in Threads, CollectResult(t)
  PROVE  \E i \in Open : Service!Answer(i)
<1>1. /\ pc[t] = "running" /\ my_id[t] \in Finished
      /\ pc' = [pc EXCEPT ![t] = "idle"] /\ my_id' = [my_id EXCEPT ![t] = 0]
      /\ UNCHANGED <<busy, current_motion_id, next_motion_id, finished_ids, position>>
  BY DEF CollectResult, Return
<1>2. my_id[t] # 0
  BY <1>1 DEF IInv, TypeOK
<1>3. Running' = Running \ {my_id[t]}
  BY <1>1, <1>2 DEF Running, IInv, TypeOK, OneCallerPerMotion
<1>4. my_id[t] \in Open /\ Finished' = Finished
  BY <1>1 DEF Open, Running, Finished
<1>5. Service!Answer(my_id[t])
  BY <1>1, <1>3, <1>4 DEF Service!Answer, Open
<1>. QED  BY <1>4, <1>5

LEMMA RunMotionSteps ==
  ASSUME IInv, NEW t \in Threads, NEW r \in Requests, NEW a, pc[t] # "running", RunMotion(t, r, a)
  PROVE  Service!Begin \/ UNCHANGED Service!serviceVars
<1>1. CASE Reject(t)
  BY <1>1, ReturnInvisible DEF Reject
<1>2. CASE RejectTarget(t, r)
  BY <1>2, ReturnInvisible DEF RejectTarget
<1>3. CASE ~busy /\ Start(t, r)
  BY <1>3, StartBegins
<1>4. CASE RequestAbort(t, r)
  <2>1. Running' = Running
    BY <1>4, RunningSame DEF RequestAbort, IInv
  <2>. QED  BY <1>4, <2>1, Invisible DEF RequestAbort, motionVars, robotVars
<1>. QED  BY <1>1, <1>2, <1>3, <1>4 DEF RunMotion, CheckLimitsAndStart

\* The controller does nothing the motion service does not allow: one motion at a
\* time, the arm inside its limits, one answer per motion, after its end.
THEOREM ServiceSafety == Spec => Service!ServiceInit /\ [][Service!ServiceNext]_Service!serviceVars
<1>1. Init => Service!ServiceInit
  BY DEF Init, Service!ServiceInit, Running, Finished, Range
<1>2. IInv /\ IInv' /\ StaysWithinLimits' /\ [Next]_vars
        => [Service!ServiceNext]_Service!serviceVars
  <2>. SUFFICES ASSUME IInv, IInv', StaysWithinLimits', [Next]_vars
                PROVE  Service!ServiceNext \/ UNCHANGED Service!serviceVars
    OBVIOUS
  <2>1. ASSUME UNCHANGED <<motionVars, robotVars, pc, my_id>> PROVE UNCHANGED Service!serviceVars
    BY <2>1, Invisible DEF motionVars, robotVars, Running
  <2>2. CASE Enable \/ Stop \/ EmergencyStop \/ Reset \/ UNCHANGED vars
    BY <2>1, <2>2 DEF Enable, Stop, EmergencyStop, Reset, vars, threadVars
  <2>3. CASE Disable
    <3>1. CASE CutMotion
      BY <2>3, <3>1, EndsMotion DEF Disable, CutMotion, StaysWithinLimits, Service!ServiceNext
    <3>2. CASE UNCHANGED <<busy, motion_state, finished_ids, waitSet>>
      BY <2>1, <2>3, <3>2 DEF Disable, threadVars, motionVars
    <3>. QED  BY <2>3, <3>1, <3>2 DEF Disable
  <2>4. CASE \E t \in Threads : MoveAbsolute(t) \/ Home(t)
    <3>1. PICK t \in Threads : MoveAbsolute(t) \/ Home(t)
      BY <2>4
    <3>2. pc[t] # "running"
      BY <3>1 DEF MoveAbsolute, Home, MayIssue
    <3>3. \E r \in Requests, a \in BOOLEAN : RunMotion(t, r, a)
      BY <3>1, CallsRunMotion
    <3>. QED  BY <3>2, <3>3, RunMotionSteps DEF Service!ServiceNext
  <2>5. CASE \E t \in Threads : RunRelative(t)
    BY <2>5, RunMotionSteps DEF RunRelative, IInv, TypeOK, Service!ServiceNext
  <2>6. CASE \E t \in Threads : MoveRelative(t)
    <3>1. PICK t \in Threads : MoveRelative(t)
      BY <2>6
    <3>2. Running' = Running
      BY <3>1, RunningSame DEF MoveRelative, MayIssue, IInv
    <3>. QED  BY <3>1, <3>2, Invisible DEF MoveRelative, motionVars, robotVars
  <2>7. CASE \E t \in Threads : ProceedAfterAbort(t)
    <3>1. PICK t \in Threads : ProceedAfterAbort(t)
      BY <2>7
    <3>2. CASE RejectTarget(t, req[t])
      BY <3>1, <3>2, ReturnInvisible DEF ProceedAfterAbort, RejectTarget
    <3>3. CASE Start(t, req[t])
      BY <3>1, <3>3, StartBegins DEF ProceedAfterAbort, Service!ServiceNext
    <3>. QED  BY <3>1, <3>2, <3>3 DEF ProceedAfterAbort, CheckLimitsAndStart
  <2>8. CASE \E t \in Threads : CollectResult(t)
    BY <2>8, CollectAnswers DEF Service!ServiceNext, Open
  <2>9. CASE \E t \in Threads : WaitAgain(t) \/ SpuriousWakeup(t)
    BY <2>1, <2>9 DEF WaitAgain, SpuriousWakeup, threadVars
  <2>10. CASE CycleEmergency \/ CycleAbort \/ CycleDone
    BY <2>10, EndsMotion
       DEF CycleEmergency, CycleAbort, CycleDone, Finish, StaysWithinLimits, Service!ServiceNext
  <2>11. CASE CycleAdvance
    <3>1. Running' = Running
      BY <2>11 DEF CycleAdvance, Running, threadVars
    <3>2. current_motion_id # 0
      BY <2>11, BusyHasId DEF CycleAdvance, IInv, TypeOK
    <3>3. position' \in WithinLimits
      BY <2>11, AdvancedIsInt DEF CycleAdvance, StaysWithinLimits, Unordered
    <3>4. Service!Progress
      BY <2>11, <3>1, <3>2, <3>3
         DEF CycleAdvance, Service!Progress, WithinLimits, motionVars, Finished, Range
    <3>. QED  BY <3>4 DEF Service!ServiceNext
  <2>. QED
    BY <2>2, <2>3, <2>4, <2>5, <2>6, <2>7, <2>8, <2>9, <2>10, <2>11
       DEF Next, Resume, ControlCycle
<1>. QED  BY <1>1, <1>2, Invariance, Limits, PTL DEF Spec
=============================================================================
