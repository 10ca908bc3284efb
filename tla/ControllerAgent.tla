--------------------------- MODULE ControllerAgent ---------------------------
(***************************************************************************)
(* The controller core, controller-agent/src/controller_agent.cpp.         *)
(*                                                                         *)
(* gRPC worker threads (Threads) issue commands; the control-loop thread   *)
(* executes the motion.  One mutex mu_ protects every member, so a stretch *)
(* of code between two acquisitions of mu_ is one action.  A thread inside *)
(* run_motion releases mu_ only in cv_.wait: it then sits in waitSet until *)
(* a notify_all (or a spurious wake-up), and re-tests its loop condition.  *)
(*                                                                         *)
(* Data abstraction.  The joints move along one axis whose doubles are the *)
(* integers and NaN; a trajectory is its target and the shape of its time  *)
(* profile; of the samples of a motion only the motion_state of the newest *)
(* is kept; messages, times and the other sample fields are left out.      *)
(***************************************************************************)
EXTENDS Integers, Sequences, FiniteSets, Functions

CONSTANTS
  Threads,          \* gRPC worker threads that can run a motion command
  MinPos, MaxPos,   \* the joint limits
  NaN,              \* the double that is not a number
  Targets,          \* targets of MoveAbsolute, some outside the limits
  Deltas,           \* increments of MoveRelative
  Profiles,         \* shapes of a motion's time profile
  MaxId             \* bound: motions started in one behaviour

ASSUME LimitsAssumption == MinPos \in Int /\ MaxPos \in Int /\ 0 \in MinPos..MaxPos
ASSUME NaNAssumption == NaN \notin Int
ASSUME InputAssumption == Targets \subseteq Int \cup {NaN} /\ Deltas \subseteq Int \cup {NaN}
ASSUME ProfileAssumption == Profiles \subseteq {"ramp", "jump", "stuck"}

VARIABLES
  ctrl_state, motion_state, error_code, enabled,
  busy, current_motion_id, next_motion_id,
  finished_ids,           \* completed motions, never erased
  outcomes,               \* map: motion -> its terminal result, until collected
  stop_requested, emergency_requested, pending_abort,
  position, at_rest,      \* of the robot model; at_rest: all velocities are 0
  plan,                   \* the request the executor was last started with
  last_sample,            \* recorder map: motion -> motion_state of its newest sample
  pc, req, my_id,         \* per thread: where it is and its locals
  waitSet                 \* threads asleep in cv_.wait

controlVars == <<ctrl_state, motion_state, error_code, enabled>>
motionVars == <<busy, current_motion_id, next_motion_id, finished_ids, outcomes>>
flagVars == <<stop_requested, emergency_requested, pending_abort>>
robotVars == <<position, at_rest, plan, last_sample>>
threadVars == <<pc, req, my_id>>
vars == <<controlVars, motionVars, flagVars, robotVars, threadVars, waitSet>>

CtrlStates == {"DISABLED", "ENABLED", "FAULT"}
MotionStates == {"IDLE", "BUSY", "ACTIVE", "DONE", "ABORTED", "ERROR"}
ErrorCodes == {"OK", "JOINT_LIMIT", "ABORTED", "EMERGENCY_STOP"}
\* NaN, if a client may send it, and the doubles the controller can meet.
Unordered == (Targets \cup Deltas) \ Int
Doubles == Int \cup Unordered

WithinLimits == MinPos..MaxPos

\* What within_position_limits refuses: NaN is neither below nor above a limit.
OutsideLimits(q) == q # NaN /\ q \notin WithinLimits

\* The sum of two doubles.
Plus(a, b) == IF NaN \in {a, b} THEN NaN ELSE a + b

(***************************************************************************)
(* What a command asks of the trajectory generator.  The profile stands    *)
(* for what plan_synchronized makes of velocity and acceleration:          *)
(*   "ramp"   both positive: the axis travels towards the target;          *)
(*   "jump"   zero acceleration or deceleration, or one that is NaN: the   *)
(*            duration is 0 (std::max(0.0, NaN)), the first cycle the last; *)
(*   "stuck"  zero velocity: the duration is infinite and the axis rests.  *)
(***************************************************************************)
Request(target, profile) == [target |-> target, profile |-> profile]
NoRequest == Request(0, "none")
Requests == [target : Doubles, profile : Profiles \cup {"none"}]

Outcome(ok, error, motion) == [ok |-> ok, error_code |-> error, motion_state |-> motion]

\* A std::map with key k set to v, and with key k erased.
Put(map, k, v) == [x \in DOMAIN map \cup {k} |-> IF x = k THEN v ELSE map[x]]
Erase(map, k) == Restrict(map, DOMAIN map \ {k})

Finished == Range(finished_ids)

Init ==
  /\ ctrl_state = "DISABLED" /\ motion_state = "IDLE"
  /\ error_code = "OK" /\ enabled = FALSE
  /\ busy = FALSE /\ current_motion_id = 0 /\ next_motion_id = 1
  /\ finished_ids = <<>> /\ outcomes = <<>>
  /\ stop_requested = FALSE /\ emergency_requested = FALSE /\ pending_abort = FALSE
  /\ position = 0 /\ at_rest = TRUE /\ plan = NoRequest /\ last_sample = <<>>
  /\ pc = [t \in Threads |-> "idle"]
  /\ req = [t \in Threads |-> NoRequest]
  /\ my_id = [t \in Threads |-> 0]
  /\ waitSet = {}

-----------------------------------------------------------------------------
(* Commands that hold the mutex once and return at once. *)

\* The threads still asleep after cv_.notify_all().
NotifyAll == {}

Enable ==
  /\ ctrl_state # "FAULT"
  /\ ctrl_state' = "ENABLED" /\ enabled' = TRUE
  /\ error_code' = "OK" /\ motion_state' = "IDLE"
  /\ UNCHANGED <<motionVars, flagVars, robotVars, threadVars, waitSet>>

\* Fault variant: disable() reports the motion finished but leaves it busy.
CutMotionStillBusy ==
  /\ busy
  /\ motion_state' = "ABORTED"
  /\ finished_ids' = Append(finished_ids, current_motion_id)
  /\ waitSet' = NotifyAll
  /\ UNCHANGED busy

\* Fault variant: disable() does not notify the condition variable.
CutMotionSilent ==
  /\ busy
  /\ busy' = FALSE /\ motion_state' = "ABORTED"
  /\ finished_ids' = Append(finished_ids, current_motion_id)
  /\ UNCHANGED waitSet

\* disable() ends a current motion without an outcome or a sample; the
\* executor and the model keep what they have.
CutMotion ==
  /\ busy
  /\ busy' = FALSE /\ motion_state' = "ABORTED"
  /\ finished_ids' = Append(finished_ids, current_motion_id)
  /\ waitSet' = NotifyAll

Disable ==
  /\ CutMotion \/ (~busy /\ UNCHANGED <<busy, motion_state, finished_ids, waitSet>>)
  /\ ctrl_state' = "DISABLED" /\ enabled' = FALSE
  /\ UNCHANGED <<error_code, current_motion_id, next_motion_id, outcomes,
                 flagVars, robotVars, threadVars>>

\* Stop with emergency = false: accepted with no motion in progress too.
Stop ==
  /\ stop_requested' = TRUE
  /\ waitSet' = NotifyAll
  /\ UNCHANGED <<controlVars, motionVars, emergency_requested, pending_abort,
                 robotVars, threadVars>>

\* Fault variant: the emergency stop forgets to raise the request flag.
EmergencyStopFaultOnly ==
  /\ ctrl_state' = "FAULT" /\ enabled' = FALSE
  /\ error_code' = "EMERGENCY_STOP" /\ motion_state' = "ERROR"
  /\ waitSet' = NotifyAll
  /\ UNCHANGED <<motionVars, flagVars, robotVars, threadVars>>

EmergencyStop ==
  /\ emergency_requested' = TRUE
  /\ ctrl_state' = "FAULT" /\ enabled' = FALSE
  /\ error_code' = "EMERGENCY_STOP" /\ motion_state' = "ERROR"
  /\ waitSet' = NotifyAll
  /\ UNCHANGED <<motionVars, stop_requested, pending_abort, robotVars, threadVars>>

\* A Reset with nothing to recover from returns ok and changes nothing.
Reset ==
  /\ ctrl_state = "FAULT" \/ error_code # "OK"
  /\ ctrl_state' = "ENABLED" /\ enabled' = TRUE
  /\ error_code' = "OK" /\ motion_state' = "IDLE"
  /\ emergency_requested' = FALSE /\ stop_requested' = FALSE
  /\ pending_abort' = FALSE
  /\ UNCHANGED <<motionVars, robotVars, threadVars, waitSet>>

-----------------------------------------------------------------------------
(* run_motion: one action per stretch that holds the mutex. *)

\* Return to the client; the locals of run_motion are gone.
Return(t) ==
  /\ pc' = [pc EXCEPT ![t] = "idle"]
  /\ req' = [req EXCEPT ![t] = NoRequest]
  /\ my_id' = [my_id EXCEPT ![t] = 0]

\* NOT_ENABLED or BUSY: the reply is all there is.
Reject(t) ==
  /\ Return(t)
  /\ UNCHANGED <<controlVars, motionVars, flagVars, robotVars, waitSet>>

RejectTarget(t, r) ==
  /\ OutsideLimits(r.target)
  /\ motion_state' = "ERROR" /\ error_code' = "JOINT_LIMIT"
  /\ Return(t)
  /\ UNCHANGED <<ctrl_state, enabled, motionVars, flagVars, robotVars, waitSet>>

TakeId(t) ==
  /\ current_motion_id' = next_motion_id
  /\ my_id' = [my_id EXCEPT ![t] = next_motion_id]
  /\ next_motion_id' = next_motion_id + 1

\* Fault variant: a new motion inherits what was asked of the last one.
KeepRequests == UNCHANGED <<stop_requested, pending_abort>>

\* A new motion clears stop and abort; a left-over emergency request stays.
ClearRequests == stop_requested' = FALSE /\ pending_abort' = FALSE

Start(t, r) ==
  /\ TakeId(t)
  /\ ClearRequests
  /\ plan' = r /\ busy' = TRUE
  /\ motion_state' = "BUSY" /\ error_code' = "OK"
  /\ last_sample' = Put(last_sample, next_motion_id, "none")
  /\ pc' = [pc EXCEPT ![t] = "running"]
  /\ req' = [req EXCEPT ![t] = NoRequest]
  /\ waitSet' = waitSet \cup {t}
  /\ UNCHANGED <<ctrl_state, enabled, finished_ids, outcomes, emergency_requested,
                 position, at_rest>>

\* Fault variant: the limit check is left out.
StartAnyTarget(t, r) == Start(t, r)

\* Sections 3 and 4: the limit check, then the start.  Planning cannot fail:
\* the check has already compared the number of axes.
CheckLimitsAndStart(t, r) ==
  \/ RejectTarget(t, r)
  \/ ~OutsideLimits(r.target) /\ Start(t, r)

\* Section 2 with abort_current: ask the control loop to abort, and sleep.
RequestAbort(t, r) ==
  /\ pending_abort' = TRUE
  /\ waitSet' = {t}
  /\ pc' = [pc EXCEPT ![t] = "aborting"]
  /\ req' = [req EXCEPT ![t] = r]
  /\ UNCHANGED <<controlVars, motionVars, stop_requested, emergency_requested,
                 robotVars, my_id>>

\* run_motion as entered by a thread with a request.
RunMotion(t, r, abort_current) ==
  \/ ctrl_state # "ENABLED" /\ Reject(t)
  \/ ctrl_state = "ENABLED" /\ busy /\ ~abort_current /\ Reject(t)
  \/ ctrl_state = "ENABLED" /\ busy /\ abort_current /\ RequestAbort(t, r)
  \/ ctrl_state = "ENABLED" /\ ~busy /\ CheckLimitsAndStart(t, r)

\* Bound: a command is issued only while every open one can still get an id.
MayIssue(t) ==
  /\ pc[t] = "idle"
  /\ next_motion_id + Cardinality({u \in Threads : pc[u] \in {"relative", "aborting"}})
       <= MaxId

MoveAbsolute(t) ==
  /\ MayIssue(t)
  /\ \E target \in Targets, profile \in Profiles, abort_current \in BOOLEAN :
       RunMotion(t, Request(target, profile), abort_current)

Home(t) ==
  /\ MayIssue(t)
  /\ \E profile \in Profiles : RunMotion(t, Request(0, profile), FALSE)

\* MoveRelative reads the position and gives the mutex back ...
MoveRelative(t) ==
  /\ MayIssue(t)
  /\ \E delta \in Deltas, profile \in Profiles :
       req' = [req EXCEPT ![t] = Request(Plus(position, delta), profile)]
  /\ pc' = [pc EXCEPT ![t] = "relative"]
  /\ UNCHANGED <<controlVars, motionVars, flagVars, robotVars, my_id, waitSet>>

\* ... and enters run_motion, never with abort_current, in a later step.
RunRelative(t) ==
  /\ pc[t] = "relative"
  /\ RunMotion(t, req[t], FALSE)

\* Fault variant: the abort waiter goes on without re-testing busy_.
ProceedUnchecked(t) ==
  /\ pc[t] = "aborting" /\ t \notin waitSet
  /\ CheckLimitsAndStart(t, req[t])

\* A thread back from the wait for busy_ goes on at the limit check: the
\* enabled test of section 1 is not repeated.
ProceedAfterAbort(t) ==
  /\ pc[t] = "aborting" /\ t \notin waitSet
  /\ ~busy
  /\ CheckLimitsAndStart(t, req[t])

\* What run_motion returns for a finished motion: its own outcome or, when the
\* control loop left none, whatever the controller's global state is by now.
Result(id) ==
  IF id \in DOMAIN outcomes
  THEN outcomes[id]
  ELSE Outcome(motion_state = "DONE", error_code, motion_state)

\* Fault variant: any wake-up counts as completion.
CollectUnchecked(t) ==
  /\ pc[t] = "running" /\ t \notin waitSet
  /\ outcomes' = Erase(outcomes, my_id[t])
  /\ last_sample' = Erase(last_sample, my_id[t])
  /\ Return(t)
  /\ UNCHANGED <<controlVars, busy, current_motion_id, next_motion_id, finished_ids,
                 flagVars, position, at_rest, plan, waitSet>>

CollectResult(t) ==
  /\ pc[t] = "running" /\ t \notin waitSet
  /\ my_id[t] \in Finished
  /\ outcomes' = Erase(outcomes, my_id[t])
  /\ last_sample' = Erase(last_sample, my_id[t])
  /\ Return(t)
  /\ UNCHANGED <<controlVars, busy, current_motion_id, next_motion_id, finished_ids,
                 flagVars, position, at_rest, plan, waitSet>>

\* Awake with the loop condition still true: wait again.
WaitAgain(t) ==
  /\ t \notin waitSet
  /\ \/ pc[t] = "aborting" /\ busy
     \/ pc[t] = "running" /\ my_id[t] \notin Finished
  /\ waitSet' = waitSet \cup {t}
  /\ UNCHANGED <<controlVars, motionVars, flagVars, robotVars, threadVars>>

SpuriousWakeup(t) ==
  /\ t \in waitSet
  /\ waitSet' = waitSet \ {t}
  /\ UNCHANGED <<controlVars, motionVars, flagVars, robotVars, threadVars>>

-----------------------------------------------------------------------------
(* The control loop: one cycle with a motion in progress; otherwise a cycle  *)
(* changes nothing.                                                          *)

\* Fault variant: the outcome is filed but the sample keeps the old state.
FinishStaleSample(motion, result) ==
  /\ busy' = FALSE
  /\ finished_ids' = Append(finished_ids, current_motion_id)
  /\ outcomes' = Put(outcomes, current_motion_id, result)
  /\ last_sample' = Put(last_sample, current_motion_id, motion_state)
  /\ motion_state' = motion
  /\ waitSet' = NotifyAll

\* What the three ends of a motion share.
Finish(motion, result) ==
  /\ busy' = FALSE
  /\ finished_ids' = Append(finished_ids, current_motion_id)
  /\ outcomes' = Put(outcomes, current_motion_id, result)
  /\ last_sample' = Put(last_sample, current_motion_id, motion)
  /\ motion_state' = motion
  /\ waitSet' = NotifyAll

CycleEmergency ==
  /\ busy /\ emergency_requested
  /\ at_rest' = TRUE
  /\ Finish("ERROR", Outcome(FALSE, "EMERGENCY_STOP", "ERROR"))
  /\ emergency_requested' = FALSE
  /\ UNCHANGED <<ctrl_state, error_code, enabled, current_motion_id, next_motion_id,
                 stop_requested, pending_abort, position, plan, threadVars>>

\* Fault variant: the cycle serves a new command's abort but not a Stop.
AbortByCommandOnly == pending_abort

AbortRequested == stop_requested \/ pending_abort

CycleAbort ==
  /\ busy /\ ~emergency_requested /\ AbortRequested
  /\ at_rest' = TRUE
  /\ Finish("ABORTED", Outcome(FALSE, "ABORTED", "ABORTED"))
  /\ error_code' = "ABORTED"
  /\ stop_requested' = FALSE /\ pending_abort' = FALSE
  /\ UNCHANGED <<ctrl_state, enabled, current_motion_id, next_motion_id,
                 emergency_requested, position, plan, threadVars>>

\* The way to go is NaN, and so is every time computed from it: the duration is 0.
NoDistance == NaN \in {position, plan.target}

\* MotionExecutor.advance: where the plan is one cycle on.
Advanced ==
  CASE plan.profile = "jump" -> plan.target
    [] plan.profile = "ramp" /\ position < plan.target -> position + 1
    [] plan.profile = "ramp" /\ position > plan.target -> position - 1
    [] OTHER -> position

CycleAdvance ==
  /\ busy /\ ~emergency_requested /\ ~AbortRequested
  /\ ~NoDistance
  /\ position' = Advanced
  /\ Advanced # plan.target
  /\ at_rest' = (Advanced = position)
  /\ motion_state' = "ACTIVE"
  /\ last_sample' = Put(last_sample, current_motion_id, "ACTIVE")
  /\ UNCHANGED <<ctrl_state, error_code, enabled, motionVars, flagVars, plan,
                 threadVars, waitSet>>

\* The last cycle of a plan.
Arrive ==
  /\ ~NoDistance /\ Advanced = plan.target
  /\ position' = plan.target /\ at_rest' = TRUE

\* The only cycle of a plan without a distance: it evaluates the profile at time 0.  With
\* an acceleration phase ahead that gives NaN for the position and the velocity; with
\* none (no velocity asked for), the target at rest.
Blunder ==
  /\ NoDistance
  /\ \/ plan.profile # "stuck" /\ position' = NaN /\ at_rest' = FALSE
     \/ plan.profile # "ramp" /\ position' = plan.target /\ at_rest' = TRUE

CycleDone ==
  /\ busy /\ ~emergency_requested /\ ~AbortRequested
  /\ Arrive \/ Blunder
  /\ Finish("DONE", Outcome(TRUE, "OK", "DONE"))
  /\ UNCHANGED <<ctrl_state, error_code, enabled, current_motion_id, next_motion_id,
                 flagVars, plan, threadVars>>

ControlCycle == CycleEmergency \/ CycleAbort \/ CycleAdvance \/ CycleDone

-----------------------------------------------------------------------------
\* The steps a thread takes by itself once its call is under way.
Resume(t) == RunRelative(t) \/ ProceedAfterAbort(t) \/ CollectResult(t) \/ WaitAgain(t)

Next ==
  \/ Enable \/ Disable \/ Stop \/ EmergencyStop \/ Reset
  \/ \E t \in Threads : MoveAbsolute(t) \/ Home(t) \/ MoveRelative(t)
  \/ \E t \in Threads : Resume(t) \/ SpuriousWakeup(t)
  \/ ControlCycle

Spec == Init /\ [][Next]_vars

\* The control loop sleeps until its next period and then runs; a runnable gRPC
\* worker is eventually scheduled and gets the mutex.  Clients owe nothing.
Fairness == WF_vars(ControlCycle) /\ \A t \in Threads : WF_vars(Resume(t))
FairSpec == Spec /\ Fairness

-----------------------------------------------------------------------------
(* Properties. *)

\* Types, and what every motion id in use refers to: a running call owns an id
\* that has been given out, no other call has one.
TypeOK ==
  /\ ctrl_state \in CtrlStates /\ motion_state \in MotionStates
  /\ error_code \in ErrorCodes /\ enabled \in BOOLEAN
  /\ busy \in BOOLEAN /\ next_motion_id \in Nat \ {0}
  /\ current_motion_id \in Nat
  /\ finished_ids \in Seq(Nat)
  /\ DOMAIN outcomes \subseteq 1..next_motion_id - 1
  /\ DOMAIN last_sample \subseteq 1..next_motion_id - 1
  /\ stop_requested \in BOOLEAN /\ emergency_requested \in BOOLEAN
  /\ pending_abort \in BOOLEAN
  /\ position \in Doubles /\ at_rest \in BOOLEAN /\ plan \in Requests
  /\ pc \in [Threads -> {"idle", "relative", "aborting", "running"}]
  /\ req \in [Threads -> Requests]
  /\ my_id \in [Threads -> 0..next_motion_id - 1]
  /\ \A t \in Threads : pc[t] = "running" <=> my_id[t] # 0
  /\ waitSet \subseteq Threads

\* Motions complete exactly once and in the order of their ids: finished_ids_
\* lists 1, 2, ... without a gap up to the motion in progress.  Two writers end
\* motions, the control loop and disable(), whichever comes first.
FinishedInOrder ==
  /\ current_motion_id = next_motion_id - 1
  /\ finished_ids = [i \in 1..(IF busy THEN next_motion_id - 2 ELSE next_motion_id - 1) |-> i]

\* No lost wake-up: a thread asleep in cv_.wait waits for something that has not
\* happened, so it never sleeps past the end of its own motion, or past the end
\* of the motion it asked to abort, whichever path ended it.
NoLostWakeup ==
  \A t \in waitSet :
    \/ pc[t] = "running" /\ my_id[t] \notin Finished
    \/ pc[t] = "aborting" /\ busy

\* The motion in progress has exactly one caller waiting for it, and no two calls
\* wait for one motion: what take() and the outcomes map hand out goes to the
\* caller that started the motion.
OneCallerPerMotion ==
  /\ busy => \E t \in Threads : pc[t] = "running" /\ my_id[t] = current_motion_id
  /\ \A t, u \in Threads : my_id[t] = my_id[u] /\ my_id[t] # 0 => t = u

\* The recorder isolates motions: an outcome agrees with the newest sample of the
\* same motion, whatever motions other threads have started since.
OutcomeMatchesTrajectory ==
  \A id \in DOMAIN outcomes :
    /\ id \in Finished /\ id \in DOMAIN last_sample
    /\ outcomes[id].motion_state = last_sample[id]
    /\ outcomes[id].ok <=> last_sample[id] = "DONE"

\* The arm never gets to a position outside the joint limits and is never sent to one,
\* though a relative target is computed from a position read before the mutex was given
\* up, and an aborting target is checked only after the wait.  NaN passes the check: the
\* position and the target are NaN at most when some client may send a NaN.
StaysWithinLimits ==
  /\ position \in WithinLimits \cup Unordered
  /\ busy => plan.target \in WithinLimits \cup Unordered

\* Every command that got past its checks returns to its client, whatever other
\* clients do meanwhile, unless a motion that never ends by itself stays in progress
\* from some time on.  Finitely many motions are issued (MaxId).
StuckInProgress == busy /\ plan.profile = "stuck"
CallsReturn == \A t \in Threads : pc[t] # "idle" ~> pc[t] = "idle"
EveryCallReturns == []<>~StuckInProgress => CallsReturn

\* A normal Stop ends the motion in progress, even one that would never end by
\* itself; only a Reset may take the request back.
StopEndsMotion == busy /\ stop_requested ~> ~busy \/ ~stop_requested

\* docs/design.md:208, emergency stop: "FAULT; motion refused; recovery after
\* Reset".  No motion starts in a controller that is not enabled.
FaultRefusesMotion == [][~busy /\ busy' => ctrl_state = "ENABLED"]_vars

\* controller_agent.cpp:128, on the flags reset() clears: a left-over
\* emergency_requested_ "would end the next motion at once".  An enabled
\* controller holds none.
EnabledHoldsNoEmergency == ctrl_state = "ENABLED" => ~emergency_requested

\* controller_agent.cpp:240: the result is filed per motion "so that a new command
\* cannot overwrite it".  ok is reported only of a motion that reached DONE.
OkMeansDone ==
  [][\A t \in Threads :
       pc[t] = "running" /\ pc'[t] = "idle" /\ Result(my_id[t]).ok
         => last_sample[my_id[t]] = "DONE"]_vars

\* controller_agent.cpp:187, on the limit check: "a target beyond the limits is an error
\* and must not move".  The arm is always inside its limits.
NeverLeavesLimits == position \in WithinLimits

\* motion_executor.hpp:35: whoever stops the executor zeroes the velocities of the
\* model.  Without a motion in progress the arm is at rest.
AtRestWhenIdle == ~busy => at_rest
=============================================================================
