--------------------------- MODULE SafetyInterlock ---------------------------
(***************************************************************************)
(* The safety interlock: SafetyStateMachine and the gRPC handler           *)
(* SetSafetyInput around it.                                               *)
(*                                                                         *)
(* No mutex protects the interlock, so handlers interleave between their   *)
(* accesses to it.  outputs_ is stored flags first, then the name of the   *)
(* state, as the compiled assignment does.  error_code is a function of    *)
(* the state and is left out; reads (GetSafetyState) change nothing.       *)
(***************************************************************************)
CONSTANT Handlers   \* gRPC worker threads inside SetSafetyInput

VARIABLES
  inputs, outputs,
  prev_stop_required,   \* the edge detector of the handler
  step,                 \* per handler: what it does next
  result                \* per handler: the outputs it computed

safetyVars == <<inputs, outputs, prev_stop_required, step, result>>

Inputs == [estop : BOOLEAN, door_open : BOOLEAN,
           brake_released : BOOLEAN, drive_fault : BOOLEAN]
SafetyStates == {"SAFE", "ESTOP", "GUARDED", "FAULT"}
Outputs == [allow_enable : BOOLEAN, stop_required : BOOLEAN,
            brake_request : BOOLEAN, state : SafetyStates]

Interlocked(state) ==
  [allow_enable |-> FALSE, stop_required |-> TRUE, brake_request |-> TRUE, state |-> state]
Safe(allow) ==
  [allow_enable |-> allow, stop_required |-> FALSE, brake_request |-> FALSE, state |-> "SAFE"]

\* Fault variant: the door is tested before the emergency stop.
EvaluateDoorFirst(in) ==
  CASE in.door_open   -> Interlocked("GUARDED")
    [] in.estop       -> Interlocked("ESTOP")
    [] in.drive_fault -> Interlocked("FAULT")
    [] OTHER          -> Safe(in.brake_released)

\* The interlock matrix, highest priority first.
Evaluate(in) ==
  CASE in.estop                                           -> Interlocked("ESTOP")
    [] ~in.estop /\ in.door_open                          -> Interlocked("GUARDED")
    [] ~in.estop /\ ~in.door_open /\ in.drive_fault       -> Interlocked("FAULT")
    [] ~in.estop /\ ~in.door_open /\ ~in.drive_fault      -> Safe(in.brake_released)

NoInputs == [estop |-> FALSE, door_open |-> FALSE, brake_released |-> FALSE,
             drive_fault |-> FALSE]

\* The member initialisers: no input is set, the brake not released, and yet
\* enabling is allowed; the matrix is not evaluated before the first call.
SafetyInit ==
  /\ inputs = NoInputs /\ outputs = Safe(TRUE)
  /\ prev_stop_required = FALSE
  /\ step = [h \in Handlers |-> "idle"]
  /\ result = [h \in Handlers |-> Safe(TRUE)]

-----------------------------------------------------------------------------
(* SetSafetyInput, one action per access to the shared interlock. *)

Goto(h, s) == step' = [step EXCEPT ![h] = s]

SetInputs(h) ==
  /\ step[h] = "idle"
  /\ \E in \in Inputs :
       inputs' = in /\ result' = [result EXCEPT ![h] = Evaluate(in)]
  /\ Goto(h, "flags")
  /\ UNCHANGED <<outputs, prev_stop_required>>

StoreFlags(h) ==
  /\ step[h] = "flags"
  /\ outputs' = [result[h] EXCEPT !.state = outputs.state]
  /\ Goto(h, "state")
  /\ UNCHANGED <<inputs, prev_stop_required, result>>

StoreState(h) ==
  /\ step[h] = "state"
  /\ outputs' = [outputs EXCEPT !.state = result[h].state]
  /\ Goto(h, "edge")
  /\ UNCHANGED <<inputs, prev_stop_required, result>>

\* The handler looks at the shared outputs, by reference, not at its result.
RisingEdge == outputs.stop_required /\ ~prev_stop_required

DetectEdge(h) ==
  /\ step[h] = "edge"
  /\ Goto(h, CASE RisingEdge /\ outputs.state = "ESTOP"   -> "emergency"
               [] RisingEdge /\ outputs.state = "GUARDED" -> "stop"
               [] OTHER                                   -> "remember")
  /\ UNCHANGED <<inputs, outputs, prev_stop_required, result>>

\* The handler's side of agent_.stop(true) and of agent_.stop(false).
CallEmergencyStop(h) ==
  /\ step[h] = "emergency" /\ Goto(h, "remember")
  /\ UNCHANGED <<inputs, outputs, prev_stop_required, result>>

CallStop(h) ==
  /\ step[h] = "stop" /\ Goto(h, "remember")
  /\ UNCHANGED <<inputs, outputs, prev_stop_required, result>>

Remember(h) ==
  /\ step[h] = "remember"
  /\ prev_stop_required' = outputs.stop_required
  /\ Goto(h, "idle")
  /\ UNCHANGED <<inputs, outputs, result>>

\* The steps of a handler that do not touch the controller.
InterlockStep(h) ==
  SetInputs(h) \/ StoreFlags(h) \/ StoreState(h) \/ DetectEdge(h) \/ Remember(h)

\* The interlock by itself, whatever the controller does with the calls.
HandlerStep(h) == InterlockStep(h) \/ CallEmergencyStop(h) \/ CallStop(h)
SafetyNext == \E h \in Handlers : HandlerStep(h)
SafetySpec == SafetyInit /\ [][SafetyNext]_safetyVars

\* A call under way runs to its end; no client has to make one.
FairSafetySpec ==
  SafetySpec /\ \A h \in Handlers : WF_safetyVars(step[h] # "idle" /\ HandlerStep(h))

-----------------------------------------------------------------------------
(* Properties. *)

SafetyTypeOK ==
  /\ inputs \in Inputs /\ outputs \in Outputs
  /\ prev_stop_required \in BOOLEAN
  /\ step \in [Handlers -> {"idle", "flags", "state", "edge", "emergency", "stop",
                            "remember"}]
  /\ result \in [Handlers -> Outputs]

NoCallOpen == \A h \in Handlers : step[h] = "idle"

\* safety_state_machine.cpp:7, emergency stop: "highest priority".  With no call
\* under way a pressed emergency stop shows as ESTOP, enabling forbidden, whatever
\* the other inputs are and were.
EstopWins ==
  NoCallOpen /\ inputs.estop => outputs.state = "ESTOP" /\ ~outputs.allow_enable

\* The edge detector of the handler is in step with the interlock between calls, so
\* that the next rising edge is seen and a repeated call is not taken for one.
EdgeInStep == NoCallOpen => prev_stop_required = outputs.stop_required

\* safety_state_machine.hpp:7: "brake not released: enabling forbidden (against a
\* fall)".
BrakeBlocksEnable == NoCallOpen /\ ~inputs.brake_released => ~outputs.allow_enable

\* test_safety.py:5, ESTOP: "highest priority ... linked to the controller's emergency
\* stop (FAULT)".  A call that takes the interlock to ESTOP, from any other state,
\* calls the emergency stop.
EstopReachesController ==
  \A h \in Handlers :
    step[h] = "flags" /\ result[h].state = "ESTOP" /\ outputs.state # "ESTOP"
      ~> step[h] = "emergency"
=============================================================================
