----------------------------- MODULE SafetyLink ------------------------------
(***************************************************************************)
(* The process controller_agent as far as safety goes: the interlock       *)
(* handlers and the controller they stop.  The handler's call of           *)
(* agent_.stop is the controller's Stop or EmergencyStop in the same step; *)
(* there is no other link between the two, in either direction.            *)
(***************************************************************************)
EXTENDS StopHistory

CONSTANT Handlers

VARIABLES inputs, outputs, prev_stop_required, step, result

Interlock == INSTANCE SafetyInterlock
safetyVars == <<inputs, outputs, prev_stop_required, step, result>>
controllerVars == <<vars, history>>
allVars == <<controllerVars, safetyVars>>

LinkInit == InitHistory /\ Interlock!SafetyInit

\* Fault variant: only the emergency stop is passed on, the guard stop is lost.
LinkEmergencyOnly(h) ==
  \/ Interlock!CallEmergencyStop(h) /\ EmergencyStop /\ RecordEmergency
  \/ Interlock!CallStop(h) /\ UNCHANGED controllerVars

LinkStop(h) ==
  \/ Interlock!CallEmergencyStop(h) /\ EmergencyStop /\ RecordEmergency
  \/ Interlock!CallStop(h) /\ Stop /\ RecordAsked

SetSafetyInput(h) ==
  \/ Interlock!InterlockStep(h) /\ UNCHANGED controllerVars
  \/ LinkStop(h)

LinkNext ==
  \/ NextHistory /\ UNCHANGED safetyVars
  \/ \E h \in Handlers : SetSafetyInput(h)

\* The control loop keeps its period, and a call of SetSafetyInput, once accepted,
\* runs to its end; nothing makes a client send the next one.
LinkSpec ==
  /\ LinkInit /\ [][LinkNext]_allVars
  /\ WF_allVars(ControlCycle /\ UNCHANGED <<history, safetyVars>>)
  /\ \A h \in Handlers : WF_allVars(step[h] # "idle" /\ SetSafetyInput(h))

-----------------------------------------------------------------------------
(* Properties. *)

\* What the interlock promises of itself holds beside the controller too.
SafetyTypeOK == Interlock!SafetyTypeOK
EstopWins == Interlock!EstopWins
\* A call has computed state s and is about to store it.
Trips(h, s) == step[h] = "flags" /\ result[h].state = s
TripsFromSafe(h, s, id) ==
  Trips(h, s) /\ outputs.state = "SAFE" /\ busy /\ current_motion_id = id

\* Opening the guard door, or pressing the emergency stop, while the interlock is
\* SAFE ends the motion in progress, even one that would never end by itself,
\* unless a Reset takes the stop request back.
TripStopsMotion ==
  \A h \in Handlers, s \in {"ESTOP", "GUARDED"}, id \in 1..MaxId :
    TripsFromSafe(h, s, id) ~> id \in Finished \cup wasReset

\* safety_state_machine.hpp:4-6: ESTOP, GUARDED and FAULT mean "enabling forbidden".
\* The controller is not enabled while the interlock forbids it.
InterlockHoldsEnable ==
  [][ctrl_state # "ENABLED" /\ ctrl_state' = "ENABLED" => outputs.allow_enable]_allVars

\* safety_state_machine.hpp:6, drive fault: "enabling forbidden + stop + brake".  It
\* ends the motion in progress.
DriveFaultStopsMotion ==
  \A h \in Handlers, id \in 1..MaxId :
    TripsFromSafe(h, "FAULT", id) ~> id \in Finished \cup wasReset
=============================================================================
