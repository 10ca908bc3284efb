----------------------------- MODULE StopHistory -----------------------------
(***************************************************************************)
(* ControllerAgent with the history a client of Stop reasons about: which  *)
(* motions were asked to end while they ran, and how.  The history         *)
(* variables only record; the controller takes exactly its own steps.      *)
(***************************************************************************)
EXTENDS ControllerAgent

VARIABLES
  asked,     \* motions that a Stop or an abort_current command hit
  estopped,  \* motions that an emergency stop hit
  wasReset   \* motions in progress when a Reset took effect

history == <<asked, estopped, wasReset>>

InitHistory == Init /\ asked = {} /\ estopped = {} /\ wasReset = {}

\* The motion in progress, if there is one.
Current == IF busy THEN {current_motion_id} ELSE {}

Asking == Stop \/ \E t \in Threads : MoveAbsolute(t) /\ pc'[t] = "aborting"
NotAsking ==
  \/ Enable \/ Disable
  \/ \E t \in Threads : MoveAbsolute(t) /\ pc'[t] # "aborting"
  \/ \E t \in Threads : Home(t) \/ MoveRelative(t) \/ Resume(t) \/ SpuriousWakeup(t)
  \/ ControlCycle

RecordAsked == asked' = asked \cup Current /\ UNCHANGED <<estopped, wasReset>>
RecordEmergency == estopped' = estopped \cup Current /\ UNCHANGED <<asked, wasReset>>
RecordReset == wasReset' = wasReset \cup Current /\ UNCHANGED <<asked, estopped>>

NextHistory ==
  \/ Asking /\ RecordAsked
  \/ EmergencyStop /\ RecordEmergency
  \/ Reset /\ RecordReset
  \/ NotAsking /\ UNCHANGED history

SpecHistory == InitHistory /\ [][NextHistory]_<<vars, history>>

-----------------------------------------------------------------------------
(* Properties. *)

\* Once a Stop, an abort or an emergency stop has hit a motion, no later control
\* cycle moves the arm for it, unless a Reset took the request back first.
StoppedMotionStays ==
  [][position' # position
       => current_motion_id \notin (asked \cup estopped) \ wasReset]_<<vars, history>>

\* Such a motion is not reported DONE either.
StoppedIsNotDone ==
  \A id \in DOMAIN outcomes :
    outcomes[id].ok => id \notin (asked \cup estopped) \ wasReset

\* A motion is reported ABORTED only if a Stop or an abort hit it while it ran: one
\* accepted earlier, for no motion or for another one, has no effect on it.
AbortedOnlyWhenAsked ==
  \A id \in DOMAIN outcomes : outcomes[id].error_code = "ABORTED" => id \in asked

\* docs/p2-design.md:156, emergency stop: "stop at once + FAULT + brake".  A motion
\* hit by an emergency stop never moves the arm again.
EmergencyStopIsFinal ==
  [][position' # position => current_motion_id \notin estopped]_<<vars, history>>
\* controller.proto:46, abort_current: "abort the current motion and issue the new
\* command".  While such a command waits the arm does not move on, Reset aside.
AbortPreempts ==
  [][position' # position
       => (\A t \in Threads : pc[t] # "aborting") \/ current_motion_id \in wasReset
     ]_<<vars, history>>
=============================================================================
