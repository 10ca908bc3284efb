---------------------------- MODULE MotionService ----------------------------
(***************************************************************************)
(* What the controller promises its clients about motions, with no thread, *)
(* mutex or request flag in it: at most one motion is in progress, the arm *)
(* moves only for it and never to a position outside the limits, and the   *)
(* client that started it gets one answer, after it has ended.             *)
(***************************************************************************)
EXTENDS Integers

CONSTANTS
  Low, High,   \* the joint limits
  Nowhere      \* what a client may send that compares with no limit

VARIABLES
  issued,      \* number of motions started so far; motion i is the i-th
  active,      \* the motion in progress, 0 for none
  unanswered,  \* motions that have ended and whose client has no answer yet
  where        \* position of the arm

serviceVars == <<issued, active, unanswered, where>>

ServiceInit == issued = 0 /\ active = 0 /\ unanswered = {} /\ where = 0

Begin ==
  /\ active = 0
  /\ issued' = issued + 1 /\ active' = issued + 1
  /\ UNCHANGED <<unanswered, where>>

\* On its way the arm is at a number, whatever it is sent to.
Progress ==
  /\ active # 0
  /\ where' \in Low..High
  /\ UNCHANGED <<issued, active, unanswered>>

\* The last cycle of a motion may still move the arm.
End ==
  /\ active # 0
  /\ where' \in Low..High \cup Nowhere
  /\ unanswered' = unanswered \cup {active} /\ active' = 0
  /\ UNCHANGED issued

Answer(i) ==
  /\ i \in unanswered
  /\ unanswered' = unanswered \ {i}
  /\ UNCHANGED <<issued, active, where>>

ServiceNext == Begin \/ Progress \/ End \/ \E i \in unanswered : Answer(i)

\* An ended motion is answered; that it ends depends on its profile.
ServiceSpec ==
  /\ ServiceInit /\ [][ServiceNext]_serviceVars
  /\ WF_serviceVars(\E i \in unanswered : Answer(i))
=============================================================================
