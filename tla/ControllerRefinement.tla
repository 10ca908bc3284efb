------------------------- MODULE ControllerRefinement -------------------------
(* ControllerAgent implements MotionService. *)
EXTENDS ControllerAgent

Running == {my_id[t] : t \in {u \in Threads : pc[u] = "running"}}

Service == INSTANCE MotionService WITH
  Low <- MinPos, High <- MaxPos, Nowhere <- Unordered,
  issued <- next_motion_id - 1,
  active <- IF busy THEN current_motion_id ELSE 0,
  unanswered <- Running \cap Finished,
  where <- position

\* Every step of the controller is a step of the motion service or changes nothing
\* a client of it can see, and an ended motion is eventually answered.
ImplementsService == Service!ServiceSpec
=============================================================================
