------------------------- MODULE MCControllerAgent -------------------------
(* Instances of ControllerAgent for TLC. *)
EXTENDS ControllerAgent, TLC

\* Targets within the limits -1..1 and one beyond them.
MCTargets == {0, 1, 2}
MCDeltas == {-1, 1}
MCMinPos == -1

Symmetric == Permutations(Threads)
=============================================================================
