--------------------------- MODULE MCTeachPendant ---------------------------
(* Instances of TeachPendant for TLC. *)
EXTENDS TeachPendant, TLC

MCDeltas == {-1, 1}
MCMinPos == -1

Symmetric == Permutations(Threads)
=============================================================================
