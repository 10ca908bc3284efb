----------------------------- MODULE MCDefects ------------------------------
(* An instance of Defects for TLC: a full run with a failure, the same run all
   green, and a run of the second case only, which gives it the first number. *)
EXTENDS Defects

Result(name, passed) == [name |-> name, passed |-> passed]

MCRuns ==
  {<<Result("a", FALSE), Result("b", TRUE)>>, <<Result("a", TRUE), Result("b", FALSE)>>,
   <<Result("a", TRUE), Result("b", TRUE)>>, <<Result("b", FALSE)>>}
=============================================================================
