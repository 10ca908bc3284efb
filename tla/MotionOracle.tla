----------------------------- MODULE MotionOracle -----------------------------
(***************************************************************************)
(* The state oracle of the tests (oracle/state_machine.py) and what it     *)
(* judges: the motion states in the samples of a motion, as the recorder   *)
(* of the controller keeps them for the caller.  The oracle removes        *)
(* repeated states first (dict.fromkeys), so the states a motion has       *)
(* passed through, in the order of their first samples, are all it sees.   *)
(***************************************************************************)
EXTENDS StopHistory, SequencesExt

VARIABLE seen   \* map: motion -> the distinct states of its samples, in order

\* A motion that has just started has no sample, one that was collected is gone.
Sampled ==
  [id \in DOMAIN last_sample' |->
     LET old == IF id \in DOMAIN seen THEN seen[id] ELSE <<>>
         new == last_sample'[id]
     IN  IF new \in Range(old) \cup {"none"} THEN old ELSE Append(old, new)]

JudgedInit == InitHistory /\ seen = <<>>
JudgedNext == NextHistory /\ seen' = Sampled
JudgedSpec == JudgedInit /\ [][JudgedNext]_<<vars, history, seen>>

-----------------------------------------------------------------------------
(* The verdicts on a sequence of distinct states. *)

EndsWith(states, final) == states # <<>> /\ Last(states) = final

CheckMoveSequence(states) ==
  /\ EndsWith(states, "DONE") /\ "ERROR" \notin Range(states)
  /\ \A i, j \in DOMAIN states : states[i] = "ACTIVE" /\ states[j] = "DONE" => i < j

CheckAbortedSequence(states) ==
  EndsWith(states, "ABORTED") /\ Range(states) \cap {"BUSY", "ACTIVE"} # {}

CheckErrorSequence(states) == EndsWith(states, "ERROR")

-----------------------------------------------------------------------------
(* Properties. *)

\* The oracle and the controller judge a motion alike, the one by the trajectory and the
\* other by the outcome it files, whatever other motions, stops and recoveries there are
\* before the caller collects the two.  (A motion that is aborted before its first
\* sample of it moving is the exception: see AbortsPass.)
VerdictIsOutcome ==
  \A id \in DOMAIN outcomes :
    /\ CheckMoveSequence(seen[id]) <=> outcomes[id].ok
    /\ CheckErrorSequence(seen[id]) <=> outcomes[id].error_code = "EMERGENCY_STOP"
    /\ CheckAbortedSequence(seen[id])
         <=> outcomes[id].error_code = "ABORTED" /\ Len(seen[id]) > 1

\* state_machine.py:55, the path of a stop: "ends with ABORTED, and BUSY or ACTIVE was
\* there before".  A stop that meets the motion before its first cycle leaves ABORTED
\* alone, and the oracle fails what the controller did right.
AbortsPass ==
  \A id \in DOMAIN outcomes :
    outcomes[id].error_code = "ABORTED" => CheckAbortedSequence(seen[id])
=============================================================================
