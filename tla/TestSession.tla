----------------------------- MODULE TestSession -----------------------------
(***************************************************************************)
(* The live curve together with the process that feeds it: a test session, *)
(* or the back end of the teach pendants, first starts a controller agent, *)
(* then moves it and writes what it sampled, and stops the agent before it *)
(* ends, unless it is killed.  An agent that was left behind may have its  *)
(* port.                                                                   *)
(***************************************************************************)
EXTENDS LiveStream, AgentSpawn, FiniteSets

CONSTANTS Session, BackEnd

ASSUME LaunchersAssumption == Session \in Sessions /\ BackEnd \in BackEnds

sessionVars == <<vars, spawnVars>>

SessionInit == Init /\ SpawnInit

Feeder == IF writer = "run" THEN Session ELSE BackEnd

\* The tests, or the sampler, have closed the file when the agent is stopped.
Starting ==
  /\ source # "ended"
  /\ Launch(Feeder) /\ (phase[Feeder] = "up" => buffer = <<>>)
  /\ UNCHANGED vars

Sampling == phase[Feeder] = "up" /\ WriteSegment /\ UNCHANGED spawnVars

\* The fixture of the agent is the later one, so it is torn down first; where it
\* failed, the tests have failed with it and nothing was sampled.
SessionEnds ==
  /\ phase[Feeder] \in {"failed", "over"}
  /\ Archive /\ UNCHANGED spawnVars

\* The console kills a session that stalls or is cancelled, wherever it is; the back end
\* may be killed like any process.  A segment that it had not written does not count.
SessionKilled ==
  /\ Killed(Feeder)
  /\ IF writer = "run"
       THEN Cut
       ELSE phase[Feeder] \notin {"failed", "over"} /\ buffer = <<>> /\ UNCHANGED vars

\* Another session is another process, which starts an agent of its own; the back end
\* stays the same.
Again ==
  /\ Activate
  /\ IF writer = "run"
       THEN /\ phase' = [phase EXCEPT ![Feeder] = "idle"]
            /\ attempt' = [attempt EXCEPT ![Feeder] = 1]
       ELSE UNCHANGED <<phase, attempt>>
  /\ UNCHANGED <<lapses, agents, server>>

SessionNext ==
  \/ Starting \/ Sampling \/ SessionEnds \/ SessionKilled \/ Again
  \/ (FlushRun \/ FlushManual \/ Deactivate \/ Reader) /\ UNCHANGED spawnVars
  \/ \E a \in agents : AgentStarts(a) /\ UNCHANGED vars

\* The generator is iterated as long as the client stays connected; every wait of a
\* launcher has a time limit, and the tests of a session end.
FairSession ==
  /\ SessionInit /\ [][SessionNext]_sessionVars
  /\ WF_sessionVars(Reader /\ UNCHANGED spawnVars)
  /\ WF_sessionVars(Starting) /\ WF_sessionVars(SessionEnds)
  /\ WF_sessionVars(FlushRun /\ UNCHANGED spawnVars)

-----------------------------------------------------------------------------
(* Properties. *)

\* However starting one went, a launcher has one agent at a time, none once it has failed
\* or ended, and none of its own when the console lets the next session start, whether
\* the session took its fixtures down or was killed.  Every other agent is the one that
\* was left behind when a launcher was killed or the back end did not see it end.
NoAgentLeaks ==
  /\ \A a \in agents : a.by \in Launchers \cup {Platform} \cup 1..lapses
  /\ \A l \in Launchers \cup 1..lapses : Cardinality(Own(l)) <= 1
  /\ phase[Feeder] \in {"failed", "over"} => Own(Feeder) = {}
  /\ writer = "run" /\ source # "writing" => Own(Feeder) = {}

\* Whatever occupies the ports, orphans too, a session ends and its stream can end.
SessionGoesOut == writer = "run" /\ source = "writing" ~> source # "writing"

\* console.py:192: "on Windows the whole tree of processes must be killed (pytest starts a
\* controller agent)".  No agent outlives the session or the back end that started it.
NoOrphans == \A a \in agents : a.by \notin Nat
=============================================================================
