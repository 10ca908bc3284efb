------------------------------ MODULE AgentSpawn -------------------------------
(***************************************************************************)
(* How a controller agent is started.  Launchers, the test sessions        *)
(* (conftest.py) and the launcher of the back end (run_real_backend.py),   *)
(* try the candidate ports in order: spawn an agent process, wait until    *)
(* somebody answers on the port, kill the process and go on if nobody      *)
(* does.  The agent (controller_agent/src/main.cpp) says which port it     *)
(* will use before it binds it, and does not look whether that worked.     *)
(* A launcher that is killed, or that does not see its agent end, leaves   *)
(* it behind: such an orphan is the agent of a lapse, and of nobody else.  *)
(***************************************************************************)
EXTENDS Naturals

CONSTANTS
  Sessions,   \* test sessions
  BackEnds,   \* runs of run_real_backend.py
  Ports,      \* number of candidate ports; they are tried in the order of their numbers
  Attempts,   \* MAX_SPAWN_ATTEMPTS of a session
  Platform,   \* owner of the agent that start_platform.ps1 leaves running
  Taken       \* the ports on which such an agent listens

ASSUME AttemptsAssumption == Attempts \in 1..Ports
ASSUME PlatformAssumption == Platform \notin Sessions \cup BackEnds \cup Nat
ASSUME NamesAssumption == \A l \in Sessions \cup BackEnds : l \notin Nat

VARIABLES
  lapses,   \* times an agent was left to itself
  agents,   \* the agent processes: by whom, on which port, listening or not yet
  phase,    \* launcher -> how far it is
  attempt,  \* launcher -> number of the attempt
  server    \* launcher -> whose agent answered it

spawnVars == <<lapses, agents, phase, attempt, server>>

Launchers == Sessions \cup BackEnds

SpawnInit ==
  /\ lapses = 0
  /\ agents = [by : {Platform}, port : Taken, listens : {TRUE}]
  /\ phase = [l \in Launchers |-> "idle"] /\ attempt = [l \in Launchers |-> 1]
  /\ server = [l \in Launchers |-> Platform]

Port(l) == attempt[l]
Listening(p) == {a \in agents : a.port = p /\ a.listens}
Own(l) == {a \in agents : a.by = l}
Without(l) == agents \ Own(l)

\* Nobody ends the agent of l, which goes on by itself.
LeaveBehind(l) ==
  /\ lapses' = lapses + 1
  /\ agents' = Without(l) \cup {[a EXCEPT !.by = lapses + 1] : a \in Own(l)}

\* spawn_agent; the log of the attempt begins anew.
SpawnAgent(l) ==
  /\ phase[l] = "idle"
  /\ agents' = agents \cup {[by |-> l, port |-> Port(l), listens |-> FALSE]}
  /\ phase' = [phase EXCEPT ![l] = "spawned"]
  /\ UNCHANGED <<lapses, attempt, server>>

\* There is no executable: nothing is tried again.
SpawnImpossible(l) ==
  /\ phase[l] = "idle"
  /\ phase' = [phase EXCEPT ![l] = "failed"]
  /\ UNCHANGED <<lapses, agents, attempt, server>>

\* BuildAndStart.  A taken port may be shared, as gRPC does where the system has
\* SO_REUSEPORT; otherwise there is no server, and the process dies of waiting for it.
\* Before that it dies on a profile or a library that it cannot load.
AgentStarts(a) ==
  /\ ~a.listens
  /\ \/ agents' = agents \ {a}
     \/ agents' = (agents \ {a}) \cup {[by |-> a.by, port |-> a.port, listens |-> TRUE]}
  /\ UNCHANGED <<lapses, phase, attempt, server>>

\* _parse_agent_port finds the line PORT= in the log.
Reported(l) ==
  /\ phase[l] = "spawned" /\ l \in Sessions
  /\ phase' = [phase EXCEPT ![l] = "reported"]
  /\ UNCHANGED <<lapses, agents, attempt, server>>

\* The last port is not tried by a session, whose attempts are fewer than the ports.
LastAttempt(l) == IF l \in Sessions THEN Attempts ELSE Ports

NextAttempt(l) ==
  IF attempt[l] < LastAttempt(l)
    THEN attempt' = [attempt EXCEPT ![l] = @ + 1] /\ phase' = [phase EXCEPT ![l] = "idle"]
    ELSE phase' = [phase EXCEPT ![l] = "failed"] /\ UNCHANGED attempt

\* Fault variant: the process of the attempt that failed is forgotten.
GiveUpForgets(l) == NextAttempt(l) /\ UNCHANGED <<lapses, agents, server>>

\* Fault variant: the same port is tried again.
GiveUpSamePort(l) ==
  /\ agents' = Without(l)
  /\ phase' = [phase EXCEPT ![l] = "idle"]
  /\ UNCHANGED <<lapses, attempt, server>>

\* Kill the process, if it still runs, and go on to the next port if there is one.
GiveUp(l) == agents' = Without(l) /\ NextAttempt(l) /\ UNCHANGED <<lapses, server>>

\* No line in the log for five seconds: the agent is slow or has died without one.
Unreported(l) == phase[l] = "spawned" /\ l \in Sessions /\ GiveUp(l)

Waiting(l) == phase[l] = IF l \in Sessions THEN "reported" ELSE "spawned"

\* wait_ready: whoever listens on the port answers get_state.
Ready(l) ==
  /\ Waiting(l)
  /\ \E a \in Listening(Port(l)) : server' = [server EXCEPT ![l] = a.by]
  /\ phase' = [phase EXCEPT ![l] = "up"]
  /\ UNCHANGED <<lapses, agents, attempt>>

\* Nobody has for fifteen seconds.
Unready(l) == Waiting(l) /\ Listening(Port(l)) = {} /\ GiveUp(l)

Removed(l) == agents' = Without(l) /\ UNCHANGED lapses

\* The end of the fixture or of the back end: terminate the own process.  The fixture
\* kills one that does not end in time; the back end swallows that it did not.
StopAgent(l) ==
  /\ phase[l] = "up"
  /\ Removed(l) \/ (l \in BackEnds /\ LeaveBehind(l))
  /\ phase' = [phase EXCEPT ![l] = "over"]
  /\ UNCHANGED <<attempt, server>>

\* The launcher itself is killed.  On Windows the console kills a session with its whole
\* tree of processes (_terminate_proc); elsewhere the agent survives its launcher.
Killed(l) ==
  /\ (l \in Sessions /\ Removed(l)) \/ LeaveBehind(l)
  /\ phase' = [phase EXCEPT ![l] = "over"]
  /\ UNCHANGED <<attempt, server>>

Launch(l) ==
  \/ SpawnAgent(l) \/ SpawnImpossible(l) \/ Reported(l) \/ Unreported(l)
  \/ Ready(l) \/ Unready(l) \/ StopAgent(l)

SpawnTypeOK ==
  /\ lapses \in Nat
  /\ agents \subseteq [by : Launchers \cup {Platform} \cup 1..lapses, port : 1..Ports, listens : BOOLEAN]
  /\ phase \in [Launchers -> {"idle", "spawned", "reported", "up", "failed", "over"}]
  /\ attempt \in [Launchers -> 1..Ports]
  /\ server \in [Launchers -> Launchers \cup {Platform} \cup 1..lapses]

\* main.cpp:543, of a port that cannot be bound: "the client cannot connect, which is
\* absorbed by the retries of conftest".  Who is ready talks to his own agent.
ServedByOwnAgent == \A l \in Launchers : phase[l] = "up" => server[l] = l
=============================================================================
