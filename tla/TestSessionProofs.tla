-------------------------- MODULE TestSessionProofs --------------------------
(* A launcher has one agent at a time and none when it is over, and an agent  *)
(* of nobody comes from a lapse, for any sessions, back ends, ports, attempts *)
(* and agents that have ports already; and the live stream of any number of   *)
(* segments is in order, for any size of the file.                            *)
EXTENDS TestSession, SequenceTheorems, FiniteSetTheorems, TLAPS
-----------------------------------------------------------------------------
(* The agents. *)

Phases == {"idle", "spawned", "reported", "up", "failed", "over"}
\* Where a launcher has no agent.
AgentlessPhases == {"idle", "failed", "over"}

\* An agent belongs to a launcher, the platform, or a lapse.
EveryAgentOwned ==
  \A a \in agents :
    /\ a.by \in Launchers \cup {Platform} \cup 1..lapses
    /\ a = [by |-> a.by, port |-> a.port, listens |-> a.listens]

OneAtATime ==
  /\ \A l \in Launchers \cup 1..lapses : \A a, b \in Own(l) : a = b
  /\ \A l \in Launchers : phase[l] \in AgentlessPhases => Own(l) = {}

SpawnInv ==
  /\ lapses \in Nat /\ phase \in [Launchers -> Phases]
  /\ EveryAgentOwned /\ OneAtATime

\* A session that has ended, or was killed, starts nothing until it is another.
GaveUp == writer = "run" /\ source # "writing" => phase[Session] \in {"failed", "over"}

LeakInv == SpawnInv /\ GaveUp /\ writer \in {"run", "manual"}

LEMMA FeederIsLauncher == Feeder \in Launchers
BY LaunchersAssumption DEF Feeder, Launchers

LEMMA LauncherIsNoNumber == ASSUME NEW l \in Launchers PROVE l \notin Nat
BY NamesAssumption DEF Launchers

\* Agents of l and of the others when those of l are left to themselves.
LEMMA LeftBehind ==
  ASSUME SpawnInv, NEW l \in Launchers, LeaveBehind(l)
  PROVE  /\ lapses' \in Nat /\ lapses' = lapses + 1
         /\ EveryAgentOwned'
         /\ Own(l)' = {}
         /\ \A k \in (Launchers \ {l}) \cup 1..lapses : Own(k)' = Own(k)
         /\ \A k : k = lapses + 1 => \A a, b \in Own(k)' : a = b
<1>0. PICK n : n = lapses + 1
  OBVIOUS
<1>. DEFINE left == {[by |-> n, port |-> a.port, listens |-> a.listens] : a \in Own(l)}
<1>1. lapses \in Nat /\ lapses' = n /\ n \in Nat /\ n \notin 1..lapses /\ n # 0
  BY <1>0 DEF SpawnInv, LeaveBehind
<1>2. \A a \in Own(l) : a \in agents /\ a = [by |-> a.by, port |-> a.port, listens |-> a.listens]
  BY DEF SpawnInv, EveryAgentOwned, Own
<1>3. agents' = Without(l) \cup left
  <2>. DEFINE f(a) == [a EXCEPT !.by = n]
              g(a) == [by |-> n, port |-> a.port, listens |-> a.listens]
  <2>1. \A a \in Own(l) : f(a) = g(a)
    BY <1>2
  <2>2. {f(a) : a \in Own(l)} = {g(a) : a \in Own(l)}
    <3>. HIDE DEF f, g
    <3>. QED  BY <2>1
  <2>. QED  BY <1>0, <2>2 DEF LeaveBehind
<1>4. \A x \in left :
        x.by = n /\ x = [by |-> x.by, port |-> x.port, listens |-> x.listens]
  OBVIOUS
<1>5. \A a, b \in left : a = b
  <2>1. \A a, b \in Own(l) : a = b
    BY DEF SpawnInv, OneAtATime
  <2>. QED  BY <2>1
<1>. HIDE DEF left
<1>6. l # n /\ Platform # n /\ (\A k \in Launchers : k # n) /\ \A k \in 1..lapses : k # n
  <2>1. \A k \in Launchers : k # n
    BY <1>1, LauncherIsNoNumber
  <2>2. Platform # n
    BY <1>1, PlatformAssumption
  <2>. QED  BY <1>1, <2>1, <2>2
<1>7. \A a \in agents : a.by # n
  BY <1>1, <1>6 DEF SpawnInv, EveryAgentOwned
<1>8. Own(l)' = {}
  BY <1>3, <1>4, <1>6 DEF Own, Without
<1>9. ASSUME NEW k \in (Launchers \ {l}) \cup 1..lapses PROVE Own(k)' = Own(k)
  <2>1. k # n
    BY <1>6
  <2>2. k # l
    <3>1. CASE k \in 1..lapses
      <4>1. k \in Nat
        BY <1>1, <3>1
      <4>. QED  BY <4>1, LauncherIsNoNumber
    <3>. QED  BY <3>1
  <2>. QED  BY <1>3, <1>4, <2>1, <2>2 DEF Own, Without
<1>10. \A a, b \in Own(n)' : a = b
  <2>1. Own(n)' \subseteq left
    BY <1>3, <1>7 DEF Own, Without
  <2>. QED  BY <1>5, <2>1
<1>11. EveryAgentOwned'
  <2>1. 1..lapses \subseteq 1..n /\ n \in 1..n
    BY <1>0, <1>1
  <2>. SUFFICES ASSUME NEW a \in agents'
                PROVE  /\ a.by \in Launchers \cup {Platform} \cup 1..n
                       /\ a = [by |-> a.by, port |-> a.port, listens |-> a.listens]
    BY <1>1 DEF EveryAgentOwned, Launchers
  <2>2. CASE a \in left
    BY <1>4, <2>1, <2>2
  <2>3. CASE a \in agents
    <3>1. /\ a.by \in Launchers \cup {Platform} \cup 1..lapses
          /\ a = [by |-> a.by, port |-> a.port, listens |-> a.listens]
      BY <2>3 DEF SpawnInv, EveryAgentOwned
    <3>. QED  BY <2>1, <3>1
  <2>. QED  BY <1>3, <2>2, <2>3 DEF Without
<1>. QED  BY <1>0, <1>1, <1>8, <1>9, <1>10, <1>11

\* A launcher whose agents become fewer, or who gets its first one, or who loses it.
LEMMA LauncherKeeps ==
  ASSUME SpawnInv, NEW l \in Launchers,
         NEW q \in Phases, phase' = [phase EXCEPT ![l] = q],
         \/ /\ agents' = agents /\ lapses' = lapses
            /\ q \in AgentlessPhases => phase[l] \in AgentlessPhases
         \/ Removed(l)
         \/ /\ agents' = agents \cup {[by |-> l, port |-> Port(l), listens |-> FALSE]}
            /\ lapses' = lapses /\ phase[l] = "idle" /\ q \notin AgentlessPhases
         \/ LeaveBehind(l)
  PROVE  SpawnInv'
<1>1. phase' \in [Launchers -> Phases] /\ phase'[l] = q
      /\ \A k \in Launchers \ {l} : phase'[k] = phase[k]
  BY DEF SpawnInv
<1>2. CASE LeaveBehind(l)
  <2>1. /\ lapses' \in Nat /\ lapses' = lapses + 1 /\ EveryAgentOwned' /\ Own(l)' = {}
        /\ \A k \in (Launchers \ {l}) \cup 1..lapses : Own(k)' = Own(k)
        /\ \A k : k = lapses + 1 => \A a, b \in Own(k)' : a = b
    BY <1>2, LeftBehind
  <2>2. 1..lapses' \subseteq (1..lapses) \cup {lapses + 1}
    BY <2>1 DEF SpawnInv
  <2>3. ASSUME NEW k \in Launchers \cup 1..lapses' PROVE \A a, b \in Own(k)' : a = b
    <3>1. CASE k = lapses + 1
      BY <2>1, <3>1
    <3>2. CASE k = l
      BY <2>1, <3>2
    <3>3. CASE k \in (Launchers \ {l}) \cup 1..lapses
      BY <2>1, <3>3 DEF SpawnInv, OneAtATime
    <3>. QED  BY <2>2, <3>1, <3>2, <3>3
  <2>4. \A k \in Launchers : phase'[k] \in AgentlessPhases => Own(k)' = {}
    BY <1>1, <2>1 DEF SpawnInv, OneAtATime
  <2>5. OneAtATime'
    BY <2>3, <2>4 DEF OneAtATime, Launchers
  <2>. QED  BY <1>1, <2>1, <2>5 DEF SpawnInv, Launchers
<1>3. CASE ~LeaveBehind(l)
  <2>1. lapses' = lapses /\ lapses \in Nat
    BY <1>3 DEF Removed, SpawnInv
  <2>. DEFINE new == [by |-> l, port |-> Port(l), listens |-> FALSE]
  <2>2. new.by = l /\ new = [by |-> new.by, port |-> new.port, listens |-> new.listens]
    OBVIOUS
  <2>3. \A k \in Launchers \cup 1..lapses : k # l => Own(k)' = Own(k)
    BY <1>3, <2>2 DEF Own, Without, Removed
  <2>4. /\ \A a, b \in Own(l)' : a = b
        /\ q \in AgentlessPhases => Own(l)' = {}
    <3>1. CASE agents' = agents /\ (q \in AgentlessPhases => phase[l] \in AgentlessPhases)
      BY <3>1 DEF SpawnInv, OneAtATime, Own
    <3>2. CASE Removed(l)
      BY <3>2 DEF Own, Without, Removed
    <3>3. CASE agents' = agents \cup {new} /\ phase[l] = "idle" /\ q \notin AgentlessPhases
      <4>1. Own(l) = {}
        BY <3>3 DEF SpawnInv, OneAtATime, AgentlessPhases
      <4>. QED  BY <3>3, <4>1 DEF Own
    <3>. QED  BY <1>3, <3>1, <3>2, <3>3
  <2>5. EveryAgentOwned'
    <3>1. agents' \subseteq agents \cup {new}
      BY <1>3 DEF Removed, Without
    <3>. HIDE DEF new
    <3>2. \A a \in agents \cup {new} :
            /\ a.by \in Launchers \cup {Platform} \cup 1..lapses
            /\ a = [by |-> a.by, port |-> a.port, listens |-> a.listens]
      BY <2>2 DEF SpawnInv, EveryAgentOwned
    <3>. QED  BY <2>1, <3>1, <3>2 DEF EveryAgentOwned, Launchers
  <2>6. OneAtATime'
    <3>1. \A k \in Launchers \cup 1..lapses : \A a, b \in Own(k)' : a = b
      BY <2>3, <2>4 DEF SpawnInv, OneAtATime
    <3>2. \A k \in Launchers : phase'[k] \in AgentlessPhases => Own(k)' = {}
      BY <1>1, <2>3, <2>4 DEF SpawnInv, OneAtATime
    <3>. QED  BY <2>1, <3>1, <3>2 DEF OneAtATime, Launchers
  <2>. QED  BY <1>1, <2>1, <2>5, <2>6 DEF SpawnInv, Launchers
<1>. QED  BY <1>2, <1>3

LEMMA LaunchKeeps ==
  ASSUME SpawnInv, NEW l \in Launchers, Launch(l)
  PROVE  SpawnInv'
<1>. USE DEF Phases, AgentlessPhases
<1>0. phase[l] \in Phases
  BY DEF SpawnInv
<1>1. CASE SpawnAgent(l)
  BY <1>1, LauncherKeeps DEF SpawnAgent
<1>2. CASE SpawnImpossible(l)
  BY <1>2, LauncherKeeps DEF SpawnImpossible
<1>3. CASE Reported(l)
  BY <1>3, LauncherKeeps DEF Reported
<1>4. CASE GiveUp(l)
  <2>1. Removed(l) /\ \E q \in {"idle", "failed"} : phase' = [phase EXCEPT ![l] = q]
    BY <1>4 DEF GiveUp, NextAttempt, Removed
  <2>. QED  BY <2>1, LauncherKeeps
<1>5. CASE Ready(l)
  BY <1>5, LauncherKeeps DEF Ready, Waiting
<1>6. CASE StopAgent(l)
  BY <1>6, LauncherKeeps DEF StopAgent
<1>. QED
  BY <1>1, <1>2, <1>3, <1>4, <1>5, <1>6 DEF Launch, Unreported, Unready

\* A launcher that is over does nothing.
LEMMA Overs ==
  ASSUME SpawnInv, NEW l \in Launchers, Launch(l)
  PROVE  phase[l] \notin {"failed", "over"}
BY DEF Launch, SpawnAgent, SpawnImpossible, Reported, Unreported, Ready, Unready, Waiting,
       StopAgent

LEMMA KilledKeeps ==
  ASSUME SpawnInv, NEW l \in Launchers, Killed(l)
  PROVE  SpawnInv' /\ phase'[l] = "over"
<1>1. phase' = [phase EXCEPT ![l] = "over"] /\ (Removed(l) \/ LeaveBehind(l))
  BY DEF Killed
<1>2. SpawnInv'
  BY <1>1, LauncherKeeps DEF Phases
<1>. QED  BY <1>1, <1>2 DEF SpawnInv

LEMMA StartsKeeps ==
  ASSUME SpawnInv, NEW a \in agents, AgentStarts(a)
  PROVE  SpawnInv'
<1>. DEFINE b == [by |-> a.by, port |-> a.port, listens |-> TRUE]
<1>1. b.by = a.by /\ b = [by |-> b.by, port |-> b.port, listens |-> b.listens]
  OBVIOUS
<1>. HIDE DEF b
<1>2. agents' \subseteq (agents \ {a}) \cup {b} /\ UNCHANGED <<lapses, phase>>
  BY DEF AgentStarts, b
<1>3. EveryAgentOwned'
  <2>1. \A x \in agents \cup {b} :
          /\ x.by \in Launchers \cup {Platform} \cup 1..lapses
          /\ x = [by |-> x.by, port |-> x.port, listens |-> x.listens]
    BY <1>1 DEF SpawnInv, EveryAgentOwned
  <2>. QED  BY <1>2, <2>1 DEF EveryAgentOwned, Launchers
<1>4. ASSUME NEW l, \A x, y \in Own(l) : x = y
      PROVE  /\ \A x, y \in Own(l)' : x = y
             /\ Own(l) = {} => Own(l)' = {}
  <2>1. CASE a.by = l
    <3>1. Own(l) = {a}
      BY <1>4, <2>1 DEF Own
    <3>. QED  BY <1>2, <3>1 DEF Own
  <2>2. CASE a.by # l
    <3>1. Own(l)' \subseteq Own(l)
      BY <1>1, <1>2, <2>2 DEF Own
    <3>. QED  BY <1>4, <3>1
  <2>. QED  BY <2>1, <2>2
<1>5. OneAtATime'
  BY <1>2, <1>4 DEF SpawnInv, OneAtATime, Launchers
<1>. QED  BY <1>2, <1>3, <1>5 DEF SpawnInv, Launchers

LEMMA SpawnKept ==
  ASSUME SpawnInv, UNCHANGED <<lapses, agents, phase>>
  PROVE  SpawnInv'
BY DEF SpawnInv, EveryAgentOwned, OneAtATime, Own, Launchers

LEMMA AgainKeeps ==
  ASSUME LeakInv, Again
  PROVE  LeakInv'
<1>1. UNCHANGED <<lapses, agents, writer>> /\ source' = "writing"
      /\ (writer = "run" => source = "inactive")
  BY DEF Again, Activate
<1>2. phase' = phase \/ (writer = "run" /\ phase' = [phase EXCEPT ![Session] = "idle"])
  <2>1. CASE writer = "run"
    BY <2>1 DEF Again, Feeder
  <2>2. CASE writer # "run"
    BY <2>2 DEF Again
  <2>. QED  BY <2>1, <2>2
<1>3. CASE phase' = phase
  BY <1>1, <1>3, SpawnKept DEF LeakInv, GaveUp
<1>4. CASE writer = "run" /\ phase' = [phase EXCEPT ![Session] = "idle"]
  <2>1. Session \in Launchers
    BY LaunchersAssumption DEF Launchers
  <2>2. phase[Session] \in AgentlessPhases
    BY <1>1, <1>4 DEF LeakInv, GaveUp, AgentlessPhases
  <2>3. SpawnInv'
    BY <1>1, <1>4, <2>1, <2>2, LauncherKeeps DEF LeakInv, Phases
  <2>. QED  BY <1>1, <2>3 DEF LeakInv, GaveUp
<1>. QED  BY <1>2, <1>3, <1>4

LEMMA StreamKeeps ==
  ASSUME LeakInv, UNCHANGED <<lapses, agents, phase, writer>>,
         writer = "run" /\ source' # "writing" /\ source = "writing"
           => phase[Session] \in {"failed", "over"}
  PROVE  LeakInv'
BY SpawnKept DEF LeakInv, GaveUp

\* A launcher has one agent at a time and none when it is over, and the agents of nobody
\* are no more than the lapses (conftest.py 139-229, run_real_backend.py, console.py
\* 191-223): each attempt that fails kills its own process, and the fixtures are torn
\* down in order.
THEOREM NoLeak == FairSession => []NoAgentLeaks
<1>1. SessionInit => LeakInv
  <2>. SUFFICES ASSUME SessionInit PROVE LeakInv
    OBVIOUS
  <2>1. agents = [by : {Platform}, port : Taken, listens : {TRUE}] /\ lapses = 0
        /\ phase = [l \in Launchers |-> "idle"] /\ source = "writing"
        /\ writer \in {"run", "manual"}
    BY DEF SessionInit, SpawnInit, Init
  <2>2. EveryAgentOwned
    BY <2>1 DEF EveryAgentOwned
  <2>3. \A l \in Launchers \cup 1..lapses : Own(l) = {}
    <3>1. 1..lapses = {}
      BY <2>1
    <3>. QED  BY <2>1, <3>1, PlatformAssumption DEF Own, Launchers
  <2>. QED  BY <2>1, <2>2, <2>3 DEF LeakInv, SpawnInv, OneAtATime, GaveUp, Phases
<1>2. LeakInv /\ [SessionNext]_sessionVars => LeakInv'
  <2>. SUFFICES ASSUME LeakInv, [SessionNext]_sessionVars PROVE LeakInv'
    OBVIOUS
  <2>1. CASE Starting
    <3>1. UNCHANGED <<writer, source>> /\ SpawnInv' /\ Launch(Feeder)
          /\ (writer = "run" => Feeder = Session)
      BY <2>1, FeederIsLauncher, LaunchKeeps DEF Starting, LeakInv, vars, sourceVars, Feeder
    <3>2. GaveUp'
      BY <3>1, FeederIsLauncher, Overs DEF LeakInv, GaveUp
    <3>. QED  BY <3>1, <3>2 DEF LeakInv
  <2>2. CASE Again
    BY <2>2, AgainKeeps
  <2>3. CASE \E a \in agents : AgentStarts(a) /\ UNCHANGED vars
    BY <2>3, StartsKeeps DEF LeakInv, GaveUp, AgentStarts, vars, sourceVars
  <2>4. CASE SessionEnds
    BY <2>4, StreamKeeps DEF SessionEnds, Archive, Feeder, spawnVars
  <2>5. CASE SessionKilled
    <3>1. SpawnInv' /\ phase'[Feeder] = "over" /\ UNCHANGED writer
      BY <2>5, FeederIsLauncher, KilledKeeps
      DEF SessionKilled, LeakInv, Cut, vars, sourceVars
    <3>2. writer = "run" => phase'[Session] = "over"
      BY <3>1 DEF Feeder
    <3>. QED  BY <3>1, <3>2 DEF LeakInv, GaveUp
  <2>6. CASE (Sampling \/ FlushRun \/ FlushManual \/ Reader) /\ UNCHANGED spawnVars
    BY <2>6, StreamKeeps DEF Sampling, WriteSegment, FlushRun, FlushManual, Reader, ReadNew,
                             ReadNothing, ReadFails, Check, sourceVars, spawnVars
  <2>7. CASE Deactivate /\ UNCHANGED spawnVars
    BY <2>7, StreamKeeps DEF Deactivate, spawnVars
  <2>8. CASE UNCHANGED sessionVars
    BY <2>8, StreamKeeps DEF sessionVars, vars, sourceVars, spawnVars
  <2>. QED
    BY <2>1, <2>2, <2>3, <2>4, <2>5, <2>6, <2>7, <2>8 DEF SessionNext, Sampling
<1>3. LeakInv => NoAgentLeaks
  <2>. SUFFICES ASSUME LeakInv PROVE NoAgentLeaks
    OBVIOUS
  <2>1. phase[Feeder] \in AgentlessPhases => Own(Feeder) = {}
    BY FeederIsLauncher DEF LeakInv, SpawnInv, OneAtATime
  <2>2. ASSUME NEW l \in Launchers \cup 1..lapses PROVE Cardinality(Own(l)) <= 1
    <3>1. Own(l) = {} \/ \E a : Own(l) = {a}
      BY DEF LeakInv, SpawnInv, OneAtATime
    <3>2. CASE Own(l) = {}
      BY <3>2, FS_EmptySet
    <3>3. CASE \E a : Own(l) = {a}
      <4>1. PICK a : Own(l) = {a}
        BY <3>3
      <4>2. Cardinality({a}) = 1
        BY FS_Singleton
      <4>. QED  BY <4>1, <4>2
    <3>. QED  BY <3>1, <3>2, <3>3
  <2>3. writer = "run" /\ source # "writing" => Own(Feeder) = {}
    BY <2>1 DEF LeakInv, GaveUp, Feeder, AgentlessPhases
  <2>4. \A a \in agents : a.by \in Launchers \cup {Platform} \cup 1..lapses
    BY DEF LeakInv, SpawnInv, EveryAgentOwned
  <2>. QED  BY <2>1, <2>2, <2>3, <2>4 DEF NoAgentLeaks, AgentlessPhases
<1>. QED  BY <1>1, <1>2, <1>3, PTL DEF FairSession
-----------------------------------------------------------------------------
(* The live stream. *)

Rises(pieces) == \A i, j \in 1..Len(pieces) : i < j => pieces[i] < pieces[j]

\* Through the file and the buffer the pieces rise, whatever was lost between them.
FileThenBuffer ==
  /\ Rises(file) /\ Rises(buffer)
  /\ \A i \in 1..Len(file), j \in 1..Len(buffer) : file[i] < buffer[j]
  /\ \A i \in 1..Len(file) : file[i] <= 2 * begun
  /\ \A i \in 1..Len(buffer) : buffer[i] <= 2 * begun
WriterRests == source # "writing" => buffer = <<>>
\* What has been pushed was written before all that is still to be read.
PushedIsBehind ==
  \A e \in 1..Len(events) :
    /\ events[e].piece <= 2 * begun
    /\ \A i \in 1..Len(file) : pos < i => events[e].piece < file[i]
    /\ \A i \in 1..Len(buffer) : events[e].piece < buffer[i]
PushedInOrder ==
  \A i, j \in 1..Len(events) : i < j => events[i].piece < events[j].piece
\* The oscilloscope writes a line at a time.
EndsWhole(pieces) == pieces = <<>> \/ EndsLine(pieces[Len(pieces)])
LinesWhole ==
  writer = "manual" =>
    /\ EndsWhole(file) /\ EndsWhole(buffer)
    /\ \A i \in 1..Len(events) : events[i].ends <=> EndsLine(events[i].piece)
\* In the first file the position counts what has been pushed, and nothing is missing as
\* long as its writer goes on.
FirstFile ==
  ~renewed =>
    /\ Len(events) = pos /\ \A i \in 1..Len(events) : events[i].piece = i
    /\ \A i \in 1..Len(file) : file[i] = i
    /\ writer = "manual" \/ source = "writing" =>
         /\ Len(file) + Len(buffer) = 2 * begun
         /\ \A i \in 1..Len(buffer) : buffer[i] = Len(file) + i

StreamInv ==
  /\ TypeOK
  /\ FileThenBuffer /\ WriterRests
  /\ PushedIsBehind /\ PushedInOrder /\ LinesWhole /\ FirstFile

LEMMA PartOf ==
  ASSUME NEW S, NEW s \in Seq(S), NEW a \in Nat, NEW e \in Nat, a <= e, e <= Len(s)
  PROVE  /\ SubSeq(s, a + 1, e) \in Seq(S) /\ Len(SubSeq(s, a + 1, e)) = e - a
         /\ \A i \in 1..(e - a) : SubSeq(s, a + 1, e)[i] = s[a + i]
<1>1. Len(s) \in Nat
  BY LenProperties
<1>2. \A i \in (a + 1)..e : s[i] \in S
  <2>1. \A i \in (a + 1)..e : i \in 1..Len(s)
    BY <1>1
  <2>. QED  BY <2>1, ElementOfSeq
<1>. DEFINE p == SubSeq(s, a + 1, e)
<1>3. /\ p \in Seq(S) /\ Len(p) = IF a + 1 <= e THEN e - (a + 1) + 1 ELSE 0
      /\ \A i \in 1..(e - (a + 1) + 1) : p[i] = s[(a + 1) + i - 1]
  <2>1. a + 1 \in Int /\ e \in Int
    OBVIOUS
  <2>. QED  BY <1>2, <2>1, SubSeqProperties
<1>. HIDE DEF p
<1>4. Len(p) = e - a
  BY <1>3
<1>5. ASSUME NEW i \in 1..(e - a) PROVE p[i] = s[a + i]
  <2>1. i \in 1..(e - (a + 1) + 1) /\ (a + 1) + i - 1 = a + i
    OBVIOUS
  <2>. QED  BY <1>3, <2>1
<1>6. p \in Seq(S) /\ Len(p) = e - a /\ \A i \in 1..(e - a) : p[i] = s[a + i]
  BY <1>3, <1>4, <1>5
<1>. QED  BY <1>6 DEF p

LEMMA Counts ==
  ASSUME TypeOK
  PROVE  /\ begun \in Nat /\ 2 * begun \in Nat /\ pos \in Nat
         /\ Len(buffer) \in Nat /\ Len(file) \in Nat /\ Len(events) \in Nat
         /\ \A i \in 1..Len(file) : file[i] \in Nat
         /\ \A i \in 1..Len(buffer) : buffer[i] \in Nat
         /\ \A i \in 1..Len(events) : events[i].piece \in Nat /\ events[i].ends \in BOOLEAN
<1>1. begun \in Nat /\ pos \in Nat /\ buffer \in Seq(Nat) /\ file \in Seq(Nat)
      /\ events \in Seq([piece : Nat, ends : BOOLEAN])
  BY DEF TypeOK
<1>2. Len(buffer) \in Nat /\ Len(file) \in Nat /\ Len(events) \in Nat
  BY <1>1, LenProperties
<1>3. \A i \in 1..Len(file) : file[i] \in Nat
  BY <1>1, ElementOfSeq
<1>4. \A i \in 1..Len(buffer) : buffer[i] \in Nat
  BY <1>1, ElementOfSeq
<1>5. \A i \in 1..Len(events) : events[i] \in [piece : Nat, ends : BOOLEAN]
  BY <1>1, ElementOfSeq
<1>. QED  BY <1>1, <1>2, <1>3, <1>4, <1>5

LEMMA StreamInitial == Init => StreamInv
<1>. SUFFICES ASSUME Init PROVE StreamInv
  OBVIOUS
<1>1. file = <<>> /\ buffer = <<>> /\ events = <<>>
  BY DEF Init
<1>2. /\ begun = 0 /\ pos = 0 /\ Len(file) = 0 /\ Len(buffer) = 0 /\ Len(events) = 0
      /\ 2 * begun = 0
  BY <1>1 DEF Init
<1>3. TypeOK
  <2>1. <<>> \in Seq(Nat) /\ <<>> \in Seq([piece : Nat, ends : BOOLEAN])
    OBVIOUS
  <2>2. file \in Seq(Nat) /\ buffer \in Seq(Nat) /\ events \in Seq([piece : Nat, ends : BOOLEAN])
    BY <1>1, <2>1
  <2>3. /\ writer \in {"run", "manual"} /\ renewed = FALSE /\ source = "writing" /\ starts = 1
        /\ idle = 0 /\ step = "read"
    BY DEF Init
  <2>4. starts \in Nat /\ idle \in 0..2 /\ begun \in Nat /\ pos \in Nat
    BY <1>2, <2>3
  <2>5. renewed \in BOOLEAN
    BY <2>3
  <2>. QED  BY <2>2, <2>3, <2>4, <2>5 DEF TypeOK
<1>. QED
  BY <1>1, <1>2, <1>3 DEF Init, StreamInv, FileThenBuffer, Rises, WriterRests, PushedIsBehind,
     PushedInOrder, LinesWhole, EndsWhole, FirstFile

LEMMA Evens == \A k \in Nat : EndsLine(2 * k)
<1>. SUFFICES ASSUME NEW k \in Nat PROVE (2 * k) % 2 = 0
  BY DEF EndsLine
<1>. QED  OBVIOUS

LEMMA WriteKeeps ==
  ASSUME StreamInv, WriteSegment
  PROVE  StreamInv'
<1>1. /\ begun' = begun + 1 /\ buffer' = buffer \o Line(begun + 1)
      /\ UNCHANGED <<writer, file, source, starts, renewed, pos, idle, step, events>>
      /\ source = "writing"
  BY DEF WriteSegment, readerVars
<1>2. /\ TypeOK /\ FileThenBuffer /\ PushedIsBehind /\ PushedInOrder /\ LinesWhole /\ FirstFile
  BY DEF StreamInv
<1>. DEFINE l == Len(file)
            m == Len(buffer)
<1>3. PICK k : k = 2 * begun
  OBVIOUS
<1>4. begun \in Nat /\ k \in Nat /\ l \in Nat /\ m \in Nat /\ pos \in Nat
      /\ 2 * begun' = k + 2 /\ 2 * (begun + 1) = k + 2 /\ 2 * (begun + 1) - 1 = k + 1
  BY <1>1, <1>2, <1>3, Counts
<1>5. Line(begun + 1) = <<k + 1, k + 2>> /\ EndsLine(k + 2)
  <2>1. begun + 1 \in Nat
    BY <1>4
  <2>2. EndsLine(2 * (begun + 1))
    BY <2>1, Evens
  <2>. QED  BY <1>4, <2>2 DEF Line
<1>6. /\ buffer' \in Seq(Nat) /\ Len(buffer') = m + 2
      /\ \A i \in 1..m : buffer'[i] = buffer[i]
      /\ buffer'[m + 1] = k + 1 /\ buffer'[m + 2] = k + 2
  <2>. DEFINE line == <<k + 1, k + 2>>
  <2>0. buffer' = buffer \o line /\ buffer \in Seq(Nat)
    BY <1>1, <1>2, <1>5 DEF TypeOK
  <2>1. line \in Seq(Nat) /\ Len(line) = 2 /\ line[1] = k + 1 /\ line[2] = k + 2
    BY <1>4
  <2>. HIDE DEF line
  <2>2. /\ buffer' \in Seq(Nat) /\ Len(buffer') = m + Len(line)
        /\ \A i \in 1..(m + Len(line)) :
             buffer'[i] = IF i <= m THEN buffer[i] ELSE line[i - m]
    BY <2>0, <2>1, ConcatProperties
  <2>. HIDE DEF m
  <2>3. \A i \in 1..(m + 2) : buffer'[i] = IF i <= m THEN buffer[i] ELSE line[i - m]
    BY <2>1, <2>2
  <2>4. m + 1 \in 1..(m + 2) /\ m + 2 \in 1..(m + 2) /\ (m + 1) - m = 1 /\ (m + 2) - m = 2
        /\ ~(m + 1 <= m) /\ ~(m + 2 <= m) /\ 1..m \subseteq 1..(m + 2)
    BY <1>4
  <2>5. \A i \in 1..m : i <= m
    BY <1>4
  <2>. QED  BY <2>1, <2>2, <2>3, <2>4, <2>5
<1>. HIDE DEF l, m
<1>7. /\ \A i \in 1..l : file[i] \in Nat /\ file[i] <= k
      /\ \A i \in 1..m : buffer[i] \in Nat /\ buffer[i] <= k
  BY <1>2, <1>3, Counts DEF FileThenBuffer, l, m
<1>8. \A i \in 1..(m + 2) : i \in 1..m \/ i = m + 1 \/ i = m + 2
  BY <1>4
<1>9. \A i \in 1..(m + 2) :
        /\ i \in 1..m => buffer'[i] = buffer[i]
        /\ i \notin 1..m => buffer'[i] \in {k + 1, k + 2}
        /\ buffer'[i] \in Nat /\ buffer'[i] <= k + 2
  BY <1>4, <1>6, <1>7, <1>8
<1>10. FileThenBuffer'
  <2>1. Rises(buffer')
    <3>. SUFFICES ASSUME NEW i \in 1..(m + 2), NEW j \in 1..(m + 2), i < j
                  PROVE  buffer'[i] < buffer'[j]
      BY <1>6 DEF Rises
    <3>1. CASE j \in 1..m
      <4>1. i \in 1..m
        BY <1>4, <3>1
      <4>. QED  BY <1>2, <1>6, <3>1, <4>1 DEF FileThenBuffer, Rises, m
    <3>2. CASE j = m + 1
      <4>1. i \in 1..m
        BY <1>4, <3>2
      <4>. QED  BY <1>4, <1>6, <1>7, <3>2, <4>1
    <3>3. CASE j = m + 2
      <4>1. i \in 1..m \/ i = m + 1
        BY <1>4, <3>3
      <4>. QED  BY <1>4, <1>6, <1>7, <3>3, <4>1
    <3>. QED  BY <1>8, <3>1, <3>2, <3>3
  <2>2. \A i \in 1..l, j \in 1..(m + 2) : file[i] < buffer'[j]
    <3>. SUFFICES ASSUME NEW i \in 1..l, NEW j \in 1..(m + 2) PROVE file[i] < buffer'[j]
      OBVIOUS
    <3>1. CASE j \in 1..m
      BY <1>2, <1>6, <3>1 DEF FileThenBuffer, l, m
    <3>2. CASE j \notin 1..m
      BY <1>4, <1>7, <1>9, <3>2
    <3>. QED  BY <3>1, <3>2
  <2>3. \A i \in 1..l : file[i] <= k + 2
    BY <1>4, <1>7
  <2>. QED
    BY <1>1, <1>2, <1>4, <1>6, <1>9, <2>1, <2>2, <2>3 DEF FileThenBuffer, l
<1>11. PushedIsBehind'
  <2>. SUFFICES ASSUME NEW e \in 1..Len(events)
                PROVE  /\ events[e].piece <= k + 2
                       /\ \A i \in 1..l : pos < i => events[e].piece < file[i]
                       /\ \A i \in 1..(m + 2) : events[e].piece < buffer'[i]
    BY <1>1, <1>4, <1>6 DEF PushedIsBehind, l
  <2>1. /\ events[e].piece \in Nat /\ events[e].piece <= k
        /\ \A i \in 1..l : pos < i => events[e].piece < file[i]
        /\ \A i \in 1..m : events[e].piece < buffer[i]
    BY <1>2, <1>3, Counts DEF PushedIsBehind, l, m
  <2>2. \A i \in 1..(m + 2) : events[e].piece < buffer'[i]
    BY <1>4, <1>9, <2>1
  <2>. QED  BY <1>4, <2>1, <2>2
<1>12. TypeOK'
  BY <1>1, <1>2, <1>4, <1>6 DEF TypeOK
<1>13. LinesWhole'
  BY <1>1, <1>2, <1>5, <1>6 DEF LinesWhole, EndsWhole
<1>14. FirstFile'
  <2>. SUFFICES ASSUME ~renewed
                PROVE  /\ l + (m + 2) = k + 2
                       /\ \A i \in 1..(m + 2) : buffer'[i] = l + i
    BY <1>1, <1>2, <1>4, <1>6 DEF FirstFile, l
  <2>1. l + m = k /\ \A i \in 1..m : buffer[i] = l + i
    BY <1>1, <1>2, <1>3 DEF FirstFile, l, m
  <2>2. ASSUME NEW i \in 1..(m + 2) PROVE buffer'[i] = l + i
    <3>1. CASE i \in 1..m
      BY <1>6, <2>1, <3>1
    <3>2. CASE i = m + 1
      BY <1>4, <1>6, <2>1, <3>2
    <3>3. CASE i = m + 2
      BY <1>4, <1>6, <2>1, <3>3
    <3>. QED  BY <1>8, <3>1, <3>2, <3>3
  <2>. QED  BY <1>4, <2>1, <2>2
<1>15. WriterRests' /\ PushedInOrder'
  BY <1>1, <1>2 DEF WriterRests, PushedInOrder
<1>. QED  BY <1>10, <1>11, <1>12, <1>13, <1>14, <1>15 DEF StreamInv

\* What goes from the buffer to the file keeps the order, wherever the block ends.
LEMMA FlushKeeps ==
  ASSUME StreamInv, NEW n \in 1..Len(buffer),
         file' = file \o SubSeq(buffer, 1, n), buffer' = SubSeq(buffer, n + 1, Len(buffer)),
         writer = "manual" => n = Len(buffer),
         UNCHANGED <<writer, source, starts, begun, renewed, pos, idle, step, events>>
  PROVE  StreamInv'
<1>1. /\ TypeOK /\ FileThenBuffer /\ PushedIsBehind /\ PushedInOrder /\ LinesWhole /\ FirstFile
      /\ WriterRests
  BY DEF StreamInv
<1>. DEFINE l == Len(file)
            m == Len(buffer)
<1>2. l \in Nat /\ m \in Nat /\ n \in Nat /\ n <= m /\ n >= 1 /\ pos \in Nat
      /\ buffer \in Seq(Nat) /\ file \in Seq(Nat) /\ begun \in Nat /\ 2 * begun \in Nat
  BY <1>1, Counts DEF TypeOK
<1>3. /\ SubSeq(buffer, 1, n) \in Seq(Nat) /\ Len(SubSeq(buffer, 1, n)) = n
      /\ \A i \in 1..n : SubSeq(buffer, 1, n)[i] = buffer[i]
  <2>. DEFINE pre == SubSeq(buffer, 0 + 1, n)
  <2>1. /\ pre \in Seq(Nat) /\ Len(pre) = n - 0
        /\ \A i \in 1..(n - 0) : pre[i] = buffer[0 + i]
    BY <1>2, PartOf
  <2>. QED  BY <1>2, <2>1
<1>4. /\ buffer' \in Seq(Nat) /\ Len(buffer') = m - n
      /\ \A i \in 1..(m - n) : buffer'[i] = buffer[n + i]
  <2>. DEFINE post == SubSeq(buffer, n + 1, Len(buffer))
  <2>1. /\ post \in Seq(Nat) /\ Len(post) = Len(buffer) - n
        /\ \A i \in 1..(Len(buffer) - n) : post[i] = buffer[n + i]
    BY <1>2, PartOf
  <2>. QED  BY <2>1
<1>5. /\ file' \in Seq(Nat) /\ Len(file') = l + n
      /\ \A i \in 1..(l + n) :
           file'[i] = IF i <= l THEN file[i] ELSE buffer[i - l]
  <2>. DEFINE pre == SubSeq(buffer, 1, n)
  <2>1. pre \in Seq(Nat) /\ Len(pre) = n /\ \A i \in 1..n : pre[i] = buffer[i]
    BY <1>3
  <2>2. file' = file \o pre
    OBVIOUS
  <2>. HIDE DEF pre
  <2>3. /\ file' \in Seq(Nat) /\ Len(file') = l + Len(pre)
        /\ \A i \in 1..(l + Len(pre)) : file'[i] = IF i <= l THEN file[i] ELSE pre[i - l]
    <3>1. pre \in Seq(Nat) /\ file \in Seq(Nat)
      BY <1>2, <2>1
    <3>2. /\ file \o pre \in Seq(Nat) /\ Len(file \o pre) = Len(file) + Len(pre)
          /\ \A i \in 1..(Len(file) + Len(pre)) :
               (file \o pre)[i] = IF i <= Len(file) THEN file[i] ELSE pre[i - Len(file)]
      BY <3>1, ConcatProperties
    <3>. QED  BY <2>2, <3>2
  <2>. HIDE DEF l
  <2>4. \A i \in 1..(l + n) : ~(i <= l) => i - l \in 1..n
    BY <1>2
  <2>. QED  BY <2>1, <2>3, <2>4
<1>. HIDE DEF l, m
<1>6. \A i \in 1..(l + n) : i \in 1..l \/ (i > l /\ i - l \in 1..m /\ i - l <= n)
  BY <1>2
<1>7. \A i \in 1..(m - n) : n + i \in 1..m
  BY <1>2
<1>8. \A i \in 1..(l + n) :
        /\ i \in 1..l => file'[i] = file[i]
        /\ i > l => file'[i] = buffer[i - l]
  <2>1. \A i \in 1..(l + n) : (i \in 1..l => i <= l) /\ (i > l => ~(i <= l))
    BY <1>2
  <2>. QED  BY <1>5, <2>1
<1>9. FileThenBuffer'
  <2>1. Rises(file')
    <3>. SUFFICES ASSUME NEW i \in 1..(l + n), NEW j \in 1..(l + n), i < j
                  PROVE  file'[i] < file'[j]
      BY <1>5 DEF Rises
    <3>1. CASE j \in 1..l
      <4>1. i \in 1..l
        BY <1>2, <3>1
      <4>. QED  BY <1>1, <1>8, <3>1, <4>1 DEF FileThenBuffer, Rises, l
    <3>2. CASE i \in 1..l /\ j > l
      <4>1. j - l \in 1..m
        BY <1>2, <3>2
      <4>. QED  BY <1>1, <1>8, <3>2, <4>1 DEF FileThenBuffer, l, m
    <3>3. CASE i > l
      <4>1. i - l \in 1..m /\ j - l \in 1..m /\ i - l < j - l /\ j > l
        BY <1>2, <3>3
      <4>2. buffer[i - l] < buffer[j - l]
        BY <1>1, <4>1 DEF FileThenBuffer, Rises, m
      <4>. QED  BY <1>8, <3>3, <4>1, <4>2
    <3>. QED  BY <1>2, <1>6, <3>1, <3>2, <3>3
  <2>2. Rises(buffer')
    <3>. SUFFICES ASSUME NEW i \in 1..(m - n), NEW j \in 1..(m - n), i < j
                  PROVE  buffer'[i] < buffer'[j]
      BY <1>4 DEF Rises
    <3>1. n + i \in 1..m /\ n + j \in 1..m /\ n + i < n + j
      BY <1>2
    <3>2. buffer[n + i] < buffer[n + j]
      BY <1>1, <3>1 DEF FileThenBuffer, Rises, m
    <3>. QED  BY <1>4, <3>2
  <2>3. ASSUME NEW i \in 1..(l + n), NEW j \in 1..(m - n) PROVE file'[i] < buffer'[j]
    <3>1. n + j \in 1..m /\ buffer'[j] = buffer[n + j]
      BY <1>4, <1>7
    <3>2. CASE i \in 1..l
      BY <1>1, <1>8, <3>1, <3>2 DEF FileThenBuffer, l, m
    <3>3. CASE i > l /\ i - l \in 1..m /\ i - l <= n
      <4>1. i - l < n + j
        BY <1>2, <3>3
      <4>2. buffer[i - l] < buffer[n + j]
        BY <1>1, <3>1, <3>3, <4>1 DEF FileThenBuffer, Rises, m
      <4>. QED  BY <1>8, <3>1, <3>3, <4>2
    <3>. QED  BY <1>6, <3>2, <3>3
  <2>4. \A i \in 1..(l + n) : file'[i] <= 2 * begun
    BY <1>1, <1>6, <1>8 DEF FileThenBuffer, l, m
  <2>5. \A i \in 1..(m - n) : buffer'[i] <= 2 * begun
    BY <1>1, <1>4, <1>7 DEF FileThenBuffer, m
  <2>. QED  BY <1>4, <1>5, <2>1, <2>2, <2>3, <2>4, <2>5 DEF FileThenBuffer
<1>10. PushedIsBehind'
  <2>. SUFFICES ASSUME NEW e \in 1..Len(events)
                PROVE  /\ events[e].piece <= 2 * begun
                       /\ \A i \in 1..(l + n) : pos < i => events[e].piece < file'[i]
                       /\ \A i \in 1..(m - n) : events[e].piece < buffer'[i]
    BY <1>4, <1>5 DEF PushedIsBehind
  <2>1. /\ events[e].piece <= 2 * begun
        /\ \A i \in 1..l : pos < i => events[e].piece < file[i]
        /\ \A i \in 1..m : events[e].piece < buffer[i]
    BY <1>1 DEF PushedIsBehind, l, m
  <2>. QED  BY <1>4, <1>6, <1>7, <1>8, <2>1
<1>11. TypeOK'
  BY <1>1, <1>4, <1>5 DEF TypeOK
<1>12. LinesWhole'
  <2>. SUFFICES ASSUME writer = "manual"
                PROVE  EndsWhole(file') /\ EndsWhole(buffer')
    BY <1>1 DEF LinesWhole, EndsWhole
  <2>1. n = m
    BY DEF m
  <2>2. Len(buffer') = 0
    BY <1>2, <1>4, <2>1
  <2>3. buffer' = <<>>
    BY <1>4, <2>2, EmptySeq
  <2>4. EndsLine(buffer[m])
    <3>1. buffer # <<>>
      BY <1>2, <2>1, EmptySeq DEF m
    <3>. QED  BY <1>1, <3>1 DEF LinesWhole, EndsWhole, m
  <2>5. l + n \in 1..(l + n) /\ l + n > l /\ (l + n) - l = n
    BY <1>2
  <2>6. file'[l + n] = buffer[m]
    BY <1>8, <2>1, <2>5
  <2>. QED  BY <1>5, <2>3, <2>4, <2>6 DEF EndsWhole
<1>13. FirstFile'
  <2>1. source = "writing"
    <3>1. buffer # <<>>
      BY <1>2, EmptySeq DEF m
    <3>. QED  BY <1>1, <3>1 DEF WriterRests
  <2>. SUFFICES ASSUME ~renewed
                PROVE  /\ \A i \in 1..(l + n) : file'[i] = i
                       /\ (l + n) + (m - n) = 2 * begun
                       /\ \A i \in 1..(m - n) : buffer'[i] = (l + n) + i
    BY <1>1, <1>4, <1>5 DEF FirstFile
  <2>2. /\ l + m = 2 * begun /\ \A i \in 1..l : file[i] = i
        /\ \A i \in 1..m : buffer[i] = l + i
    BY <1>1, <2>1 DEF FirstFile, l, m
  <2>3. ASSUME NEW i \in 1..(l + n) PROVE file'[i] = i
    <3>1. CASE i \in 1..l
      BY <1>8, <2>2, <3>1
    <3>2. CASE i > l /\ i - l \in 1..m
      <4>1. l + (i - l) = i
        BY <1>2
      <4>. QED  BY <1>8, <2>2, <3>2, <4>1
    <3>. QED  BY <1>6, <3>1, <3>2
  <2>4. (l + n) + (m - n) = l + m
    BY <1>2
  <2>5. \A i \in 1..(m - n) : buffer'[i] = (l + n) + i
    <3>1. \A i \in 1..(m - n) : l + (n + i) = (l + n) + i
      BY <1>2
    <3>. QED  BY <1>4, <1>7, <2>2, <3>1
  <2>. QED  BY <2>2, <2>3, <2>4, <2>5
<1>14. WriterRests' /\ PushedInOrder'
  <2>1. buffer # <<>>
    BY <1>2, EmptySeq DEF m
  <2>. QED  BY <1>1, <2>1 DEF WriterRests, PushedInOrder
<1>. QED  BY <1>9, <1>10, <1>11, <1>12, <1>13, <1>14 DEF StreamInv

LEMMA FlushRunKeeps ==
  ASSUME StreamInv, FlushRun
  PROVE  StreamInv'
<1>1. /\ UNCHANGED <<writer, source, starts, begun, renewed, pos, idle, step, events>>
      /\ writer = "run"
  BY DEF FlushRun, readerVars
<1>2. PICK n \in 1..Len(buffer) :
        /\ file' = file \o SubSeq(buffer, 1, n)
        /\ buffer' = SubSeq(buffer, n + 1, Len(buffer))
  BY DEF FlushRun
<1>. QED  BY <1>1, <1>2, FlushKeeps

LEMMA FlushManualKeeps ==
  ASSUME StreamInv, FlushManual
  PROVE  StreamInv'
<1>1. /\ UNCHANGED <<writer, source, starts, begun, pos, idle, step, events>>
      /\ writer = "manual" /\ buffer' = <<>> /\ renewed' = (renewed \/ TooLarge)
      /\ file' = IF TooLarge THEN buffer ELSE file \o buffer
      /\ buffer # <<>>
  BY DEF FlushManual, readerVars
<1>2. /\ TypeOK /\ FileThenBuffer /\ PushedIsBehind /\ PushedInOrder /\ LinesWhole
      /\ renewed \in BOOLEAN /\ buffer \in Seq(Nat)
  BY DEF StreamInv, TypeOK
<1>3. CASE ~TooLarge
  <2>. DEFINE n == Len(buffer)
  <2>1. n \in Nat /\ n # 0
    BY <1>1, <1>2, Counts, EmptySeq
  <2>2. n \in 1..Len(buffer)
    BY <2>1
  <2>3. SubSeq(buffer, 1, n) = buffer
    BY <1>2, SubSeqFull
  <2>4. SubSeq(buffer, n + 1, Len(buffer)) = <<>>
    <3>1. n + 1 > Len(buffer) /\ n + 1 \in Int /\ Len(buffer) \in Int
      BY <2>1
    <3>. HIDE DEF n
    <3>. QED  BY <1>2, <3>1, SubSeqEmpty
  <2>5. file' = file \o SubSeq(buffer, 1, n) /\ buffer' = SubSeq(buffer, n + 1, Len(buffer))
    BY <1>1, <1>3, <2>3, <2>4
  <2>6. renewed' = renewed
    BY <1>1, <1>2, <1>3
  <2>. HIDE DEF n
  <2>7. n = Len(buffer)
    BY DEF n
  <2>. QED  BY <1>1, <2>2, <2>5, <2>6, <2>7, FlushKeeps
<1>4. CASE TooLarge
  <2>1. file' = buffer /\ renewed' = TRUE /\ Len(buffer') = 0
    BY <1>1, <1>4
  <2>2. TypeOK'
    <3>1. <<>> \in Seq(Nat)
      OBVIOUS
    <3>2. buffer' \in Seq(Nat) /\ file' \in Seq(Nat)
      BY <1>1, <1>2, <2>1, <3>1
    <3>3. renewed' \in BOOLEAN
      BY <2>1
    <3>. QED  BY <1>1, <1>2, <3>2, <3>3 DEF TypeOK
  <2>3. FileThenBuffer' /\ PushedIsBehind'
    BY <1>1, <1>2, <2>1 DEF FileThenBuffer, PushedIsBehind, Rises
  <2>4. LinesWhole' /\ FirstFile' /\ WriterRests' /\ PushedInOrder'
    BY <1>1, <1>2, <2>1 DEF LinesWhole, EndsWhole, FirstFile, WriterRests, PushedInOrder
  <2>. QED  BY <2>2, <2>3, <2>4 DEF StreamInv
<1>. QED  BY <1>3, <1>4

\* The file or the buffer may be lost, the source becomes active or inactive, or the
\* reader finds nothing.
LEMMA LossKeeps ==
  ASSUME StreamInv, TypeOK', WriterRests', UNCHANGED <<writer, begun, pos, events>>,
         file' \in {file, <<>>}, buffer' \in {buffer, <<>>},
         ~renewed' =>
           /\ ~renewed
           /\ writer = "manual" \/ source' = "writing" =>
                file' = file /\ buffer' = buffer /\ (writer = "manual" \/ source = "writing")
  PROVE  StreamInv'
<1>1. /\ FileThenBuffer /\ PushedIsBehind /\ PushedInOrder /\ LinesWhole /\ FirstFile
  BY DEF StreamInv
<1>2. /\ file' = file \/ (file' = <<>> /\ Len(file') = 0)
      /\ buffer' = buffer \/ (buffer' = <<>> /\ Len(buffer') = 0)
  OBVIOUS
<1>3. FileThenBuffer' /\ PushedIsBehind'
  <2>1. CASE file' = file /\ buffer' = buffer
    BY <1>1, <2>1 DEF FileThenBuffer, PushedIsBehind, Rises
  <2>2. CASE file' = file /\ Len(buffer') = 0
    BY <1>1, <2>2 DEF FileThenBuffer, PushedIsBehind, Rises
  <2>3. CASE Len(file') = 0 /\ buffer' = buffer
    BY <1>1, <2>3 DEF FileThenBuffer, PushedIsBehind, Rises
  <2>4. CASE Len(file') = 0 /\ Len(buffer') = 0
    BY <1>1, <2>4 DEF FileThenBuffer, PushedIsBehind, Rises
  <2>. QED  BY <1>2, <2>1, <2>2, <2>3, <2>4
<1>4. LinesWhole' /\ PushedInOrder'
  BY <1>1 DEF LinesWhole, EndsWhole, PushedInOrder
<1>5. FirstFile'
  <2>1. CASE file' = file
    BY <1>1, <2>1 DEF FirstFile
  <2>2. CASE file' # file
    BY <1>1, <1>2, <2>2 DEF FirstFile
  <2>. QED  BY <2>1, <2>2
<1>. QED  BY <1>3, <1>4, <1>5 DEF StreamInv

LEMMA SourceStepKeeps ==
  ASSUME StreamInv, Archive \/ Cut \/ Deactivate \/ Activate
  PROVE  StreamInv'
<1>1. TypeOK /\ WriterRests
  BY DEF StreamInv
<1>2. <<>> \in Seq(Nat)
  OBVIOUS
<1>3. CASE Archive \/ Cut
  <2>1. /\ UNCHANGED <<writer, starts, begun, renewed, pos, idle, step, events>>
        /\ writer = "run" /\ source' = "ended" /\ buffer' = <<>>
        /\ file' \in {file, <<>>}
    BY <1>3 DEF Archive, Cut, MayRemove, readerVars
  <2>2. TypeOK' /\ WriterRests'
    BY <1>1, <1>2, <2>1 DEF TypeOK, WriterRests
  <2>. QED  BY <2>1, <2>2, LossKeeps
<1>4. CASE Deactivate
  <2>1. /\ UNCHANGED <<writer, buffer, starts, begun, renewed, pos, idle, step, events>>
        /\ buffer = <<>> /\ source' = "inactive"
        /\ file' \in {file, <<>>} /\ (writer = "manual" => file' = file)
    BY <1>4 DEF Deactivate, MayRemove, readerVars
  <2>2. TypeOK' /\ WriterRests'
    BY <1>1, <1>2, <2>1 DEF TypeOK, WriterRests
  <2>. QED  BY <2>1, <2>2, LossKeeps
<1>5. CASE Activate
  <2>1. /\ UNCHANGED <<writer, file, buffer, begun, pos, idle, step, events>>
        /\ source' = "writing" /\ starts' = starts + 1
        /\ renewed' = (renewed \/ writer = "run")
        /\ renewed \in BOOLEAN /\ starts \in Nat /\ writer \in {"run", "manual"}
    BY <1>1, <1>5 DEF Activate, readerVars, TypeOK
  <2>0. starts' \in Nat
    BY <2>1
  <2>2. starts' \in Nat /\ renewed' \in BOOLEAN /\ (~renewed' => ~renewed /\ writer = "manual")
    BY <2>0, <2>1, Zenon
  <2>3. TypeOK' /\ WriterRests'
    BY <1>1, <2>1, <2>2 DEF TypeOK, WriterRests
  <2>. QED  BY <2>1, <2>2, <2>3, LossKeeps
<1>. QED  BY <1>3, <1>4, <1>5

LEMMA ReaderStepKeeps ==
  ASSUME StreamInv, ReadNothing \/ ReadFails \/ Check \/ UNCHANGED vars
  PROVE  StreamInv'
<1>1. TypeOK /\ WriterRests
  BY DEF StreamInv
<1>2. /\ UNCHANGED <<writer, file, buffer, begun, pos, events, source, starts, renewed>>
      /\ step' \in {step, "read", "check", "done"} /\ idle' \in {idle} \cup {idle + 1}
      /\ idle' = idle \/ idle < 2
  BY DEF ReadNothing, ReadFails, Check, vars, sourceVars, readerVars
<1>3. idle' \in 0..2
  BY <1>1, <1>2 DEF TypeOK
<1>4. TypeOK' /\ WriterRests'
  BY <1>1, <1>2, <1>3 DEF TypeOK, WriterRests
<1>. QED  BY <1>2, <1>4, LossKeeps

LEMMA FunctionIsSeq ==
  ASSUME NEW S, NEW n \in Nat, NEW f \in [1..n -> S]
  PROVE  f \in Seq(S) /\ Len(f) = n
OBVIOUS

\* The reader takes what is new in the file, and is behind it.
LEMMA ReadKeeps ==
  ASSUME StreamInv, ReadNew
  PROVE  StreamInv'
<1>1. /\ UNCHANGED <<writer, file, buffer, source, starts, begun, renewed, step>>
      /\ New # <<>> /\ pos' = Len(file) /\ idle' = 0 /\ events' = events \o Lines(New)
  BY DEF ReadNew, sourceVars
<1>2. /\ TypeOK /\ FileThenBuffer /\ PushedIsBehind /\ PushedInOrder /\ LinesWhole /\ FirstFile
      /\ WriterRests
      /\ file \in Seq(Nat) /\ events \in Seq([piece : Nat, ends : BOOLEAN])
  BY DEF StreamInv, TypeOK
<1>. DEFINE l == Len(file)
            e == Len(events)
            new == New
            more == Lines(New)
<1>3. l \in Nat /\ e \in Nat /\ pos \in Nat
  BY <1>2, Counts
<1>4. pos < l
  <2>. SUFFICES ASSUME ~(pos < l) PROVE New = <<>>
    BY <1>1
  <2>1. pos + 1 > Len(file) /\ pos + 1 \in Int /\ Len(file) \in Int
    BY <1>3
  <2>2. SubSeq(file, pos + 1, Len(file)) = <<>>
    BY <1>2, <2>1, SubSeqEmpty
  <2>. QED  BY <2>2 DEF New
<1>5. PICK d \in Nat : d = l - pos /\ d # 0
  <2>. HIDE DEF l
  <2>1. l - pos \in Nat /\ l - pos # 0
    BY <1>3, <1>4
  <2>. QED  BY <2>1
<1>6. new \in Seq(Nat) /\ Len(new) = d /\ \A i \in 1..d : new[i] = file[pos + i]
  <2>1. /\ SubSeq(file, pos + 1, l) \in Seq(Nat) /\ Len(SubSeq(file, pos + 1, l)) = l - pos
        /\ \A i \in 1..(l - pos) : SubSeq(file, pos + 1, l)[i] = file[pos + i]
    <3>1. l \in Nat /\ pos \in Nat /\ l <= Len(file) /\ pos <= l
      BY <1>3, <1>4
    <3>. HIDE DEF l
    <3>. QED  BY <1>2, <3>1, PartOf
  <2>2. new = SubSeq(file, pos + 1, l)
    BY DEF New
  <2>. QED  BY <1>5, <2>1, <2>2
<1>7. /\ more \in Seq([piece : Nat, ends : BOOLEAN]) /\ Len(more) = d
      /\ \A i \in 1..d : /\ more[i].piece = file[pos + i]
                         /\ more[i].ends <=> (EndsLine(more[i].piece) \/ i = d)
  <2>. HIDE DEF new
  <2>1. more = [i \in 1..d |-> [piece |-> new[i], ends |-> EndsLine(new[i]) \/ i = d]]
    BY <1>6 DEF Lines, new
  <2>. HIDE DEF more
  <2>2. \A i \in 1..d : new[i] \in Nat
    BY <1>6, ElementOfSeq
  <2>3. \A i \in 1..d : [piece |-> new[i], ends |-> EndsLine(new[i]) \/ i = d]
                          \in [piece : Nat, ends : BOOLEAN]
    BY <2>2 DEF EndsLine
  <2>4. more \in [1..d -> [piece : Nat, ends : BOOLEAN]]
    BY <2>1, <2>3
  <2>5. more \in Seq([piece : Nat, ends : BOOLEAN]) /\ Len(more) = d
    BY <1>5, <2>4, FunctionIsSeq
  <2>6. ASSUME NEW i \in 1..d
        PROVE  /\ more[i].piece = file[pos + i]
               /\ more[i].ends <=> (EndsLine(more[i].piece) \/ i = d)
    <3>1. more[i] = [piece |-> new[i], ends |-> EndsLine(new[i]) \/ i = d]
      BY <2>1
    <3>2. more[i].piece = new[i] /\ more[i].ends = (EndsLine(new[i]) \/ i = d)
      BY <3>1
    <3>3. new[i] = file[pos + i]
      BY <1>6
    <3>. QED  BY <3>2, <3>3
  <2>. QED  BY <2>5, <2>6
<1>8. /\ events' \in Seq([piece : Nat, ends : BOOLEAN]) /\ Len(events') = e + d
      /\ \A i \in 1..(e + d) : events'[i] = IF i <= e THEN events[i] ELSE more[i - e]
  <2>1. events' = events \o more
    BY <1>1
  <2>. HIDE DEF more
  <2>. QED  BY <1>2, <1>7, <2>1, ConcatProperties
<1>. HIDE DEF more, new, l, e
<1>9. \A i \in 1..(e + d) :
        \/ i \in 1..e /\ events'[i] = events[i]
        \/ /\ i > e /\ i - e \in 1..d /\ pos + (i - e) \in 1..l
           /\ events'[i].piece = file[pos + (i - e)]
           /\ events'[i].ends <=> (EndsLine(events'[i].piece) \/ i - e = d)
  <2>. SUFFICES ASSUME NEW i \in 1..(e + d), i \notin 1..e
                PROVE  /\ i > e /\ i - e \in 1..d /\ pos + (i - e) \in 1..l
                       /\ events'[i].piece = file[pos + (i - e)]
                       /\ events'[i].ends <=> (EndsLine(events'[i].piece) \/ i - e = d)
    <3>1. \A i \in 1..e : i <= e
      BY <1>3
    <3>. QED  BY <1>8, <3>1
  <2>1. i > e /\ i - e \in 1..d /\ ~(i <= e)
    BY <1>3
  <2>2. pos + (i - e) \in 1..l
    BY <1>3, <1>5, <2>1
  <2>3. events'[i] = more[i - e]
    BY <1>8, <2>1
  <2>. QED  BY <1>7, <2>1, <2>2, <2>3
<1>10. \A i \in 1..e : /\ events[i].piece <= 2 * begun
                       /\ \A j \in 1..l : pos < j => events[i].piece < file[j]
                       /\ \A j \in 1..Len(buffer) : events[i].piece < buffer[j]
  BY <1>2 DEF PushedIsBehind, e, l
<1>11. PushedIsBehind'
  <2>. SUFFICES ASSUME NEW i \in 1..(e + d)
                PROVE  /\ events'[i].piece <= 2 * begun
                       /\ \A j \in 1..Len(buffer) : events'[i].piece < buffer[j]
    <3>1. \A j \in 1..Len(file) : ~(Len(file) < j)
      BY <1>3 DEF l
    <3>. QED  BY <1>1, <1>8, <3>1 DEF PushedIsBehind
  <2>1. CASE i \in 1..e /\ events'[i] = events[i]
    BY <1>10, <2>1
  <2>2. CASE pos + (i - e) \in 1..l /\ events'[i].piece = file[pos + (i - e)]
    BY <1>2, <2>2 DEF FileThenBuffer, l
  <2>. QED  BY <1>9, <2>1, <2>2
<1>12. PushedInOrder'
  <2>. SUFFICES ASSUME NEW i \in 1..(e + d), NEW j \in 1..(e + d), i < j
                PROVE  events'[i].piece < events'[j].piece
    BY <1>8 DEF PushedInOrder
  <2>1. CASE j \in 1..e
    <3>1. i \in 1..e
      BY <1>3, <2>1
    <3>2. events'[i] = events[i] /\ events'[j] = events[j]
      BY <1>3, <1>9, <2>1, <3>1
    <3>. QED  BY <1>2, <2>1, <3>1, <3>2 DEF e, PushedInOrder
  <2>2. CASE i \in 1..e /\ j > e
    <3>1. events'[i] = events[i]
      BY <1>3, <1>9, <2>2
    <3>2. j - e \in 1..d /\ pos + (j - e) \in 1..l /\ events'[j].piece = file[pos + (j - e)]
      BY <1>3, <1>9, <2>2
    <3>3. pos < pos + (j - e)
      BY <1>3, <3>2
    <3>. QED  BY <1>10, <2>2, <3>1, <3>2, <3>3
  <2>3. CASE i > e
    <3>1. j > e
      BY <1>3, <2>3
    <3>2. /\ pos + (i - e) \in 1..l /\ events'[i].piece = file[pos + (i - e)]
          /\ pos + (j - e) \in 1..l /\ events'[j].piece = file[pos + (j - e)]
      BY <1>3, <1>9, <2>3, <3>1
    <3>3. pos + (i - e) < pos + (j - e)
      BY <1>3
    <3>. QED  BY <1>2, <3>2, <3>3 DEF FileThenBuffer, Rises, l
  <2>. QED  BY <1>3, <2>1, <2>2, <2>3
<1>13. LinesWhole'
  <2>. SUFFICES ASSUME writer = "manual", NEW i \in 1..(e + d)
                PROVE  events'[i].ends <=> EndsLine(events'[i].piece)
    BY <1>1, <1>2, <1>8 DEF LinesWhole
  <2>1. EndsLine(file[l])
    <3>1. file # <<>>
      BY <1>3, <1>4 DEF l
    <3>. QED  BY <1>2, <3>1 DEF LinesWhole, EndsWhole, l
  <2>2. CASE i \in 1..e /\ events'[i] = events[i]
    BY <1>2, <2>2 DEF e, LinesWhole
  <2>3. CASE /\ events'[i].piece = file[pos + (i - e)]
             /\ events'[i].ends <=> (EndsLine(events'[i].piece) \/ i - e = d)
    <3>1. i - e = d => pos + (i - e) = l
      BY <1>3, <1>5
    <3>2. i - e = d => events'[i].piece = file[l]
      BY <2>3, <3>1
    <3>. QED  BY <2>1, <2>3, <3>2
  <2>. QED  BY <1>9, <2>2, <2>3
<1>14. FirstFile'
  <2>. SUFFICES ASSUME ~renewed
                PROVE  e + d = l /\ \A i \in 1..(e + d) : events'[i].piece = i
    BY <1>1, <1>2, <1>8 DEF FirstFile, l
  <2>1. e = pos /\ (\A i \in 1..e : events[i].piece = i) /\ \A i \in 1..l : file[i] = i
    BY <1>2 DEF FirstFile, e, l
  <2>2. e + d = l
    BY <1>3, <1>5, <2>1
  <2>3. \A i \in 1..(e + d) : pos + (i - e) = i
    BY <1>3, <2>1
  <2>. QED  BY <1>9, <2>1, <2>2, <2>3
<1>15. TypeOK' /\ FileThenBuffer' /\ WriterRests'
  <2>1. pos' \in Nat /\ idle' \in 0..2
    BY <1>1, <1>3 DEF l
  <2>. QED  BY <1>1, <1>2, <1>8, <2>1 DEF TypeOK, FileThenBuffer, Rises, WriterRests
<1>. QED  BY <1>11, <1>12, <1>13, <1>14, <1>15 DEF StreamInv

LEMMA StreamKept ==
  ASSUME StreamInv, [Next]_vars
  PROVE  StreamInv'
BY WriteKeeps, FlushRunKeeps, FlushManualKeeps, SourceStepKeeps, ReadKeeps, ReaderStepKeeps
   DEF Next, Reader

LEMMA SessionIsStream ==
  ASSUME [SessionNext]_sessionVars
  PROVE  [Next]_vars
BY DEF SessionNext, sessionVars, Starting, Sampling, SessionEnds, SessionKilled, Again, Next

\* StreamInv holds in every state of the session (console.py:495-521, conftest.py:95-117,
\* main.py:110-131).
THEOREM StreamInvariance == FairSession => []StreamInv
<1>1. SessionInit => StreamInv
  BY StreamInitial DEF SessionInit
<1>2. StreamInv /\ [SessionNext]_sessionVars => StreamInv'
  BY SessionIsStream, StreamKept
<1>. QED  BY <1>1, <1>2, PTL DEF FairSession

\* The live stream pushes nothing twice and nothing out of order, though its file is
\* removed, emptied and begun anew under the reader's position (console.py:504-517).
THEOREM NothingTwice == FairSession => []PushedOnceInOrder
<1>1. StreamInv => PushedOnceInOrder
  <2>. SUFFICES ASSUME StreamInv PROVE PushedOnceInOrder
    OBVIOUS
  <2>1. DOMAIN events = 1..Len(events)
    BY LenProperties DEF StreamInv, TypeOK
  <2>. QED  BY <2>1 DEF StreamInv, PushedInOrder, PushedOnceInOrder
<1>. QED  BY <1>1, StreamInvariance, PTL

\* Nor does it leave anything out while the file is not begun anew, and a line that the
\* oscilloscope wrote in one piece is one event.
THEOREM NothingLost == FairSession => []NothingSkipped
<1>1. StreamInv => NothingSkipped
  <2>. SUFFICES ASSUME StreamInv PROVE NothingSkipped
    OBVIOUS
  <2>1. DOMAIN events = 1..Len(events)
    BY LenProperties DEF StreamInv, TypeOK
  <2>. QED  BY <2>1 DEF StreamInv, FirstFile, LinesWhole, NothingSkipped
<1>. QED  BY <1>1, StreamInvariance, PTL
=============================================================================
