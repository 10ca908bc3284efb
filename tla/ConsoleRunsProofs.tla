--------------------------- MODULE ConsoleRunsProofs ---------------------------
(* Safety of ConsoleRuns for any number of consoles and runs.                  *)
EXTENDS ConsoleRuns, FiniteSetTheorems, TLAPS

Labels == {"free", "spawn", "lock", "kill", "record", "mkdir", "write"}
Processes == {"unborn", "running", "hung", "zombie", "gone"}
Stages == {"new", "numbered", "open", "written", "failed", "killed", "unrecorded"}

\* A console's running child is the run it remembers, and it starts no other one; a run
\* that is being recorded runs no more.
ChildKnown ==
  \A r \in Runs : Running(r) /\ parent[r] # NoRun =>
    active[parent[r]] = r /\ pc[parent[r]] # "spawn"
RecordedIsOver ==
  \A c \in Consoles : pc[c] \in {"record", "mkdir", "write"} => ~Running(active[c])
\* An open session's directory exists, and no other open session has it.
OpenHasDir ==
  /\ dir = [r \in Runs |-> dir[r]]
  /\ \A r \in Runs : stage[r] = "open" => dir[r] \in made
LockWasBorn ==
  /\ lock # NoRun => proc[lock] # "unborn"
  /\ \A c \in Consoles : active[c] # NoRun => proc[active[c]] # "unborn"

IInv ==
  /\ TypeOK
  /\ ChildKnown
  /\ RecordedIsOver
  /\ OpenHasDir /\ DirectoriesAreOwn
  /\ LockWasBorn

\* The first console, with no run, satisfies IInv.
THEOREM InitIInv == Init => IInv
<1>. SUFFICES ASSUME Init PROVE IInv
  OBVIOUS
<1>1. TypeOK
  <2>1. active \in [Consoles -> Runs \cup {NoRun}] /\ pc \in [Consoles -> Labels]
    BY DEF Init, Labels
  <2>2. last_sig \in [Consoles -> 0..MaxLive] /\ live \in 0..MaxLive
    BY LiveAssumption DEF Init
  <2>3. proc \in [Runs -> Processes] /\ stage \in [Runs -> Stages]
    BY DEF Init, Processes, Stages
  <2>4. parent \in [Runs -> Consoles \cup {NoRun}] /\ lock \in Runs \cup {NoRun}
    BY DEF Init
  <2>5. \A c \in Consoles : pc[c] = "free"
    BY DEF Init
  <2>. QED
    BY <2>1, <2>2, <2>3, <2>4, <2>5 DEF TypeOK, Labels, Processes, Stages
<1>2. ChildKnown /\ RecordedIsOver
  BY DEF Init, ChildKnown, RecordedIsOver, Running
<1>3. OpenHasDir /\ DirectoriesAreOwn
  BY DEF Init, OpenHasDir, DirectoriesAreOwn
<1>4. LockWasBorn
  BY DEF Init, LockWasBorn
<1>. QED  BY <1>1, <1>2, <1>3, <1>4 DEF IInv
-----------------------------------------------------------------------------
(* The endpoints. *)

\* What concerns the sessions is the same after a step that leaves them and made alone.
LEMMA SessionsKeep ==
  ASSUME IInv, UNCHANGED <<stage, dir, made>>
  PROVE  OpenHasDir' /\ DirectoriesAreOwn'
BY DEF IInv, OpenHasDir, DirectoriesAreOwn

LEMMA FinishTypes ==
  ASSUME TypeOK, NEW c \in Consoles, FinishActive(c)
  PROVE  /\ active' = [active EXCEPT ![c] = NoRun]
         /\ active' \in [Consoles -> Runs \cup {NoRun}]
         /\ lock' \in {lock, NoRun} /\ live' \in 0..MaxLive
BY LiveAssumption DEF FinishActive, TypeOK

\* The end of a run that no longer runs: its console becomes free.
LEMMA FinishKeeps ==
  ASSUME IInv, NEW c \in Consoles, FinishActive(c), active[c] # NoRun,
         ~Running(active[c]), NEW label \in {"free", "spawn"},
         pc' = [pc EXCEPT ![c] = label],
         proc' \in {proc, [proc EXCEPT ![active[c]] = "gone"]}, 
         proc[active[c]] \in {"zombie", "gone"} \/ proc' = proc,
         stage' \in [Runs -> Stages], UNCHANGED <<last_sig, parent>>
  PROVE  TypeOK' /\ ChildKnown' /\ RecordedIsOver' /\ LockWasBorn'
<1>. USE DEF IInv
<1>1. active[c] \in Runs
  BY DEF TypeOK
<1>2. proc' \in [Runs -> Processes]
  BY DEF TypeOK, Processes
<1>3. \A r \in Runs : /\ Running(r)' <=> Running(r)
                      /\ proc'[r] = "unborn" <=> proc[r] = "unborn"
  BY <1>1 DEF TypeOK, Running
<1>4. pc' \in [Consoles -> Labels] /\ \A d \in Consoles \ {c} : pc'[d] = pc[d]
  BY DEF TypeOK, Labels
<1>5. pc'[c] = label
  BY DEF TypeOK
<1>6. TypeOK'
  <2>1. \A d \in Consoles : pc'[d] \in {"lock", "kill", "record", "mkdir", "write"}
          => active'[d] # NoRun
    BY <1>4, <1>5, FinishTypes DEF TypeOK
  <2>. QED  BY <1>2, <1>4, <2>1, FinishTypes DEF TypeOK, Labels, Processes, Stages
<1>7. ChildKnown'
  BY <1>1, <1>3, <1>4, FinishTypes DEF ChildKnown, TypeOK
<1>8. RecordedIsOver'
  BY <1>3, <1>4, <1>5, FinishTypes DEF RecordedIsOver, TypeOK
<1>9. LockWasBorn'
  BY <1>3, FinishTypes DEF LockWasBorn, TypeOK
<1>. QED  BY <1>6, <1>7, <1>8, <1>9

\* A step of an endpoint that only goes on to the next one.
LEMMA MoveKeeps ==
  ASSUME IInv, NEW c \in Consoles, NEW label \in Labels, Goto(c, label),
         UNCHANGED <<active, parent, lock, proc, stage, dir, made>>,
         last_sig' \in [Consoles -> 0..MaxLive], live' \in 0..MaxLive,
         label \in {"lock", "kill", "record", "mkdir", "write"} => active[c] # NoRun,
         label = "spawn" => \A r \in Runs : Running(r) => parent[r] \in {NoRun} \cup (Consoles \ {c}),
         label \in {"record", "mkdir", "write"} => ~Running(active[c])
  PROVE  IInv'
<1>. USE DEF IInv
<1>1. /\ pc' \in [Consoles -> Labels] /\ pc'[c] = label
      /\ \A d \in Consoles \ {c} : pc'[d] = pc[d]
  BY DEF TypeOK, Labels, Goto
<1>2. TypeOK'
  BY <1>1 DEF TypeOK, Labels
<1>3. ChildKnown'
  BY <1>1 DEF ChildKnown, Running, TypeOK
<1>4. RecordedIsOver'
  BY <1>1 DEF RecordedIsOver, Running
<1>5. LockWasBorn'
  BY DEF LockWasBorn
<1>. QED  BY <1>2, <1>3, <1>4, <1>5, SessionsKeep

LEMMA TriggerKeeps ==
  ASSUME IInv, NEW c \in Consoles, Trigger(c)
  PROVE  IInv'
<1>. USE DEF IInv
<1>1. pc' = [pc EXCEPT ![c] = "spawn"]
      /\ UNCHANGED <<last_sig, parent, number, stage, dir, made, history>>
  BY DEF Trigger, Goto, sessionVars, dirVars
<1>2. CASE /\ active[c] # NoRun /\ Exited(active[c]) /\ FinishActive(c)
           /\ proc' = Poll(active[c])
  <2>1. active[c] \in Runs
    BY <1>2 DEF TypeOK
  <2>2. ~Running(active[c]) /\ proc[active[c]] \in {"zombie", "gone"}
    BY <1>2 DEF Running, Exited
  <2>3. proc' \in {proc, [proc EXCEPT ![active[c]] = "gone"]}
    BY <1>2, <2>1 DEF Poll, TypeOK
  <2>4. stage' \in [Runs -> Stages]
    BY <1>1 DEF TypeOK, Stages
  <2>5. TypeOK' /\ ChildKnown' /\ RecordedIsOver' /\ LockWasBorn'
    BY <1>1, <1>2, <2>2, <2>3, <2>4, FinishKeeps
  <2>. QED  BY <1>1, <2>5, SessionsKeep
<1>3. CASE active[c] = NoRun /\ ~Locked /\ UNCHANGED <<active, lock, live, proc>>
  <2>1. \A r \in Runs : Running(r) => parent[r] \in {NoRun} \cup (Consoles \ {c})
    BY <1>3, NoRunAssumption DEF ChildKnown, TypeOK
  <2>2. "spawn" \in Labels /\ Goto(c, "spawn")
    BY <1>1 DEF Labels, Goto
  <2>3. last_sig' \in [Consoles -> 0..MaxLive] /\ live' \in 0..MaxLive
    BY <1>1, <1>3 DEF TypeOK
  <2>. QED  BY <1>1, <1>3, <2>1, <2>2, <2>3, MoveKeeps
<1>. QED  BY <1>2, <1>3 DEF Trigger

LEMMA SpawnKeeps ==
  ASSUME IInv, NEW c \in Consoles, Spawn(c)
  PROVE  IInv'
<1>. USE DEF IInv
<1>1. NextRun \in Runs /\ proc[NextRun] = "unborn"
  BY DEF Spawn, NextRun
<1>. DEFINE r == NextRun
<1>2. /\ proc' = [q \in Runs |-> IF q = r THEN "running"
                                ELSE IF proc[q] = "zombie" /\ parent[q] = c THEN "gone"
                                ELSE proc[q]]
      /\ parent' = [parent EXCEPT ![r] = c] /\ active' = [active EXCEPT ![c] = r]
      /\ last_sig' = [last_sig EXCEPT ![c] = live] /\ pc' = [pc EXCEPT ![c] = "lock"]
      /\ UNCHANGED <<number, lock, live, stage, dir, made, history>>
  BY DEF Spawn, Goto, sessionVars, dirVars
<1>3. r \in Runs /\ r # NoRun /\ proc[r] = "unborn"
  BY <1>1, NoRunAssumption
<1>. HIDE DEF r
<1>4. /\ proc' \in [Runs -> Processes]
      /\ \A q \in Runs \ {r} : Running(q)' <=> Running(q)
      /\ \A q \in Runs : proc'[q] = "unborn" => proc[q] = "unborn"
  BY <1>2 DEF TypeOK, Processes, Running
<1>5. /\ pc' \in [Consoles -> Labels] /\ pc'[c] = "lock"
      /\ active' \in [Consoles -> Runs \cup {NoRun}] /\ active'[c] = r
      /\ \A d \in Consoles \ {c} : pc'[d] = pc[d] /\ active'[d] = active[d]
      /\ parent' \in [Runs -> Consoles \cup {NoRun}] /\ parent'[r] = c
      /\ \A q \in Runs \ {r} : parent'[q] = parent[q]
  BY <1>2, <1>3 DEF TypeOK, Labels
<1>6. TypeOK'
  <2>1. last_sig' \in [Consoles -> 0..MaxLive]
    BY <1>2 DEF TypeOK
  <2>2. \A d \in Consoles : pc'[d] \in {"lock", "kill", "record", "mkdir", "write"}
          => active'[d] # NoRun
    BY <1>3, <1>5 DEF TypeOK
  <2>. QED  BY <1>2, <1>4, <1>5, <2>1, <2>2 DEF TypeOK, Labels, Processes
<1>7. ChildKnown'
  <2>. SUFFICES ASSUME NEW q \in Runs, Running(q)', parent'[q] # NoRun
                PROVE  active'[parent'[q]] = q /\ pc'[parent'[q]] # "spawn"
    BY DEF ChildKnown
  <2>1. CASE q = r
    BY <1>5, <2>1
  <2>2. CASE q # r
    <3>1. Running(q) /\ parent[q] # NoRun /\ parent'[q] = parent[q]
      BY <1>4, <1>5, <2>2
    <3>2. active[parent[q]] = q /\ pc[parent[q]] # "spawn"
      BY <3>1 DEF ChildKnown
    <3>3. parent[q] # c
      BY <3>2 DEF Spawn
    <3>. QED  BY <1>5, <3>1, <3>2, <3>3 DEF TypeOK
  <2>. QED  BY <2>1, <2>2
<1>8. RecordedIsOver'
  <2>. SUFFICES ASSUME NEW d \in Consoles, pc'[d] \in {"record", "mkdir", "write"}
                PROVE  proc'[active'[d]] \notin {"running", "hung"}
    BY DEF RecordedIsOver, Running
  <2>1. d # c /\ pc[d] \in {"record", "mkdir", "write"} /\ active'[d] = active[d]
    BY <1>5
  <2>2. ~Running(active[d]) /\ active[d] \in Runs \ {r}
    BY <1>3, <2>1 DEF RecordedIsOver, LockWasBorn, TypeOK
  <2>. QED  BY <1>4, <2>1, <2>2 DEF Running
<1>9. LockWasBorn'
  BY <1>2, <1>3, <1>4, <1>5 DEF LockWasBorn, TypeOK
<1>. QED  BY <1>2, <1>6, <1>7, <1>8, <1>9, SessionsKeep

\* A run is over for its console, by being written or by being given up.
LEMMA EndKeeps ==
  ASSUME IInv, NEW c \in Consoles, FinishActive(c), active[c] # NoRun,
         ~Running(active[c]), GoFree(c), UNCHANGED <<last_sig, parent, proc, dir>>,
         made \subseteq made', 
         stage' \in {stage, [stage EXCEPT ![active[c]] = "unrecorded"]}
  PROVE  IInv'
<1>. USE DEF IInv
<1>1. stage' \in [Runs -> Stages] /\ \A r \in Runs : stage'[r] = "open" => stage[r] = "open"
  BY DEF TypeOK, Stages
<1>2. TypeOK' /\ ChildKnown' /\ RecordedIsOver' /\ LockWasBorn'
  BY <1>1, FinishKeeps DEF GoFree, Goto
<1>3. OpenHasDir' /\ DirectoriesAreOwn'
  BY <1>1 DEF OpenHasDir, DirectoriesAreOwn
<1>. QED  BY <1>2, <1>3

LEMMA StatusKeeps ==
  ASSUME IInv, NEW c \in Consoles, StatusProgress(c) \/ StatusStalled(c) \/ Cancel(c)
  PROVE  IInv'
<1>. USE DEF IInv
<1>1. active[c] # NoRun /\ pc[c] = "free"
  BY DEF StatusProgress, StatusStalled, Cancel, Watching
<1>2. CASE StatusProgress(c)
  <2>1. last_sig' = [last_sig EXCEPT ![c] = live]
        /\ UNCHANGED <<active, pc, parent, number, lock, live, proc, stage, dir, made, history>>
    BY <1>2 DEF StatusProgress, sessionVars, dirVars
  <2>2. TypeOK'
    BY <2>1 DEF TypeOK
  <2>. QED
    BY <2>1, <2>2, SessionsKeep DEF ChildKnown, RecordedIsOver, LockWasBorn, Running
<1>3. CASE StatusStalled(c) \/ Cancel(c)
  <2>1. Goto(c, "kill") /\ "kill" \in Labels
        /\ UNCHANGED <<active, last_sig, parent, number, lock, live, proc, stage, dir, made>>
    BY <1>3 DEF StatusStalled, Cancel, Labels, sessionVars, dirVars
  <2>2. last_sig' \in [Consoles -> 0..MaxLive] /\ live' \in 0..MaxLive
    BY <2>1 DEF TypeOK
  <2>. QED  BY <1>1, <2>1, <2>2, MoveKeeps
<1>. QED  BY <1>2, <1>3

LEMMA TerminateKeeps ==
  ASSUME IInv, NEW c \in Consoles, Terminate(c)
  PROVE  IInv'
<1>. USE DEF IInv
<1>. DEFINE r == active[c]
<1>1. r \in Runs
  BY DEF Terminate, TypeOK
<1>2. /\ \E s \in {"zombie", "gone"} : proc' = [proc EXCEPT ![r] = s]
      /\ stage' = [stage EXCEPT ![r] = "killed"] /\ dir' = [dir EXCEPT ![r] = 0]
      /\ pc' = [pc EXCEPT ![c] = "record"] /\ pc[c] = "kill"
      /\ UNCHANGED <<active, last_sig, parent, number, lock, live, made, history>>
  BY DEF Terminate, Goto, dirVars
<1>3. /\ proc' \in [Runs -> Processes] /\ proc'[r] \in {"zombie", "gone"}
      /\ \A q \in Runs \ {r} : proc'[q] = proc[q]
  BY <1>1, <1>2 DEF TypeOK, Processes
<1>4. /\ pc' \in [Consoles -> Labels] /\ pc'[c] = "record"
      /\ \A d \in Consoles \ {c} : pc'[d] = pc[d]
  BY <1>2 DEF TypeOK, Labels
<1>5. stage' \in [Runs -> Stages] /\ \A q \in Runs : stage'[q] = "open" => q # r /\ stage[q] = "open"
  BY <1>1, <1>2 DEF TypeOK, Stages
<1>6. TypeOK'
  BY <1>2, <1>3, <1>4, <1>5 DEF TypeOK, Labels, Processes, Stages
<1>7. ChildKnown'
  BY <1>2, <1>3, <1>4 DEF ChildKnown, Running, TypeOK
<1>8. RecordedIsOver'
  BY <1>2, <1>3, <1>4 DEF RecordedIsOver, Running, TypeOK
<1>9. OpenHasDir' /\ DirectoriesAreOwn'
  BY <1>2, <1>5 DEF OpenHasDir, DirectoriesAreOwn
<1>10. LockWasBorn'
  BY <1>2, <1>3 DEF LockWasBorn, TypeOK
<1>. QED  BY <1>6, <1>7, <1>8, <1>9, <1>10

LEMMA CrashKeeps ==
  ASSUME IInv, NEW c \in Consoles, Crash(c)
  PROVE  IInv'
<1>. USE DEF IInv
<1>1. /\ active' = [active EXCEPT ![c] = NoRun] /\ pc' = [pc EXCEPT ![c] = "free"]
      /\ last_sig' = [last_sig EXCEPT ![c] = 0]
      /\ proc' = [r \in Runs |-> IF parent[r] = c /\ proc[r] = "zombie" THEN "gone" ELSE proc[r]]
      /\ parent' = [r \in Runs |-> IF parent[r] = c THEN NoRun ELSE parent[r]]
      /\ UNCHANGED <<lock, live, stage, dir, made, history>>
  BY DEF Crash, GoFree, Goto, sessionVars, dirVars
<1>2. /\ proc' \in [Runs -> Processes]
      /\ \A r \in Runs : /\ Running(r)' <=> Running(r)
                         /\ proc'[r] = "unborn" <=> proc[r] = "unborn"
  BY <1>1 DEF TypeOK, Processes, Running
<1>3. /\ pc' \in [Consoles -> Labels] /\ pc'[c] = "free"
      /\ active' \in [Consoles -> Runs \cup {NoRun}] /\ active'[c] = NoRun
      /\ \A d \in Consoles \ {c} : pc'[d] = pc[d] /\ active'[d] = active[d]
      /\ last_sig' \in [Consoles -> 0..MaxLive]
      /\ parent' \in [Runs -> Consoles \cup {NoRun}]
  BY <1>1, LiveAssumption DEF TypeOK, Labels
<1>4. TypeOK'
  BY <1>1, <1>2, <1>3 DEF TypeOK, Labels, Processes
<1>5. ChildKnown'
  <2>. SUFFICES ASSUME NEW r \in Runs, Running(r)', parent'[r] # NoRun
                PROVE  active'[parent'[r]] = r /\ pc'[parent'[r]] # "spawn"
    BY DEF ChildKnown
  <2>1. parent[r] # c /\ parent'[r] = parent[r] /\ parent[r] \in Consoles
    BY <1>1 DEF TypeOK
  <2>. QED  BY <1>2, <1>3, <2>1 DEF ChildKnown
<1>6. RecordedIsOver'
  BY <1>2, <1>3 DEF RecordedIsOver, TypeOK
<1>7. LockWasBorn'
  BY <1>1, <1>2, <1>3 DEF LockWasBorn, TypeOK
<1>. QED  BY <1>1, <1>4, <1>5, <1>6, <1>7, SessionsKeep

LEMMA EndpointKeeps ==
  ASSUME IInv, NEW c \in Consoles, Endpoint(c)
  PROVE  IInv'
<1>. USE DEF IInv
<1>0. last_sig \in [Consoles -> 0..MaxLive] /\ live \in 0..MaxLive
      /\ stage \in [Runs -> Stages] /\ active[c] \in Runs \cup {NoRun}
  BY DEF TypeOK, Stages
<1>1. CASE SpawnFails(c)
  <2>1. Goto(c, "free") /\ "free" \in Labels
        /\ UNCHANGED <<active, last_sig, parent, lock, live, proc, stage, dir, made>>
    BY <1>1 DEF SpawnFails, GoFree, Labels, sessionVars, dirVars
  <2>. QED  BY <1>0, <2>1, MoveKeeps
<1>2. CASE WriteLock(c)
  <2>1. /\ pc' = [pc EXCEPT ![c] = "free"] /\ active[c] \in Runs
        /\ lock' \in {active[c], lock}
        /\ UNCHANGED <<active, last_sig, parent, live, proc, stage, dir, made>>
    BY <1>2 DEF WriteLock, GoFree, Goto, sessionVars, dirVars, TypeOK
  <2>2. /\ pc' \in [Consoles -> Labels] /\ pc'[c] = "free"
        /\ \A d \in Consoles \ {c} : pc'[d] = pc[d]
    BY <2>1 DEF TypeOK, Labels
  <2>3. TypeOK'
    BY <2>1, <2>2 DEF TypeOK, Labels
  <2>4. ChildKnown' /\ RecordedIsOver' /\ LockWasBorn'
    BY <2>1, <2>2, NoRunAssumption DEF ChildKnown, RecordedIsOver, LockWasBorn, Running, TypeOK
  <2>. QED  BY <2>1, <2>3, <2>4, SessionsKeep
<1>3. CASE Reap(c)
  <2>1. /\ pc' = [pc EXCEPT ![c] = "free"] /\ active[c] \in Runs /\ FinishActive(c)
        /\ proc[active[c]] \in {"zombie", "gone"} /\ ~Running(active[c])
        /\ UNCHANGED <<last_sig, parent, stage, dir, made>>
    BY <1>3 DEF Reap, Exited, Running, sessionVars, dirVars, TypeOK
  <2>2. proc' \in {proc, [proc EXCEPT ![active[c]] = "gone"]}
    BY <1>3, <2>1 DEF Reap, Poll, TypeOK
  <2>3. TypeOK' /\ ChildKnown' /\ RecordedIsOver' /\ LockWasBorn'
    BY <1>0, <2>1, <2>2, NoRunAssumption, FinishKeeps
  <2>. QED  BY <2>1, <2>3, SessionsKeep
<1>4. CASE LookForRecord(c)
  <2>1. /\ Goto(c, "mkdir") /\ "mkdir" \in Labels /\ ~Running(active[c]) /\ active[c] # NoRun
        /\ UNCHANGED <<active, last_sig, parent, lock, live, proc, stage, dir, made>>
    BY <1>4 DEF LookForRecord, Labels, RecordedIsOver, sessionVars, dirVars, TypeOK
  <2>. QED  BY <1>0, <2>1, MoveKeeps
<1>5. CASE MakeRecordDir(c)
  <2>1. /\ pc' = [pc EXCEPT ![c] = "write"] /\ ~Running(active[c]) /\ active[c] # NoRun
        /\ made \subseteq made'
        /\ UNCHANGED <<active, last_sig, parent, lock, live, proc, stage, dir>>
    BY <1>5 DEF MakeRecordDir, MakeOrTake, Goto, RecordedIsOver, sessionVars, TypeOK
  <2>2. /\ pc' \in [Consoles -> Labels] /\ pc'[c] = "write"
        /\ \A d \in Consoles \ {c} : pc'[d] = pc[d]
    BY <2>1 DEF TypeOK, Labels
  <2>3. TypeOK'
    BY <2>1, <2>2 DEF TypeOK, Labels
  <2>4. ChildKnown' /\ RecordedIsOver' /\ LockWasBorn'
    BY <2>1, <2>2 DEF ChildKnown, RecordedIsOver, LockWasBorn, Running, TypeOK
  <2>5. OpenHasDir' /\ DirectoriesAreOwn'
    BY <2>1 DEF OpenHasDir, DirectoriesAreOwn
  <2>. QED  BY <2>3, <2>4, <2>5
<1>6. CASE RecordAborted(c) \/ RecordFails(c)
  <2>1. /\ GoFree(c) /\ FinishActive(c) /\ ~Running(active[c]) /\ active[c] # NoRun
        /\ stage' \in {stage, [stage EXCEPT ![active[c]] = "unrecorded"]}
        /\ UNCHANGED <<last_sig, parent, proc, dir, made>>
    BY <1>6 DEF RecordAborted, RecordFails, RecordedIsOver, sessionVars, dirVars, TypeOK
  <2>. QED  BY <2>1, EndKeeps
<1>. QED
  BY <1>1, <1>2, <1>3, <1>4, <1>5, <1>6, TriggerKeeps, SpawnKeeps, StatusKeeps, TerminateKeeps
     DEF Endpoint, Bookkeeping
-----------------------------------------------------------------------------
(* The pytest processes. *)

\* Nothing but the stage of one run's session and the state of its process changes, and
\* a run that ran no more does not run again.
LEMMA SessionKeeps ==
  ASSUME IInv, NEW r \in Runs, Running(r),
         UNCHANGED <<active, pc, last_sig, parent, lock>>, live' \in 0..MaxLive,
         NEW s \in Processes \ {"unborn"}, proc' = [proc EXCEPT ![r] = s],
         NEW t \in Stages, stage' = [stage EXCEPT ![r] = t],
         NEW n, dir' = [dir EXCEPT ![r] = n], made \subseteq made',
         t = "open" => /\ n \in made'
                       /\ n \notin made \/ (stage[r] = "open" /\ n = dir[r])
  PROVE  IInv'
<1>. USE DEF IInv
<1>1. /\ proc' \in [Runs -> Processes] /\ proc'[r] # "unborn"
      /\ \A q \in Runs \ {r} : proc'[q] = proc[q]
  BY DEF TypeOK, Processes
<1>2. /\ stage' \in [Runs -> Stages] /\ stage'[r] = t
      /\ \A q \in Runs \ {r} : stage'[q] = stage[q]
  BY DEF TypeOK, Stages
<1>3. /\ dir' = [q \in Runs |-> dir'[q]] /\ dir'[r] = n
      /\ \A q \in Runs \ {r} : dir'[q] = dir[q]
  BY DEF OpenHasDir
<1>4. TypeOK'
  BY <1>1, <1>2 DEF TypeOK, Processes, Stages
<1>5. ChildKnown' /\ RecordedIsOver'
  BY <1>1 DEF ChildKnown, RecordedIsOver, Running, TypeOK
<1>6. OpenHasDir'
  BY <1>2, <1>3 DEF OpenHasDir
<1>7. DirectoriesAreOwn'
  <2>. SUFFICES ASSUME NEW p \in Runs, NEW q \in Runs, p # q,
                       stage'[p] = "open", stage'[q] = "open", dir'[p] = dir'[q]
                PROVE  FALSE
    BY DEF DirectoriesAreOwn
  <2>1. CASE p # r /\ q # r
    BY <1>2, <1>3, <2>1 DEF DirectoriesAreOwn
  <2>2. CASE p = r
    BY <1>2, <1>3, <2>2 DEF DirectoriesAreOwn, OpenHasDir
  <2>3. CASE q = r
    BY <1>2, <1>3, <2>3 DEF DirectoriesAreOwn, OpenHasDir
  <2>. QED  BY <2>1, <2>2, <2>3
<1>8. LockWasBorn'
  BY <1>1, NoRunAssumption DEF LockWasBorn, TypeOK
<1>. QED  BY <1>4, <1>5, <1>6, <1>7, <1>8

LEMMA GrownType ==
  ASSUME TypeOK PROVE Grown \in 0..MaxLive
<1>1. live \in Nat /\ MaxLive \in Nat \ {0}
  BY LiveAssumption DEF TypeOK
<1>2. live % MaxLive \in 0..(MaxLive - 1)
  BY <1>1, Z3
<1>. QED  BY <1>1, <1>2 DEF Grown

LEMMA PytestKeeps ==
  ASSUME IInv, NEW r \in Runs, Pytest(r)
  PROVE  IInv'
<1>. USE DEF IInv
<1>0. /\ live \in 0..MaxLive /\ 0 \in 0..MaxLive
      /\ proc = [proc EXCEPT ![r] = proc[r]] /\ stage = [stage EXCEPT ![r] = stage[r]]
      /\ dir = [dir EXCEPT ![r] = dir[r]] /\ stage[r] \in Stages
      /\ Running(r) /\ proc[r] \in Processes \ {"unborn"}
  <2>1. Running(r)
    BY DEF Pytest, LookForDir, MakeDir, WriteSegment, WriteResult, Exit, Die, Hang, Working, Running
  <2>. QED  BY <2>1, LiveAssumption DEF TypeOK, Processes, Stages, OpenHasDir, Running
<1>1. CASE LookForDir(r)
  <2>1. /\ dir' = [dir EXCEPT ![r] = FirstFree] /\ stage' = [stage EXCEPT ![r] = "numbered"]
        /\ UNCHANGED <<active, pc, last_sig, parent, number, lock, live, proc, made>>
    BY <1>1 DEF LookForDir, consoleVars, dirVars
  <2>2. "numbered" \in Stages
    BY DEF Stages
  <2>. QED  BY <1>0, <2>1, <2>2, SessionKeeps
<1>2. CASE MakeDir(r)
  <2>1. PICK t \in {"open", "failed"} :
          /\ stage' = [stage EXCEPT ![r] = t]
          /\ made \subseteq made' /\ (t = "open" => dir[r] \in made' \ made)
          /\ UNCHANGED <<active, pc, last_sig, parent, number, lock, live, proc, dir>>
    BY <1>2 DEF MakeDir, MakeNew, consoleVars
  <2>2. t \in Stages
    BY DEF Stages
  <2>. QED  BY <1>0, <2>1, <2>2, SessionKeeps
<1>3. CASE WriteSegment(r)
  <2>1. /\ live' = Grown
        /\ UNCHANGED <<active, pc, last_sig, parent, number, lock, proc, stage, dir, made>>
    BY <1>3 DEF WriteSegment, consoleVars, sessionVars, dirVars
  <2>2. live' \in 0..MaxLive
    BY <2>1, GrownType
  <2>3. stage[r] = "open" => dir[r] \in made'
    BY <2>1 DEF OpenHasDir
  <2>. QED  BY <1>0, <2>1, <2>2, <2>3, SessionKeeps
<1>4. CASE WriteResult(r)
  <2>1. /\ stage' = [stage EXCEPT ![r] = "written"] /\ dir' = [dir EXCEPT ![r] = 0]
        /\ live' \in {0, live}
        /\ UNCHANGED <<active, pc, last_sig, parent, number, lock, proc, made>>
    BY <1>4 DEF WriteResult, consoleVars
  <2>2. "written" \in Stages
    BY DEF Stages
  <2>. QED  BY <1>0, <2>1, <2>2, SessionKeeps
<1>5. CASE Exit(r) \/ Hang(r)
  <2>1. /\ \E s \in {"zombie", "gone", "hung"} : proc' = [proc EXCEPT ![r] = s]
        /\ UNCHANGED <<active, pc, last_sig, parent, number, lock, live, stage, dir, made>>
    BY <1>5 DEF Exit, Hang, Ends, consoleVars, sessionVars, dirVars
  <2>2. {"zombie", "gone", "hung"} \subseteq Processes \ {"unborn"}
    BY DEF Processes
  <2>3. stage[r] = "open" => dir[r] \in made'
    BY <2>1 DEF OpenHasDir
  <2>. QED  BY <1>0, <2>1, <2>2, <2>3, SessionKeeps
<1>6. CASE Die(r)
  <2>1. /\ \E s \in {"zombie", "gone"} : proc' = [proc EXCEPT ![r] = s]
        /\ stage' = [stage EXCEPT ![r] = "failed"] /\ dir' = [dir EXCEPT ![r] = 0]
        /\ UNCHANGED <<active, pc, last_sig, parent, number, lock, live, made>>
    BY <1>6 DEF Die, Ends, consoleVars, dirVars
  <2>2. {"zombie", "gone"} \subseteq Processes \ {"unborn"} /\ "failed" \in Stages
    BY DEF Processes, Stages
  <2>. QED  BY <1>0, <2>1, <2>2, SessionKeeps
<1>. QED  BY <1>1, <1>2, <1>3, <1>4, <1>5, <1>6 DEF Pytest
-----------------------------------------------------------------------------
(* The theorems. *)

\* Every step of a console, a session or the oscilloscope keeps IInv.
THEOREM NextIInv == IInv /\ [Next]_vars => IInv'
<1>. SUFFICES ASSUME IInv, [Next]_vars PROVE IInv'
  OBVIOUS
<1>1. CASE ManualSample
  <2>1. /\ live' = Grown /\ UNCHANGED <<active, pc, last_sig, parent, number, lock>>
        /\ UNCHANGED <<proc, stage, dir, made>>
    BY <1>1 DEF ManualSample, consoleVars, sessionVars, dirVars
  <2>2. TypeOK'
    BY <2>1, GrownType DEF IInv, TypeOK
  <2>3. ChildKnown' /\ RecordedIsOver' /\ LockWasBorn'
    BY <2>1 DEF IInv, ChildKnown, RecordedIsOver, LockWasBorn, Running
  <2>. QED  BY <2>1, <2>2, <2>3, SessionsKeep DEF IInv
<1>2. CASE UNCHANGED vars
  <2>1. UNCHANGED <<active, pc, last_sig, parent, number, lock, live, proc, stage, dir, made>>
    BY <1>2 DEF vars, consoleVars, sessionVars, dirVars
  <2>2. TypeOK'
    BY <2>1 DEF IInv, TypeOK
  <2>3. ChildKnown' /\ RecordedIsOver' /\ LockWasBorn'
    BY <2>1 DEF IInv, ChildKnown, RecordedIsOver, LockWasBorn, Running
  <2>. QED  BY <2>1, <2>2, <2>3, SessionsKeep DEF IInv
<1>. QED  BY <1>1, <1>2, EndpointKeeps, CrashKeeps, PytestKeeps DEF Next

\* IInv holds in every state of Spec (console.py, RunManager).
THEOREM Invariance == Spec => []IInv
BY InitIInv, NextIInv, PTL DEF Spec

\* The type invariant, for any number of consoles and runs.
THEOREM Typing == Spec => []TypeOK
BY Invariance, PTL DEF IInv

\* Of the runs a console started since it came up at most one is running (console.py
\* 289-330): it is the one in the console's memory, which is asked before a start.
THEOREM OneRun == Spec => []OneRunPerConsole
<1>1. IInv => OneRunPerConsole
  BY DEF IInv, ChildKnown, OneRunPerConsole
<1>. QED  BY <1>1, Invariance, PTL

\* Two open sessions have two directories (report.py 50-59): the one that finds the
\* directory made fails.
THEOREM OwnDirs == Spec => []DirectoriesAreOwn
BY Invariance, PTL DEF IInv
-----------------------------------------------------------------------------
(* Runs, consoles and stages. *)

\* What a console remembers is a run it started; while it starts one it remembers none,
\* and of a run it has killed it is still writing the record.
ChildRemembered ==
  \A c \in Consoles : active[c] # NoRun =>
    /\ parent[active[c]] = c /\ pc[c] # "spawn"
    /\ stage[active[c]] = "killed" => pc[c] \in {"record", "mkdir", "write"}
\* A run not yet started has no console and no session, and only a live one has an open one.
StagesFit ==
  \A r \in Runs :
    /\ proc[r] = "unborn" => stage[r] = "new" /\ parent[r] = NoRun
    /\ stage[r] = "open" => Running(r)
    /\ stage[r] \in {"killed", "unrecorded"} => ~Running(r)
Books == ChildRemembered /\ StagesFit

\* The last step of an endpoint, or the reaping at its beginning: the console forgets its run.
LEMMA ForgetBooks ==
  ASSUME IInv, Books, NEW c \in Consoles, FinishActive(c), active[c] \in Runs,
         NEW label, pc' = [pc EXCEPT ![c] = label], UNCHANGED parent,
         stage' \in {stage, [stage EXCEPT ![active[c]] = "unrecorded"]},
         proc' \in {proc, [proc EXCEPT ![active[c]] = "gone"]},
         ~Running(active[c]), proc[active[c]] \in {"zombie", "gone"} \/ proc' = proc
  PROVE  Books'
<1>. USE DEF IInv
<1>1. /\ active' = [active EXCEPT ![c] = NoRun]
      /\ active \in [Consoles -> Runs \cup {NoRun}]
      /\ pc \in [Consoles -> Labels]
  BY DEF FinishActive, TypeOK, Labels
<1>2. ~Running(active[c]) /\ proc[active[c]] # "unborn"
  BY NoRunAssumption DEF LockWasBorn, Running, TypeOK
<1>3. \A r \in Runs : /\ Running(r)' <=> Running(r)
                      /\ proc'[r] = "unborn" <=> proc[r] = "unborn"
  BY <1>2 DEF TypeOK, Running
<1>4. \A r \in Runs : r # active[c] => stage'[r] = stage[r]
  BY DEF TypeOK
<1>5. stage'[active[c]] # "open"
  BY <1>2 DEF TypeOK, StagesFit, Books
<1>6. \A d \in Consoles : active'[d] # NoRun => d # c /\ active'[d] = active[d] /\ pc'[d] = pc[d]
  BY <1>1
<1>7. \A d \in Consoles : active'[d] # NoRun => active'[d] # active[c] /\ active[d] \in Runs
  BY <1>1, <1>6, NoRunAssumption DEF Books, ChildRemembered
<1>8. ChildRemembered'
  BY <1>4, <1>6, <1>7 DEF Books, ChildRemembered
<1>9. StagesFit'
  BY <1>2, <1>3, <1>4, <1>5 DEF Books, StagesFit
<1>. QED  BY <1>8, <1>9 DEF Books

\* A step of one session, or of the process it runs in.
LEMMA SessionBooks ==
  ASSUME IInv, Books, NEW r \in Runs, Running(r), UNCHANGED <<active, pc, parent>>,
         NEW s \in Processes \ {"unborn"}, proc' = [proc EXCEPT ![r] = s],
         NEW t \in Stages \ {"killed", "unrecorded"}, stage' = [stage EXCEPT ![r] = t],
         t = "open" => s \in {"running", "hung"}
  PROVE  Books'
<1>. USE DEF IInv
<1>1. /\ proc'[r] = s /\ \A q \in Runs \ {r} : proc'[q] = proc[q]
      /\ stage'[r] = t /\ \A q \in Runs \ {r} : stage'[q] = stage[q]
  BY DEF TypeOK
<1>2. ChildRemembered'
  BY <1>1 DEF Books, ChildRemembered, TypeOK
<1>3. StagesFit'
  BY <1>1 DEF Books, StagesFit, Running
<1>. QED  BY <1>2, <1>3 DEF Books

LEMMA PytestBooks ==
  ASSUME IInv, Books, NEW r \in Runs, Pytest(r)
  PROVE  Books'
<1>. USE DEF IInv
<1>1. /\ proc = [proc EXCEPT ![r] = proc[r]] /\ stage = [stage EXCEPT ![r] = stage[r]]
      /\ Running(r) /\ proc[r] \in Processes \ {"unborn"} /\ proc[r] \in {"running", "hung"}
  <2>1. Running(r)
    BY DEF Pytest, LookForDir, MakeDir, WriteSegment, WriteResult, Exit, Die, Hang, Working, Running
  <2>. QED  BY <2>1 DEF TypeOK, Processes, Running
<1>2. stage[r] \in Stages \ {"killed", "unrecorded"}
  BY <1>1 DEF TypeOK, Stages, Books, StagesFit
<1>3. /\ {"zombie", "gone", "hung"} \subseteq Processes \ {"unborn"}
      /\ {"numbered", "open", "failed", "written"} \subseteq Stages \ {"killed", "unrecorded"}
  BY DEF Processes, Stages
<1>4. UNCHANGED <<active, pc, parent>>
  BY DEF Pytest, LookForDir, MakeDir, WriteSegment, WriteResult, Exit, Die, Hang, consoleVars
<1>5. CASE LookForDir(r) \/ MakeDir(r) \/ WriteSegment(r) \/ WriteResult(r)
  <2>1. UNCHANGED proc /\ \E t \in Stages \ {"killed", "unrecorded"} : stage' = [stage EXCEPT ![r] = t]
    BY <1>1, <1>2, <1>3, <1>5 DEF LookForDir, MakeDir, WriteSegment, WriteResult, sessionVars
  <2>. QED  BY <1>1, <1>4, <2>1, SessionBooks
<1>6. CASE Exit(r) \/ Die(r)
  <2>1. /\ \E s \in {"zombie", "gone"} : proc' = [proc EXCEPT ![r] = s]
        /\ \E t \in {"failed", "written"} : stage' = [stage EXCEPT ![r] = t]
    BY <1>1, <1>6 DEF Exit, Die, Ends, sessionVars
  <2>2. PICK s \in {"zombie", "gone"} : proc' = [proc EXCEPT ![r] = s]
    BY <2>1
  <2>3. PICK t \in {"failed", "written"} : stage' = [stage EXCEPT ![r] = t]
    BY <2>1
  <2>4. s \in Processes \ {"unborn"} /\ t \in Stages \ {"killed", "unrecorded"} /\ t # "open"
    BY <1>3
  <2>. QED  BY <1>1, <1>4, <2>2, <2>3, <2>4, SessionBooks
<1>7. CASE Hang(r)
  <2>1. proc' = [proc EXCEPT ![r] = "hung"] /\ UNCHANGED stage
    BY <1>7 DEF Hang, sessionVars
  <2>. QED  BY <1>1, <1>2, <1>3, <1>4, <2>1, SessionBooks
<1>. QED  BY <1>5, <1>6, <1>7 DEF Pytest

LEMMA SpawnBooks ==
  ASSUME IInv, Books, NEW c \in Consoles, Spawn(c)
  PROVE  Books'
<1>. USE DEF IInv
<1>1. NextRun \in Runs /\ proc[NextRun] = "unborn"
  BY DEF Spawn, NextRun
<1>. DEFINE r == NextRun
<1>2. /\ proc' = [q \in Runs |-> IF q = r THEN "running"
                                ELSE IF proc[q] = "zombie" /\ parent[q] = c THEN "gone"
                                ELSE proc[q]]
      /\ parent' = [parent EXCEPT ![r] = c] /\ active' = [active EXCEPT ![c] = r]
      /\ pc' = [pc EXCEPT ![c] = "lock"] /\ UNCHANGED stage
  BY DEF Spawn, Goto, sessionVars
<1>3. r \in Runs /\ proc[r] = "unborn" /\ stage[r] = "new"
  BY <1>1 DEF Books, StagesFit
<1>. HIDE DEF r
<1>4. /\ proc'[r] = "running"
      /\ \A q \in Runs \ {r} : /\ Running(q)' <=> Running(q)
                               /\ proc'[q] = "unborn" => proc[q] = "unborn"
      /\ parent'[r] = c /\ \A q \in Runs \ {r} : parent'[q] = parent[q]
  BY <1>2, <1>3 DEF TypeOK, Running
<1>5. \A d \in Consoles : active[d] # NoRun => active[d] \in Runs \ {r}
  BY <1>3 DEF LockWasBorn, TypeOK
<1>6. ChildRemembered'
  <2>. SUFFICES ASSUME NEW d \in Consoles, active'[d] # NoRun
                PROVE  /\ parent'[active'[d]] = d /\ pc'[d] # "spawn"
                       /\ stage[active'[d]] = "killed" => pc'[d] \in {"record", "mkdir", "write"}
    BY <1>2 DEF ChildRemembered
  <2>1. CASE d = c
    BY <1>2, <1>3, <1>4, <2>1 DEF TypeOK
  <2>2. CASE d # c
    <3>1. active'[d] = active[d] /\ pc'[d] = pc[d]
      BY <1>2, <2>2 DEF TypeOK
    <3>. QED  BY <1>4, <1>5, <3>1 DEF Books, ChildRemembered
  <2>. QED  BY <2>1, <2>2
<1>7. StagesFit'
  BY <1>2, <1>3, <1>4 DEF Books, StagesFit, Running
<1>. QED  BY <1>6, <1>7 DEF Books

\* A step of an endpoint to the next one.
LEMMA MoveBooks ==
  ASSUME IInv, Books, NEW c \in Consoles, NEW label, pc' = [pc EXCEPT ![c] = label],
         UNCHANGED <<active, parent, proc, stage>>,
         label = "spawn" => active[c] = NoRun,
         pc[c] \in {"record", "mkdir", "write"} /\ active[c] # NoRun => label \in {"mkdir", "write"}
  PROVE  Books'
<1>1. ChildRemembered'
  BY DEF IInv, TypeOK, Books, ChildRemembered
<1>2. StagesFit'
  BY DEF Books, StagesFit, Running
<1>. QED  BY <1>1, <1>2 DEF Books

LEMMA EndpointBooks ==
  ASSUME IInv, Books, NEW c \in Consoles, Endpoint(c)
  PROVE  Books'
<1>. USE DEF IInv
<1>0. active[c] \in Runs \cup {NoRun} /\ stage \in [Runs -> Stages]
  BY DEF TypeOK, Stages
<1>1. CASE Trigger(c)
  <2>1. pc' = [pc EXCEPT ![c] = "spawn"] /\ UNCHANGED <<parent, stage>>
    BY <1>1 DEF Trigger, Goto, sessionVars
  <2>2. CASE /\ active[c] # NoRun /\ Exited(active[c]) /\ FinishActive(c)
             /\ proc' = Poll(active[c])
    <3>1. proc' \in {proc, [proc EXCEPT ![active[c]] = "gone"]}
      BY <1>0, <2>2 DEF Poll, TypeOK
    <3>2. /\ ~Running(active[c]) /\ proc[active[c]] \in {"zombie", "gone"} /\ active[c] \in Runs /\ FinishActive(c)
          /\ stage' \in {stage, [stage EXCEPT ![active[c]] = "unrecorded"]}
      BY <1>0, <2>1, <2>2 DEF Exited, Running
    <3>. QED  BY <2>1, <3>1, <3>2, ForgetBooks
  <2>3. CASE active[c] = NoRun /\ UNCHANGED <<active, proc>>
    BY <2>1, <2>3, MoveBooks
  <2>. QED  BY <1>1, <2>2, <2>3 DEF Trigger
<1>2. CASE SpawnFails(c) \/ WriteLock(c) \/ StatusStalled(c) \/ Cancel(c)
           \/ LookForRecord(c) \/ MakeRecordDir(c)
  <2>1. PICK label \in {"free", "kill", "mkdir", "write"} :
          /\ pc' = [pc EXCEPT ![c] = label]
          /\ pc[c] \in {"record", "mkdir", "write"} => label \in {"mkdir", "write"}
    BY <1>2 DEF SpawnFails, WriteLock, StatusStalled, Cancel, LookForRecord, MakeRecordDir,
                Goto, GoFree, Watching
  <2>2. UNCHANGED <<active, parent, proc, stage>>
    BY <1>2 DEF SpawnFails, WriteLock, StatusStalled, Cancel, LookForRecord, MakeRecordDir, sessionVars
  <2>. QED  BY <2>1, <2>2, MoveBooks
<1>3. CASE StatusProgress(c)
  <2>1. UNCHANGED <<active, parent, proc, stage, pc>>
    BY <1>3 DEF StatusProgress, sessionVars
  <2>. QED  BY <2>1 DEF Books, ChildRemembered, StagesFit, Running
<1>4. CASE Reap(c)
  <2>1. /\ active[c] \in Runs /\ FinishActive(c) /\ ~Running(active[c])
        /\ proc[active[c]] \in {"zombie", "gone"} /\ pc' = [pc EXCEPT ![c] = "free"] /\ UNCHANGED parent
        /\ stage' \in {stage, [stage EXCEPT ![active[c]] = "unrecorded"]}
    BY <1>0, <1>4 DEF Reap, Exited, Running, sessionVars, TypeOK
  <2>2. proc' \in {proc, [proc EXCEPT ![active[c]] = "gone"]}
    BY <1>4, <2>1 DEF Reap, Poll, TypeOK
  <2>. QED  BY <2>1, <2>2, ForgetBooks
<1>5. CASE RecordAborted(c) \/ RecordFails(c)
  <2>1. /\ pc' = [pc EXCEPT ![c] = "free"] /\ FinishActive(c)
        /\ ~Running(active[c]) /\ active[c] \in Runs
        /\ stage' \in {stage, [stage EXCEPT ![active[c]] = "unrecorded"]}
        /\ UNCHANGED <<parent, proc>>
    BY <1>0, <1>5 DEF RecordAborted, RecordFails, GoFree, Goto, RecordedIsOver, sessionVars, TypeOK
  <2>. QED  BY <2>1, ForgetBooks
<1>6. CASE Terminate(c)
  <2>. DEFINE r == active[c]
  <2>1. r \in Runs
    BY <1>6 DEF Terminate, TypeOK
  <2>2. /\ proc'[r] \in {"zombie", "gone"} /\ \A q \in Runs \ {r} : proc'[q] = proc[q]
        /\ stage'[r] = "killed" /\ \A q \in Runs \ {r} : stage'[q] = stage[q]
        /\ pc'[c] = "record" /\ \A d \in Consoles \ {c} : pc'[d] = pc[d]
        /\ UNCHANGED <<active, parent>>
    BY <1>6, <2>1 DEF Terminate, Goto, TypeOK
  <2>3. \A d \in Consoles \ {c} : active[d] # r
    BY <2>1, NoRunAssumption DEF Books, ChildRemembered
  <2>. HIDE DEF r
  <2>4. ChildRemembered'
    BY <2>2, <2>3 DEF Books, ChildRemembered, TypeOK, r
  <2>5. StagesFit'
    BY <2>2 DEF Books, StagesFit, Running
  <2>. QED  BY <2>4, <2>5 DEF Books
<1>. QED
  BY <1>1, <1>2, <1>3, <1>4, <1>5, <1>6, SpawnBooks DEF Endpoint, Bookkeeping

LEMMA CrashBooks ==
  ASSUME IInv, Books, NEW c \in Consoles, Crash(c)
  PROVE  Books'
<1>. USE DEF IInv
<1>1. /\ active' = [active EXCEPT ![c] = NoRun] /\ pc' = [pc EXCEPT ![c] = "free"]
      /\ parent' = [r \in Runs |-> IF parent[r] = c THEN NoRun ELSE parent[r]]
      /\ UNCHANGED stage
      /\ \A r \in Runs : /\ Running(r)' <=> Running(r)
                         /\ proc'[r] = "unborn" <=> proc[r] = "unborn"
  BY DEF Crash, GoFree, Goto, sessionVars, Running
<1>2. ChildRemembered'
  BY <1>1, NoRunAssumption DEF Books, ChildRemembered, TypeOK
<1>3. StagesFit'
  BY <1>1 DEF Books, StagesFit
<1>. QED  BY <1>2, <1>3 DEF Books

LEMMA NextBooks == IInv /\ Books /\ [Next]_vars => Books'
<1>. SUFFICES ASSUME IInv, Books, [Next]_vars PROVE Books'
  OBVIOUS
<1>1. CASE ManualSample \/ UNCHANGED vars
  <2>1. UNCHANGED <<active, pc, parent, proc, stage>>
    BY <1>1 DEF ManualSample, vars, consoleVars, sessionVars
  <2>. QED  BY <2>1 DEF Books, ChildRemembered, StagesFit, Running
<1>. QED  BY <1>1, EndpointBooks, CrashBooks, PytestBooks DEF Next

\* What a console remembers is a run it started, not yet killed or still being recorded, and
\* the stage of every run fits its process (console.py, trigger, status and cancel).
THEOREM BooksFit == Spec => []Books
<1>1. Init => Books
  BY DEF Init, Books, ChildRemembered, StagesFit, Running
<1>. QED  BY <1>1, NextBooks, Invariance, PTL DEF Spec
-----------------------------------------------------------------------------
(* One console: the lock file. *)

\* The assumption of what follows: one console works on the reports directory.
OneConsole == \A c, d \in Consoles : c = d

\* While a run is being started the run in the lock file is over.
LockIsOver ==
  \A c \in Consoles : pc[c] = "spawn" => lock = NoRun \/ proc[lock] = "gone"

LEMMA NextLockIsOver ==
  ASSUME OneConsole, IInv, LockIsOver, [Next]_vars
  PROVE  LockIsOver'
<1>. USE DEF IInv
<1>1. CASE \E c \in Consoles : Trigger(c)
  <2>1. PICK c \in Consoles : Trigger(c)
    BY <1>1
  <2>2. lock' \in Runs \cup {NoRun}
    BY <2>1 DEF Trigger, FinishActive, TypeOK
  <2>3. CASE ~Locked /\ UNCHANGED <<lock, proc>>
    BY <2>2, <2>3 DEF Locked, LockIsOver, LockWasBorn, TypeOK
  <2>4. CASE \A r \in Runs : lock' = r => proc'[r] = "gone"
    BY <2>2, <2>4 DEF LockIsOver
  <2>. QED  BY <2>1, <2>3, <2>4 DEF Trigger
<1>2. ASSUME NEW c \in Consoles, pc' = [pc EXCEPT ![c] = pc'[c]], pc'[c] # "spawn" PROVE LockIsOver'
  BY <1>2 DEF OneConsole, LockIsOver, TypeOK
<1>3. CASE \E c \in Consoles : Crash(c) \/ (Endpoint(c) /\ ~Trigger(c))
  <2>1. PICK c \in Consoles : Crash(c) \/ (Endpoint(c) /\ ~Trigger(c))
    BY <1>3
  <2>2. \E label \in Labels \ {"spawn"} : pc' = [pc EXCEPT ![c] = label]
    <3>1. CASE StatusProgress(c)
      BY <3>1 DEF StatusProgress, Watching, TypeOK, Labels
    <3>2. CASE Reap(c)
      BY <3>2 DEF Reap, TypeOK, Labels
    <3>3. CASE Crash(c) \/ Spawn(c) \/ SpawnFails(c) \/ WriteLock(c) \/ RecordAborted(c) \/ RecordFails(c)
      BY <3>3 DEF Crash, Spawn, SpawnFails, WriteLock, RecordAborted, RecordFails, GoFree, Goto, Labels
    <3>4. CASE StatusStalled(c) \/ Cancel(c) \/ LookForRecord(c) \/ MakeRecordDir(c) \/ Terminate(c)
      BY <3>4 DEF StatusStalled, Cancel, LookForRecord, MakeRecordDir, Terminate, Goto, Labels
    <3>. QED  BY <2>1, <3>1, <3>2, <3>3, <3>4 DEF Endpoint, Bookkeeping
  <2>3. PICK label \in Labels \ {"spawn"} : pc' = [pc EXCEPT ![c] = label]
    BY <2>2
  <2>4. pc'[c] = label
    BY <2>3 DEF TypeOK
  <2>. QED  BY <1>2, <2>3, <2>4
<1>4. CASE \E r \in Runs : Pytest(r)
  <2>1. PICK r \in Runs : Pytest(r)
    BY <1>4
  <2>2. UNCHANGED <<pc, lock>>
    BY <2>1 DEF Pytest, LookForDir, MakeDir, WriteSegment, WriteResult, Exit, Die, Hang, consoleVars
  <2>3. \A q \in Runs : proc[q] = "gone" => proc'[q] = "gone"
    BY <2>1 DEF Pytest, LookForDir, MakeDir, WriteSegment, WriteResult, Exit, Die, Hang, Ends,
                Working, Running, TypeOK
  <2>. QED  BY <2>2, <2>3 DEF LockIsOver, TypeOK
<1>5. CASE ManualSample \/ UNCHANGED vars
  BY <1>5 DEF ManualSample, vars, consoleVars, LockIsOver
<1>. QED  BY <1>1, <1>3, <1>4, <1>5 DEF Next

\* Only Spawn starts a run.
LEMMA OnlySpawnStarts ==
  ASSUME IInv, [Next]_vars, NEW r \in Runs, proc[r] = "unborn", Running(r)'
  PROVE  \E c \in Consoles : Spawn(c)
<1>. USE DEF IInv
<1>1. ASSUME NEW c \in Consoles, Endpoint(c) \/ Crash(c), ~Spawn(c) PROVE FALSE
  <2>1. CASE Trigger(c) \/ Reap(c)
    BY <2>1 DEF Trigger, Reap, Poll, Running, TypeOK
  <2>2. CASE Crash(c)
    BY <2>2 DEF Crash, Running, TypeOK
  <2>3. CASE SpawnFails(c) \/ WriteLock(c) \/ StatusProgress(c) \/ StatusStalled(c) \/ Cancel(c)
    BY <2>3 DEF SpawnFails, WriteLock, StatusProgress, StatusStalled, Cancel, Running
  <2>4. CASE LookForRecord(c) \/ MakeRecordDir(c) \/ RecordAborted(c) \/ RecordFails(c)
    BY <2>4 DEF LookForRecord, MakeRecordDir, RecordAborted, RecordFails, Running
  <2>5. CASE Terminate(c)
    BY <2>5 DEF Terminate, Running, TypeOK
  <2>. QED  BY <1>1, <2>1, <2>2, <2>3, <2>4, <2>5 DEF Endpoint, Bookkeeping
<1>2. ASSUME NEW q \in Runs, Pytest(q) PROVE FALSE
  BY <1>2 DEF Pytest, LookForDir, MakeDir, WriteSegment, WriteResult, Exit, Die, Hang, Ends,
              Working, Running, TypeOK
<1>3. CASE ManualSample \/ UNCHANGED vars
  BY <1>3 DEF ManualSample, vars, Running
<1>. QED  BY <1>1, <1>2, <1>3 DEF Next

\* With one console, no second run is started beside a live one in the lock file.
THEOREM LockedAlone == ASSUME OneConsole PROVE Spec => LockedRunIsAlone
<1>1. Init => LockIsOver
  BY DEF Init, LockIsOver
<1>2. IInv /\ LockIsOver /\ [Next]_vars =>
        [\A r \in Runs : proc[r] = "unborn" /\ Running(r)'
           => lock = NoRun \/ ~Running(lock)]_vars
  <2>. SUFFICES ASSUME IInv, LockIsOver, [Next]_vars,
                       NEW r \in Runs, proc[r] = "unborn", Running(r)'
                PROVE  lock = NoRun \/ ~Running(lock)
    OBVIOUS
  <2>1. PICK c \in Consoles : Spawn(c)
    BY OnlySpawnStarts
  <2>. QED  BY <2>1 DEF Spawn, LockIsOver, Running
<1>. QED  BY <1>1, <1>2, OneConsole, NextLockIsOver, Invariance, PTL DEF Spec, LockedRunIsAlone
-----------------------------------------------------------------------------
(* One console: the records. *)

\* The search for a free number finds one, and the smallest.
LEMMA FirstFreeIsFree ==
  ASSUME IsFiniteSet(made)
  PROVE  FirstFree \in Nat \ made /\ \A k \in 1..(FirstFree - 1) : k \in made
<1>. DEFINE N == Cardinality(made) + 1
            Free == (1..N) \ made
<1>1. Cardinality(made) \in Nat
  BY FS_CardinalityType
<1>2. Free # {}
  <2>1. IsFiniteSet(1..N) /\ Cardinality(1..N) = N
    BY <1>1, FS_Interval
  <2>2. SUFFICES ASSUME 1..N \subseteq made PROVE FALSE
    OBVIOUS
  <2>3. Cardinality(1..N) <= Cardinality(made)
    BY <2>2, FS_Subset
  <2>. QED  BY <1>1, <2>1, <2>3
<1>. DEFINE Less == {p \in Nat \X Nat : p[1] < p[2]}
<1>3. PICK n \in Free : \A k \in Free : <<k, n>> \notin Less
  <2>1. Free \subseteq Nat
    OBVIOUS
  <2>2. IsWellFoundedOn(Less, Nat)
    BY NatLessThanWellFounded DEF OpToRel
  <2>. HIDE DEF Free, Less
  <2>. QED  BY <1>2, <2>1, <2>2, WFMin
<1>4. ASSUME NEW k \in Free, k < n PROVE FALSE
  <2>1. k \in Nat /\ n \in Nat
    BY <1>1
  <2>2. <<k, n>> \in Less
    BY <1>4, <2>1
  <2>. QED  BY <1>3, <2>2
<1>5. \A k \in 1..(n - 1) : k \in made
  BY <1>1, <1>4
<1>6. n \in 1..(Cardinality(made) + 1) /\ n \notin made
  OBVIOUS
<1>7. /\ FirstFree \in 1..(Cardinality(made) + 1) /\ FirstFree \notin made
      /\ \A k \in 1..(FirstFree - 1) : k \in made
  BY <1>5, <1>6 DEF FirstFree
<1>. QED  BY <1>7

Recording(c) == pc[c] \in {"mkdir", "write"}

\* Every record is of a run that was started and lies in a directory that exists, alone.
RecordsKnown ==
  /\ IsFiniteSet(made)
  /\ \A h \in history : h.run \in Runs /\ proc[h.run] # "unborn" /\ h.dir \in made
  /\ \A g, h \in history : g.dir = h.dir => g = h
\* The directory a console has chosen for its record holds at most an orphan's ...
NumberFresh ==
  /\ number = [c \in Consoles |-> number[c]]
  /\ \A c \in Consoles :
       /\ pc[c] = "write" => number[c] \in made
       /\ \A h \in history : Recording(c) /\ h.dir = number[c] => parent[h.run] = NoRun
\* ... and that of a console's own session none.
ChildDirFresh ==
  \A r \in Runs, h \in history : stage[r] = "open" /\ parent[r] # NoRun => h.dir # dir[r]
\* KilledRunsRecorded, and that the orphan's record is not about to be written over.
Lasting(h) == parent[h.run] = NoRun /\ \A c \in Consoles : Recording(c) => h.dir # number[c]
LetGo(r) == stage[r] = "killed" /\ parent[r] # NoRun /\ active[parent[r]] # r
KilledKept ==
  \A r \in Runs : LetGo(r) =>
    \E h \in history : (h.run = r /\ h.kind = "aborted") \/ Lasting(h)

Records == RecordsKnown /\ NumberFresh /\ ChildDirFresh /\ KilledKept

\* A step that writes no record, chooses no number and opens no session.
LEMMA QuietRecords ==
  ASSUME IInv, Records, UNCHANGED history, made \subseteq made', IsFiniteSet(made'),
         \A r \in Runs : proc[r] # "unborn" =>
           proc'[r] # "unborn" /\ parent'[r] \in {parent[r], NoRun},
         number' = [c \in Consoles |-> number'[c]],
         \A c \in Consoles : Recording(c)' => Recording(c) /\ number'[c] = number[c],
         \A c \in Consoles : pc'[c] = "write" => number'[c] \in made',
         \A r \in Runs : stage'[r] = "open" /\ parent'[r] # NoRun =>
           stage[r] = "open" /\ parent[r] # NoRun /\ dir'[r] = dir[r],
         \A r \in Runs : LetGo(r)' => LetGo(r)
  PROVE  Records'
<1>1. RecordsKnown'
  BY DEF Records, RecordsKnown
<1>2. \A h \in history : parent[h.run] = NoRun => parent'[h.run] = NoRun
  BY DEF Records, RecordsKnown
<1>3. NumberFresh'
  BY <1>2 DEF Records, NumberFresh
<1>4. ChildDirFresh'
  BY DEF Records, ChildDirFresh
<1>5. \A h \in history : Lasting(h) => Lasting(h)'
  BY <1>2 DEF Lasting
<1>6. KilledKept'
  BY <1>5 DEF Records, KilledKept
<1>. QED  BY <1>1, <1>3, <1>4, <1>6 DEF Records

\* The single console records a run: nobody else does, and its child runs no more.
LEMMA RecordingAlone ==
  ASSUME OneConsole, IInv, NEW c \in Consoles, Recording(c), NEW r \in Runs, Running(r)
  PROVE  parent[r] = NoRun
<1>. SUFFICES ASSUME parent[r] # NoRun PROVE FALSE
  OBVIOUS
<1>1. parent[r] = c
  BY DEF IInv, TypeOK, OneConsole
<1>2. active[c] = r
  BY <1>1 DEF IInv, ChildKnown
<1>. QED  BY <1>2 DEF IInv, RecordedIsOver, Recording

LEMMA LookForRecordRecords ==
  ASSUME OneConsole, IInv, Records, NEW c \in Consoles, LookForRecord(c)
  PROVE  Records'
<1>1. /\ pc' = [pc EXCEPT ![c] = "mkdir"] /\ pc'[c] = "mkdir"
      /\ number' = [number EXCEPT ![c] = FirstFree]
      /\ UNCHANGED <<active, parent, proc, stage, dir, made, history>>
  BY DEF LookForRecord, Goto, sessionVars, dirVars, IInv, TypeOK
<1>2. FirstFree \notin made
  BY FirstFreeIsFree DEF Records, RecordsKnown
<1>3. number'[c] = FirstFree /\ number' = [d \in Consoles |-> number'[d]]
  BY <1>1 DEF Records, NumberFresh
<1>4. \A d \in Consoles : d = c
  BY DEF OneConsole
<1>5. RecordsKnown'
  BY <1>1 DEF Records, RecordsKnown
<1>6. \A h \in history, d \in Consoles : h.dir # number'[d]
  BY <1>2, <1>3, <1>4 DEF Records, RecordsKnown
<1>7. NumberFresh'
  BY <1>1, <1>3, <1>4, <1>6 DEF NumberFresh
<1>8. ChildDirFresh'
  BY <1>1 DEF Records, ChildDirFresh
<1>9. KilledKept'
  BY <1>1, <1>6 DEF Records, KilledKept, LetGo, Lasting
<1>. QED  BY <1>5, <1>7, <1>8, <1>9 DEF Records

LEMMA RecordAbortedRecords ==
  ASSUME OneConsole, IInv, Books, Records, NEW c \in Consoles, RecordAborted(c)
  PROVE  Records'
<1>. DEFINE n == number[c]
            r == active[c]
            new == [dir |-> n, run |-> r, kind |-> "aborted"]
<1>1. /\ pc[c] = "write" /\ pc' = [pc EXCEPT ![c] = "free"] /\ pc'[c] = "free"
      /\ history' = {h \in history : h.dir # n} \cup {new}
      /\ active' = [active EXCEPT ![c] = NoRun] /\ number' = [number EXCEPT ![c] = 0]
      /\ UNCHANGED <<parent, proc, stage, dir, made>>
  BY DEF RecordAborted, WriteRecord, FinishActive, GoFree, Goto, sessionVars, IInv, TypeOK
<1>2. r \in Runs /\ proc[r] # "unborn" /\ n \in made
  BY <1>1 DEF IInv, TypeOK, LockWasBorn, Records, NumberFresh
<1>3. new.dir = n /\ new.run = r /\ new.kind = "aborted"
  OBVIOUS
<1>4. \A d \in Consoles : d = c
  BY DEF OneConsole
<1>. HIDE DEF n, r, new
<1>5. RecordsKnown'
  BY <1>1, <1>2, <1>3 DEF Records, RecordsKnown
<1>6. NumberFresh'
  BY <1>1, <1>4 DEF Records, NumberFresh, Recording
<1>7. ChildDirFresh'
  <2>. SUFFICES ASSUME NEW q \in Runs, stage[q] = "open", Running(q) PROVE parent[q] = NoRun
    BY <1>1 DEF ChildDirFresh, Books, StagesFit
  <2>. QED  BY <1>1, RecordingAlone DEF Recording
<1>8. KilledKept'
  <2>. SUFFICES ASSUME NEW q \in Runs, stage[q] = "killed", parent[q] # NoRun
                PROVE  \E h \in history' : (h.run = q /\ h.kind = "aborted") \/ Lasting(h)'
    BY <1>1 DEF KilledKept, LetGo
  <2>1. CASE q = r
    BY <1>1, <1>3, <2>1
  <2>2. CASE q # r
    <3>1. LetGo(q)
      BY <1>4, <2>2 DEF LetGo, r, IInv, TypeOK
    <3>2. PICK h \in history : (h.run = q /\ h.kind = "aborted") \/ Lasting(h)
      BY <3>1 DEF Records, KilledKept
    <3>3. h.dir # n
      BY <1>1, <3>2 DEF Records, NumberFresh, Recording, Lasting, n
    <3>4. h \in history'
      BY <1>1, <3>3
    <3>5. Lasting(h) => Lasting(h)'
      BY <1>1, <1>4 DEF Lasting, Recording
    <3>. QED  BY <3>2, <3>4, <3>5
  <2>. QED  BY <2>1, <2>2
<1>. QED  BY <1>5, <1>6, <1>7, <1>8 DEF Records

LEMMA WriteResultRecords ==
  ASSUME OneConsole, IInv, Books, Records, NEW r \in Runs, WriteResult(r)
  PROVE  Records'
<1>. DEFINE n == dir[r]
            new == [dir |-> n, run |-> r, kind |-> "result"]
<1>1. /\ stage[r] = "open" /\ Running(r) /\ proc[r] # "unborn"
      /\ history' = {h \in history : h.dir # n} \cup {new}
      /\ stage' = [stage EXCEPT ![r] = "written"] /\ dir' = [dir EXCEPT ![r] = 0]
      /\ UNCHANGED <<active, pc, parent, number, proc, made>>
  BY DEF WriteResult, WriteRecord, Working, Running, consoleVars
<1>2. n \in made
  BY <1>1 DEF IInv, OpenHasDir
<1>3. new.dir = n /\ new.run = r /\ new.kind = "result"
  OBVIOUS
<1>4. \A q \in Runs : stage'[q] = "open" => q # r /\ stage[q] = "open" /\ dir'[q] = dir[q]
  BY <1>1 DEF IInv, TypeOK, OpenHasDir
<1>5. \A q \in Runs : stage'[q] = "open" => dir'[q] # n
  BY <1>1, <1>4 DEF IInv, DirectoriesAreOwn
<1>6. \A h \in history : parent[r] # NoRun => h.dir # n
  BY <1>1 DEF Records, ChildDirFresh
<1>. HIDE DEF n, new
<1>7. RecordsKnown'
  BY <1>1, <1>2, <1>3 DEF Records, RecordsKnown
<1>8. NumberFresh'
  <2>1. \A c \in Consoles : Recording(c) => parent[r] = NoRun
    BY <1>1, RecordingAlone
  <2>. QED  BY <1>1, <1>3, <2>1 DEF Records, NumberFresh, Recording
<1>9. ChildDirFresh'
  BY <1>1, <1>3, <1>4, <1>5 DEF Records, ChildDirFresh
<1>10. KilledKept'
  <2>. SUFFICES ASSUME NEW q \in Runs, LetGo(q)'
                PROVE  \E h \in history' : (h.run = q /\ h.kind = "aborted") \/ Lasting(h)'
    BY DEF KilledKept
  <2>1. LetGo(q)
    BY <1>1 DEF LetGo, IInv, TypeOK
  <2>2. PICK h \in history : (h.run = q /\ h.kind = "aborted") \/ Lasting(h)
    BY <2>1 DEF Records, KilledKept
  <2>3. CASE h.dir # n
    BY <1>1, <2>2, <2>3 DEF Lasting, Recording
  <2>4. CASE h.dir = n
    <3>1. parent[r] = NoRun
      BY <1>6, <2>4
    <3>2. ASSUME NEW c \in Consoles, Recording(c) PROVE h.dir # number[c]
      <4>1. h.dir = number[c] => parent[h.run] = NoRun
        BY <3>2 DEF Records, NumberFresh
      <4>. QED  BY <2>1, <2>2, <3>2, <4>1 DEF Lasting, LetGo
    <3>3. PICK g \in history' : g.dir = n /\ g.run = r
      BY <1>1, <1>3
    <3>4. Lasting(g)'
      BY <1>1, <2>4, <3>1, <3>2, <3>3 DEF Lasting, Recording
    <3>. QED  BY <3>4
  <2>. QED  BY <2>3, <2>4
<1>. QED  BY <1>7, <1>8, <1>9, <1>10 DEF Records

LEMMA MakeDirRecords ==
  ASSUME IInv, Records, NEW r \in Runs, MakeDir(r)
  PROVE  Records'
<1>1. /\ Running(r) /\ UNCHANGED <<active, pc, parent, number, proc, dir, history>>
      /\ stage' \in {[stage EXCEPT ![r] = "open"], [stage EXCEPT ![r] = "failed"]}
      /\ stage'[r] = "open" => dir[r] \notin made
      /\ made' \in {made, made \cup {dir[r]}}
  BY DEF MakeDir, MakeNew, Working, Running, consoleVars, IInv, TypeOK
<1>2. IsFiniteSet(made')
  BY <1>1, FS_AddElement DEF Records, RecordsKnown
<1>3. RecordsKnown'
  BY <1>1, <1>2 DEF Records, RecordsKnown
<1>4. NumberFresh'
  BY <1>1 DEF Records, NumberFresh, Recording
<1>5. ChildDirFresh'
  <2>. SUFFICES ASSUME NEW q \in Runs, NEW h \in history, stage'[q] = "open", parent[q] # NoRun
                PROVE  h.dir # dir[q]
    BY <1>1 DEF ChildDirFresh
  <2>1. CASE q = r
    BY <1>1, <2>1 DEF Records, RecordsKnown
  <2>2. CASE q # r
    BY <1>1, <2>2 DEF Records, ChildDirFresh, IInv, TypeOK
  <2>. QED  BY <2>1, <2>2
<1>6. KilledKept'
  BY <1>1 DEF Records, KilledKept, LetGo, Lasting, Recording, IInv, TypeOK
<1>. QED  BY <1>3, <1>4, <1>5, <1>6 DEF Records

\* Any other step of a session.
LEMMA PytestRecords ==
  ASSUME OneConsole, IInv, Books, Records, NEW r \in Runs, Pytest(r)
  PROVE  Records'
<1>1. CASE WriteResult(r)
  BY <1>1, WriteResultRecords
<1>2. CASE MakeDir(r)
  BY <1>2, MakeDirRecords
<1>3. CASE LookForDir(r) \/ WriteSegment(r) \/ Exit(r) \/ Die(r) \/ Hang(r)
  <2>1. UNCHANGED <<active, pc, parent, number, made, history>>
    BY <1>3 DEF LookForDir, WriteSegment, Exit, Die, Hang, consoleVars, dirVars
  <2>2. \A q \in Runs : proc[q] # "unborn" => proc'[q] # "unborn"
    BY <1>3 DEF LookForDir, WriteSegment, Exit, Die, Hang, Ends, IInv, TypeOK
  <2>3. \A q \in Runs : /\ stage'[q] = "open" => stage[q] = "open" /\ dir'[q] = dir[q]
                        /\ stage'[q] = "killed" => stage[q] = "killed"
    BY <1>3 DEF LookForDir, WriteSegment, Exit, Die, Hang, sessionVars, IInv, TypeOK, OpenHasDir
  <2>4. IsFiniteSet(made') /\ number' = [c \in Consoles |-> number'[c]]
        /\ \A c \in Consoles : pc'[c] = "write" => number'[c] \in made'
    BY <2>1 DEF Records, RecordsKnown, NumberFresh
  <2>5. /\ \A c \in Consoles : Recording(c)' => Recording(c) /\ number'[c] = number[c]
        /\ \A q \in Runs : LetGo(q)' => LetGo(q)
    BY <2>1, <2>3 DEF Recording, LetGo
  <2>. QED  BY <2>1, <2>2, <2>3, <2>4, <2>5, QuietRecords
<1>. QED  BY <1>1, <1>2, <1>3 DEF Pytest

\* The other steps of the console.
LEMMA EndpointRecords ==
  ASSUME OneConsole, IInv, Books, Records, NEW c \in Consoles, Endpoint(c)
  PROVE  Records'
<1>0. /\ active[c] \in Runs \cup {NoRun} /\ \A d \in Consoles : d = c
      /\ IsFiniteSet(made) /\ number = [d \in Consoles |-> number[d]]
  BY DEF OneConsole, IInv, TypeOK, Records, RecordsKnown, NumberFresh
<1>1. CASE RecordAborted(c) \/ LookForRecord(c)
  BY <1>1, RecordAbortedRecords, LookForRecordRecords
<1>2. CASE Spawn(c)
  <2>1. NextRun \in Runs /\ proc[NextRun] = "unborn"
    BY <1>2 DEF Spawn, NextRun
  <2>. DEFINE r == NextRun
  <2>2. /\ pc'[c] = "lock" /\ UNCHANGED <<number, stage, dir, made, history>>
        /\ parent' = [parent EXCEPT ![r] = c] /\ active' = [active EXCEPT ![c] = r]
        /\ \A q \in Runs : proc[q] # "unborn" => proc'[q] # "unborn"
    BY <1>2 DEF Spawn, Goto, sessionVars, dirVars, IInv, TypeOK
  <2>3. r \in Runs /\ proc[r] = "unborn" /\ stage[r] = "new"
    BY <2>1 DEF Books, StagesFit
  <2>. HIDE DEF r
  <2>4. /\ parent'[r] = c /\ \A q \in Runs \ {r} : parent'[q] = parent[q]
        /\ active[c] = NoRun
    BY <1>2, <2>2, <2>3 DEF Spawn, Books, ChildRemembered, IInv, TypeOK
  <2>5. \A q \in Runs : LetGo(q)' => LetGo(q)
    BY <1>0, <2>2, <2>3, <2>4, NoRunAssumption DEF LetGo, IInv, TypeOK
  <2>6. \A d \in Consoles : ~Recording(d)' /\ pc'[d] # "write"
    BY <1>0, <2>2 DEF Recording
  <2>. QED  BY <1>0, <2>2, <2>3, <2>4, <2>5, <2>6, QuietRecords
<1>3. CASE Trigger(c) \/ Reap(c) \/ RecordFails(c)
  <2>1. /\ pc'[c] \notin {"mkdir", "write"} /\ UNCHANGED <<parent, dir, made, history>>
        /\ number' = [d \in Consoles |-> number'[d]]
        /\ \A q \in Runs : proc[q] # "unborn" => proc'[q] # "unborn"
    BY <1>0, <1>3 DEF Trigger, Reap, RecordFails, Goto, GoFree, Poll, sessionVars, dirVars, IInv, TypeOK
  <2>2. /\ active' = [active EXCEPT ![c] = NoRun] \/ active' = active
        /\ active[c] # NoRun => stage'[active[c]] # "killed"
        /\ \A q \in Runs : stage'[q] = stage[q] \/ stage'[q] = "unrecorded"
    BY <1>0, <1>3 DEF Trigger, Reap, RecordFails, FinishActive, sessionVars, Books, ChildRemembered, IInv, TypeOK
  <2>3. \A q \in Runs : LetGo(q)' => LetGo(q)
    BY <1>0, <2>1, <2>2 DEF LetGo, IInv, TypeOK
  <2>4. \A d \in Consoles : ~Recording(d)' /\ pc'[d] # "write"
    BY <1>0, <2>1 DEF Recording
  <2>. QED  BY <1>0, <2>1, <2>2, <2>3, <2>4, QuietRecords
<1>4. CASE SpawnFails(c) \/ WriteLock(c) \/ StatusProgress(c) \/ StatusStalled(c) \/ Cancel(c)
  <2>1. /\ pc'[c] \notin {"mkdir", "write"}
        /\ UNCHANGED <<active, parent, number, proc, stage, dir, made, history>>
    BY <1>4 DEF SpawnFails, WriteLock, StatusProgress, StatusStalled, Cancel, Watching, Goto, GoFree,
                sessionVars, dirVars, IInv, TypeOK
  <2>2. \A d \in Consoles : ~Recording(d)' /\ pc'[d] # "write"
    BY <1>0, <2>1 DEF Recording
  <2>. QED  BY <1>0, <2>1, <2>2, QuietRecords DEF LetGo
<1>5. CASE Terminate(c)
  <2>1. /\ pc'[c] = "record" /\ active[c] \in Runs /\ parent[active[c]] = c
        /\ UNCHANGED <<active, parent, number, made, history>>
    BY <1>0, <1>5 DEF Terminate, Goto, dirVars, Books, ChildRemembered, IInv, TypeOK
  <2>2. /\ \A q \in Runs : proc[q] # "unborn" => proc'[q] # "unborn"
        /\ \A q \in Runs \ {active[c]} : stage'[q] = stage[q] /\ dir'[q] = dir[q]
        /\ stage'[active[c]] = "killed"
    BY <1>5, <2>1 DEF Terminate, IInv, TypeOK, OpenHasDir
  <2>3. \A q \in Runs : LetGo(q)' => LetGo(q)
    BY <2>1, <2>2 DEF LetGo
  <2>4. \A d \in Consoles : ~Recording(d)' /\ pc'[d] # "write"
    BY <1>0, <2>1 DEF Recording
  <2>. QED  BY <1>0, <2>1, <2>2, <2>3, <2>4, QuietRecords
<1>6. CASE MakeRecordDir(c)
  <2>1. /\ pc[c] = "mkdir" /\ pc'[c] = "write" /\ made' = made \cup {number[c]}
        /\ UNCHANGED <<active, parent, number, proc, stage, dir, history>>
    BY <1>6 DEF MakeRecordDir, MakeOrTake, Goto, sessionVars, IInv, TypeOK
  <2>2. IsFiniteSet(made')
    BY <1>0, <2>1, FS_AddElement
  <2>3. /\ \A d \in Consoles : Recording(d)' => Recording(d) /\ number'[d] = number[d]
        /\ \A d \in Consoles : pc'[d] = "write" => number'[d] \in made'
    BY <1>0, <2>1 DEF Recording
  <2>. QED  BY <1>0, <2>1, <2>2, <2>3, QuietRecords DEF LetGo
<1>. QED
  BY <1>1, <1>2, <1>3, <1>4, <1>5, <1>6 DEF Endpoint, Bookkeeping

LEMMA CrashRecords ==
  ASSUME OneConsole, IInv, Records, NEW c \in Consoles, Crash(c)
  PROVE  Records'
<1>1. /\ pc'[c] = "free" /\ UNCHANGED <<stage, dir, made, history>>
      /\ \A q \in Runs : parent'[q] = NoRun
      /\ \A q \in Runs : proc[q] # "unborn" => proc'[q] # "unborn"
      /\ number' = [d \in Consoles |-> number'[d]] /\ IsFiniteSet(made')
      /\ \A d \in Consoles : d = c
  BY DEF Crash, GoFree, Goto, sessionVars, dirVars, OneConsole, IInv, TypeOK,
         Records, RecordsKnown, NumberFresh
<1>2. \A d \in Consoles : ~Recording(d)' /\ pc'[d] # "write"
  BY <1>1 DEF Recording
<1>3. \A q \in Runs : ~LetGo(q)'
  BY <1>1 DEF LetGo
<1>. QED  BY <1>1, <1>2, <1>3, QuietRecords

LEMMA NextRecords ==
  ASSUME OneConsole, IInv, Books, Records, [Next]_vars
  PROVE  Records'
<1>1. CASE ManualSample \/ UNCHANGED vars
  <2>1. UNCHANGED <<active, pc, parent, number, proc, stage, dir, made, history>>
    BY <1>1 DEF ManualSample, vars, consoleVars, sessionVars, dirVars
  <2>2. /\ RecordsKnown' /\ NumberFresh' /\ ChildDirFresh'
    BY <2>1 DEF Records, RecordsKnown, NumberFresh, ChildDirFresh, Recording
  <2>3. KilledKept'
    BY <2>1 DEF Records, KilledKept, LetGo, Lasting, Recording
  <2>. QED  BY <2>2, <2>3 DEF Records
<1>. QED  BY <1>1, EndpointRecords, CrashRecords, PytestRecords DEF Next

LEMMA RecordsInvariance == ASSUME OneConsole PROVE Spec => []Records
<1>1. Init => Records
  <2>. SUFFICES ASSUME Init PROVE Records
    OBVIOUS
  <2>1. /\ history = {} /\ made = {} /\ number = [c \in Consoles |-> 0]
        /\ \A c \in Consoles : pc[c] = "free"
        /\ \A r \in Runs : stage[r] = "new"
    BY DEF Init, DirsInit
  <2>2. RecordsKnown
    BY <2>1, FS_EmptySet DEF RecordsKnown
  <2>3. number = [c \in Consoles |-> number[c]]
    BY <2>1
  <2>4. NumberFresh
    BY <2>1, <2>3 DEF NumberFresh
  <2>5. ChildDirFresh
    BY <2>1 DEF ChildDirFresh
  <2>6. \A r \in Runs : ~LetGo(r)
    BY <2>1 DEF LetGo
  <2>7. KilledKept
    BY <2>6 DEF KilledKept
  <2>. QED  BY <2>2, <2>4, <2>5, <2>7 DEF Records
<1>2. IInv /\ Books /\ Records /\ [Next]_vars => Records'
  BY OneConsole, NextRecords
<1>. QED  BY <1>1, <1>2, Invariance, BooksFit, PTL DEF Spec

\* With one console, a run it has killed and let go of has its record.
THEOREM KilledHaveRecords == ASSUME OneConsole PROVE Spec => []KilledRunsRecorded
<1>1. Records => KilledRunsRecorded
  <2>. SUFFICES ASSUME Records, NEW r \in Runs, LetGo(r)
                PROVE  "aborted" \in KindsOf(r) \/ \E h \in history : parent[h.run] = NoRun
    BY DEF KilledRunsRecorded, LetGo
  <2>1. PICK h \in history : (h.run = r /\ h.kind = "aborted") \/ Lasting(h)
    BY DEF Records, KilledKept
  <2>. QED  BY <2>1 DEF KindsOf, Lasting
<1>. QED  BY <1>1, OneConsole, RecordsInvariance, PTL

\* Only the two steps that write a record touch the history.
LEMMA WhoWrites ==
  ASSUME [Next]_vars, history' # history
  PROVE  (\E c \in Consoles : RecordAborted(c)) \/ \E r \in Runs : WriteResult(r)
<1>1. \A c \in Consoles : Endpoint(c) /\ ~RecordAborted(c) => UNCHANGED history
  BY DEF Endpoint, Bookkeeping, Trigger, Spawn, SpawnFails, WriteLock, Reap, StatusProgress,
         StatusStalled, Cancel, LookForRecord, MakeRecordDir, RecordFails, Terminate, dirVars
<1>2. \A r \in Runs : Pytest(r) /\ ~WriteResult(r) => UNCHANGED history
  BY DEF Pytest, LookForDir, MakeDir, WriteSegment, Exit, Die, Hang, dirVars
<1>3. ManualSample \/ UNCHANGED vars \/ (\E c \in Consoles : Crash(c)) => UNCHANGED history
  BY DEF ManualSample, vars, Crash, dirVars
<1>. QED  BY <1>1, <1>2, <1>3 DEF Next

\* With one console, a record is written over only if it or the new one is an orphan's.
THEOREM RecordsLast == ASSUME OneConsole PROVE Spec => RecordsStay
<1>1. IInv /\ Books /\ Records /\ [Next]_vars =>
        [\A h \in history \ history' : \E r \in Runs :
           /\ parent[r] = NoRun
           /\ r = h.run \/ \E g \in history' \ history : g.run = r]_vars
  <2>. SUFFICES ASSUME IInv, Books, Records, [Next]_vars, NEW h \in history \ history'
                PROVE  \E r \in Runs : /\ parent[r] = NoRun
                                       /\ r = h.run \/ \E g \in history' \ history : g.run = r
    OBVIOUS
  <2>1. CASE \E c \in Consoles : RecordAborted(c)
    <3>1. PICK c \in Consoles : RecordAborted(c)
      BY <2>1
    <3>2. Recording(c) /\ h.dir = number[c]
      BY <3>1 DEF RecordAborted, WriteRecord, Recording
    <3>3. parent[h.run] = NoRun /\ h.run \in Runs
      BY <3>2 DEF Records, NumberFresh, RecordsKnown
    <3>. QED  BY <3>3
  <2>2. CASE \E r \in Runs : WriteResult(r)
    <3>1. PICK r \in Runs : WriteResult(r)
      BY <2>2
    <3>. DEFINE new == [dir |-> dir[r], run |-> r, kind |-> "result"]
    <3>2. stage[r] = "open" /\ history' = {x \in history : x.dir # dir[r]} \cup {new}
      BY <3>1 DEF WriteResult, WriteRecord
    <3>3. h.dir = dir[r] /\ new.dir = dir[r] /\ new.run = r
      BY <3>2
    <3>4. parent[r] = NoRun
      BY <3>2, <3>3 DEF Records, ChildDirFresh
    <3>5. new \in history' \ history
      BY <3>2, <3>3 DEF Records, RecordsKnown
    <3>. QED  BY <3>3, <3>4, <3>5
  <2>. QED  BY <2>1, <2>2, WhoWrites
<1>. QED  BY <1>1, OneConsole, RecordsInvariance, BooksFit, Invariance, PTL DEF Spec, RecordsStay
=============================================================================
