----------------------------- MODULE ConsoleRuns -----------------------------
(***************************************************************************)
(* The run manager of the management console, orchestrator/app/console.py: *)
(* consoles start pytest processes (runs), watch them, and end them.       *)
(*                                                                         *)
(* Within a console the three endpoints hold _RUN_LOCK, so a console is    *)
(* free or inside one of them; its steps interleave with those of other    *)
(* consoles, which share the reports directory, and of the pytest          *)
(* processes.  A run is identified with its pid.  An exited child stays a  *)
(* zombie, alive to os.kill(pid, 0), until its parent polls it or dies.    *)
(***************************************************************************)
EXTENDS RunDirs

CONSTANTS
  Consoles,     \* console processes
  Runs,         \* bound: pytest processes of one behaviour
  NoRun,
  MayCrash,     \* whether consoles crash (and come back with an empty memory)
  ManualScope,  \* whether the teach pendant samples into the same live file
  MaxLive       \* bound: sizes of the live file that are told apart

ASSUME NoRunAssumption == NoRun \notin Runs
ASSUME FlagsAssumption == MayCrash \in BOOLEAN /\ ManualScope \in BOOLEAN
ASSUME LiveAssumption == MaxLive \in Nat \ {0, 1}

VARIABLES
  active,    \* console -> _ACTIVE_RUN, in its memory
  pc,        \* console -> "free", or the step of the endpoint it is in
  last_sig,  \* console -> size of the live file at the last progress it saw
  lock,      \* .run.lock: the run whose pid is in it
  live,      \* size of active.live.jsonl, 0 if absent
  proc,      \* run -> state of its process; a hung one makes no progress any more
  stage,     \* run -> how far its session has got
  dir,       \* run -> number of the run directory its session works on
  parent,    \* run -> the console that started it, while that console lives
  number     \* console -> number of the directory for the record it writes

consoleVars == <<active, pc, last_sig, parent, number>>
sessionVars == <<stage, dir>>
vars == <<consoleVars, lock, live, proc, sessionVars, dirVars>>

Init ==
  /\ active = [c \in Consoles |-> NoRun] /\ pc = [c \in Consoles |-> "free"]
  /\ last_sig = [c \in Consoles |-> 0]
  /\ lock = NoRun /\ live = 0
  /\ proc = [r \in Runs |-> "unborn"] /\ parent = [r \in Runs |-> NoRun]
  /\ stage = [r \in Runs |-> "new"] /\ dir = [r \in Runs |-> 0]
  /\ number = [c \in Consoles |-> 0]
  /\ DirsInit

Goto(c, label) == pc' = [pc EXCEPT ![c] = label]
GoFree(c) == Goto(c, "free")

Running(r) == proc[r] \in {"running", "hung"}
Exited(r) == proc[r] \in {"zombie", "gone"}

\* Fault variant: the lock counts while the console that wrote it lives.
LockedByConsole == lock # NoRun /\ proc[lock] \in {"running", "hung", "zombie"} /\ parent[lock] # NoRun

\* _read_run_lock: a lock counts while its process is alive.
Locked == lock # NoRun /\ proc[lock] \in {"running", "hung", "zombie"}

\* poll() collects an exited child.
Poll(r) == [proc EXCEPT ![r] = IF @ = "zombie" THEN "gone" ELSE @]

\* _finish_active: whatever run the lock and the live file belong to by now.  Each
\* of the two deletions may fail without notice.
FinishActive(c) ==
  /\ active' = [active EXCEPT ![c] = NoRun]
  /\ lock' \in {NoRun, lock} /\ live' \in {0, live}

-----------------------------------------------------------------------------
(* POST /api/runs *)

\* Fault variant: only the lock file is asked, not the memory of this console.
TriggerByLock(c) ==
  /\ pc[c] = "free" /\ \E r \in Runs : proc[r] = "unborn"
  /\ ~Locked
  /\ Goto(c, "spawn")
  /\ UNCHANGED <<active, last_sig, parent, number, lock, live, proc, sessionVars, dirVars>>

\* Reap the last run if it has exited; refuse while it has not, or while another
\* live process is in the lock file.  Bound: Runs are left.
Trigger(c) ==
  /\ pc[c] = "free" /\ \E r \in Runs : proc[r] = "unborn"
  /\ \/ /\ active[c] # NoRun /\ Exited(active[c])
        /\ FinishActive(c)
        /\ proc' = Poll(active[c])
        /\ \A r \in Runs : lock' = r => proc'[r] = "gone"
     \/ /\ active[c] = NoRun /\ ~Locked
        /\ UNCHANGED <<active, lock, live, proc>>
  /\ Goto(c, "spawn")
  /\ UNCHANGED <<last_sig, parent, number, sessionVars, dirVars>>

\* Which pid a run gets does not matter.
NextRun == CHOOSE r \in Runs : proc[r] = "unborn"

\* Popen also collects killed children that nobody has waited for.
Spawn(c) ==
  /\ pc[c] = "spawn" /\ \E r \in Runs : proc[r] = "unborn"
  /\ LET r == NextRun IN
       /\ proc' = [q \in Runs |-> IF q = r THEN "running"
                                  ELSE IF proc[q] = "zombie" /\ parent[q] = c THEN "gone"
                                  ELSE proc[q]]
       /\ parent' = [parent EXCEPT ![r] = c]
       /\ active' = [active EXCEPT ![c] = r]
  /\ last_sig' = [last_sig EXCEPT ![c] = live]
  /\ Goto(c, "lock")
  /\ UNCHANGED <<number, lock, live, sessionVars, dirVars>>

\* The log file or the process cannot be created: an OSError, and nothing started.
SpawnFails(c) ==
  /\ pc[c] = "spawn" /\ GoFree(c)
  /\ UNCHANGED <<active, last_sig, parent, number, lock, live, proc, sessionVars, dirVars>>

\* Writing the lock may fail without notice.
WriteLock(c) ==
  /\ pc[c] = "lock" /\ GoFree(c)
  /\ lock' \in {active[c], lock}
  /\ UNCHANGED <<active, last_sig, parent, number, live, proc, sessionVars, dirVars>>

-----------------------------------------------------------------------------
(* GET /api/runs/status and POST /api/runs/cancel *)

\* Either endpoint, when the run has exited.
Reap(c) ==
  /\ pc[c] = "free" /\ active[c] # NoRun /\ Exited(active[c])
  /\ FinishActive(c)
  /\ proc' = Poll(active[c])
  /\ UNCHANGED <<pc, last_sig, parent, number, sessionVars, dirVars>>

Watching(c) == pc[c] = "free" /\ active[c] # NoRun /\ Running(active[c])

\* Fault variant: the fingerprint is compared but not kept.
StatusProgressForgets(c) ==
  /\ Watching(c) /\ last_sig[c] # live
  /\ UNCHANGED vars

StatusProgress(c) ==
  /\ Watching(c) /\ last_sig[c] # live
  /\ last_sig' = [last_sig EXCEPT ![c] = live]
  /\ UNCHANGED <<active, pc, parent, number, lock, live, proc, sessionVars, dirVars>>

\* No progress for STALL_TIMEOUT_SEC: time passes in no step of the model.
StatusStalled(c) ==
  /\ Watching(c) /\ last_sig[c] = live
  /\ Goto(c, "kill")
  /\ UNCHANGED <<active, last_sig, parent, number, lock, live, proc, sessionVars, dirVars>>

Cancel(c) ==
  /\ Watching(c)
  /\ Goto(c, "kill")
  /\ UNCHANGED <<active, last_sig, parent, number, lock, live, proc, sessionVars, dirVars>>

\* _terminate_proc: a grace period in which the run may still end by itself, then a
\* kill that is not waited for.
Terminate(c) ==
  /\ pc[c] = "kill"
  /\ \E s \in {"zombie", "gone"} : proc' = [proc EXCEPT ![active[c]] = s]
  /\ stage' = [stage EXCEPT ![active[c]] = "killed"] /\ dir' = [dir EXCEPT ![active[c]] = 0]
  /\ Goto(c, "record")
  /\ UNCHANGED <<active, last_sig, parent, number, lock, live, dirVars>>

\* _write_aborted_run: find a number, create or take its directory, write the record.
LookForRecord(c) ==
  /\ pc[c] = "record" /\ Goto(c, "mkdir")
  /\ number' = [number EXCEPT ![c] = FirstFree]
  /\ UNCHANGED <<active, last_sig, parent, lock, live, proc, sessionVars, dirVars>>

MakeRecordDir(c) ==
  /\ pc[c] = "mkdir" /\ Goto(c, "write")
  /\ MakeOrTake(number[c])
  /\ UNCHANGED <<active, last_sig, parent, number, lock, live, proc, sessionVars, history>>

\* Fault variant: the aborted run leaves no record.
RecordNothing(c) ==
  /\ pc[c] = "write" /\ GoFree(c)
  /\ FinishActive(c)
  /\ number' = [number EXCEPT ![c] = 0]
  /\ UNCHANGED <<last_sig, parent, proc, sessionVars, dirVars>>

\* ... and the end of the endpoint.
RecordAborted(c) ==
  /\ pc[c] = "write" /\ GoFree(c)
  /\ WriteRecord(number[c], active[c], "aborted")
  /\ FinishActive(c)
  /\ number' = [number EXCEPT ![c] = 0]
  /\ UNCHANGED <<last_sig, parent, proc, sessionVars, made>>

\* An OSError on the way is swallowed.
RecordFails(c) ==
  /\ pc[c] \in {"record", "mkdir", "write"} /\ GoFree(c)
  /\ stage' = [stage EXCEPT ![active[c]] = "unrecorded"]
  /\ FinishActive(c)
  /\ number' = [number EXCEPT ![c] = 0]
  /\ UNCHANGED <<last_sig, parent, proc, dir, dirVars>>

\* A console dies; its children have a new parent, which collects the zombies.
Crash(c) ==
  /\ MayCrash
  /\ active' = [active EXCEPT ![c] = NoRun] /\ GoFree(c)
  /\ last_sig' = [last_sig EXCEPT ![c] = 0] /\ number' = [number EXCEPT ![c] = 0]
  /\ proc' = [r \in Runs |-> IF parent[r] = c /\ proc[r] = "zombie" THEN "gone" ELSE proc[r]]
  /\ parent' = [r \in Runs |-> IF parent[r] = c THEN NoRun ELSE parent[r]]
  /\ UNCHANGED <<lock, live, sessionVars, dirVars>>

-----------------------------------------------------------------------------
(* The pytest process, and the manual oscilloscope of the teach pendant. *)

Working(r) == proc[r] = "running"

\* An exited child of a dead console is collected at once.
Ends(r) == proc' = [proc EXCEPT ![r] = IF parent[r] = NoRun THEN "gone" ELSE "zombie"]

\* The session fixture: next_run_dir looks for a number ...
LookForDir(r) ==
  /\ Working(r) /\ stage[r] = "new"
  /\ dir' = [dir EXCEPT ![r] = FirstFree]
  /\ stage' = [stage EXCEPT ![r] = "numbered"]
  /\ UNCHANGED <<consoleVars, lock, live, proc, dirVars>>

\* ... and creates the directory, or fails because it exists: no test runs then.
MakeDir(r) ==
  /\ Working(r) /\ stage[r] = "numbered"
  /\ \/ MakeNew(dir[r]) /\ stage' = [stage EXCEPT ![r] = "open"]
     \/ dir[r] \in made /\ stage' = [stage EXCEPT ![r] = "failed"] /\ UNCHANGED made
  /\ UNCHANGED <<consoleVars, lock, live, proc, dir, history>>

\* Appending changes the size; at its limit the file is truncated and begins anew.
Grown == (live % MaxLive) + 1

WriteSegment(r) ==
  /\ Working(r) /\ stage[r] = "open"
  /\ live' = Grown
  /\ UNCHANGED <<consoleVars, lock, proc, sessionVars, dirVars>>

\* The end of the session: result.json, then the live file is archived and removed.
WriteResult(r) ==
  /\ Working(r) /\ stage[r] = "open"
  /\ WriteRecord(dir[r], r, "result")
  /\ stage' = [stage EXCEPT ![r] = "written"] /\ dir' = [dir EXCEPT ![r] = 0]
  /\ live' \in {0, live}
  /\ UNCHANGED <<consoleVars, lock, proc, made>>

Exit(r) ==
  /\ Working(r) /\ stage[r] \in {"written", "failed"}
  /\ Ends(r)
  /\ UNCHANGED <<consoleVars, lock, live, sessionVars, dirVars>>

\* pytest ends before the end of the session: the tests cannot be collected, or it is
\* killed from outside.
Die(r) ==
  /\ Running(r) /\ stage[r] # "written"
  /\ Ends(r)
  /\ stage' = [stage EXCEPT ![r] = "failed"] /\ dir' = [dir EXCEPT ![r] = 0]
  /\ UNCHANGED <<consoleVars, lock, live, dirVars>>

Hang(r) ==
  /\ Working(r)
  /\ proc' = [proc EXCEPT ![r] = "hung"]
  /\ UNCHANGED <<consoleVars, lock, live, sessionVars, dirVars>>

ManualSample ==
  /\ ManualScope
  /\ live' = Grown
  /\ UNCHANGED <<consoleVars, lock, proc, sessionVars, dirVars>>

Bookkeeping(c) ==
  \/ Trigger(c) \/ Spawn(c) \/ SpawnFails(c) \/ WriteLock(c) \/ Reap(c)
  \/ StatusProgress(c) \/ StatusStalled(c) \/ Cancel(c)
  \/ LookForRecord(c) \/ MakeRecordDir(c) \/ RecordAborted(c) \/ RecordFails(c)
Endpoint(c) == Bookkeeping(c) \/ Terminate(c)
Pytest(r) ==
  \/ LookForDir(r) \/ MakeDir(r) \/ WriteSegment(r) \/ WriteResult(r)
  \/ Exit(r) \/ Die(r) \/ Hang(r)

Next ==
  \/ \E c \in Consoles : Endpoint(c) \/ Crash(c)
  \/ \E r \in Runs : Pytest(r)
  \/ ManualSample

Spec == Init /\ [][Next]_vars

\* The page polls the status, and an endpoint once called runs to its end.  Idle time
\* has to be uninterrupted for a stall, hence weak and not strong fairness.
Polling(c) ==
  /\ WF_vars(StatusProgress(c)) /\ WF_vars(StatusStalled(c)) /\ WF_vars(Reap(c))
  /\ WF_vars(pc[c] # "free" /\ Endpoint(c))
PolledSpec == Spec /\ \A c \in Consoles : Polling(c)

\* A user who cancels whenever cancelling is possible.
CancellingSpec == PolledSpec /\ \A c \in Consoles : WF_vars(Cancel(c))

-----------------------------------------------------------------------------
(* Properties. *)

TypeOK ==
  /\ active \in [Consoles -> Runs \cup {NoRun}]
  /\ pc \in [Consoles -> {"free", "spawn", "lock", "kill", "record", "mkdir", "write"}]
  /\ last_sig \in [Consoles -> 0..MaxLive]
  /\ lock \in Runs \cup {NoRun} /\ live \in 0..MaxLive
  /\ proc \in [Runs -> {"unborn", "running", "hung", "zombie", "gone"}]
  /\ stage \in [Runs -> {"new", "numbered", "open", "written", "failed", "killed", "unrecorded"}]
  /\ parent \in [Runs -> Consoles \cup {NoRun}]
  /\ \A c \in Consoles : pc[c] \in {"lock", "kill", "record", "mkdir", "write"} => active[c] # NoRun

\* console.py:73, "only one at a time", and 297, "two pytest driving the same
\* controller deadlock".
AtMostOneRun == Cardinality({r \in Runs : Running(r)}) <= 1

\* The part of it that one console keeps even across crashes: of the runs it started
\* since it came up at most one is running.
OneRunPerConsole ==
  \A q, r \in Runs : Running(q) /\ Running(r) /\ parent[q] = parent[r] /\ parent[r] # NoRun => q = r

\* A console that comes back finds its orphan in the lock file, whose pid is the run's
\* and not the console's: no second run is started beside a locked one.
LockedRunIsAlone ==
  [][\A r \in Runs : proc[r] = "unborn" /\ Running(r)'
       => lock = NoRun \/ ~Running(lock)]_vars

\* console.py:243: a stuck run "does not disappear silently".  The record of a run,
\* its own or that of its abortion, stays in the history: looking for a free number
\* and taking it are two steps, but while there is one console a record is written over
\* another only when one of the two is of an orphan, of which the console knows nothing.
RecordsStay ==
  [][\A h \in history \ history' : \E r \in Runs :
       /\ parent[r] = NoRun
       /\ r = h.run \/ \E g \in history' \ history : g.run = r]_vars

\* The same with orphans and any number of consoles.
HistoryKept == [][history \subseteq history']_vars

\* A run that a console has killed and let go of has its record, unless the console has
\* died since, could not write it, or an orphan that took the directory too wrote over it.
KilledRunsRecorded ==
  \A r \in Runs :
    stage[r] = "killed" /\ parent[r] # NoRun /\ active[parent[r]] # r
      => "aborted" \in KindsOf(r) \/ \E h \in history : parent[h.run] = NoRun

\* Two sessions never write into the same run directory, whoever started them: of two
\* that find the same number one fails.
DirectoriesAreOwn ==
  \A q, r \in Runs : stage[q] = "open" /\ stage[r] = "open" /\ dir[q] = dir[r] => q = r

\* console.py:551: no progress for the stall timeout means stuck, and the process
\* tree is killed.  A run that hangs is ended as long as its console lives and
\* somebody polls.
HungChildEnds == \A r \in Runs : proc[r] = "hung" ~> Exited(r) \/ parent[r] = NoRun

\* That holds if nobody else, an orphan or the manual oscilloscope, writes into the
\* live file for ever.
LiveFileSettles == <>[][live' = live]_vars
HungRunEnds == LiveFileSettles => HungChildEnds

\* console.py:629, "the run has ended (no need to abort)".  A run whose result was
\* written is not recorded as aborted too.
OneRecordPerRun == \A r \in Runs : Cardinality(KindsOf(r)) <= 1

\* console.py:298, of a run in the lock file that this console does not manage: "end
\* the process first or call POST /api/runs/cancel".  Cancelling ends it.
StrayRunIsCancelled == \A r \in Runs : proc[r] = "hung" /\ lock = r ~> Exited(r)
=============================================================================
