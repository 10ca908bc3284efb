# Verification of robot-test-platform

TLA+ modules, TLC runs and TLAPS proofs kept beside the robot test platform: a C++ controller
agent with simulated drives, a simulated EtherCAT bus and a safety interlock, and the Python
processes (test console, teach pendant back end, TP/1.0 bridge, desktop panel, test sessions)
that use it over gRPC, REST, TCP and files.

1. [Inventory](#1-inventory): the parts, their state, how they interact, what is hard about them
2. [Modules](#2-modules): which module models which part, and how it corresponds to the code
3. [Runs](#3-runs): what each shows, with which bounds and which fairness
4. [Proofs](#4-proofs): what holds for every value of the constants, and why
5. [Where code and documents disagree](#5-where-code-and-documents-disagree)
6. [Not modelled](#6-not-modelled) and [Plan](#7-plan)

Paths below are relative to the repository; `agent` is `controller-agent/src`, `sim` is
`simulator/src`, `orch` is `orchestrator`.

## 1. Inventory

| Part | State | Operations | Hard about it |
|------|-------|------------|---------------|
| **Controller core** `agent/controller_agent.cpp` | controller and motion state, error, busy flag, motion ids, finished ids, outcomes and samples per motion, three request flags, robot model, executor | Enable, Disable, Home, MoveAbsolute, MoveRelative, Stop, Reset, GetState; the 1 kHz control loop | gRPC workers and the control loop share one mutex and one condition variable; a move blocks until another thread ends its motion; an aborting move sleeps in between; three paths end a motion |
| **Motion simulator** `sim/trajectory.cpp`, `motion_executor.hpp`, `robot_model.hpp` | the plan, the time in it, joint positions | plan, advance, abort | zero velocity or acceleration gives an infinite or an empty plan; NaN compares with no limit |
| **CiA 402 drives** `sim/cia402_state_machine.cpp`, `virtual_drive.cpp`, `object_dictionary.cpp` | per drive: state, last controlword, object dictionary | controlword, fault injection, SDO read and write, mode, target | no lock; edges and levels of the fault reset; copies of one value under several objects, and one that is written and never stored |
| **Virtual EtherCAT bus** `sim/virtual_ethercat.cpp` | kind and slave of the injected fault | exchange, run_cycles, inject, clear | no lock; a frame that fails half way; buffers reused from cycle to cycle |
| **Safety interlock** `sim/safety_state_machine.cpp` and its handler in `agent/main.cpp` | inputs, outputs, previous stop demand | SetSafetyInput, GetSafetyState | no lock; an edge detector between it and the controller |
| **gRPC services** `agent/main.cpp` | none | pass calls on | all of the above from a pool of threads |
| **Run manager of the console** `orch/app/console.py` | the active run in memory, the lock file, the progress fingerprint, the history | trigger, status, cancel | runs are processes that hang, exit or survive the console; consoles crash; files are written and deleted best-effort |
| **Defect view** `orch/app/console.py` | the history and `defect_state.json` | view, close, reopen | numbers are positions in the newest run; the file is read, truncated and written by concurrent requests, with nothing to put back what a broken-off writing took |
| **Live stream** `orch/app/console.py`, `orch/tests/conftest.py`, `orch/teach_pendant/main.py` | a file of segments; position and idle count of the reader | append, archive, truncate; poll and push | writer and reader are processes with only the file between them |
| **Teach pendant REST back end** `orch/teach_pendant/main.py` | time of the last jog, the sampler thread, the activity marker | jog, the controller commands, the oscilloscope | a jog is two controller calls; two handlers and a thread that may be ending, and may fail to remove its marker |
| **TP/1.0 bridge, protocol, simulator** `tp_bridge.py`, `protocol.py`, `tp_simulator.py` | per connection: bytes in flight, unparsed rest | request, response, pushed STATE | two threads write one stream; TCP cuts and joins frames; receives time out |
| **Qt panel** `orch/teach_pendant/qt_panel.py` | polls in flight, buttons, alarm label, held button | poll, jog press, repeat, release | two requests of a poll answered in any order or not at all |
| **Test session** `orch/tests/conftest.py`, `orch/app/report.py`, `orch/app/client.py` | agent process, run directory, live file | start agent, run, archive, write result | ports in use, retries, agents left by others and by killed launchers, several sessions numbering directories at once |
| **Oracles** `orch/oracle/*.py` | none | judge a recorded trajectory | pure functions, but what they may see depends on the controller's interleavings |
| Client, adapters, profile; reports and waveforms; web pages; scripts; SOEM bus | none of their own that is shared | conversions, rendering, start-up | - |

Interaction. Everything that moves the arm goes through the controller core: gRPC handlers call
it (one worker thread per open call), the interlock handler calls its `stop`, the REST back end,
the bridge and the tests are gRPC clients. Drives and bus are separate from the core: only their
two services touch them, so their models stand beside the controller's. Console, test
sessions and REST back end meet in files: the lock file, the live file, the run records, the
activity marker. The panel is an HTTP client of the back end.

What makes each part correct, in a sentence:

- Controller core: every accepted move starts at most one motion and gets that motion's answer;
  motions end once and in order; nobody sleeps past what he waits for; numbers never send the arm beyond
  its limits; a stop that hit a motion holds.
- Drives and bus: no controlword makes a drive oscillate or strands it; answers match outputs;
  injected faults do what their names say; reads see the last write, but for the controlword.
- Interlock: the emergency stop wins, every trip reaches the controller, enabling is held.
- Console: one run at a time, none lost from the history, none stuck for ever; decisions about
  defects fall on the case that was meant, and none is lost but to a known cause.
- Live stream: each segment pushed once and in order, and the stream ends.
- Test session: however starting an agent went, none is left behind unless its launcher is killed
  or does not see it end; the oracle judges a motion
  as the controller does.
- Pendants: a jog starts from rest; the display shows one state; answers belong to requests; the
  oscilloscope runs while, and only while, somebody jogs.

The hazards behind these, line by line, are in `PROJECT.json`.

## 2. Modules

Every module is parameterised by CONSTANTS; `MC*` modules only give TLC values that a `.cfg` file
cannot write (negative numbers, sets of records) and symmetry sets. A definition commented "Fault
variant" is a plausible bug of the definition below it: nothing uses it, except that putting it in
the place of that definition makes a property of the run fail, which shows that the property can
fail.

| Module | Models | Interleaving unit |
|--------|--------|-------------------|
| `ControllerAgent` | the controller core with the motion simulator | a stretch of code that holds `mu_` |
| `StopHistory` | the same, with history variables: which motions a stop, an abort or a Reset has hit | as above |
| `MotionService` | the abstract specification of what a client of moves sees | - |
| `ControllerRefinement` | the mapping from `ControllerAgent` to `MotionService` | - |
| `SafetyInterlock` | the interlock and the handler SetSafetyInput | an access to the unlocked members |
| `MotionOracle` | the same, with the motion states the recorder keeps, and the state oracle that judges them | as above |
| `SafetyLink` | composition of `StopHistory` and `SafetyInterlock` | both |
| `Cia402` | the drive state machine, as functions | - |
| `DriveBus` | drives and bus under Cia402Service and EthercatService | an access to a drive's state or to the fault words |
| `DriveObjects` | the object dictionary of one drive under the same services | an access to the dictionary |
| `TeachPendant` | the jog of REST back end and bridge, over `ControllerAgent` | a controller step |
| `TPLink` | one TP/1.0 connection: client, stream, bridge handler | a `recv`, a `sendall`, a dispatch |
| `LiveStream` | writer of the live file and the SSE reader | a file operation |
| `RunDirs` | numbering and making of run directories, result files | a file operation |
| `ConsoleRuns` | the run manager, its pytest processes, the files between them (extends `RunDirs`) | a process or file operation |
| `AgentSpawn` | starting an agent on one of several ports: test sessions and `run_real_backend.py` | a process operation, a time limit |
| `TestSession` | composition of `LiveStream` and `AgentSpawn` | both |
| `Defects` | defect view and defect_state.json | a file operation, a request |
| `ManualSampler` | jog stamp, sampler threads, activity marker | an access to the shared variables |
| `QtPanel` | the panel's polls and buttons | a slot of the event loop |
| `PendantSession` | composition of `QtPanel` and `ManualSampler` | both |
| `ControllerAgentProofs` (with `ControllerRefinement`), `DriveBusProofs` (with `Cia402`), `DriveObjectsProofs`, `ConsoleRunsProofs`, `TestSessionProofs` (with `LiveStream`), `DefectsProofs` | theorems about the module of that name | - |
| `StopProofs` | theorems about `StopHistory`, `MotionOracle`, `SafetyLink`, `TeachPendant` | - |
| `PendantProofs` | theorems about `PendantSession` and `TPLink` | - |

**ControllerAgent.** The variables are the members of `ControllerAgent` (with `trajectory_` and the
samples reduced to the newest sample's state per motion) plus, per gRPC worker, where in
`run_motion` it is. The wait set of the condition variable is explicit: `cv_.wait` puts a thread in
it, `notify_all` empties it, `SpuriousWakeup` takes one out. `run_motion` is cut at its waits:
`RunMotion` (sections 1-4), `ProceedAfterAbort` (what follows the wait for `busy_`),
`CollectResult` (what follows the wait for the own id), `WaitAgain` (a wake-up whose condition is
false). `MoveRelative` releases the mutex between reading the position and `run_motion`, so it is
two actions. The control cycle is four actions, one per branch of `control_loop`. A joint is an
axis of the integers and NaN, which a client may send like any double; the trajectory's shape is
one of `"ramp"`, `"jump"` (acceleration or deceleration 0: the duration is `max(0, NaN)`, 0, so the
first cycle is the last) and `"stuck"` (velocity 0: infinite duration). The limit check
(`OutsideLimits`) refuses what is below or above a limit, which NaN is not (`robot_model.hpp:51`);
the sum of a position and NaN is NaN (`Plus`); where the way to go is NaN (`NoDistance`) the first
cycle is the last and leaves the arm at NaN (`Blunder`), or at its target if no velocity was asked
for, because then the profile has no phase that the time 0 is in.

**SafetyInterlock, SafetyLink.** `SetSafetyInput` is unlocked: inputs, the flags and the state of
the outputs, the edge test and the remembered edge are separate steps. In `SafetyLink` the
handler's call of `agent_.stop` is the controller's `Stop` or `EmergencyStop`.

**Cia402, DriveBus, DriveObjects.** A controlword is its command and its bit 7. `DriveBus` follows
a call through `set_controlword` (read the state, store the next one), through a frame output by
output with its early returns, and through the cycles of `run_cycles`. `DriveObjects` follows SDO
accesses and frames through the dictionary, where the target is two stores (target, then actual
position), and the state machine may answer any statusword. A controlword, by SDO or in a frame,
goes to the state machine and is stored nowhere (`virtual_drive.cpp:22-24`): the history `current`
has what was written last, the dictionary the 0 it began with.

**MotionOracle.** `seen` holds, per motion, the distinct motion states of its samples in the order
of their first occurrence, which is what `dict.fromkeys` leaves of a trajectory and all the
oracle looks at. The three checks are translated as predicates on such a sequence.

**RunDirs, ConsoleRuns.** A session (`report.py`) and the console (`console.py`) look for a free
number in one step and make the directory in another; the session insists on making it, the console
takes what is there. A console is `free` or inside one endpoint, because the endpoints hold
`_RUN_LOCK`; consoles, pytest processes and the manual oscilloscope interleave. Exited children are
zombies, alive to `os.kill(pid, 0)`, until polled. Best-effort deletes and writes succeed or do
not.

**TPLink.** The stream to the client is a sequence of pieces, two per frame, so that a chunk can
end inside a frame; `Receive` takes any prefix. `fed` and `sent` record what `FrameStream` gave out
and what the bridge wrote.

**AgentSpawn, TestSession.** A launcher goes over its ports: spawn, wait for the line with the port
in the log (sessions only), wait for anybody's answer on the port, kill and try the next one. An
agent reports its port before it binds it and may share it, never bind it, or die. `Taken` are
ports on which an agent of nobody here listens. A launcher can be killed wherever it is (`Killed`):
a session by the console, which on Windows kills the whole tree of processes and elsewhere pytest
alone (`_terminate_proc`, `console.py:191-223`), the back end by anybody; and the back end swallows
that its agent did not end within five seconds (`run_real_backend.py:112-116`). The agent that is
left to itself is then the agent of that lapse, a number, and keeps its port (`LeaveBehind`). In
`TestSession` segments are written while the launcher's agent is up, and the session gives up its
live file after the agent's fixture has been torn down, or with its life (`SessionKilled`).

**LiveStream.** Segment `s` is the pieces `2s - 1` and `2s`, the second with the newline; `events`
is what was pushed, piece by piece, with the places where an event ends. A run's writer is block
buffered; the manual writer opens, writes and closes, and truncates at its limit. A run that is
killed (`Cut`) loses what it had in its buffer; the session and the console may each fail to remove
the file, which both swallow (`MayRemove`). The reader is the generator's loop: read what is new,
otherwise count an idle poll and look whether the source is active; an OSError ends the stream
(`ReadFails`).

**Defects.** Runs are sequences of results; numbers are positions in the newest. A click carries
the number from an older look. The handler is find, load, truncate, write, answer; a torn file
reads as empty. To open the file may fail (`OpenFails`), to write it may fail (`WriteFails`), and
the console may be killed and started again at any time (`Crash`): `_save_defect_state`
(`console.py:390-394`) has nothing against either, so after the truncation both leave the file
empty or torn, and the decisions that were in force are gone. The history `forgotten` has those,
until a case is decided anew.

**ManualSampler, QtPanel, PendantSession.** Time is whether the last jog is older than the idle
limit, and whether the marker is older than the one on its freshness (`Expire`). The thread may
fail to touch the marker and to remove it, both swallowed; it ends all the same (`Leave`), and then
the marker counts until it is stale. A poll is two requests served and answered separately, each
possibly failing. The composition adds that a held button sends jogs without waiting for the
earlier ones.

## 3. Runs

Each run is a `.cfg` beside the modules: `tlc -config <Run>.cfg <Module>.tla`. States are
distinct states of the complete graph.

| Run (`.cfg`, module) | Bounds | States | What it shows |
|---|---|---|---|
| `MotionOracle`, `MCMotionOracle` | 2 threads, 3 motions, limits -1..1, a target inside, one beyond, and NaN | 3.7 M | see below |
| `ControllerService`, `MCControllerRefinement` | 2 threads, 2 motions, all three profiles, NaN among the targets | 137 k | every call returns, a Stop ends any motion, the controller implements `MotionService` |
| `FaultRefusesMotion`, `MCControllerAgent` | 2 threads, 3 motions | - | expected to fail: section 5 |
| `SafetyLink`, `MCSafetyLink` | 1 handler, 1 thread, 1 motion that never ends by itself | 216 k | the emergency stop wins, a trip ends the motion |
| `DriveBus`, `MCDriveBus` | 1 worker, 2 drives, 5 frames, 2 cycles, every command word, every slave a bus fault may name | 456 k | drives settle and recover; inputs answer outputs; a fault of one slave leaves the others |
| `DriveObjects` | 2 workers, values 0..2, modes modulo 2, 2 statuswords | 3.9 M | the actual position follows the target; reads are current, but for the controlword |
| `ConsoleRuns` | 1 console that may crash, 2 runs, the oscilloscope beside it | 69 k | runs of one console; directories and history; a hung run ends |
| `Defects`, `MCDefects` | 2 users, 2 cases, 3 runs, 2 clicks; crashes and failed writings without bound | 765 k | decisions and the view |
| `TeachPendant`, `MCTeachPendant` | 2 pendants, 3 motions | 158 k | a jog reads a resting arm |
| `TPLink` | 4 requests, 3 pushed states, 2 timeouts | 11 k | framing; which answer a send gets |
| `TestSession` | 3 segments, 2 activations, truncation beyond 2 pieces; 3 ports, one taken, 2 attempts | 739 k | what is pushed; the stream ends; which agents are left behind; a session ends |
| `PendantSession` | 2 requests of the pool, 2 sampler threads | 223 k | display and oscilloscope |

**Controller, safety.** `FinishedInOrder` (ids complete once and in order, though control loop and
`disable` both end motions), `NoLostWakeup` (every path that ends a motion notifies),
`OneCallerPerMotion`, `VerdictIsOutcome` (the state oracle, which knows nothing but the samples of
a motion, and the result filed for it agree: the one passes what the other calls done, aborted or
stopped by an emergency), `StaysWithinLimits` (the arm and the plan in progress are inside the
limits or NaN, though a relative target is computed from a position read earlier and an aborting
target is checked only after the wait; that NaN gets in at all is in section 5),
`StoppedMotionStays`, `StoppedIsNotDone` and `AbortedOnlyWhenAsked` (a stop, an abort and an
emergency stop have an effect on the motion they hit, until a Reset, and on no other). Two threads
are what the abort protocol takes: one to run a motion and one to abort it, while Stop, Disable and
Reset come from anywhere. Three motions are a motion, the one that preempts it, and the one that
comes in between. `"jump"` and the delta -1 are exercised by `ControllerService`.

**Controller, service.** `EveryCallReturns` needs the hypothesis that a `"stuck"` motion is not in
progress for ever; such a motion is the code's own behaviour for velocity 0. `StopEndsMotion` needs
none. `ImplementsService` is the refinement, with the liveness of `MotionService`: an ended motion
is answered.

**Safety link.** One handler: calls of SetSafetyInput one after the other (two at once are in
section 5). A profile that never ends makes `TripStopsMotion` depend on the trip alone.

**Drives and bus.** One worker, likewise. `AlwaysRecoverable` evaluates, in every reachable state,
every controlword repeated and the power-on sequence. The frames cover one drive, two drives,
one drive twice, and an unknown drive behind a known one.

**Drive objects.** Two workers, all interleavings. The history variable `lone` says which write of
the target was the last to begin, and whether it overlapped another: the two positions may differ
only then. Two workers suffice for every overlap of two stores; section 4 proves it for any number.
`ReadsAreCurrent` has one exception, and states it: a controlword written is not what a read of
0x6040 answers, which is always 0.

**Console runs.** One console is what the code is written for; two are in section 5. Two runs let
one be an orphan of a crash while the next is asked for. Across crashes `OneRunPerConsole` holds,
no run is started beside one that the lock names (`LockedRunIsAlone`), a run that was killed and let
go of has its record (`KilledRunsRecorded`), no two sessions work in one directory
(`DirectoriesAreOwn`), and a record is written over by another only when one of the two is an
orphan's (`RecordsStay`). `HungRunEnds` has the hypothesis that nobody else writes into the live
file for ever. Two numbers of directories are enough for two to look for one at the same time.

**Test session.** One launcher, a session or the back end, since agents meet only at ports: `Taken`
puts a stranger's agent on the first. Two attempts of three ports reach the case that a session
gives up while the back end would go on. `NoAgentLeaks` accounts for every agent: it is its
launcher's only one, and gone when that has failed or ended or, of a session, when the console lets
the next begin; or it is one of those that a killed launcher or a back end that swallowed a
timed-out wait has left behind. (That there are such is in section 5, `NoOrphans`.) Each lapse ends
its launcher, so two activations bound them; an orphan keeps its port and meets the next session
there. `SessionGoesOut` says that a session comes to its end, whatever occupies the ports.

**Defects.** Runs of two cases with either failing, with none failing, and one of the second case
only, which gives it the first number. `DecisionsKept` is about handlers that do not overlap, and
says of a writing that breaks off, by a crash or an error, exactly what it takes: every decision in
force then, and nothing that is decided later. Whatever else happens, a crash at any other place or
a file that does not open, takes none.

**Teach pendant, TP link, panel.** The bounds let each disturbance occur at least twice: two
pendants jogging, more timeouts than one (each can put the answers one request behind:
`AnswersFallBehindByTimeouts`), a second jog that comes while the first is in each of its steps.
`SamplersEnd` holds although the marker may never be removed: it goes stale (`console.py:179`,
`teach_pendant/main.py:194`).

**Deadlock** is checked except in `ConsoleRuns`, `TPLink` and `TestSession`, where a behaviour
ends when its bounded runs, requests or segments are used up.

**Symmetry** (permutations of `Threads`) is used only in runs without liveness: `MotionOracle`
and `TeachPendant`.

### Fairness

| Specification | Assumed | Why the code justifies it |
|---|---|---|
| `ControllerAgent!FairSpec` | weak: control cycle; each worker's next step inside a call | the loop wakes up each period and takes the mutex; a runnable worker is scheduled. No client has to call |
| `SafetyLink!LinkSpec` | weak: control cycle; a SetSafetyInput under way | as above; no client has to send inputs |
| `ConsoleRuns!PolledSpec` | weak: status endpoint, steps inside an endpoint | the page polls while it is open; endpoints have no unbounded wait |
| `TestSession!FairSession` | weak: reader; the launcher's steps, the flush and the end of a session | the generator is iterated while the client is connected; every wait of a launcher has a time limit and the tests of a session end |
| `PendantSession!FairSession` | weak: event loop, requests, back-end threads, the clock of the marker | the timer fires, requests end by answer or timeout, threads are scheduled, time passes |

Pytest processes, users, clients, failures, crashes and changes by others are never fair.

## 4. Proofs

`tlapm` checks these modules from nothing; all theorems hold for any set of threads or workers,
any limits within the stated assumptions, any inputs and any bound.

**`ControllerAgentProofs`.** Assumptions: the limits are integers around 0, inputs are integers or
NaN, which is no integer, profiles are the three modelled (`LimitsAssumption`, `InputAssumption`,
`NaNAssumption`, `ProfileAssumption`). The invariant is

    IInv == TypeOK /\ FinishedInOrder /\ NoLostWakeup /\ OneCallerPerMotion

None of the last three is inductive alone. That a finishing step wakes everybody who waits needs
`FinishedInOrder` (the finished id is new and is the current one); that the ids stay consecutive
needs `OneCallerPerMotion` and the part of `TypeOK` about `my_id` (a running motion has an id that
has been given out); that a started motion gets one caller needs that no other thread holds its id.
There is a lemma for each kind of step (return, start, request of an abort, end of a motion,
waiting) and one step of `NextIInv` per action. Theorems: `Typing`, `CompletionOrder`, `Wakeups`,
`Callers`; on top of `IInv`, with their own induction, `Limits` (position and plan inside the
limits or NaN; every value is an integer or, if a client may send it, NaN (`Doubles`), so the
theorem also says that without such a client there is no NaN and the arm never leaves its limits)
and `Outcomes` (result agrees with the newest sample).

Its last part is `ServiceSafety`: under the mapping of `ControllerRefinement` initial states are
initial states of `MotionService`, and each step is `Begin` (a start), `Progress` or `End` (control
cycle, disable), `Answer` (collect) or a stutter. It uses `IInv` and the limits; the mapping lets a
motion end at what compares with no limit (`Nowhere`), nothing else. This is the safety half of
`ImplementsService`; the other half, fairness, is model-checked only.

**`DriveObjectsProofs`.** Assumptions: the sizes are positive, statuswords are values, and no
worker is called "torn" or "none". The invariant adds to the properties

- `OneFollows`: as long as writes do not overlap there is at most one writer between its two
  stores, it is the last that began, and the stored target is still its own;
- `FeedbackHeld`: between the stores and the reading of its input such a frame still finds its own
  value;
- `HistoryFits`: what the history expects of each object is what a read would answer, except of the
  controlword, of which the type invariant says that the dictionary has 0.

Theorems: `Typing`, `Mirroring` (`ActualFollowsTarget`), `Feedback` (`FeedbackIsMine`),
`FreshReads` (`ReadsAreCurrent`, an action property).

**`StopProofs`.** About `StopHistory`, and the modules that extend it or `ControllerAgent`. The
invariant

    HInv == HistoryType /\ FlagsAsked /\ AskedFlags /\ StoppedIsNotDone /\ AbortedOnlyWhenAsked

relates the flags of the controller to the history: if the motion in progress can be aborted, it
was asked to end (`FlagsAsked`), and if it was asked to end or emergency-stopped, and not reset,
then a flag still says so (`AskedFlags`). The flags are about whatever motion is current and the
history is about ids, so this is where a start that did not clear them, or a control cycle that
looked at them too late, would fail. Theorems: `StoppedNotDone`, `AbortIsAsked`, `StoppedStays` (an
action property).

`Verdicts` (`VerdictIsOutcome`, any callers, limits and inputs) adds `OracleInv`: the motion in
progress has no final sample (`Unfinished`), an outcome's error code says what its motion's newest
sample says (`CodesAgree`), and the distinct states of a motion are that sample, after ACTIVE or by
itself (`SeenShape`).

`EstopShows` and `EdgeIsSeen` are about `SafetyLink` with one handler: while a call is under way,
its result is what the matrix says of the inputs, and between calls the outputs are so too, and
the remembered edge is the outputs' demand. With two handlers the first is false (section 5).

`JogRests` (`JogReadsRestingArm`, an action property of `TeachPendant`) adds to `IInv` that between
the Stop of a jog and the start of its step a motion in progress has an abort requested, unless the
jog was disturbed: only a motion that somebody else started, or a Reset, takes the request away,
and the control cycle that finds it does not move the arm.

**`DriveBusProofs`.** Any number of workers, drives and cycles, and any set of frames over the
controlwords. `DrivesSettle` and `DrivesRecover` are about the drive alone, every state and every
word: no controlword repeated makes a drive oscillate, and the power-on sequence, from whatever
state, ends in OperationEnabled. `IInv` says that the drives are drives and that every call fits
the place where it is (`CallFits`): a worker in the middle of an exchange has one input for each
output before its position, in order, and the first and last inputs of `RunCycles` are complete as
soon as the cycle count says there are any. Theorems: `TypeCorrect`, `Recoverable`
(`AlwaysRecoverable`), `InputsMatch` (`InputsMatchFrame`).

`NamedAlone` (`OnlyNamedSlaveIsLost`, an action property) assumes `OneWorker`, at most one call at
a time, and adds `FaultIsNamed`: where no injection is half done the slave of a SLAVE_LOSS has been
named. With two workers it is false (section 5), because the two fault words are written one after
the other.

**`ConsoleRunsProofs`.** Any number of consoles and runs, crashes included. To the properties
the invariant adds `ChildKnown` (a console's running child is the one it remembers, and while it
starts one it has none), `RecordedIsOver` (what is being recorded as aborted does not run),
`OpenHasDir` (an open session's directory exists, so nobody can make it again) and `LockWasBorn`.
Theorems: `Typing`, `OneRun`, `OwnDirs`.

`BooksFit` is a second invariant on top of it, for the stages of a run (what a console remembers is
a run it started, and a killed one only as long as it is being recorded). The other theorems assume
`OneConsole`, the case the lock file is written for, with crashes and orphans:

- `LockedAlone` (`LockedRunIsAlone`): between the look at the lock file and the start of the child,
  the run that the file names, if any, is over (`LockIsOver`);
- `KilledHaveRecords` (`KilledRunsRecorded`) and `RecordsLast` (`RecordsStay`): while the console
  writes the record of a killed run no child of its own is running, so only an orphan can take the
  directory in which it writes, or have taken it.

With two consoles each of the three is false: they find the lock free, or a number, both at once.

**`TestSessionProofs`.** Any launchers, ports, attempts and taken ports. `LeakInv` says of every
launcher that it has one agent at most and none where it is idle, failed or over, and of every
lapse that it has left one agent at most (`OneAtATime`); of every agent that a launcher, the
platform or a lapse that has happened owns it (`EveryAgentOwned`); and of a session that has ended
or was killed that it is over (`GaveUp`). Lapses get new numbers, so one adds no agent to
another's. Theorem: `NoLeak`.

Of the live stream, for any number of segments and activations and any size limit: `StreamInv` says
that the pieces rise strictly through the file and then the buffer (`FileThenBuffer`), with gaps
where a run was cut or a file emptied, and that everything pushed is below every piece of the file
behind the reader's position and below every piece of the buffer (`PushedIsBehind`): a file begun
anew, or one nobody could remove that the next run goes on with, gets later pieces only, so
whatever position the reader comes with, what it finds there is later than all it has pushed. In
the first file the pieces have no gap and the position counts what was pushed (`FirstFile`).
Theorems: `NothingTwice` (`PushedOnceInOrder`), `NothingLost` (`NothingSkipped`).

**`DefectsProofs`.** Any cases, run records, users and bounds. The invariant: a handler that has
found its number knows a run that stays, and a defect of it (`Found`); every decision in any copy
of the file was asked for (`Traced`); without overlaps one handler at most changes the file, it has
read every decision in force, and the file is torn while it writes and otherwise has those
(`Alone`). Theorems: `FailuresDecided`, `DecisionsStay`, `DecisionsOverride`.

**`PendantProofs`.** Any pool of requests, any sampler threads. Of the panel: the counter
counts the open requests, and an undisturbed poll holds the answers of now, or has shown
them. Of the sampler: a jog that is recent has a thread that will see it. Theorems: `Display`,
`Sampling`.

Of the wire (`TPLink`), for any number of requests, pushes and timeouts: `LinkInv` says

- `StreamWhole`: what was fed is the beginning of what was sent, and buffer and wire together carry
  the rest, two pieces a frame from the first one on, with less than a frame in the buffer;
- `ResponsesInOrder`: the responses sent, the request being served and the requests waiting are all
  there is, in the order in which they were asked;
- `FewUnanswered`: the client has been fed all responses but one for each timeout, and the one
  it waits for.

That `FrameStream` takes the right frames out of such a stream (`FramesOf`, `RestOf`) is proved by
counting newlines: `FramesIn` is defined by the position of the k-th one, and the number of newlines
among the first i pieces is the cardinality of a set. Theorems: `Lossless` (`StreamIsLossless`),
`FallBehind` (`AnswersFallBehindByTimeouts`).

Only model-checked: all liveness, which needs ENABLED, for which the provers have no rule:
`EveryCallReturns`, `StopEndsMotion`, the fairness of `ImplementsService`, `TripStopsMotion`,
`HungRunEnds`, `StreamEnds`, `SessionGoesOut`, `SamplersEnd`, `DisplayCatchesUp`. Every invariant and
every action property that a run checks is proved. The model is written so that this needs no
induction over data: frames and pushed lines are functions of a position rather than the
results of a fold, and the power-on sequence is the composition of its steps.

## 5. Where code and documents disagree

`FaultRefusesMotion` is kept as a run that fails: `run_motion` tests the controller state once,
before it waits for the motion it aborts (`controller_agent.cpp:162`, `:184`), and starts its own
after a Disable or an emergency stop that came in between. `docs/design.md:208`: FAULT refuses
motion.

The following properties state what a comment, a document or a test says and are defined beside
the others, without a run. Each fails under the given constants, which can be put in a `.cfg`
to get the behaviour. CA(n) stands for the constants of `FaultRefusesMotion.cfg` with `MaxId = n`,
SL for those of `SafetyLink.cfg`, CR for those of `ConsoleRuns.cfg`, TS for those of `TestSession.cfg`.

| Property | Specification, constants | What happens |
|---|---|---|
| `EnabledHoldsNoEmergency` | `MCControllerAgent!Spec`, CA(2) | Emergency stop without a motion, then Disable, Enable: `disable` leaves FAULT with the request still set (`controller_agent.cpp:66`), and the next motion ends at once |
| `EmergencyStopIsFinal` | `MCMotionOracle!JudgedSpec`, CA(2) | A Reset before the next control cycle takes an accepted emergency stop back and the motion goes on (`:130`) |
| `OkMeansDone` | `MCControllerAgent!Spec`, CA(3) | `disable` files no outcome; the caller gets the global state, which a later motion may have made DONE (`:248`) |
| `AbortPreempts` | `MCMotionOracle!JudgedSpec`, CA(3) | A start clears the abort of a waiter that has not resumed; it sits through somebody else's motion (`:223`) |
| `AbortsPass` | `MCMotionOracle!JudgedSpec`, CA(1) | A stop that meets a motion before its first cycle leaves ABORTED alone in the samples, and the oracle, which wants BUSY or ACTIVE before, fails what the controller did right (`state_machine.py:62`) |
| `NeverLeavesLimits` | `MCControllerAgent!Spec`, CA(1) with `Targets = {NaN}` | The limit check is two comparisons, both false of NaN (`robot_model.hpp:51`); the duration of the plan is `max(0, NaN)`, 0 (`trajectory.cpp:74`), and the first cycle puts the arm at NaN. `controller_agent.cpp:187`: a target beyond the limits is an error and must not move |
| `AtRestWhenIdle` | `MCControllerAgent!Spec`, CA(2) | After Disable in a motion the model keeps its velocity (`:60`) |
| `EstopWins` | `SafetyInterlock!SafetySpec`, 2 handlers | Two calls store inputs in one order and outputs in the other (`main.cpp:410`) |
| `BrakeBlocksEnable` | `SafetyInterlock!SafetySpec`, 1 handler | Before the first call the outputs allow enabling with the brake not released (`safety_state_machine.hpp:26`) |
| `EstopReachesController` | `SafetyInterlock!FairSafetySpec`, 1 handler | From GUARDED to ESTOP is no rising edge (`main.cpp:413`) |
| `InterlockHoldsEnable` | `MCSafetyLink!LinkSpec`, SL | `enable` does not look at the interlock (`controller_agent.cpp:35`) |
| `DriveFaultStopsMotion` | `MCSafetyLink!LinkSpec`, SL | FAULT demands a stop that is passed on to nobody (`main.cpp:415`) |
| `LastInputsGiven` | `MCDriveBus!Spec`, 1 worker, 2 slaves, `RaceWords`, `RaceFrames`, 2 cycles | RunCycles with one cycle has moved its last inputs away (`virtual_ethercat.cpp:133`) |
| `InjectedFaultSticks` | `MCDriveBus!Spec`, 2 workers, 1 slave, `RaceWords`, `RaceFrames`, 0 cycles | A controlword under way overwrites the injected fault (`cia402_state_machine.cpp:38`) |
| `OnlyNamedSlaveIsLost` | `MCDriveBus!Spec`, 2 workers, 2 slaves, `RaceWords`, `RaceFrames2`, 0 cycles | A frame sees the kind of a new fault with the slave of an old one (`virtual_ethercat.cpp:41`) |
| `ControlwordReadsBack` | `DriveObjects!Spec`, its constants with 1 worker | A write of 0x6040 is answered ok and goes to the state machine only; a read answers the 0 of the dictionary (`virtual_drive.cpp:22-24`). `object_dictionary.hpp:13`: RW |
| `AtMostOneRun` | `ConsoleRuns!Spec`, CR with 2 consoles and no crash, or as it is | Two consoles both find the lock free (`console.py:293`); a console dies between start and lock (`:320`) |
| `HistoryKept` | `ConsoleRuns!Spec`, CR, or with 2 consoles and no crash | A session and a console that find the same number free write one result over the other (`report.py:50`, `console.py:249`) |
| `OneRecordPerRun` | `ConsoleRuns!Spec`, CR | A run that has written its result is cancelled and recorded again (`console.py:630`) |
| `HungChildEnds` | `ConsoleRuns!PolledSpec`, CR without crash | The oscilloscope's writes count as the run's progress (`console.py:562`) |
| `StrayRunIsCancelled` | `ConsoleRuns!CancellingSpec`, CR without oscilloscope | A console that comes back can neither start beside its orphan nor cancel it (`console.py:621`) |
| `JogAvoidsBusy` | `MCTeachPendant!PendantSpec`, its constants with `MaxId = 2` | The step overtakes the effect of the stop (`tp_bridge.py:143`) |
| `AnswerIsMine` | `TPLink!Spec`, 2 requests, 2 pushes, 1 timeout | A late answer is taken for the next one's (`tp_simulator.py:41`) |
| `EverySendReturns` | `TPLink!FairSpec`, 2 requests, 2 pushes, 0 timeouts | A response in one chunk behind a STATE is dropped (`tp_simulator.py:57`) |
| `ServedByOwnAgent` | `TestSession!FairSession`, TS | Any agent that has the port answers, and who waits for his own takes it (`conftest.py:164`); the one he started may be gone. `main.cpp:543`: a port that cannot be bound is absorbed by the retries |
| `NoOrphans` | `TestSession!FairSession`, TS | A session that the console kills leaves its agent where only pytest is killed: everywhere but on Windows (`console.py:571`, `:630`, `:210-223`), and there when `taskkill` fails, which is swallowed (`:198-203`). `:192` says that the whole tree of processes must be killed. A back end leaves its agent when it is killed, or when it swallows that the agent did not end in time (`run_real_backend.py:112-116`) |
| `WholeLinesOnly`, `NothingMissed` | `TestSession!FairSession`, TS with 1 activation | A line in two blocks is two events (`console.py:514`); the last segments are removed with the file before they are read (`conftest.py:115`), or die in the buffer of a run that is killed, or an error of the file system ends the stream (`console.py:511`) |
| `NoDecisionLost` | `MCDefects!Spec`, 1 run, 1 user | The file is truncated and then written (`console.py:390-394`): a crash or an error in between and every decision acknowledged before is gone, without any overlap. With 2 users, two handlers overlap and one decision, or through the truncated file all, are gone (`:766`) |
| `OneSampler` | `PendantSession!SessionSpec` | Two first jogs start a thread each (`teach_pendant/main.py:175`) |
| `AlarmStays` | `PendantSession!SessionSpec` | A failed poll clears the alarm label (`qt_panel.py:435`) |

Two more that no single property states: `_write_aborted_run` swallows an OSError, so an aborted
run can be in no history (`console.py:271`; the stage `unrecorded`), and the position of the
stream's reader survives the removal of the file, so a stream still open when the next run starts
skips its beginning (`console.py:507`; the variable `renewed`).

## 6. Not modelled

- The oracles of positions, velocities, trajectories and timing: floating-point statistics over
  samples, likewise without state.
- Floating-point trajectories, the synchronisation of seven axes, and the contents of samples:
  numerics that TLC cannot enumerate. Of the values that are no numbers NaN is modelled; an
  infinite target is beyond a limit like any other, and an infinite increment likewise.
- Timing statistics of `run_cycles`, the real-time behaviour of the loop: there is no clock.
- The SOEM bus: a skeleton whose operations fail unless built with a library that is not here.
- Read-only endpoints, rendering of reports and waveforms, profile, adapters and the rest of the client:
  conversions without state of their own.
- Web pages (browser code over the same endpoints), scripts and launchers.
- Stopping the oscilloscope when the back end ends (`teach_pendant/main.py:183-191`).
- Memory ordering below the level of one access: an access to an `int`, `bool` or enum is one step.

## 7. Plan

Order of what exists: controller core, its history, its oracle and its refinement, interlock and
link, drives and bus, run directories and run manager, pendant and its wire, live stream, agents and
sessions, dictionary, defects, panel. To come:

1. Proofs: each agent that `AgentSpawn` leaves on a port answers nobody else's launcher as long as
   ports are not shared.
2. The end of the back-end process as a step of `ManualSampler`.
3. An abstract specification of the run manager ("at most one run, each ends in the history"), which
   `ConsoleRuns` with one console that does not crash implements.
