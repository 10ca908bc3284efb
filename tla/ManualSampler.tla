---------------------------- MODULE ManualSampler ----------------------------
(***************************************************************************)
(* The manual oscilloscope of the REST back end (teach_pendant/main.py):   *)
(* the first jog starts a thread that samples the joints into the live     *)
(* file and keeps the activity marker fresh; without a jog for             *)
(* MANUAL_IDLE_SEC the thread removes the marker and ends.  Neither the    *)
(* touching nor the removing need succeed: failures are swallowed, and a   *)
(* marker counts only while it is fresh.  Jogs are served by a pool of     *)
(* threads.                                                                *)
(*                                                                         *)
(* Time is whether the last jog is older than the idle limit, and whether  *)
(* the marker is older than MANUAL_FRESH_SEC.  What the thread writes is   *)
(* LiveStream's subject, and what the jog then does with the controller    *)
(* TeachPendant's.                                                         *)
(***************************************************************************)
EXTENDS Naturals, FiniteSets

CONSTANTS
  Requests,   \* threads of the pool that serve a jog
  Samplers    \* bound: sampler threads alive at once

VARIABLES
  handler,     \* per request: where its jog is
  old,         \* whether _last_jog_ts is longer ago than MANUAL_IDLE_SEC
  sampler,     \* the thread in _sampler if it is alive, or NoSampler
  thread,      \* per sampler thread: where its loop is
  marker,      \* _manual_active(): the activity marker exists and is fresh
  late         \* history: a jog has come while a thread was on its way out, and none
               \* has been started since

samplerVars == <<handler, old, sampler, thread, marker, late>>

NoSampler == "none"
Alive == {s \in Samplers : thread[s] # "dead"}

\* lifespan removes a marker that another process has left, or leaves it to grow stale.
SamplerInit ==
  /\ handler = [r \in Requests |-> "none"]
  /\ old = TRUE /\ sampler = NoSampler
  /\ thread = [s \in Samplers |-> "dead"]
  /\ marker \in BOOLEAN /\ late = FALSE

-----------------------------------------------------------------------------
(* A jog *)

\* The handler begins with the stamp; a request on its way to it is not seen here.  A thread
\* that has found the limit passed ends, whatever comes now.
Jog(r) ==
  /\ handler[r] = "none"
  /\ old' = FALSE
  /\ late' = (late \/ \E s \in Alive : thread[s] = "leaving")
  /\ handler' = [handler EXCEPT ![r] = "ensure"]
  /\ UNCHANGED <<sampler, thread, marker>>

\* _ensure_manual_sampling looks at the thread there is ...  (What follows, the stop and
\* the step, is part of the last step here; the panel only logs the answer.)
Ensure(r) ==
  /\ handler[r] = "ensure"
  /\ handler' = [handler EXCEPT ![r] = IF sampler = NoSampler THEN "start" ELSE "none"]
  /\ UNCHANGED <<old, sampler, thread, marker, late>>

\* ... and starts one.
StartSampler(r) ==
  /\ handler[r] = "start"
  /\ \E s \in Samplers \ Alive :
       /\ sampler' = s
       /\ thread' = [thread EXCEPT ![s] = "run"]
  /\ handler' = [handler EXCEPT ![r] = "none"]
  /\ late' = FALSE
  /\ UNCHANGED <<old, marker>>

-----------------------------------------------------------------------------
(* A sampler thread *)

\* No jog for the idle limit: the loop is left by way of removing the marker.
FindIdle(s) ==
  /\ thread[s] = "run" /\ old
  /\ thread' = [thread EXCEPT ![s] = "leaving"]
  /\ UNCHANGED <<handler, old, sampler, marker, late>>

\* Fault variant: the thread that has ended still counts as the sampler.
LeaveUnseen(s) ==
  /\ thread[s] = "leaving"
  /\ marker' \in {marker, FALSE}
  /\ thread' = [thread EXCEPT ![s] = "dead"]
  /\ UNCHANGED <<handler, old, sampler, late>>

\* The thread ends whether or not the marker could be removed.
Leave(s) ==
  /\ thread[s] = "leaving"
  /\ sampler' = IF sampler = s THEN NoSampler ELSE sampler
  /\ marker' \in {marker, FALSE}
  /\ thread' = [thread EXCEPT ![s] = "dead"]
  /\ UNCHANGED <<handler, old, late>>

\* The marker is touched, a sample taken, perhaps a segment written.  When the touch
\* fails the marker stays as it is, until it is stale.
Sample(s) ==
  /\ thread[s] = "run" /\ ~old
  /\ marker' \in BOOLEAN
  /\ UNCHANGED <<handler, old, sampler, thread, late>>

\* Eight seconds go by without a jog; a jog on its way to the controller has its stamp.
GrowOld ==
  /\ ~old /\ \A r \in Requests : handler[r] = "none"
  /\ old' = TRUE
  /\ UNCHANGED <<handler, sampler, thread, marker, late>>

\* Fault variant: the marker counts as long as it exists.
NeverExpire == marker /\ UNCHANGED samplerVars

\* Ten seconds go by without a touch.
Expire ==
  /\ marker /\ \A s \in Samplers : thread[s] # "run"
  /\ marker' = FALSE
  /\ UNCHANGED <<handler, old, sampler, thread, late>>

Work(r) == Ensure(r) \/ StartSampler(r)

\* A round that finds the limit not passed touches the marker in the same step: the two
\* are not eight seconds apart.
Loop(s) == FindIdle(s) \/ Leave(s) \/ Sample(s)

-----------------------------------------------------------------------------
(* Properties. *)

SamplerTypeOK ==
  /\ handler \in [Requests -> {"none", "ensure", "start"}]
  /\ old \in BOOLEAN /\ marker \in BOOLEAN /\ late \in BOOLEAN
  /\ sampler \in Samplers \cup {NoSampler}
  /\ thread \in [Samplers -> {"run", "leaving", "dead"}]

\* main.py:287: every jog is on the oscilloscope.  While the last jog is recent, and no
\* request is still between its stamp and the start of the thread, a thread samples - unless
\* a jog came between a thread's finding that it is idle and its end.
JogIsSampled ==
  ~old /\ ~late /\ (\A r \in Requests : handler[r] = "none") =>
    \E s \in Alive : thread[s] # "leaving"

\* main.py:145: once nobody jogs any more, all sampler threads end, those that two first
\* jogs have started in parallel included, and manual monitoring comes to count as
\* inactive though a thread may fail to remove its marker: what console.py:179 has its
\* freshness for, so that the streams of the curves end.
SamplersEnd == <>[]old => <>[](Alive = {} /\ ~marker)

\* main.py:173, "idempotent start".  Two first jogs at once start two threads; no run
\* checks this.
OneSampler == Cardinality(Alive) <= 1
=============================================================================
