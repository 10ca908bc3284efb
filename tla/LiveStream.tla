----------------------------- MODULE LiveStream ------------------------------
(***************************************************************************)
(* The live curve: a writer appends trajectory segments, one line each, to *)
(* active.live.jsonl, and the server-sent-events reader _active_stream_gen *)
(* of the console (the teach pendant has a copy, _live_stream_gen) polls   *)
(* the file and pushes what is new.  Writer and reader are processes with  *)
(* nothing but the file between them.                                      *)
(*                                                                         *)
(* The writer is a test run (conftest.py), which writes its segments       *)
(* through a buffer and removes the file at its end, unless the console    *)
(* has to kill it (Cut) and does that itself, or the manual                *)
(* oscilloscope (teach_pendant/main.py), which opens the file for each     *)
(* segment and empties it when it has become too large.  Both at once is   *)
(* left to ConsoleRuns.  Segment s is two pieces, 2 * s - 1 and 2 * s, of  *)
(* which the second has the newline.  A missing file is an empty one to    *)
(* the reader.                                                             *)
(***************************************************************************)
EXTENDS Naturals, Sequences

CONSTANTS
  MaxSegments,   \* bound: segments written
  MaxActive,     \* bound: times the source becomes active
  MaxSize        \* pieces beyond which the manual oscilloscope empties the file

ASSUME BoundsAssumption == MaxSegments \in Nat /\ MaxActive \in Nat /\ MaxSize \in Nat

VARIABLES
  writer,      \* "run" or "manual", throughout
  file,        \* pieces in the file
  buffer,      \* pieces written but not flushed
  source,      \* "writing", "ended" (a run that writes no more), or "inactive"
  starts,      \* times the source has become active
  pos, idle,   \* of the reader
  step,        \* of the reader: "read", "check", or "done"
  events,      \* pieces pushed, each with whether an event ends behind it
  begun,       \* segments written by the writer, into its buffer at first
  renewed      \* history: whether the file may have been begun anew

sourceVars == <<writer, file, buffer, source, starts, begun, renewed>>
readerVars == <<pos, idle, step, events>>
vars == <<sourceVars, readerVars>>

\* A run is registered with the console, or the manual flag is fresh.
IsActive == source # "inactive"

Line(s) == <<2 * s - 1, 2 * s>>
EndsLine(p) == p % 2 = 0

Init ==
  /\ writer \in {"run", "manual"}
  /\ file = <<>> /\ buffer = <<>> /\ source = "writing" /\ starts = 1
  /\ pos = 0 /\ idle = 0 /\ step = "read" /\ events = <<>>
  /\ begun = 0 /\ renewed = FALSE

-----------------------------------------------------------------------------
(* The writer. *)

WriteSegment ==
  /\ source = "writing" /\ begun < MaxSegments
  /\ writer = "run" \/ buffer = <<>>
  /\ begun' = begun + 1
  /\ buffer' = buffer \o Line(begun + 1)
  /\ UNCHANGED <<writer, file, source, starts, renewed, readerVars>>

\* The buffer of a run goes to the file block by block, and a block may end inside a
\* line.
FlushRun ==
  /\ writer = "run"
  /\ \E n \in 1..Len(buffer) :
       /\ file' = file \o SubSeq(buffer, 1, n)
       /\ buffer' = SubSeq(buffer, n + 1, Len(buffer))
  /\ UNCHANGED <<writer, source, starts, begun, renewed, readerVars>>

TooLarge == Len(file) > MaxSize

\* The manual oscilloscope opens, writes and closes for one line.
FlushManual ==
  /\ writer = "manual" /\ buffer # <<>>
  /\ file' = IF TooLarge THEN buffer ELSE file \o buffer
  /\ buffer' = <<>>
  /\ renewed' = (renewed \/ TooLarge)
  /\ UNCHANGED <<writer, source, starts, begun, readerVars>>

\* To unlink the file may fail, which is swallowed.
MayRemove == file' \in {file, <<>>}

\* _archive_active, when the session ends.
Archive ==
  /\ writer = "run" /\ source = "writing" /\ buffer = <<>>
  /\ MayRemove /\ source' = "ended"
  /\ UNCHANGED <<writer, buffer, starts, begun, renewed, readerVars>>

\* The console kills the run, stalled or cancelled: what it had not flushed is lost.
Cut ==
  /\ writer = "run" /\ source = "writing"
  /\ buffer' = <<>> /\ source' = "ended"
  /\ UNCHANGED <<writer, file, starts, begun, renewed, readerVars>>

\* The console reaps the run (_finish_active), or the manual flag goes stale.
Deactivate ==
  /\ source = IF writer = "run" THEN "ended" ELSE "writing"
  /\ buffer = <<>>
  /\ source' = "inactive" /\ IF writer = "run" THEN MayRemove ELSE UNCHANGED file
  /\ UNCHANGED <<writer, buffer, starts, begun, renewed, readerVars>>

Activate ==
  /\ source = "inactive" /\ starts < MaxActive
  /\ source' = "writing" /\ starts' = starts + 1
  /\ renewed' = (renewed \/ writer = "run")
  /\ UNCHANGED <<writer, file, buffer, begun, readerVars>>

-----------------------------------------------------------------------------
(* The reader. *)

\* Fault variant: what is behind the last newline is not pushed, now or later.
LinesEnded(pieces) ==
  [i \in {j \in DOMAIN pieces : \E k \in j..Len(pieces) : EndsLine(pieces[k])}
     |-> [piece |-> pieces[i], ends |-> EndsLine(pieces[i])]]

\* splitlines(): what is behind the last newline is a line too.
Lines(pieces) ==
  [i \in 1..Len(pieces)
     |-> [piece |-> pieces[i], ends |-> EndsLine(pieces[i]) \/ i = Len(pieces)]]

\* A position behind the end of the file reads nothing and stays.
New == SubSeq(file, pos + 1, Len(file))

\* Fault variant: the file is read from its start each time.
ReadFromStart ==
  /\ step = "read" /\ New # <<>>
  /\ pos' = Len(file) /\ idle' = 0
  /\ events' = events \o Lines(file)
  /\ UNCHANGED <<step, sourceVars>>

ReadNew ==
  /\ step = "read" /\ New # <<>>
  /\ pos' = Len(file) /\ idle' = 0
  /\ events' = events \o Lines(New)
  /\ UNCHANGED <<step, sourceVars>>

ReadNothing ==
  /\ step = "read" /\ New = <<>>
  /\ step' = "check"
  /\ UNCHANGED <<pos, idle, events, sourceVars>>

\* Fault variant: an idle poll is not counted.
CheckUncounted ==
  /\ step = "check"
  /\ step' = IF ~IsActive /\ idle > 1 THEN "done" ELSE "read"
  /\ UNCHANGED <<idle, pos, events, sourceVars>>

\* Bound: idle polls beyond the second are not told apart.
Check ==
  /\ step = "check"
  /\ idle' = IF idle < 2 THEN idle + 1 ELSE idle
  /\ step' = IF ~IsActive /\ idle' > 1 THEN "done" ELSE "read"
  /\ UNCHANGED <<pos, events, sourceVars>>

\* An OSError ends the stream.
ReadFails ==
  /\ step = "read"
  /\ step' = "done"
  /\ UNCHANGED <<pos, idle, events, sourceVars>>

Reader == ReadNew \/ ReadNothing \/ ReadFails \/ Check
Next ==
  \/ WriteSegment \/ FlushRun \/ FlushManual \/ Archive \/ Cut \/ Deactivate \/ Activate
  \/ Reader

Spec == Init /\ [][Next]_vars

\* The generator is iterated as long as the client stays connected.
FairSpec == Spec /\ WF_vars(Reader)

-----------------------------------------------------------------------------
(* Properties. *)

TypeOK ==
  /\ writer \in {"run", "manual"} /\ renewed \in BOOLEAN
  /\ source \in {"writing", "ended", "inactive"} /\ starts \in Nat
  /\ begun \in Nat /\ file \in Seq(Nat) /\ buffer \in Seq(Nat)
  /\ pos \in Nat /\ idle \in 0..2 /\ step \in {"read", "check", "done"}
  /\ events \in Seq([piece : Nat, ends : BOOLEAN])

\* Nothing is pushed twice or before what was written earlier, whatever became of the
\* file meanwhile: removed, emptied, or begun anew under the reader's old position.
PushedOnceInOrder ==
  \A i, j \in DOMAIN events : i < j => events[i].piece < events[j].piece

\* Nothing is left out either, however the blocks tear the lines, as long as the file
\* is not begun anew; and the manual oscilloscope's segments arrive whole.
NothingSkipped ==
  ~renewed => \A i \in DOMAIN events :
    /\ events[i].piece = i
    /\ writer = "manual" => (events[i].ends <=> EndsLine(i))

\* A stream whose source stays inactive ends, whatever the reader has read so far
\* (console.py:499).
StreamEnds == <>[]~IsActive => <>(step = "done")

\* console.py:496: "pushes the lines added to the live file".  Every event is a line: it
\* ends with the second piece of one and has the first.
WholeLinesOnly ==
  \A i \in DOMAIN events : events[i].ends =>
    /\ EndsLine(events[i].piece)
    /\ i > 1 /\ ~events[i - 1].ends /\ events[i - 1].piece = events[i].piece - 1

\* test_console.py:361: "the complete response has an event for each segment".  A stream
\* that ended has pushed every segment written before it ended.
NothingMissed == [][step' = "done" => Len(events) = 2 * begun]_vars
=============================================================================
