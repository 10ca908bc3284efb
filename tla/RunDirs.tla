------------------------------- MODULE RunDirs --------------------------------
(***************************************************************************)
(* The run history on disk: numbered directories reports/run_<day>_<n>,    *)
(* each with at most one result.json.  Test sessions (report.py) and the   *)
(* console (console.py) number them in the same way and without a lock:    *)
(* they look for a free number and create the directory in another step.   *)
(* A session insists on a new directory, the console takes an existing one.*)
(***************************************************************************)
EXTENDS Naturals, FiniteSets

VARIABLES
  made,     \* numbers of the directories that exist
  history   \* the result files: in which directory, of which run, of which kind

dirVars == <<made, history>>

DirsInit == made = {} /\ history = {}

\* Fault variant: the loop stops one number early.
LastTaken == IF made = {} THEN 1 ELSE Cardinality(made)

\* The first number whose directory does not exist.
FirstFree ==
  CHOOSE n \in 1..(Cardinality(made) + 1) : n \notin made /\ \A k \in 1..(n - 1) : k \in made

\* Fault variant: mkdir(exist_ok=True), as the console has it.
MakeAnyhow(n) == made' = made \cup {n}

\* d.mkdir(parents=True): a FileExistsError if somebody was faster.
MakeNew(n) == n \notin made /\ made' = made \cup {n}

\* d.mkdir(parents=True, exist_ok=True)
MakeOrTake(n) == made' = made \cup {n}

\* result.json replaces what the directory had.
WriteRecord(n, r, k) ==
  history' = {h \in history : h.dir # n} \cup {[dir |-> n, run |-> r, kind |-> k]}

KindsOf(r) == {h.kind : h \in {x \in history : x.run = r}}
=============================================================================
