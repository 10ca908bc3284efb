------------------------------ MODULE Defects --------------------------------
(***************************************************************************)
(* The defect view of the console (app/console.py): computed from the run  *)
(* records and from defect_state.json, the decisions of people, on every   *)
(* request.  The requests that close or reopen a defect read that file,    *)
(* change one entry and write it back; FastAPI serves them from a pool of  *)
(* threads and nothing locks the file, which is truncated before it is     *)
(* written.  Opening or writing it may fail, and the console may be killed *)
(* at any time and started again: the file is all that it keeps.  Test     *)
(* runs end meanwhile, and number the cases anew.                          *)
(*                                                                         *)
(* A user looks at the view and then sends a number from it.  The cases of *)
(* a run have different names.                                             *)
(***************************************************************************)
EXTENDS Naturals, Sequences, SequencesExt

CONSTANTS
  Cases,       \* names of test cases
  Runs,        \* what runs record: sequences of [name, passed]
  Users,       \* each with one request at a time
  MaxRuns,     \* bound: runs recorded
  MaxClicks    \* bound: requests sent

ASSUME RunsAssumption ==
  \A r \in Runs : r \in Seq([name : Cases, passed : BOOLEAN]) /\
    \A i, j \in DOMAIN r : r[i].name = r[j].name => i = j

VARIABLES
  runs,      \* records, oldest first
  file,      \* defect_state.json: case -> decision, or Torn
  request,   \* per user: where its request is, and the locals of its handler
  clicks,    \* requests sent
  asked,     \* history: decisions that handlers have made, as <<case, action>>
  decided,   \* history: per case the decision acknowledged last
  overlapped,\* history: whether two handlers were ever between load and save at once
  forgotten  \* history: cases whose decision was in force when a writing broke off

histories == <<asked, decided, overlapped, forgotten>>
vars == <<runs, file, request, clicks, histories>>

Actions == {"CLOSE", "REOPEN"}
NoDecisions == [c \in Cases |-> "NONE"]
\* A text that does not parse: nothing, or a piece of what was to be written.
Torn == <<>>

NoRequest ==
  [pc |-> "idle", seen |-> 0, bug |-> 0, action |-> "CLOSE", runs |-> 0,
   manual |-> NoDecisions]

Init ==
  /\ runs = <<>> /\ file = NoDecisions
  /\ request = [u \in Users |-> NoRequest]
  /\ clicks = 0 /\ asked = {} /\ decided = NoDecisions
  /\ overlapped = FALSE /\ forgotten = {}

-----------------------------------------------------------------------------
(* The view *)

\* A file that does not parse counts as empty.
LoadDefectState == IF file = Torn THEN NoDecisions ELSE file

\* Numbers are positions in the newest of the first n runs.
Newest(n) == IF n = 0 THEN <<>> ELSE runs[n]
Name(n, bug) == Newest(n)[bug].name

FailedHistory(n) ==
  {c \in Cases : \E i \in 1..n - 1 : \E j \in DOMAIN runs[i] :
                    runs[i][j].name = c /\ ~runs[i][j].passed}

AutoOpen(n) == {bug \in DOMAIN Newest(n) : ~Newest(n)[bug].passed}

\* The history is read again for each view, when there may be m runs.
AutoClosed(n, m) ==
  {bug \in DOMAIN Newest(n) : Newest(n)[bug].passed /\ Name(n, bug) \in FailedHistory(m)}

Listed(n) == AutoOpen(n) \cup AutoClosed(n, n)

\* Fault variant: decisions are kept by number.
MarkedByNumber(n, manual, action) ==
  {bug \in DOMAIN Newest(n) : n > 1 /\ bug \in DOMAIN Newest(n - 1)
                                /\ manual[Name(n - 1, bug)] = action}

\* A decision moves its case from one list to the other, if it is on the other.
Marked(n, manual, action) == {bug \in DOMAIN Newest(n) : manual[Name(n, bug)] = action}

Open(n, m, manual) ==
  (AutoOpen(n) \ Marked(n, manual, "CLOSE"))
    \cup (AutoClosed(n, m) \cap Marked(n, manual, "REOPEN"))

Closed(n, m, manual) ==
  (AutoClosed(n, m) \ Marked(n, manual, "REOPEN"))
    \cup (AutoOpen(n) \cap Marked(n, manual, "CLOSE"))

-----------------------------------------------------------------------------
(* The requests *)

At(u, label) == request[u].pc = label

\* GET /api/defects, or /api/summary; as often as the user likes.
Look(u) ==
  /\ At(u, "idle") \/ At(u, "looked")
  /\ request' = [request EXCEPT ![u] = [NoRequest EXCEPT !.pc = "looked", !.seen = Len(runs)]]
  /\ UNCHANGED <<runs, file, clicks, histories>>

\* Close or reopen a number of the view, whichever list it is on.
Click(u) ==
  /\ At(u, "looked") /\ clicks < MaxClicks
  /\ \E bug \in Listed(request[u].seen), action \in Actions :
       request' = [request EXCEPT ![u].pc = "find", ![u].bug = bug, ![u].action = action]
  /\ clicks' = clicks + 1
  /\ UNCHANGED <<runs, file, histories>>

Hit(u) == Name(request[u].runs, request[u].bug)
Decision(u) == [request[u].manual EXCEPT ![Hit(u)] = request[u].action]

\* Fault variant: the number is looked up in the newest run, not in its defects.
FindAny(u) ==
  /\ At(u, "find")
  /\ IF request[u].bug \in DOMAIN Newest(Len(runs))
     THEN request' = [request EXCEPT ![u].pc = "load", ![u].runs = Len(runs)]
     ELSE request' = [request EXCEPT ![u] = NoRequest]
  /\ UNCHANGED <<runs, file, clicks, histories>>

\* The number is looked up in the view of now; a number it does not list is an error.
\* (The decisions move a case between the lists, never off both.)
Find(u) ==
  /\ At(u, "find")
  /\ IF request[u].bug \in Listed(Len(runs))
     THEN request' = [request EXCEPT ![u].pc = "load", ![u].runs = Len(runs)]
     ELSE request' = [request EXCEPT ![u] = NoRequest]
  /\ UNCHANGED <<runs, file, clicks, histories>>

\* Handlers between the reading of the file and the end of its writing.
Changing == {u \in Users : At(u, "truncate") \/ At(u, "write")}

Load(u) ==
  /\ At(u, "load")
  /\ request' = [request EXCEPT ![u].pc = "truncate", ![u].manual = LoadDefectState]
  /\ overlapped' = (overlapped \/ Changing # {})
  /\ UNCHANGED <<runs, file, clicks, asked, decided, forgotten>>

Truncate(u) ==
  /\ At(u, "truncate")
  /\ file' = Torn
  /\ asked' = asked \cup {<<Hit(u), request[u].action>>}
  /\ request' = [request EXCEPT ![u].pc = "write"]
  /\ UNCHANGED <<runs, clicks, decided, overlapped, forgotten>>

\* The file cannot be opened for writing: nothing has been done to it.
OpenFails(u) ==
  /\ At(u, "truncate")
  /\ request' = [request EXCEPT ![u] = NoRequest]
  /\ UNCHANGED <<runs, file, clicks, histories>>

\* The decision is in the file and will be acknowledged.
Decide(u) ==
  /\ decided' = [decided EXCEPT ![Hit(u)] = request[u].action]
  /\ forgotten' = forgotten \ {Hit(u)}
  /\ request' = [request EXCEPT ![u].pc = "answer"]
  /\ UNCHANGED <<runs, clicks, asked, overlapped>>

\* Fault variant: the file gets the one decision only.
SaveOne(u) ==
  /\ At(u, "write")
  /\ file' = [NoDecisions EXCEPT ![Hit(u)] = request[u].action]
  /\ Decide(u)

\* Written over the text of another handler, which may be longer and leave its tail.
Save(u) ==
  /\ At(u, "write")
  /\ file' \in IF file = Torn THEN {Decision(u)} ELSE {Decision(u), Torn}
  /\ Decide(u)

\* What was in force goes with the text that was not written.
Forget == forgotten' = forgotten \cup {c \in Cases : decided[c] # "NONE"}

\* The disk is full, or the reason given cannot be encoded: the request fails, and
\* nothing puts back what the truncation took.
WriteFails(u) ==
  /\ At(u, "write")
  /\ file' \in {file, Torn}
  /\ request' = [request EXCEPT ![u] = NoRequest]
  /\ Forget
  /\ UNCHANGED <<runs, clicks, asked, decided, overlapped>>

\* The answer has the view of the runs that the handler found, with the file of now.
Answer(u) ==
  /\ At(u, "answer")
  /\ request' = [request EXCEPT ![u] = NoRequest]
  /\ UNCHANGED <<runs, file, clicks, histories>>

\* The console is killed and started again: its handlers are gone, wherever they were;
\* pages that are open stay open.
Crash ==
  /\ request' = [u \in Users |->
       IF At(u, "idle") \/ At(u, "looked") THEN request[u] ELSE NoRequest]
  /\ IF \E u \in Users : At(u, "write") THEN Forget ELSE UNCHANGED forgotten
  /\ UNCHANGED <<runs, file, clicks, asked, decided, overlapped>>

\* A run ends and its record is in the reports directory.
EndRun ==
  /\ Len(runs) < MaxRuns
  /\ \E r \in Runs : runs' = Append(runs, r)
  /\ UNCHANGED <<file, request, clicks, histories>>

Next ==
  \/ EndRun \/ Crash
  \/ \E u \in Users :
       \/ Look(u) \/ Click(u) \/ Find(u) \/ Load(u) \/ Truncate(u) \/ Save(u) \/ Answer(u)
       \/ OpenFails(u) \/ WriteFails(u)

Spec == Init /\ [][Next]_vars

-----------------------------------------------------------------------------
(* Properties. *)

TypeOK ==
  /\ runs \in Seq(Runs) /\ Len(runs) <= MaxRuns
  /\ file \in [Cases -> Actions \cup {"NONE"}] \cup {Torn}
  /\ request \in [Users -> [pc : {"idle", "looked", "find", "load", "truncate", "write",
                                  "answer"},
                            seen : 0..MaxRuns, bug : Nat, action : Actions,
                            runs : 0..MaxRuns, manual : [Cases -> Actions \cup {"NONE"}]]]
  /\ clicks \in 0..MaxClicks /\ asked \subseteq Cases \X Actions
  /\ decided \in [Cases -> Actions \cup {"NONE"}] /\ overlapped \in BOOLEAN
  /\ forgotten \subseteq Cases

\* console.py:401: a case that failed in the newest run is open, and one that passed
\* after a failure closed, unless a handler decided otherwise for that case by name
\* (console.py:438) - whatever became of the file and however the numbers drifted.
OnlyDecisionsOverride ==
  LET n == Len(runs)
      open == Open(n, n, LoadDefectState)
      closed == Closed(n, n, LoadDefectState)
  IN  /\ open \cup closed = Listed(n) /\ open \cap closed = {}
      /\ \A bug \in closed \cap AutoOpen(n) : <<Name(n, bug), "CLOSE">> \in asked
      /\ \A bug \in open \cap AutoClosed(n, n) : <<Name(n, bug), "REOPEN">> \in asked

\* As long as no two handlers overlapped, the console goes by every decision that was
\* acknowledged, runs that end and restarts in between notwithstanding; but a writing
\* that breaks off (console.py:393) forgets what was in force, all of it and nothing
\* else, and a later decision on a case counts again.
DecisionsInForce == [c \in Cases |-> IF c \in forgotten THEN "NONE" ELSE decided[c]]
DecisionsKept == ~overlapped /\ Changing = {} => LoadDefectState = DecisionsInForce

\* However the numbers drift between the look and the click (console.py:760), and
\* whatever other handlers do, a decision falls on a case that has failed in some run.
OnlyFailuresAreDecided ==
  \A decision \in asked : decision[1] \in FailedHistory(Len(runs) + 1)

\* The console goes by every decision that was acknowledged.  A writing that breaks off
\* loses them all, and two handlers at once can lose one or all; no run checks this.
NoDecisionLost == Changing = {} => LoadDefectState = decided
=============================================================================
