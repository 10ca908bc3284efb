--------------------------- MODULE DefectsProofs ----------------------------
(* The defect view for any cases, run records, users and bounds.              *)
EXTENDS Defects, TLAPS

Decisions == [Cases -> Actions \cup {"NONE"}]
Labels == {"idle", "looked", "find", "load", "truncate", "write", "answer"}
Requests ==
  [pc : Labels, seen : Nat, bug : Nat, action : Actions, runs : Nat, manual : Decisions]

Types ==
  /\ runs \in Seq(Runs)
  /\ file \in Decisions \cup {Torn} /\ decided \in Decisions /\ overlapped \in BOOLEAN
  /\ forgotten \subseteq Cases
  /\ request \in [Users -> Requests]

\* A handler that has found its number knows a run that stays, and a defect of it.
Found ==
  \A u \in Users :
    /\ request[u].seen \in 0..Len(runs) /\ request[u].runs \in 0..Len(runs)
    /\ request[u].pc \in {"load", "truncate", "write", "answer"}
         => request[u].bug \in Listed(request[u].runs)

\* Every decision in a map of decisions was made by some handler.
MadeIn(map, made) == \A c \in Cases : map[c] \in Actions => <<c, map[c]>> \in made
Traced ==
  /\ MadeIn(LoadDefectState, asked)
  /\ \A u \in Users :
       /\ MadeIn(request[u].manual, asked)
       /\ request[u].pc = "write" => <<Hit(u), request[u].action>> \in asked

\* Without overlaps one handler at most changes the file, it has read all there is, and
\* the file is torn exactly while it writes.
Busy(u) == request[u].pc \in {"truncate", "write"}
Writing(u) == request[u].pc = "write"
Alone ==
  ~overlapped =>
    /\ \A u, v \in Users : Busy(u) /\ Busy(v) => u = v
    /\ \A u \in Users : Busy(u) => request[u].manual = DecisionsInForce
    /\ \A u \in Users : Writing(u) => file = Torn
    /\ (\A u \in Users : ~Writing(u)) => LoadDefectState = DecisionsInForce

DInv == Types /\ Found /\ Traced /\ OnlyFailuresAreDecided /\ Alone

-----------------------------------------------------------------------------
(* The view *)

LEMMA ElementOf ==
  ASSUME NEW R, NEW s \in Seq(R), NEW i \in 1..Len(s)
  PROVE  s[i] \in R
OBVIOUS

LEMMA RunsAre ==
  ASSUME Types, NEW n \in 0..Len(runs)
  PROVE  /\ Newest(n) \in Seq([name : Cases, passed : BOOLEAN])
         /\ DOMAIN Newest(n) \subseteq Nat
         /\ \A bug \in DOMAIN Newest(n) : Name(n, bug) \in Cases
<1>1. Newest(n) \in Seq([name : Cases, passed : BOOLEAN])
  <2>1. CASE n = 0
    BY <2>1 DEF Newest
  <2>2. CASE n # 0
    <3>1. runs[n] \in Runs
      BY <2>2 DEF Types
    <3>2. runs[n] \in Seq([name : Cases, passed : BOOLEAN])
      BY <3>1, RunsAssumption, Zenon
    <3>. QED  BY <2>2, <3>2 DEF Newest
  <2>. QED  BY <2>1, <2>2
<1>2. DOMAIN Newest(n) = 1..Len(Newest(n)) /\ Len(Newest(n)) \in Nat
  BY <1>1
<1>3. ASSUME NEW bug \in DOMAIN Newest(n) PROVE Name(n, bug) \in Cases
  <2>. DEFINE s == Newest(n)
  <2>1. s \in Seq([name : Cases, passed : BOOLEAN]) /\ bug \in 1..Len(s)
    BY <1>1, <1>2
  <2>. HIDE DEF s
  <2>2. s[bug] \in [name : Cases, passed : BOOLEAN]
    BY <2>1, ElementOf
  <2>3. s[bug].name \in Cases
    BY <2>2
  <2>. QED  BY <2>3 DEF Name, s
<1>4. DOMAIN Newest(n) \subseteq Nat
  BY <1>2
<1>. QED  BY <1>1, <1>3, <1>4

\* The defects of a run have failed, in it or before it.
LEMMA ListedFailed ==
  ASSUME Types, NEW n \in 0..Len(runs), NEW bug \in Listed(n)
  PROVE  /\ bug \in DOMAIN Newest(n) /\ Name(n, bug) \in Cases
         /\ Name(n, bug) \in FailedHistory(Len(runs) + 1)
<1>0. bug \in DOMAIN Newest(n) /\ Len(runs) \in Nat
  BY DEF Listed, AutoOpen, AutoClosed, Types
<1>1. Name(n, bug) \in Cases
  BY <1>0, RunsAre
<1>2. CASE bug \in AutoOpen(n)
  <2>1. n \in 1..Len(runs) /\ Newest(n) = runs[n]
    BY <1>0 DEF Newest
  <2>2. runs[n][bug].name = Name(n, bug) /\ ~runs[n][bug].passed /\ bug \in DOMAIN runs[n]
    BY <1>2, <2>1 DEF AutoOpen, Name
  <2>3. n \in 1..(Len(runs) + 1) - 1
    BY <1>0, <2>1
  <2>. QED  BY <1>0, <1>1, <2>2, <2>3 DEF FailedHistory
<1>3. CASE bug \in AutoClosed(n, n)
  <2>1. Name(n, bug) \in FailedHistory(n)
    BY <1>3 DEF AutoClosed
  <2>2. 1..n - 1 \subseteq 1..(Len(runs) + 1) - 1
    BY <1>0
  <2>. QED  BY <1>0, <1>1, <2>1, <2>2 DEF FailedHistory
<1>. QED  BY <1>2, <1>3 DEF Listed

\* What a run says of the runs up to it stays when another one is recorded.
LEMMA OldRunsStay ==
  ASSUME Types, NEW r \in Runs, runs' = Append(runs, r)
  PROVE  /\ runs' \in Seq(Runs) /\ Len(runs') = Len(runs) + 1 /\ Len(runs) \in Nat
         /\ \A n \in 0..Len(runs) : Listed(n)' = Listed(n) /\ Newest(n)' = Newest(n)
         /\ FailedHistory(Len(runs) + 1) \subseteq FailedHistory(Len(runs) + 1)'
<1>1. /\ runs' \in Seq(Runs) /\ Len(runs') = Len(runs) + 1 /\ Len(runs) \in Nat
      /\ \A i \in 1..Len(runs) : runs'[i] = runs[i]
  BY DEF Types
<1>2. ASSUME NEW n \in 0..Len(runs)
      PROVE  Newest(n)' = Newest(n) /\ FailedHistory(n)' = FailedHistory(n)
  <2>1. \A i \in 1..n - 1 : i \in 1..Len(runs)
    BY <1>1
  <2>. QED  BY <1>1, <2>1 DEF Newest, FailedHistory
<1>3. \A n \in 0..Len(runs) : Listed(n)' = Listed(n)
  BY <1>2 DEF Listed, AutoOpen, AutoClosed, Name
<1>4. FailedHistory(Len(runs) + 1) \subseteq FailedHistory(Len(runs) + 1)'
  <2>1. \A i \in 1..(Len(runs) + 1) - 1 : i \in 1..(Len(runs') + 1) - 1 /\ i \in 1..Len(runs)
    BY <1>1
  <2>. QED  BY <1>1, <2>1 DEF FailedHistory
<1>. QED  BY <1>1, <1>2, <1>3, <1>4
-----------------------------------------------------------------------------
(* The steps *)

LEMMA EndRunKeeps ==
  ASSUME DInv, EndRun
  PROVE  DInv'
<1>1. PICK r \in Runs : runs' = Append(runs, r)
  BY DEF EndRun, histories
<1>2. UNCHANGED <<file, request, clicks, asked, decided, overlapped, forgotten>>
  BY DEF EndRun, histories
<1>3. /\ runs' \in Seq(Runs) /\ Len(runs') = Len(runs) + 1 /\ Len(runs) \in Nat
      /\ \A n \in 0..Len(runs) : Listed(n)' = Listed(n) /\ Newest(n)' = Newest(n)
      /\ FailedHistory(Len(runs) + 1) \subseteq FailedHistory(Len(runs) + 1)'
  BY <1>1, OldRunsStay DEF DInv
<1>4. Types'
  BY <1>2, <1>3 DEF DInv, Types
<1>5. Found'
  BY <1>2, <1>3 DEF DInv, Found
<1>6. Traced'
  <2>1. \A u \in Users : Hit(u)' = Hit(u)
    BY <1>2, <1>3 DEF DInv, Found, Hit, Name
  <2>. QED  BY <1>2, <2>1 DEF DInv, Traced, MadeIn, LoadDefectState, NoDecisions
<1>7. OnlyFailuresAreDecided'
  BY <1>2, <1>3 DEF DInv, OnlyFailuresAreDecided
<1>8. Alone'
  BY <1>2 DEF DInv, Alone, Busy, Writing, DecisionsInForce, LoadDefectState, NoDecisions
<1>. QED  BY <1>4, <1>5, <1>6, <1>7, <1>8 DEF DInv

\* A step of one user that neither changes the file nor makes a decision.
LEMMA ReadingKeeps ==
  ASSUME DInv, NEW u \in Users, NEW q \in Requests, request' = [request EXCEPT ![u] = q],
         UNCHANGED <<runs, file, asked, decided, forgotten>>,
         q.pc \notin {"truncate", "write"}, ~Busy(u), overlapped' = overlapped,
         q.seen \in 0..Len(runs), q.runs \in 0..Len(runs),
         q.pc \in {"load", "answer"} => q.bug \in Listed(q.runs),
         MadeIn(q.manual, asked)
  PROVE  DInv'
<1>1. /\ request' \in [Users -> Requests] /\ request'[u] = q
      /\ \A v \in Users \ {u} : request'[v] = request[v]
  BY DEF DInv, Types
<1>2. Types'
  BY <1>1 DEF DInv, Types
<1>3. Found'
  <2>1. \A n : Listed(n)' = Listed(n)
    BY DEF Listed, AutoOpen, AutoClosed, Newest, Name, FailedHistory
  <2>. QED  BY <1>1, <2>1 DEF DInv, Found
<1>4. Traced'
  BY <1>1 DEF DInv, Traced, LoadDefectState, NoDecisions, MadeIn, Hit, Name, Newest
<1>5. OnlyFailuresAreDecided'
  BY DEF DInv, OnlyFailuresAreDecided, FailedHistory
<1>6. Alone'
  BY <1>1 DEF DInv, Alone, Busy, Writing, DecisionsInForce, LoadDefectState, NoDecisions
<1>. QED  BY <1>2, <1>3, <1>4, <1>5, <1>6 DEF DInv

LEMMA LookKeeps ==
  ASSUME DInv, NEW u \in Users, Look(u) \/ Click(u) \/ Find(u) \/ Answer(u)
  PROVE  DInv'
<1>0. /\ request[u] \in Requests /\ Len(runs) \in Nat
      /\ NoRequest \in Requests /\ MadeIn(NoDecisions, asked)
      /\ request[u].seen \in 0..Len(runs) /\ request[u].runs \in 0..Len(runs)
      /\ MadeIn(request[u].manual, asked)
  <2>1. NoDecisions \in Decisions /\ \A c \in Cases : NoDecisions[c] \notin Actions
    BY DEF NoDecisions, Decisions, Actions
  <2>2. NoRequest \in Requests
    BY <2>1 DEF NoRequest, Requests, Labels, Actions
  <2>3. request[u] \in Requests /\ Len(runs) \in Nat
    BY DEF DInv, Types
  <2>5. MadeIn(request[u].manual, asked)
    BY DEF DInv, Traced
  <2>4. request[u].seen \in 0..Len(runs) /\ request[u].runs \in 0..Len(runs)
    BY DEF DInv, Found
  <2>6. MadeIn(NoDecisions, asked)
    BY <2>1 DEF MadeIn
  <2>. QED  BY <2>2, <2>3, <2>4, <2>5, <2>6
<1>1. CASE Look(u)
  <2>. DEFINE q == [NoRequest EXCEPT !.pc = "looked", !.seen = Len(runs)]
  <2>1. /\ q \in Requests /\ q.pc = "looked" /\ q.seen = Len(runs) /\ q.runs = 0
        /\ q.manual = NoDecisions
    BY <1>0 DEF NoRequest, Requests, Labels
  <2>2. request' = [request EXCEPT ![u] = q] /\ ~Busy(u)
        /\ UNCHANGED <<runs, file, asked, decided, overlapped, forgotten>>
    BY <1>1 DEF Look, At, Busy, histories
  <2>. HIDE DEF q
  <2>3. /\ q.seen \in 0..Len(runs) /\ q.runs \in 0..Len(runs)
        /\ MadeIn(q.manual, asked) /\ q.pc \notin {"load", "truncate", "write", "answer"}
    BY <1>0, <2>1
  <2>. QED  BY <2>1, <2>2, <2>3, ReadingKeeps
<1>2. CASE Click(u)
  <2>1. PICK bug \in Listed(request[u].seen), action \in Actions :
          request' = [request EXCEPT ![u].pc = "find", ![u].bug = bug, ![u].action = action]
    BY <1>2 DEF Click
  <2>. DEFINE q == [request[u] EXCEPT !.pc = "find", !.bug = bug, !.action = action]
  <2>2. bug \in Nat
    BY <1>0, ListedFailed, RunsAre DEF DInv
  <2>3. /\ q \in Requests /\ q.pc = "find" /\ q.seen = request[u].seen
        /\ q.runs = request[u].runs /\ q.manual = request[u].manual
    BY <1>0, <2>2 DEF Requests, Labels
  <2>4. request' = [request EXCEPT ![u] = q] /\ ~Busy(u)
        /\ UNCHANGED <<runs, file, asked, decided, overlapped, forgotten>>
    BY <1>0, <1>2, <2>1 DEF Click, At, Busy, histories, Requests
  <2>. HIDE DEF q
  <2>. QED  BY <1>0, <2>3, <2>4, ReadingKeeps
<1>3. CASE Find(u) /\ request[u].bug \in Listed(Len(runs))
  <2>. DEFINE q == [request[u] EXCEPT !.pc = "load", !.runs = Len(runs)]
  <2>1. /\ q \in Requests /\ q.pc = "load" /\ q.seen = request[u].seen
        /\ q.runs = Len(runs) /\ q.manual = request[u].manual /\ q.bug = request[u].bug
    BY <1>0 DEF Requests, Labels
  <2>2. request' = [request EXCEPT ![u] = q] /\ ~Busy(u)
        /\ UNCHANGED <<runs, file, asked, decided, overlapped, forgotten>>
    BY <1>0, <1>3 DEF Find, At, Busy, histories, Requests
  <2>. HIDE DEF q
  <2>3. /\ q.seen \in 0..Len(runs) /\ q.runs \in 0..Len(runs)
        /\ MadeIn(q.manual, asked) /\ q.pc \notin {"truncate", "write"}
    BY <1>0, <2>1
  <2>4. q.bug \in Listed(q.runs)
    BY <1>3, <2>1
  <2>. QED  BY <2>1, <2>2, <2>3, <2>4, ReadingKeeps
<1>4. CASE (Find(u) /\ request[u].bug \notin Listed(Len(runs))) \/ Answer(u)
  <2>. DEFINE q == NoRequest
  <2>1. q.pc = "idle" /\ q.seen = 0 /\ q.runs = 0 /\ q.manual = NoDecisions
    BY DEF NoRequest
  <2>2. request' = [request EXCEPT ![u] = q] /\ ~Busy(u)
        /\ UNCHANGED <<runs, file, asked, decided, overlapped, forgotten>>
    BY <1>4 DEF Find, Answer, At, Busy, histories
  <2>3. q \in Requests
    BY <1>0
  <2>. HIDE DEF q
  <2>4. /\ q.seen \in 0..Len(runs) /\ q.runs \in 0..Len(runs)
        /\ MadeIn(q.manual, asked) /\ q.pc \notin {"load", "truncate", "write", "answer"}
    BY <1>0, <2>1
  <2>. QED  BY <2>2, <2>3, <2>4, ReadingKeeps
<1>. QED  BY <1>1, <1>2, <1>3, <1>4

\* What the handlers that change the file have in common.
LEMMA ChangingTypes ==
  ASSUME DInv, NEW u \in Users, NEW q \in Requests, request' = [request EXCEPT ![u] = q],
         UNCHANGED runs, q.seen = request[u].seen, q.runs = request[u].runs,
         q.bug = request[u].bug, request[u].pc \in {"load", "truncate", "write"}
  PROVE  /\ request' \in [Users -> Requests] /\ request'[u] = q
         /\ \A v \in Users \ {u} : request'[v] = request[v] /\ Hit(v)' = Hit(v)
         /\ Hit(u)' = Hit(u) /\ Found'
         /\ Hit(u) \in Cases /\ Hit(u) \in FailedHistory(Len(runs) + 1)'
<1>1. /\ request' \in [Users -> Requests] /\ request'[u] = q
      /\ \A v \in Users \ {u} : request'[v] = request[v]
  BY DEF DInv, Types
<1>2. \A n : Listed(n)' = Listed(n) /\ Newest(n)' = Newest(n)
             /\ FailedHistory(n)' = FailedHistory(n)
  BY DEF Listed, AutoOpen, AutoClosed, Newest, Name, FailedHistory
<1>3. Found'
  BY <1>1, <1>2 DEF DInv, Found
<1>4. Hit(u)' = Hit(u) /\ \A v \in Users \ {u} : Hit(v)' = Hit(v)
  BY <1>1, <1>2 DEF Hit, Name
<1>5. Hit(u) \in Cases /\ Hit(u) \in FailedHistory(Len(runs) + 1)
  BY ListedFailed DEF DInv, Found, Hit
<1>6. FailedHistory(Len(runs) + 1)' = FailedHistory(Len(runs) + 1)
  BY DEF FailedHistory
<1>. QED  BY <1>1, <1>3, <1>4, <1>5, <1>6

LEMMA LoadKeeps ==
  ASSUME DInv, NEW u \in Users, Load(u)
  PROVE  DInv'
<1>. DEFINE q == [request[u] EXCEPT !.pc = "truncate", !.manual = LoadDefectState]
<1>0. request[u] \in Requests /\ LoadDefectState \in Decisions
  BY DEF DInv, Types, LoadDefectState, NoDecisions, Decisions
<1>1. /\ q \in Requests /\ q.pc = "truncate" /\ q.manual = LoadDefectState
      /\ q.seen = request[u].seen /\ q.runs = request[u].runs /\ q.bug = request[u].bug
  BY <1>0 DEF Requests, Labels
<1>2. request' = [request EXCEPT ![u] = q] /\ request[u].pc = "load"
      /\ overlapped' = (overlapped \/ Changing # {})
      /\ UNCHANGED <<runs, file, asked, decided, forgotten>>
  BY <1>0 DEF Load, At, Requests
<1>. HIDE DEF q
<1>3. /\ request' \in [Users -> Requests] /\ request'[u] = q
      /\ \A v \in Users \ {u} : request'[v] = request[v] /\ Hit(v)' = Hit(v)
      /\ Found'
  BY <1>1, <1>2, ChangingTypes
<1>4. Types'
  <2>1. overlapped' \in BOOLEAN
    BY <1>2 DEF DInv, Types
  <2>. QED  BY <1>2, <1>3, <2>1 DEF DInv, Types
<1>5. Traced'
  BY <1>1, <1>2, <1>3 DEF DInv, Traced, LoadDefectState, NoDecisions, MadeIn
<1>6. OnlyFailuresAreDecided'
  BY <1>2 DEF DInv, OnlyFailuresAreDecided, FailedHistory
<1>7. Alone'
  <2>. SUFFICES ASSUME ~overlapped' PROVE Alone'
    BY DEF Alone
  <2>1. ~overlapped /\ \A v \in Users : ~Busy(v) /\ ~Writing(v)
    BY <1>2 DEF Changing, At, Busy, Writing
  <2>2. LoadDefectState = DecisionsInForce
    BY <2>1 DEF DInv, Alone
  <2>3. LoadDefectState' = LoadDefectState /\ DecisionsInForce' = DecisionsInForce
    BY <1>2 DEF LoadDefectState, NoDecisions, DecisionsInForce
  <2>5. \A v \in Users : ~Writing(v)'
    BY <1>1, <1>3, <2>1 DEF Writing
  <2>4. \A v \in Users : Busy(v)' <=> v = u
    BY <1>1, <1>3, <2>1 DEF Busy
  <2>. QED  BY <1>1, <1>3, <2>2, <2>3, <2>4, <2>5 DEF Alone
<1>. QED  BY <1>3, <1>4, <1>5, <1>6, <1>7 DEF DInv

LEMMA TruncateKeeps ==
  ASSUME DInv, NEW u \in Users, Truncate(u)
  PROVE  DInv'
<1>. DEFINE q == [request[u] EXCEPT !.pc = "write"]
<1>0. request[u] \in Requests
  BY DEF DInv, Types
<1>1. /\ q \in Requests /\ q.pc = "write" /\ q.manual = request[u].manual
      /\ q.seen = request[u].seen /\ q.runs = request[u].runs /\ q.bug = request[u].bug
      /\ q.action = request[u].action
  BY <1>0 DEF Requests, Labels
<1>2. /\ request' = [request EXCEPT ![u] = q] /\ request[u].pc = "truncate"
      /\ file' = Torn /\ asked' = asked \cup {<<Hit(u), request[u].action>>}
      /\ UNCHANGED <<runs, decided, overlapped, forgotten>>
  BY <1>0 DEF Truncate, At, Requests
<1>. HIDE DEF q
<1>3. /\ request' \in [Users -> Requests] /\ request'[u] = q
      /\ \A v \in Users \ {u} : request'[v] = request[v] /\ Hit(v)' = Hit(v)
      /\ Hit(u)' = Hit(u) /\ Found'
      /\ Hit(u) \in FailedHistory(Len(runs) + 1)'
  BY <1>1, <1>2, ChangingTypes
<1>4. Types'
  BY <1>2, <1>3 DEF DInv, Types
<1>5. Traced'
  <2>1. \A c \in Cases : NoDecisions[c] \notin Actions
    BY DEF NoDecisions, Actions
  <2>2. MadeIn(LoadDefectState, asked)'
    BY <1>2, <2>1 DEF MadeIn, LoadDefectState, NoDecisions
  <2>3. \A v \in Users : MadeIn(request'[v].manual, asked')
    BY <1>1, <1>2, <1>3 DEF DInv, Traced, MadeIn
  <2>4. \A v \in Users : request'[v].pc = "write" => <<Hit(v)', request'[v].action>> \in asked'
    BY <1>1, <1>2, <1>3 DEF DInv, Traced
  <2>. QED  BY <2>2, <2>3, <2>4 DEF Traced
<1>6. OnlyFailuresAreDecided'
  BY <1>2, <1>3 DEF DInv, OnlyFailuresAreDecided, FailedHistory
<1>7. Alone'
  <2>1. \A v \in Users : (Busy(v)' <=> Busy(v)) /\ request'[v].manual = request[v].manual
    BY <1>1, <1>2, <1>3 DEF Busy
  <2>2. DecisionsInForce' = DecisionsInForce
    BY <1>2 DEF DecisionsInForce
  <2>3. Writing(u)'
    BY <1>1, <1>3 DEF Writing
  <2>. QED  BY <1>2, <2>1, <2>2, <2>3 DEF DInv, Alone
<1>. QED  BY <1>3, <1>4, <1>5, <1>6, <1>7 DEF DInv

LEMMA SaveKeeps ==
  ASSUME DInv, NEW u \in Users, Save(u)
  PROVE  DInv'
<1>. DEFINE q == [request[u] EXCEPT !.pc = "answer"]
            map == [request[u].manual EXCEPT ![Hit(u)] = request[u].action]
<1>0. request[u] \in Requests
  BY DEF DInv, Types
<1>1. /\ q \in Requests /\ q.pc = "answer" /\ q.manual = request[u].manual
      /\ q.seen = request[u].seen /\ q.runs = request[u].runs /\ q.bug = request[u].bug
  BY <1>0 DEF Requests, Labels
<1>2. /\ request' = [request EXCEPT ![u] = q] /\ request[u].pc = "write"
      /\ file' = map \/ (file # Torn /\ file' = Torn)
      /\ decided' = [decided EXCEPT ![Hit(u)] = request[u].action]
      /\ forgotten' = forgotten \ {Hit(u)}
      /\ UNCHANGED <<runs, asked, overlapped>>
  BY <1>0 DEF Save, Decide, At, Requests, Decision
<1>. HIDE DEF q
<1>3. /\ request' \in [Users -> Requests] /\ request'[u] = q
      /\ \A v \in Users \ {u} : request'[v] = request[v] /\ Hit(v)' = Hit(v)
      /\ Found' /\ Hit(u) \in Cases
  BY <1>1, <1>2, ChangingTypes
<1>4. /\ request[u].manual \in Decisions /\ request[u].action \in Actions
      /\ decided \in Decisions
  BY <1>0 DEF Requests, DInv, Types
<1>5. map \in Decisions /\ decided' \in Decisions
  BY <1>2, <1>4 DEF Decisions
<1>6. Types'
  BY <1>2, <1>3, <1>5 DEF DInv, Types
<1>7. Traced'
  <2>1. MadeIn(map, asked)
    BY <1>2, <1>3, <1>4 DEF DInv, Traced, MadeIn, Decisions
  <2>2. MadeIn(LoadDefectState, asked)'
    <3>1. \A c \in Cases : NoDecisions[c] \notin Actions
      BY DEF NoDecisions, Actions
    <3>. QED  BY <1>2, <2>1, <3>1 DEF MadeIn, LoadDefectState, NoDecisions
  <2>3. \A v \in Users : MadeIn(request'[v].manual, asked')
    BY <1>1, <1>2, <1>3 DEF DInv, Traced, MadeIn
  <2>4. \A v \in Users : request'[v].pc = "write" => <<Hit(v)', request'[v].action>> \in asked'
    BY <1>1, <1>2, <1>3 DEF DInv, Traced
  <2>. QED  BY <2>2, <2>3, <2>4 DEF Traced
<1>8. OnlyFailuresAreDecided'
  BY <1>2 DEF DInv, OnlyFailuresAreDecided, FailedHistory
<1>9. Alone'
  <2>. SUFFICES ASSUME ~overlapped PROVE Alone'
    BY <1>2 DEF Alone
  <2>1. /\ request[u].manual = DecisionsInForce /\ file = Torn
        /\ \A v \in Users : Busy(v) => v = u
    BY <1>2 DEF DInv, Alone, Busy, Writing
  <2>2. \A v \in Users : ~Busy(v)' /\ ~Writing(v)'
    BY <1>1, <1>2, <1>3, <2>1 DEF Busy, Writing
  <2>3. map = DecisionsInForce'
    BY <1>2, <1>3, <1>4, <2>1 DEF DecisionsInForce, Decisions, DInv, Types
  <2>4. file' = map
    BY <1>2, <2>1
  <2>5. LoadDefectState' = DecisionsInForce'
    <3>1. CASE map # Torn
      BY <2>3, <2>4, <3>1 DEF LoadDefectState
    <3>2. CASE map = Torn
      <4>1. DOMAIN map = Cases /\ DOMAIN map = {}
        BY <1>5, <3>2 DEF Decisions, Torn
      <4>2. NoDecisions = map
        BY <1>5, <4>1 DEF NoDecisions, Decisions
      <4>. QED  BY <2>3, <2>4, <3>2, <4>2 DEF LoadDefectState, NoDecisions
    <3>. QED  BY <3>1, <3>2
  <2>. QED  BY <2>2, <2>5 DEF Alone
<1>. QED  BY <1>3, <1>6, <1>7, <1>8, <1>9 DEF DInv

\* What is in force when a writing breaks off is forgotten; the file is torn then.
LEMMA ForgetLosesAll ==
  ASSUME DInv, Forget, decided' = decided
  PROVE  DecisionsInForce' = NoDecisions /\ forgotten' \subseteq Cases
BY DEF Forget, DecisionsInForce, NoDecisions, DInv, Types

\* Handlers that end without an answer, one or all of them.
LEMMA BreakingOffKeeps ==
  ASSUME DInv, NEW Gone \in SUBSET Users,
         request' = [u \in Users |-> IF u \in Gone THEN NoRequest ELSE request[u]],
         file' \in {file, Torn}, UNCHANGED <<runs, asked, decided, overlapped>>,
         \/ (\E u \in Gone : Writing(u)) /\ Forget
         \/ (\A u \in Gone : ~Writing(u)) /\ UNCHANGED <<forgotten, file>>
  PROVE  DInv'
<1>0. /\ NoRequest \in Requests /\ NoRequest.pc = "idle" /\ NoRequest.seen = 0
      /\ NoRequest.runs = 0 /\ NoRequest.manual = NoDecisions
  BY DEF NoRequest, Requests, Labels, Actions, NoDecisions, Decisions
<1>1. /\ request' \in [Users -> Requests]
      /\ \A u \in Users : request'[u] = IF u \in Gone THEN NoRequest ELSE request[u]
  BY <1>0 DEF DInv, Types
<1>2. Types'
  BY <1>1, ForgetLosesAll DEF DInv, Types
<1>3. Found'
  <2>1. \A n : Listed(n)' = Listed(n)
    BY DEF Listed, AutoOpen, AutoClosed, Newest, Name, FailedHistory
  <2>2. Len(runs) \in Nat
    BY DEF DInv, Types
  <2>. QED  BY <1>0, <1>1, <2>1, <2>2 DEF DInv, Found
<1>4. \A c \in Cases : NoDecisions[c] \notin Actions
  BY DEF NoDecisions, Actions
<1>5. Traced'
  <2>1. MadeIn(LoadDefectState, asked)'
    <3>1. CASE file' = Torn
      BY <1>4, <3>1 DEF MadeIn, LoadDefectState, NoDecisions
    <3>2. CASE file' = file
      BY <3>2 DEF DInv, Traced, MadeIn, LoadDefectState, NoDecisions
    <3>. QED  BY <3>1, <3>2
  <2>2. \A u \in Users : MadeIn(request'[u].manual, asked')
    BY <1>0, <1>1, <1>4 DEF DInv, Traced, MadeIn
  <2>3. \A u \in Users : request'[u].pc = "write" =>
          request'[u] = request[u] /\ request[u].pc = "write"
    BY <1>0, <1>1
  <2>4. \A u \in Users : request'[u] = request[u] => Hit(u)' = Hit(u)
    BY DEF Hit, Name, Newest
  <2>5. \A u \in Users : request'[u].pc = "write" => <<Hit(u)', request'[u].action>> \in asked'
    BY <2>3, <2>4 DEF DInv, Traced
  <2>. QED  BY <2>1, <2>2, <2>5 DEF Traced
<1>6. OnlyFailuresAreDecided'
  BY DEF DInv, OnlyFailuresAreDecided, FailedHistory
<1>7. Alone'
  <2>. SUFFICES ASSUME ~overlapped PROVE Alone'
    BY DEF Alone
  <2>1. \A u \in Users :
          /\ Busy(u)' => Busy(u) /\ request'[u] = request[u] /\ u \notin Gone
          /\ Writing(u)' <=> Writing(u) /\ u \notin Gone
    BY <1>0, <1>1 DEF Busy, Writing
  <2>2. CASE (\E u \in Gone : Writing(u)) /\ Forget
    <3>1. \A u \in Users : ~Busy(u)' /\ ~Writing(u)'
      BY <2>1, <2>2 DEF DInv, Alone, Busy, Writing
    <3>2. file = Torn
      BY <2>2 DEF DInv, Alone
    <3>3. LoadDefectState' = NoDecisions
      BY <3>2 DEF LoadDefectState, NoDecisions
    <3>4. DecisionsInForce' = NoDecisions
      BY <2>2, ForgetLosesAll
    <3>. QED  BY <3>1, <3>3, <3>4 DEF Alone
  <2>3. CASE (\A u \in Gone : ~Writing(u)) /\ UNCHANGED <<forgotten, file>>
    <3>1. UNCHANGED <<file, decided, forgotten>>
      BY <2>3
    <3>2. LoadDefectState' = LoadDefectState /\ DecisionsInForce' = DecisionsInForce
      BY <3>1 DEF LoadDefectState, NoDecisions, DecisionsInForce
    <3>. QED  BY <2>1, <2>3, <3>1, <3>2 DEF DInv, Alone
  <2>. QED  BY <2>2, <2>3
<1>. QED  BY <1>2, <1>3, <1>5, <1>6, <1>7 DEF DInv

LEMMA CrashKeeps ==
  ASSUME DInv, Crash
  PROVE  DInv'
<1>. DEFINE Gone == {u \in Users : ~At(u, "idle") /\ ~At(u, "looked")}
<1>1. request' = [u \in Users |-> IF u \in Gone THEN NoRequest ELSE request[u]]
  BY DEF Crash
<1>2. (\E u \in Gone : Writing(u)) <=> \E u \in Users : At(u, "write")
  BY DEF At, Writing
<1>. HIDE DEF Gone
<1>3. Gone \subseteq Users
  BY DEF Gone
<1>. QED  BY <1>1, <1>2, <1>3, BreakingOffKeeps DEF Crash

LEMMA FailureKeeps ==
  ASSUME DInv, NEW u \in Users, OpenFails(u) \/ WriteFails(u)
  PROVE  DInv'
<1>. DEFINE Gone == {u}
<1>1. request' = [v \in Users |-> IF v \in Gone THEN NoRequest ELSE request[v]]
  BY DEF OpenFails, WriteFails, DInv, Types
<1>2. CASE OpenFails(u)
  <2>1. \A v \in Gone : ~Writing(v)
    BY <1>2 DEF OpenFails, At, Writing
  <2>2. file' = file /\ UNCHANGED <<runs, asked, decided, overlapped, forgotten>>
    BY <1>2 DEF OpenFails, histories
  <2>. QED  BY <1>1, <2>1, <2>2, BreakingOffKeeps
<1>3. CASE WriteFails(u)
  <2>1. \E v \in Gone : Writing(v)
    BY <1>3 DEF WriteFails, At, Writing
  <2>2. /\ file' \in {file, Torn} /\ Forget
        /\ UNCHANGED <<runs, asked, decided, overlapped>>
    BY <1>3 DEF WriteFails
  <2>. QED  BY <1>1, <2>1, <2>2, BreakingOffKeeps
<1>. QED  BY <1>2, <1>3

\* DInv holds in every state of Spec: every decision is about a failure in the history,
\* and while one handler runs at a time only a writing that breaks off loses decisions.
THEOREM DefectInvariance == Spec => []DInv
<1>1. Init => DInv
  <2>. SUFFICES ASSUME Init PROVE DInv
    OBVIOUS
  <2>1. /\ runs = <<>> /\ file = NoDecisions /\ asked = {} /\ decided = NoDecisions
        /\ overlapped = FALSE /\ forgotten = {} /\ request = [u \in Users |-> NoRequest]
    BY DEF Init
  <2>2. NoDecisions \in Decisions /\ \A c \in Cases : NoDecisions[c] \notin Actions
    BY DEF NoDecisions, Decisions, Actions
  <2>3. /\ NoRequest \in Requests /\ NoRequest.pc = "idle" /\ NoRequest.seen = 0
        /\ NoRequest.runs = 0 /\ NoRequest.manual = NoDecisions
    BY <2>2 DEF NoRequest, Requests, Labels, Actions
  <2>4. Types
    <3>0. <<>> \in Seq(Runs)
      OBVIOUS
    <3>1. runs \in Seq(Runs) /\ overlapped \in BOOLEAN /\ forgotten \subseteq Cases
      BY <2>1, <3>0
    <3>2. file \in Decisions \cup {Torn} /\ decided \in Decisions
      BY <2>1, <2>2
    <3>3. request \in [Users -> Requests]
      BY <2>1, <2>3
    <3>. QED  BY <3>1, <3>2, <3>3 DEF Types
  <2>5. Found /\ Alone
    BY <2>1, <2>3 DEF Found, Alone, Busy, Writing, LoadDefectState, DecisionsInForce,
                      NoDecisions
  <2>6. Traced
    BY <2>1, <2>2, <2>3 DEF Traced, MadeIn, LoadDefectState
  <2>. QED  BY <2>1, <2>4, <2>5, <2>6 DEF DInv, OnlyFailuresAreDecided
<1>2. DInv /\ [Next]_vars => DInv'
  <2>. SUFFICES ASSUME DInv, [Next]_vars PROVE DInv'
    OBVIOUS
  <2>1. CASE UNCHANGED vars
    <3>1. UNCHANGED <<runs, file, request, clicks, asked, decided, overlapped, forgotten>>
      BY <2>1 DEF vars, histories
    <3>2. \A n : Listed(n)' = Listed(n)
      BY <3>1 DEF Listed, AutoOpen, AutoClosed, Newest, Name, FailedHistory
    <3>3. Types' /\ Alone'
      BY <3>1 DEF DInv, Types, Alone, Busy, Writing, LoadDefectState, NoDecisions,
                  DecisionsInForce
    <3>4. Found'
      BY <3>1, <3>2 DEF DInv, Found
    <3>5. Traced' /\ OnlyFailuresAreDecided'
      BY <3>1 DEF DInv, Traced, MadeIn, LoadDefectState, NoDecisions, Hit, Name, Newest,
                  OnlyFailuresAreDecided, FailedHistory
    <3>. QED  BY <3>3, <3>4, <3>5 DEF DInv
  <2>. QED
    BY <2>1, EndRunKeeps, LookKeeps, LoadKeeps, TruncateKeeps, SaveKeeps, CrashKeeps,
       FailureKeeps DEF Next
<1>. QED  BY <1>1, <1>2, PTL DEF Spec

\* A decision falls on a case that has failed, however the numbers drift (console.py
\* 756-800): a handler looks its number up in the view and decides by name.
THEOREM FailuresDecided == Spec => []OnlyFailuresAreDecided
<1>1. DInv => OnlyFailuresAreDecided
  BY DEF DInv
<1>. QED  BY <1>1, DefectInvariance, PTL

\* Without overlapping handlers the console goes by every decision acknowledged, but for
\* those in force when a writing of the file failed or was cut by a crash, which are all
\* lost (console.py:390-394).
THEOREM DecisionsStay == Spec => []DecisionsKept
<1>1. DInv => DecisionsKept
  BY DEF DInv, Alone, DecisionsKept, Changing, At, Writing
<1>. QED  BY <1>1, DefectInvariance, PTL

\* Where a list differs from what the runs say, somebody has decided so, whatever other
\* handlers do to the file meanwhile.
THEOREM DecisionsOverride == Spec => []OnlyDecisionsOverride
<1>1. DInv => OnlyDecisionsOverride
  <2>. SUFFICES ASSUME DInv PROVE OnlyDecisionsOverride
    OBVIOUS
  <2>. DEFINE n == Len(runs)
              manual == LoadDefectState
  <2>1. n \in Nat /\ n \in 0..Len(runs)
    BY DEF DInv, Types
  <2>2. AutoOpen(n) \cap AutoClosed(n, n) = {}
    BY DEF AutoOpen, AutoClosed
  <2>3. /\ Open(n, n, manual) \cup Closed(n, n, manual) = Listed(n)
        /\ Open(n, n, manual) \cap Closed(n, n, manual) = {}
    <3>1. Marked(n, manual, "CLOSE") \cap Marked(n, manual, "REOPEN") = {}
      BY DEF Marked
    <3>. QED  BY <2>2, <3>1 DEF Open, Closed, Listed
  <2>4. \A bug \in Listed(n) : Name(n, bug) \in Cases
    BY <2>1, ListedFailed DEF DInv
  <2>5. \A bug \in Closed(n, n, manual) \cap AutoOpen(n) :
          <<Name(n, bug), "CLOSE">> \in asked
    BY <2>2, <2>4 DEF DInv, Traced, MadeIn, Closed, Marked, Listed, Actions
  <2>6. \A bug \in Open(n, n, manual) \cap AutoClosed(n, n) :
          <<Name(n, bug), "REOPEN">> \in asked
    BY <2>2, <2>4 DEF DInv, Traced, MadeIn, Open, Marked, Listed, Actions
  <2>. QED  BY <2>3, <2>5, <2>6 DEF OnlyDecisionsOverride
<1>. QED  BY <1>1, DefectInvariance, PTL
=============================================================================
