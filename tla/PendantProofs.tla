--------------------------- MODULE PendantProofs ---------------------------
(* Safety of the pendant: PendantSession for any pool of requests and any      *)
(* sampler threads, and TPLink for any number of samples and timeouts.         *)
EXTENDS PendantSession, TPLink, SequenceTheorems, FiniteSetTheorems, TLAPS

Open(p) == IF poll[p] = "none" THEN 0 ELSE 1

\* The counter counts the open requests; an undisturbed poll has the answers of now, and
\* what it has delivered is shown.
CountsOpen == inflight = Open("status") + Open("alarm")
AnswersHold == quiet => \A p \in Polls : poll[p] \in {"none", "sent", Reply(p)}
StatusShown == quiet /\ poll["status"] = "none" => (can_jog <=> ctrl = "enabled")
AlarmShown == quiet /\ poll["alarm"] = "none" => (alarmed <=> ctrl = "error")

PanelInv == PanelTypeOK /\ CountsOpen /\ AnswersHold /\ StatusShown /\ AlarmShown

\* The panel as it opens satisfies PanelInv.
THEOREM PanelInitial == PanelInit => PanelInv
<1>. SUFFICES ASSUME PanelInit PROVE PanelInv
  OBVIOUS
<1>1. PanelTypeOK
  <2>1. poll \in [Polls -> {"none", "sent", "failed", "yes", "no"}]
    BY DEF PanelInit
  <2>2. inflight \in 0..2
    BY DEF PanelInit
  <2>3. /\ ctrl \in Controllers /\ can_jog \in BOOLEAN /\ alarmed \in BOOLEAN
        /\ held \in BOOLEAN /\ quiet \in BOOLEAN
    BY DEF PanelInit, Controllers
  <2>. QED  BY <2>1, <2>2, <2>3 DEF PanelTypeOK
<1>2. \A p \in Polls : poll[p] = "sent"
  BY DEF PanelInit
<1>3. poll["status"] = "sent" /\ poll["alarm"] = "sent"
  BY <1>2 DEF Polls
<1>4. CountsOpen
  BY <1>3 DEF CountsOpen, Open, PanelInit
<1>5. AnswersHold /\ StatusShown /\ AlarmShown
  BY <1>2, <1>3 DEF AnswersHold, StatusShown, AlarmShown
<1>. QED  BY <1>1, <1>4, <1>5 DEF PanelInv

LEMMA ChangeKeeps == PanelInv /\ Change => PanelInv'
BY DEF Change, PanelInv, PanelTypeOK, CountsOpen, Open, AnswersHold, StatusShown, AlarmShown,
       Controllers

LEMMA RefreshKeeps ==
  ASSUME PanelInv, RefreshStatus
  PROVE  PanelInv'
<1>1. /\ \A p \in Polls : poll'[p] = "sent"
      /\ inflight' = 2 /\ UNCHANGED <<ctrl, can_jog, alarmed, held>>
      /\ quiet' = TRUE
  BY DEF RefreshStatus
<1>2. PanelTypeOK'
  <2>1. poll' \in [Polls -> {"none", "sent", "failed", "yes", "no"}]
    BY DEF RefreshStatus
  <2>. QED  BY <1>1, <2>1 DEF PanelInv, PanelTypeOK
<1>3. poll'["status"] = "sent" /\ poll'["alarm"] = "sent"
  BY <1>1 DEF Polls
<1>4. CountsOpen'
  BY <1>1, <1>3 DEF CountsOpen, Open
<1>5. AnswersHold' /\ StatusShown' /\ AlarmShown'
  BY <1>1, <1>3 DEF AnswersHold, StatusShown, AlarmShown
<1>. QED  BY <1>2, <1>4, <1>5 DEF PanelInv

LEMMA ReplyIs ==
  /\ Reply("status") = IF ctrl = "enabled" THEN "yes" ELSE "no"
  /\ Reply("alarm") = IF ctrl = "error" THEN "yes" ELSE "no"
  /\ \A p : Reply(p) \in {"yes", "no"}
BY DEF Reply, CanJog

LEMMA ServeKeeps ==
  ASSUME PanelInv, NEW p \in Polls, Serve(p)
  PROVE  PanelInv'
<1>. USE DEF PanelInv
<1>1. UNCHANGED <<ctrl, inflight, can_jog, alarmed, held>> /\ poll[p] = "sent"
  BY DEF Serve
<1>2. PICK a \in {Reply(p), "failed"} :
        /\ poll' = [poll EXCEPT ![p] = a]
        /\ IF a = "failed" THEN quiet' = FALSE ELSE quiet' = quiet
  <2>1. Reply(p) # "failed"
    BY ReplyIs
  <2>. QED  BY <2>1 DEF Serve
<1>3. /\ \A q \in Polls : poll'[q] = IF q = p THEN a ELSE poll[q]
      /\ a \in {"yes", "no", "failed"}
  BY <1>2, ReplyIs DEF PanelTypeOK
<1>4. PanelTypeOK'
  BY <1>1, <1>2, <1>3 DEF PanelTypeOK
<1>5. \A q \in Polls : poll'[q] = "none" <=> poll[q] = "none"
  BY <1>1, <1>3
<1>6. CountsOpen' /\ StatusShown' /\ AlarmShown'
  <2>1. "status" \in Polls /\ "alarm" \in Polls
    BY DEF Polls
  <2>2. quiet' => quiet
    BY <1>2 DEF PanelTypeOK
  <2>. QED  BY <1>1, <1>5, <2>1, <2>2 DEF CountsOpen, Open, StatusShown, AlarmShown
<1>7. AnswersHold'
  <2>. SUFFICES ASSUME quiet', NEW q \in Polls
                PROVE  poll'[q] \in {"none", "sent", Reply(q)'}
    BY DEF AnswersHold
  <2>1. Reply(q)' = Reply(q)
    BY <1>1 DEF Reply
  <2>2. quiet /\ a = Reply(p)
    BY <1>2 DEF PanelTypeOK
  <2>. QED  BY <1>3, <2>1, <2>2 DEF AnswersHold
<1>. QED  BY <1>4, <1>6, <1>7

LEMMA OnStatusKeeps ==
  ASSUME PanelInv, OnStatus
  PROVE  PanelInv'
<1>. USE DEF PanelInv
<1>1. /\ UNCHANGED <<ctrl, alarmed, quiet>>
      /\ poll["status"] \in {"yes", "no", "failed"}
      /\ poll' = [poll EXCEPT !["status"] = "none"]
      /\ inflight' = IF inflight > 0 THEN inflight - 1 ELSE 0
  BY DEF OnStatus, Over, Settle
<1>2. poll'["status"] = "none" /\ poll'["alarm"] = poll["alarm"]
  BY <1>1 DEF PanelTypeOK, Polls
<1>3. /\ can_jog' = IF poll["status"] = "failed" THEN can_jog ELSE poll["status"] = "yes"
      /\ held' = (held /\ can_jog')
  BY DEF OnStatus
<1>4. can_jog' \in BOOLEAN
  BY <1>3 DEF PanelTypeOK
<1>5. held' \in BOOLEAN
  BY <1>3
<1>6. inflight' = inflight - 1 /\ CountsOpen' /\ inflight' \in 0..2
  BY <1>1, <1>2 DEF CountsOpen, Open, PanelTypeOK
<1>7. PanelTypeOK'
  BY <1>1, <1>4, <1>5, <1>6 DEF PanelTypeOK
<1>8. AnswersHold'
  BY <1>1, <1>2 DEF AnswersHold, Reply, Polls
<1>9. StatusShown'
  <2>. SUFFICES ASSUME quiet PROVE can_jog' <=> ctrl = "enabled"
    BY <1>1 DEF StatusShown
  <2>1. poll["status"] = Reply("status")
    BY <1>1 DEF AnswersHold, Polls
  <2>2. can_jog' = (poll["status"] = "yes")
    BY <1>3, <2>1, ReplyIs
  <2>. QED  BY <2>1, <2>2, ReplyIs
<1>10. AlarmShown'
  BY <1>1, <1>2 DEF AlarmShown
<1>. QED  BY <1>6, <1>7, <1>8, <1>9, <1>10

LEMMA OnAlarmKeeps ==
  ASSUME PanelInv, OnAlarm
  PROVE  PanelInv'
<1>. USE DEF PanelInv
<1>1. /\ UNCHANGED <<ctrl, can_jog, held, quiet>>
      /\ poll["alarm"] \in {"yes", "no", "failed"}
      /\ poll' = [poll EXCEPT !["alarm"] = "none"]
      /\ inflight' = IF inflight > 0 THEN inflight - 1 ELSE 0
      /\ alarmed' = (poll["alarm"] = "yes")
  BY DEF OnAlarm, Over, Settle
<1>2. poll'["alarm"] = "none" /\ poll'["status"] = poll["status"]
  BY <1>1 DEF PanelTypeOK, Polls
<1>3. inflight' = inflight - 1 /\ CountsOpen' /\ inflight' \in 0..2
  BY <1>1, <1>2 DEF CountsOpen, Open, PanelTypeOK
<1>4. alarmed' \in BOOLEAN
  BY <1>1
<1>5. PanelTypeOK'
  BY <1>1, <1>3, <1>4 DEF PanelTypeOK
<1>6. AnswersHold'
  BY <1>1, <1>2 DEF AnswersHold, Reply, Polls
<1>7. AlarmShown'
  <2>. SUFFICES ASSUME quiet PROVE alarmed' <=> ctrl = "error"
    BY <1>1 DEF AlarmShown
  <2>1. poll["alarm"] = Reply("alarm")
    BY <1>1 DEF AnswersHold, Polls
  <2>. QED  BY <1>1, <2>1, ReplyIs
<1>8. StatusShown'
  BY <1>1, <1>2 DEF StatusShown
<1>. QED  BY <1>3, <1>5, <1>6, <1>7, <1>8

\* Buttons do not touch what a poll is about.
LEMMA HoldKeeps ==
  ASSUME PanelInv, held' \in BOOLEAN,
         UNCHANGED <<ctrl, inflight, poll, can_jog, alarmed, quiet>>
  PROVE  PanelInv'
BY DEF PanelInv, PanelTypeOK, CountsOpen, Open, AnswersHold, Reply, StatusShown, AlarmShown
-----------------------------------------------------------------------------
(* The sampler threads. *)

\* A jog that nobody samples yet is on its way, and finds no thread that is about to end:
\* the thread in sampler lives, and while a jog is recent and none came late, a thread
\* runs or all are dead and a handler has still to look.
Sampled ==
  \/ \E s \in Samplers : thread[s] = "run"
  \/ /\ \E r \in Requests : handler[r] # "none"
     /\ \A s \in Samplers : thread[s] = "dead"
SamplerInv ==
  /\ SamplerTypeOK
  /\ sampler # NoSampler => thread[sampler] # "dead"
  /\ ~old /\ ~late => Sampled

\* The back end as it starts, with no sampler thread, satisfies SamplerInv.
THEOREM SamplerInitial == SamplerInit => SamplerInv
BY DEF SamplerInit, SamplerInv, SamplerTypeOK, NoSampler

LEMMA JogKeeps ==
  ASSUME SamplerInv, NEW r \in Requests, Jog(r)
  PROVE  SamplerInv'
<1>. USE DEF SamplerInv
<1>1. /\ handler' = [handler EXCEPT ![r] = "ensure"] /\ old' = FALSE
      /\ late' = (late \/ \E s \in Alive : thread[s] = "leaving")
      /\ UNCHANGED <<sampler, thread, marker>>
  BY DEF Jog
<1>2. late' \in BOOLEAN
  BY <1>1 DEF SamplerTypeOK
<1>3. SamplerTypeOK'
  BY <1>1, <1>2 DEF SamplerTypeOK
<1>4. ~late' => Sampled'
  BY <1>1 DEF Sampled, Alive, SamplerTypeOK
<1>. QED  BY <1>1, <1>3, <1>4

LEMMA WorkKeeps ==
  ASSUME SamplerInv, NEW r \in Requests, Work(r)
  PROVE  SamplerInv'
<1>. USE DEF SamplerInv
<1>1. CASE Ensure(r)
  <2>1. /\ handler' = [handler EXCEPT ![r] = IF sampler = NoSampler THEN "start" ELSE "none"]
        /\ UNCHANGED <<old, sampler, thread, marker, late>>
    BY <1>1 DEF Ensure
  <2>2. SamplerTypeOK'
    BY <2>1 DEF SamplerTypeOK
  <2>3. Sampled => Sampled'
    BY <2>1 DEF Sampled, SamplerTypeOK
  <2>. QED  BY <2>1, <2>2, <2>3
<1>2. CASE StartSampler(r)
  <2>1. PICK s \in Samplers \ Alive :
          sampler' = s /\ thread' = [thread EXCEPT ![s] = "run"]
    BY <1>2 DEF StartSampler
  <2>2. /\ handler' = [handler EXCEPT ![r] = "none"]
        /\ late' = FALSE /\ UNCHANGED <<old, marker>>
    BY <1>2 DEF StartSampler
  <2>3. thread'[s] = "run" /\ SamplerTypeOK'
    BY <2>1, <2>2 DEF SamplerTypeOK
  <2>4. Sampled'
    BY <2>3 DEF Sampled
  <2>. QED  BY <2>1, <2>3, <2>4
<1>. QED  BY <1>1, <1>2 DEF Work

LEMMA LoopKeeps ==
  ASSUME SamplerInv, NEW s \in Samplers, Loop(s)
  PROVE  SamplerInv'
<1>. USE DEF SamplerInv
<1>1. CASE FindIdle(s)
  BY <1>1 DEF FindIdle, SamplerTypeOK
<1>2. CASE Leave(s)
  <2>1. /\ thread[s] = "leaving" /\ thread' = [thread EXCEPT ![s] = "dead"]
        /\ sampler' = IF sampler = s THEN NoSampler ELSE sampler
        /\ marker' \in {marker, FALSE} /\ UNCHANGED <<handler, old, late>>
    BY <1>2 DEF Leave
  <2>0. marker' \in BOOLEAN
    BY <2>1 DEF SamplerTypeOK
  <2>2. SamplerTypeOK'
    BY <2>0, <2>1 DEF SamplerTypeOK
  <2>3. sampler' # NoSampler => thread'[sampler'] # "dead"
    BY <2>1 DEF SamplerTypeOK
  <2>4. Sampled => Sampled'
    BY <2>1 DEF Sampled, SamplerTypeOK
  <2>. QED  BY <2>1, <2>2, <2>3, <2>4
<1>3. CASE Sample(s)
  BY <1>3 DEF Sample, SamplerTypeOK, Sampled
<1>. QED  BY <1>1, <1>2, <1>3 DEF Loop

LEMMA ExpireKeeps ==
  ASSUME SamplerInv, Expire
  PROVE  SamplerInv'
<1>1. marker' = FALSE /\ UNCHANGED <<handler, old, sampler, thread, late>>
  BY DEF Expire
<1>2. SamplerTypeOK'
  BY <1>1 DEF SamplerInv, SamplerTypeOK
<1>3. Sampled => Sampled'
  BY <1>1 DEF Sampled
<1>. QED  BY <1>1, <1>2, <1>3 DEF SamplerInv

LEMMA GrowOldKeeps == SamplerInv /\ GrowOld => SamplerInv'
BY DEF GrowOld, SamplerInv, SamplerTypeOK

LEMMA PanelVarsKeep == PanelInv /\ UNCHANGED panelVars => PanelInv'
BY DEF panelVars, PanelInv, PanelTypeOK, CountsOpen, Open, AnswersHold, Reply, StatusShown,
       AlarmShown

LEMMA SamplerVarsKeep == SamplerInv /\ UNCHANGED samplerVars => SamplerInv'
BY DEF samplerVars, SamplerInv, SamplerTypeOK, Sampled
-----------------------------------------------------------------------------
(* The session. *)

SessionInv == PanelInv /\ SamplerInv

\* The inductive invariant of the panel and the oscilloscope together.
THEOREM SessionInvariant == SessionSpec => []SessionInv
<1>1. SessionInit => SessionInv
  BY PanelInitial, SamplerInitial DEF SessionInit, SessionInv
<1>2. SessionInv /\ [SessionNext]_sessionVars => SessionInv'
  <2>. SUFFICES ASSUME SessionInv, [SessionNext]_sessionVars PROVE SessionInv'
    OBVIOUS
  <2>. USE DEF SessionInv
  <2>1. CASE Press
    <3>1. PICK r \in Requests : Jog(r)
      BY <2>1 DEF Press, SendJog
    <3>2. held' \in BOOLEAN /\ UNCHANGED <<ctrl, inflight, poll, can_jog, alarmed, quiet>>
      BY <2>1 DEF Press, JogPress
    <3>. QED  BY <3>1, <3>2, HoldKeeps, JogKeeps
  <2>2. CASE Repeat
    <3>1. PICK r \in Requests : Jog(r)
      BY <2>2 DEF Repeat, SendJog
    <3>. QED  BY <2>2, <3>1, PanelVarsKeep, JogKeeps DEF Repeat, JogRepeat
  <2>3. CASE Release
    <3>1. held' \in BOOLEAN /\ UNCHANGED <<ctrl, inflight, poll, can_jog, alarmed, quiet>>
      BY <2>3 DEF Release, JogRelease
    <3>. QED  BY <2>3, <3>1, HoldKeeps, SamplerVarsKeep DEF Release
  <2>4. CASE (Change \/ RefreshStatus \/ Answered) /\ UNCHANGED samplerVars
    BY <2>4, ChangeKeeps, RefreshKeeps, ServeKeeps, OnStatusKeeps, OnAlarmKeeps,
       SamplerVarsKeep DEF Answered
  <2>5. CASE \E r \in Requests : Work(r) /\ UNCHANGED panelVars
    BY <2>5, WorkKeeps, PanelVarsKeep
  <2>6. CASE \E s \in Samplers : Loop(s) /\ UNCHANGED panelVars
    BY <2>6, LoopKeeps, PanelVarsKeep
  <2>7. CASE (GrowOld \/ Expire) /\ UNCHANGED panelVars
    BY <2>7, GrowOldKeeps, ExpireKeeps, PanelVarsKeep
  <2>8. CASE UNCHANGED sessionVars
    BY <2>8, PanelVarsKeep, SamplerVarsKeep DEF sessionVars
  <2>. QED
    BY <2>1, <2>2, <2>3, <2>4, <2>5, <2>6, <2>7, <2>8 DEF SessionNext
<1>. QED  BY <1>1, <1>2, PTL DEF SessionSpec

\* Between polls the panel shows one state of the controller, whoever answered when
\* (qt_panel.py:197-210, 394-420), unless something changed or failed since.
THEOREM Display == SessionSpec => []DisplayAgrees
<1>1. SessionInv => DisplayAgrees
  <2>. SUFFICES ASSUME SessionInv, inflight = 0, quiet
                PROVE  can_jog = CanJog(ctrl) /\ alarmed = (ctrl = "error")
    BY DEF DisplayAgrees
  <2>. USE DEF SessionInv, PanelInv
  <2>1. poll["status"] = "none" /\ poll["alarm"] = "none"
    BY DEF CountsOpen, Open
  <2>2. (can_jog <=> ctrl = "enabled") /\ (alarmed <=> ctrl = "error")
    BY <2>1 DEF StatusShown, AlarmShown
  <2>3. can_jog \in BOOLEAN /\ alarmed \in BOOLEAN
    BY DEF PanelTypeOK
  <2>. QED  BY <2>2, <2>3 DEF CanJog
<1>. QED  BY <1>1, SessionInvariant, PTL

\* Every jog is on the oscilloscope (main.py:142-180), however many requests and sampler
\* threads there are, but for one that came while a thread was leaving.
THEOREM Sampling == SessionSpec => []JogIsSampled
<1>1. SessionInv => JogIsSampled
  BY DEF SessionInv, SamplerInv, SamplerTypeOK, Sampled, JogIsSampled, Alive
<1>. QED  BY <1>1, SessionInvariant, PTL
-----------------------------------------------------------------------------
(* The TP/1.0 connection. *)

AnyFrame == [kind : {"response", "state"}, of : Nat]
AnyPiece == [frame : AnyFrame, last : BOOLEAN]

\* The data are the pieces of the frames of s from frame n + 1 on, in order; the last
\* frame may lack its second piece.
Carries(data, s, n) ==
  \A k \in Nat :
    /\ 2 * k + 1 <= Len(data) =>
         /\ n + k + 1 <= Len(s)
         /\ data[2 * k + 1] = [frame |-> s[n + k + 1], last |-> FALSE]
    /\ 2 * k + 2 <= Len(data) => data[2 * k + 2] = [frame |-> s[n + k + 1], last |-> TRUE]

\* Responses among the first n frames of s.
ResponsesTo(s, n) == Cardinality({i \in 1..n : IsResponse(s[i])})

LinkTypes ==
  /\ asked \in Nat /\ waiting \in BOOLEAN /\ answer \in Nat /\ timeouts \in Nat
  /\ requests \in Seq(Nat) /\ serving \in Nat
  /\ wire \in Seq(AnyPiece) /\ buf \in Seq(AnyPiece)
  /\ sent \in Seq(AnyFrame) /\ fed \in Seq(AnyFrame)

\* What has been fed is the beginning of what was sent, and the rest is on its way.
StreamWhole ==
  /\ Len(fed) <= Len(sent) /\ \A i \in 1..Len(fed) : fed[i] = sent[i]
  /\ Carries(buf \o wire, sent, Len(fed))
  /\ Len(buf) <= 1 /\ Len(buf) + Len(wire) = 2 * (Len(sent) - Len(fed))

\* The bridge answers the requests in order, one response each.
InTurn == IF serving = 0 THEN 0 ELSE 1
ResponsesInOrder ==
  /\ \A i \in 1..Len(sent) : IsResponse(sent[i]) => sent[i].of = ResponsesTo(sent, i)
  /\ serving \in {0, ResponsesTo(sent, Len(sent)) + 1}
  /\ asked = ResponsesTo(sent, Len(sent)) + InTurn + Len(requests)
  /\ \A i \in 1..Len(requests) :
       requests[i] = ResponsesTo(sent, Len(sent)) + InTurn + i

\* The client has been fed the responses to all requests but for one each timeout, and the
\* one it is waiting for.
FewUnanswered ==
  asked - ResponsesTo(sent, Len(fed)) <= timeouts + (IF waiting THEN 1 ELSE 0)

LinkInv ==
  /\ LinkTypes /\ StreamWhole /\ ResponsesInOrder /\ FewUnanswered
  /\ AnswersFallBehindByTimeouts

LEMMA Parity ==
  ASSUME NEW j \in Nat
  PROVE  \E k \in Nat : j = 2 * k \/ j = 2 * k + 1
<1>1. j \div 2 \in Nat /\ (j = 2 * (j \div 2) \/ j = 2 * (j \div 2) + 1)
  OBVIOUS
<1>. QED  BY <1>1

LEMMA EvenCount ==
  ASSUME NEW i \in Nat, NEW q \in Nat, i \in {2 * q, 2 * q + 1},
         NEW T, T = {j \in 1..i : \E k \in 1..q : j = 2 * k}
  PROVE  Cardinality(T) = q
<1>. DEFINE f == [k \in 1..q |-> 2 * k]
<1>1. f \in [1..q -> T]
  <2>1. \A k \in 1..q : 2 * k \in 1..i
    OBVIOUS
  <2>. QED  BY <2>1
<1>2. \A t \in T : \E k \in 1..q : f[k] = t
  OBVIOUS
<1>3. \A k, l \in 1..q : f[k] = f[l] => k = l
  OBVIOUS
<1>. HIDE DEF f
<1>4. ExistsBijection(1..q, T)
  <2>1. f \in Injection(1..q, T)
    BY <1>1, <1>3 DEF Injection, IsInjective
  <2>2. f \in Surjection(1..q, T)
    BY <1>1, <1>2 DEF Surjection
  <2>. QED  BY <2>1, <2>2 DEF ExistsBijection, Bijection
<1>. QED  BY <1>4, FS_CountingElements

\* In data cut between two pieces, every second piece ends a frame.
LEMMA NewlinesAre ==
  ASSUME NEW data \in Seq(AnyPiece), NEW s, NEW n \in Nat, Carries(data, s, n),
         NEW j \in 1..Len(data)
  PROVE  data[j].last <=> \E k \in Nat : j = 2 * k
<1>1. Len(data) \in Nat
  BY LenProperties
<1>2. PICK k \in Nat : j = 2 * k \/ j = 2 * k + 1
  <2>1. j \in Nat
    BY <1>1
  <2>. QED  BY <2>1, Parity
<1>3. CASE j = 2 * k + 1
  <2>1. data[2 * k + 1] = [frame |-> s[n + k + 1], last |-> FALSE]
    <3>1. 2 * k + 1 <= Len(data)
      BY <1>1, <1>3
    <3>. QED  BY <3>1 DEF Carries
  <2>2. \A l \in Nat : j # 2 * l
    BY <1>3
  <2>. QED  BY <1>3, <2>1, <2>2
<1>4. CASE j = 2 * k
  <2>1. k - 1 \in Nat /\ j = 2 * (k - 1) + 2
    BY <1>1, <1>4
  <2>2. data[2 * (k - 1) + 2] = [frame |-> s[n + (k - 1) + 1], last |-> TRUE]
    <3>1. 2 * (k - 1) + 2 <= Len(data)
      BY <1>1, <2>1
    <3>. QED  BY <2>1, <3>1 DEF Carries
  <2>. QED  BY <1>4, <2>1, <2>2
<1>. QED  BY <1>2, <1>3, <1>4

LEMMA Newlines ==
  ASSUME NEW data \in Seq(AnyPiece), NEW s, NEW n \in Nat, Carries(data, s, n),
         NEW i \in 0..Len(data), NEW q \in Nat, i \in {2 * q, 2 * q + 1}
  PROVE  NewlinesTo(data, i) = q
<1>1. Len(data) \in Nat
  BY LenProperties
<1>. DEFINE T == {j \in 1..i : \E k \in 1..q : j = 2 * k}
<1>2. \A j \in 1..i : data[j].last <=> \E k \in 1..q : j = 2 * k
  <2>. SUFFICES ASSUME NEW j \in 1..i PROVE data[j].last <=> \E k \in 1..q : j = 2 * k
    OBVIOUS
  <2>1. data[j].last <=> \E k \in Nat : j = 2 * k
    <3>1. j \in 1..Len(data)
      BY <1>1
    <3>. QED  BY <3>1, NewlinesAre
  <2>2. \A k \in Nat : j = 2 * k => k \in 1..q
    BY <1>1
  <2>3. \A k \in 1..q : k \in Nat
    OBVIOUS
  <2>. QED  BY <2>1, <2>2, <2>3
<1>3. {j \in 1..i : data[j].last} = T
  BY <1>2
<1>4. Cardinality(T) = q
  <2>. HIDE DEF T
  <2>1. T = {j \in 1..i : \E k \in 1..q : j = 2 * k} /\ i \in Nat
    BY <1>1 DEF T
  <2>. QED  BY <2>1, EvenCount
<1>. QED  BY <1>3, <1>4 DEF NewlinesTo

LEMMA NthIs ==
  ASSUME NEW data \in Seq(AnyPiece), NEW s, NEW n \in Nat, Carries(data, s, n),
         NEW k \in Nat \ {0}, 2 * k <= Len(data)
  PROVE  NthNewline(data, k) = 2 * k
<1>1. Len(data) \in Nat /\ DOMAIN data = 1..Len(data)
  BY LenProperties
<1>2. 2 * k \in DOMAIN data /\ data[2 * k].last /\ NewlinesTo(data, 2 * k) = k
  <2>1. 2 * k \in 1..Len(data)
    BY <1>1
  <2>2. data[2 * k].last
    BY <2>1, NewlinesAre
  <2>3. NewlinesTo(data, 2 * k) = k
    BY <1>1, <2>1, Newlines
  <2>. QED  BY <1>1, <2>1, <2>2, <2>3
<1>3. ASSUME NEW i \in DOMAIN data, data[i].last, NewlinesTo(data, i) = k
      PROVE  i = 2 * k
  <2>1. PICK l \in Nat : i = 2 * l
    BY <1>1, <1>3, NewlinesAre
  <2>2. NewlinesTo(data, i) = l
    BY <1>1, <2>1, Newlines
  <2>. QED  BY <1>3, <2>1, <2>2
<1>. QED  BY <1>2, <1>3 DEF NthNewline

\* The frames of such data are frames of s.
LEMMA FramesOf ==
  ASSUME NEW data \in Seq(AnyPiece), NEW s \in Seq(AnyFrame), NEW n \in Nat,
         Carries(data, s, n), NEW h \in Nat, Len(data) \in {2 * h, 2 * h + 1}
  PROVE  /\ h # 0 => n + h <= Len(s)
         /\ FramesIn(data) = [k \in 1..h |-> s[n + k]]
<1>1. Len(data) \in Nat /\ Len(s) \in Nat
  BY LenProperties
<1>2. NewlinesTo(data, Len(data)) = h
  BY <1>1, Newlines
<1>3. ASSUME NEW k \in 1..h
      PROVE  n + k <= Len(s) /\ Line(data, NthNewline(data, k)) = s[n + k]
  <2>1. /\ k - 1 \in Nat /\ 2 * (k - 1) + 1 = 2 * k - 1 /\ 2 * (k - 1) + 2 = 2 * k
        /\ n + (k - 1) + 1 = n + k /\ 2 * k <= Len(data)
        /\ 2 * (k - 1) + 1 <= Len(data) /\ 2 * (k - 1) + 2 <= Len(data)
    BY <1>1
  <2>2. NthNewline(data, k) = 2 * k
    BY <2>1, NthIs
  <2>3. n + k <= Len(s) /\ data[2 * k - 1] = [frame |-> s[n + k], last |-> FALSE]
    <3>1. /\ n + (k - 1) + 1 <= Len(s)
          /\ data[2 * (k - 1) + 1] = [frame |-> s[n + (k - 1) + 1], last |-> FALSE]
      BY <2>1 DEF Carries
    <3>. QED  BY <2>1, <3>1
  <2>4. data[2 * k] = [frame |-> s[n + k], last |-> TRUE]
    <3>1. data[2 * (k - 1) + 2] = [frame |-> s[n + (k - 1) + 1], last |-> TRUE]
      BY <2>1 DEF Carries
    <3>. QED  BY <2>1, <3>1
  <2>5. 2 * k > 1 /\ ~data[2 * k - 1].last
    BY <2>3
  <2>. QED  BY <2>2, <2>3, <2>4, <2>5 DEF Line
<1>4. FramesIn(data) = [k \in 1..h |-> s[n + k]]
  BY <1>2, <1>3 DEF FramesIn
<1>5. h # 0 => n + h <= Len(s)
  <2>1. h # 0 => h \in 1..h
    OBVIOUS
  <2>. QED  BY <1>3, <2>1
<1>. QED  BY <1>4, <1>5

\* What follows them is at most one piece.
LEMMA RestOf ==
  ASSUME NEW data \in Seq(AnyPiece), NEW s, NEW n \in Nat, Carries(data, s, n),
         NEW h \in Nat, Len(data) \in {2 * h, 2 * h + 1}
  PROVE  Rest(data) = SubSeq(data, 2 * h + 1, Len(data))
<1>1. DOMAIN data = 1..Len(data)
  BY LenProperties
<1>4. Len(data) \in Nat
  BY LenProperties
<1>5. \A l \in Nat : 2 * l <= Len(data) => 2 * l <= 2 * h
  BY <1>4
<1>6. h # 0 => 2 * h \in 1..Len(data)
  BY <1>4
<1>. DEFINE ends == {i \in DOMAIN data : data[i].last}
<1>2. \A i \in ends : i <= 2 * h
  <2>. SUFFICES ASSUME NEW i \in ends PROVE i <= 2 * h
    OBVIOUS
  <2>1. i \in 1..Len(data) /\ data[i].last
    BY <1>1
  <2>2. PICK l \in Nat : i = 2 * l
    BY <2>1, NewlinesAre
  <2>3. i <= Len(data)
    BY <1>4, <2>1
  <2>. QED  BY <1>5, <2>2, <2>3
<1>3. LastNewline(data) = 2 * h
  <2>1. CASE h = 0
    <3>1. ends = {}
      BY <1>1, <1>2, <2>1
    <3>. QED  BY <2>1, <3>1 DEF LastNewline
  <2>2. CASE h # 0
    <3>1. 2 * h \in 1..Len(data)
      BY <1>6, <2>2
    <3>2. 2 * h \in ends
      BY <1>1, <3>1, NewlinesAre
    <3>3. \A i \in ends : i \in Int
      <4>1. \A i \in 1..Len(data) : i \in Int
        OBVIOUS
      <4>. QED  BY <1>1, <4>1
    <3>4. ASSUME NEW i \in ends, \A j \in ends : j <= i PROVE i = 2 * h
      BY <1>2, <3>2, <3>3, <3>4
    <3>. HIDE DEF ends
    <3>5. (CHOOSE i \in ends : \A j \in ends : j <= i) = 2 * h
      BY <1>2, <3>2, <3>4
    <3>. QED  BY <3>2, <3>5 DEF LastNewline, ends
  <2>. QED  BY <2>1, <2>2
<1>. QED  BY <1>3 DEF Rest

-----------------------------------------------------------------------------
(* Counting the responses. *)

LEMMA ResponsesFinite ==
  ASSUME NEW s, NEW n \in Nat
  PROVE  IsFiniteSet({i \in 1..n : IsResponse(s[i])}) /\ ResponsesTo(s, n) \in Nat
<1>1. IsFiniteSet(1..n)
  BY FS_Interval
<1>2. IsFiniteSet({i \in 1..n : IsResponse(s[i])})
  BY <1>1, FS_Subset
<1>. QED  BY <1>2, FS_CardinalityType DEF ResponsesTo

LEMMA ResponsesStep ==
  ASSUME NEW s, NEW n \in Nat
  PROVE  ResponsesTo(s, n + 1) =
           IF IsResponse(s[n + 1]) THEN ResponsesTo(s, n) + 1 ELSE ResponsesTo(s, n)
<1>. DEFINE T == {i \in 1..n : IsResponse(s[i])}
            U == {i \in 1..(n + 1) : IsResponse(s[i])}
<1>1. IsFiniteSet(T)
  BY ResponsesFinite
<1>2. U = IF IsResponse(s[n + 1]) THEN T \cup {n + 1} ELSE T
  OBVIOUS
<1>3. n + 1 \notin T
  OBVIOUS
<1>. HIDE DEF T, U
<1>4. Cardinality(T \cup {n + 1}) = Cardinality(T) + 1
  BY <1>1, <1>3, FS_AddElement
<1>. QED  BY <1>2, <1>4 DEF ResponsesTo, T, U

LEMMA ResponsesGrow ==
  ASSUME NEW s, NEW n \in Nat, NEW m \in Nat, n <= m
  PROVE  ResponsesTo(s, n) <= ResponsesTo(s, m)
<1>. DEFINE T == {i \in 1..n : IsResponse(s[i])}
            U == {i \in 1..m : IsResponse(s[i])}
<1>1. IsFiniteSet(U) /\ T \in SUBSET U
  BY ResponsesFinite
<1>. HIDE DEF T, U
<1>2. Cardinality(T) <= Cardinality(U)
  BY <1>1, FS_Subset
<1>. QED  BY <1>2 DEF ResponsesTo, T, U

LEMMA ResponsesAgree ==
  ASSUME NEW s, NEW t, NEW n \in Nat, \A i \in 1..n : s[i] = t[i]
  PROVE  ResponsesTo(s, n) = ResponsesTo(t, n)
<1>1. {i \in 1..n : IsResponse(s[i])} = {i \in 1..n : IsResponse(t[i])}
  OBVIOUS
<1>. QED  BY <1>1 DEF ResponsesTo

LEMMA NoResponses ==
  ASSUME NEW s
  PROVE  ResponsesTo(s, 0) = 0
<1>1. {i \in 1..0 : IsResponse(s[i])} = {}
  OBVIOUS
<1>. QED  BY <1>1, FS_EmptySet DEF ResponsesTo

-----------------------------------------------------------------------------
(* The steps of the connection. *)

LEMMA LinkInitial == Init => LinkInv
<1>. SUFFICES ASSUME Init PROVE LinkInv
  OBVIOUS
<1>1. LinkTypes
  BY EmptySeq DEF Init, LinkTypes
<1>2. Len(<<>>) = 0 /\ <<>> \in Seq(AnyPiece)
  BY EmptySeq
<1>3. StreamWhole
  <2>1. buf \o wire = <<>>
    BY <1>2, ConcatEmptySeq DEF Init
  <2>2. Carries(<<>>, sent, Len(fed))
    BY <1>2 DEF Carries
  <2>3. Len(buf) = 0 /\ Len(wire) = 0 /\ Len(sent) = 0 /\ Len(fed) = 0
    BY <1>2 DEF Init
  <2>. QED  BY <2>1, <2>2, <2>3 DEF StreamWhole
<1>4. ResponsesTo(sent, Len(sent)) = 0 /\ ResponsesTo(sent, Len(fed)) = 0
  BY <1>2, NoResponses DEF Init
<1>5. ResponsesInOrder
  BY <1>2, <1>4 DEF Init, ResponsesInOrder, InTurn
<1>6. FewUnanswered /\ AnswersFallBehindByTimeouts
  BY <1>4 DEF Init, FewUnanswered, AnswersFallBehindByTimeouts
<1>. QED  BY <1>1, <1>3, <1>5, <1>6 DEF LinkInv

LEMMA LinkCounts ==
  ASSUME LinkInv
  PROVE  /\ Len(sent) \in Nat /\ Len(fed) \in Nat /\ Len(buf) \in Nat /\ Len(wire) \in Nat
         /\ Len(requests) \in Nat /\ ResponsesTo(sent, Len(sent)) \in Nat
         /\ ResponsesTo(sent, Len(fed)) \in Nat
<1>1. /\ sent \in Seq(AnyFrame) /\ fed \in Seq(AnyFrame) /\ buf \in Seq(AnyPiece)
      /\ wire \in Seq(AnyPiece) /\ requests \in Seq(Nat)
  BY DEF LinkInv, LinkTypes
<1>2. /\ Len(sent) \in Nat /\ Len(fed) \in Nat /\ Len(buf) \in Nat /\ Len(wire) \in Nat
      /\ Len(requests) \in Nat
  BY <1>1, LenProperties
<1>. QED  BY <1>2, ResponsesFinite

LEMMA DispatchKeeps ==
  ASSUME LinkInv, Dispatch
  PROVE  LinkInv'
<1>1. requests \in Seq(Nat) /\ requests # <<>> /\ Len(requests) \in Nat
  BY LinkCounts DEF LinkInv, LinkTypes, Dispatch
<1>2. /\ requests' \in Seq(Nat) /\ Len(requests') = Len(requests) - 1
      /\ \A i \in 1..Len(requests') : requests'[i] = requests[i + 1]
      /\ serving' = requests[1] /\ serving' \in Nat
  BY <1>1, HeadTailProperties DEF Dispatch
<1>3. Len(requests) >= 1
  BY <1>1, EmptySeq
<1>4. UNCHANGED <<clientVars, wire, buf, sent, fed>>
  BY DEF Dispatch
<1>5. serving = 0 /\ InTurn = 0
  BY DEF Dispatch, InTurn
<1>. DEFINE done == ResponsesTo(sent, Len(sent))
<1>6. done \in Nat /\ done' = done
  BY <1>4, LinkCounts
<1>7. serving' = done + 1 /\ asked = done + Len(requests)
  BY <1>1, <1>2, <1>3, <1>5, <1>6 DEF LinkInv, ResponsesInOrder
<1>8. InTurn' = 1
  BY <1>6, <1>7 DEF InTurn
<1>9. ResponsesInOrder'
  <2>1. \A i \in 1..Len(sent') : IsResponse(sent'[i]) => sent'[i].of = ResponsesTo(sent', i)
    BY <1>4 DEF LinkInv, ResponsesInOrder
  <2>2. asked' = done' + InTurn' + Len(requests')
    BY <1>1, <1>2, <1>4, <1>6, <1>7, <1>8 DEF clientVars
  <2>3. \A i \in 1..Len(requests') : requests'[i] = done' + InTurn' + i
    <3>1. \A i \in 1..Len(requests) : requests[i] = done + i
      BY <1>1, <1>5, <1>6 DEF LinkInv, ResponsesInOrder
    <3>. HIDE DEF done
    <3>. SUFFICES ASSUME NEW i \in 1..Len(requests') PROVE requests'[i] = done' + InTurn' + i
      OBVIOUS
    <3>2. i + 1 \in 1..Len(requests)
      BY <1>1, <1>2
    <3>3. requests'[i] = done + (i + 1)
      BY <1>2, <3>1, <3>2
    <3>. QED  BY <1>2, <1>6, <1>8, <3>3
  <2>. QED  BY <1>6, <1>7, <2>1, <2>2, <2>3 DEF ResponsesInOrder
<1>10. LinkTypes' /\ StreamWhole' /\ FewUnanswered' /\ AnswersFallBehindByTimeouts'
  BY <1>2, <1>4 DEF LinkInv, LinkTypes, StreamWhole, FewUnanswered,
     AnswersFallBehindByTimeouts, clientVars
<1>. QED  BY <1>9, <1>10 DEF LinkInv

\* The bridge puts one more frame on the wire.
LEMMA WriteKeeps ==
  ASSUME LinkInv, NEW f \in AnyFrame, Write(f), UNCHANGED <<buf, fed>>
  PROVE  /\ wire' \in Seq(AnyPiece) /\ sent' \in Seq(AnyFrame)
         /\ Len(sent') = Len(sent) + 1 /\ sent'[Len(sent) + 1] = f
         /\ \A i \in 1..Len(sent) : sent'[i] = sent[i]
         /\ StreamWhole'
<1>1. /\ sent \in Seq(AnyFrame) /\ buf \in Seq(AnyPiece) /\ wire \in Seq(AnyPiece)
      /\ fed \in Seq(AnyFrame)
  BY DEF LinkInv, LinkTypes
<1>2. Len(sent) \in Nat /\ Len(fed) \in Nat /\ Len(buf) \in Nat /\ Len(wire) \in Nat
  BY LinkCounts
<1>. DEFINE one == [frame |-> f, last |-> FALSE]
            two == [frame |-> f, last |-> TRUE]
<1>3. one \in AnyPiece /\ two \in AnyPiece
  BY DEF AnyPiece
<1>4. Pieces(f) = <<one, two>>
  BY DEF Pieces
<1>. HIDE DEF one, two
<1>5. /\ Pieces(f) \in Seq(AnyPiece) /\ Len(Pieces(f)) = 2
      /\ Pieces(f)[1] = one /\ Pieces(f)[2] = two
  BY <1>3, <1>4
<1>6. /\ sent' \in Seq(AnyFrame) /\ Len(sent') = Len(sent) + 1 /\ sent'[Len(sent) + 1] = f
      /\ \A i \in 1..Len(sent) : sent'[i] = sent[i]
  BY <1>1, AppendProperties DEF Write
<1>. DEFINE more == Pieces(f)
<1>. HIDE DEF more
<1>13. /\ wire' = wire \o more /\ more \in Seq(AnyPiece) /\ Len(more) = 2
       /\ more[1] = one /\ more[2] = two
  BY <1>5 DEF Write, more
<1>7. wire' \in Seq(AnyPiece) /\ Len(wire') = Len(wire) + 2
  <2>1. /\ wire \o more \in Seq(AnyPiece)
        /\ Len(wire \o more) = Len(wire) + Len(more)
    BY <1>1, <1>13, ConcatProperties
  <2>. QED  BY <1>13, <2>1
<1>. DEFINE flow == buf \o wire
            n == Len(fed)
            m == Len(sent)
<1>8. flow \in Seq(AnyPiece) /\ Len(flow) = 2 * (m - n) /\ n <= m
  BY <1>1, ConcatProperties DEF LinkInv, StreamWhole
<1>9. /\ Len(flow') = Len(flow) + 2
      /\ \A i \in 1..Len(flow) : flow'[i] = flow[i]
      /\ flow'[Len(flow) + 1] = one /\ flow'[Len(flow) + 2] = two
  <2>1. flow' = flow \o more
    <3>1. (buf \o wire) \o more = buf \o (wire \o more)
      <4>1. buf \in Seq(AnyPiece) /\ wire \in Seq(AnyPiece) /\ more \in Seq(AnyPiece)
        BY <1>1, <1>13
      <4>. QED  BY <4>1, ConcatAssociative
    <3>2. wire' = wire \o more /\ buf' = buf
      BY <1>1, <1>13
    <3>3. flow' = buf' \o wire'
      OBVIOUS
    <3>. QED  BY <3>1, <3>2, <3>3 DEF flow
  <2>. HIDE DEF flow
  <2>2. /\ Len(flow \o more) = Len(flow) + Len(more)
        /\ \A i \in 1..(Len(flow) + Len(more)) :
             (flow \o more)[i] = IF i <= Len(flow) THEN flow[i] ELSE more[i - Len(flow)]
    BY <1>8, <1>13, ConcatProperties
  <2>3. Len(flow) \in Nat
    BY <1>2, <1>8
  <2>4. Len(flow) + 1 - Len(flow) = 1 /\ Len(flow) + 2 - Len(flow) = 2
    BY <2>3
  <2>. QED  BY <1>13, <2>1, <2>2, <2>3, <2>4
<1>10. Carries(flow', sent', n)
  <2>1. Carries(flow, sent, n)
    BY DEF LinkInv, StreamWhole
  <2>2. m \in Nat /\ n \in Nat /\ Len(flow) \in Nat
    BY <1>2, <1>8
  <2>. HIDE DEF flow, n, m
  <2>3. ASSUME NEW k \in Nat, 2 * k + 1 <= Len(flow')
        PROVE  n + k + 1 <= Len(sent') /\
               flow'[2 * k + 1] = [frame |-> sent'[n + k + 1], last |-> FALSE]
    <3>1. CASE 2 * k + 1 <= Len(flow)
      <4>1. /\ n + k + 1 <= m
            /\ flow[2 * k + 1] = [frame |-> sent[n + k + 1], last |-> FALSE]
        BY <2>1, <3>1 DEF Carries, m
      <4>2. 2 * k + 1 \in 1..Len(flow) /\ n + k + 1 \in 1..m
        BY <2>2, <3>1, <4>1
      <4>3. flow'[2 * k + 1] = flow[2 * k + 1] /\ sent'[n + k + 1] = sent[n + k + 1]
        BY <1>6, <1>9, <4>2 DEF m
      <4>4. n + k + 1 <= Len(sent')
        BY <1>6, <2>2, <4>1 DEF m
      <4>. QED  BY <4>1, <4>3, <4>4
    <3>2. CASE 2 * k + 1 > Len(flow)
      <4>1. 2 * k + 1 = Len(flow) + 1 /\ n + k + 1 = m + 1
        BY <1>8, <1>9, <2>2, <2>3, <3>2
      <4>2. sent'[n + k + 1] = f /\ n + k + 1 <= Len(sent')
        BY <1>6, <2>2, <4>1 DEF m
      <4>. QED  BY <1>9, <4>1, <4>2 DEF one
    <3>. QED  BY <2>2, <3>1, <3>2
  <2>4. ASSUME NEW k \in Nat, 2 * k + 2 <= Len(flow')
        PROVE  flow'[2 * k + 2] = [frame |-> sent'[n + k + 1], last |-> TRUE]
    <3>1. CASE 2 * k + 2 <= Len(flow)
      <4>1. /\ n + k + 1 <= m
            /\ flow[2 * k + 2] = [frame |-> sent[n + k + 1], last |-> TRUE]
        <5>1. 2 * k + 1 <= Len(flow)
          BY <2>2, <3>1
        <5>. QED  BY <2>1, <3>1, <5>1 DEF Carries, m
      <4>2. 2 * k + 2 \in 1..Len(flow) /\ n + k + 1 \in 1..m
        BY <2>2, <3>1, <4>1
      <4>3. flow'[2 * k + 2] = flow[2 * k + 2] /\ sent'[n + k + 1] = sent[n + k + 1]
        BY <1>6, <1>9, <4>2 DEF m
      <4>. QED  BY <4>1, <4>3
    <3>2. CASE 2 * k + 2 > Len(flow)
      <4>1. 2 * k + 2 = Len(flow) + 2 /\ n + k + 1 = m + 1
        BY <1>8, <1>9, <2>2, <2>4, <3>2
      <4>2. sent'[n + k + 1] = f
        BY <1>6, <4>1 DEF m
      <4>. QED  BY <1>9, <4>1, <4>2 DEF two
    <3>. QED  BY <2>2, <3>1, <3>2
  <2>. QED  BY <2>3, <2>4 DEF Carries
<1>11. \A i \in 1..n : fed[i] = sent'[i]
  <2>1. \A i \in 1..n : fed[i] = sent[i] /\ i \in 1..m
    BY <1>2, <1>8 DEF LinkInv, StreamWhole
  <2>. QED  BY <1>6, <2>1
<1>12. StreamWhole'
  <2>1. Len(buf) <= 1 /\ Len(buf) + Len(wire') = 2 * (Len(sent') - n)
    BY <1>2, <1>6, <1>7 DEF LinkInv, StreamWhole
  <2>2. n <= Len(sent')
    BY <1>2, <1>6, <1>8
  <2>. QED  BY <1>10, <1>11, <2>1, <2>2 DEF StreamWhole
<1>. QED  BY <1>6, <1>7, <1>12

\* What a write does to the counts.
LEMMA WriteCounts ==
  ASSUME LinkInv, NEW f \in AnyFrame, Write(f), UNCHANGED <<buf, fed>>
  PROVE  /\ \A i \in 0..Len(sent) : ResponsesTo(sent', i) = ResponsesTo(sent, i)
         /\ ResponsesTo(sent', Len(sent')) =
              ResponsesTo(sent, Len(sent)) + (IF IsResponse(f) THEN 1 ELSE 0)
<1>1. /\ Len(sent') = Len(sent) + 1 /\ sent'[Len(sent) + 1] = f
      /\ \A i \in 1..Len(sent) : sent'[i] = sent[i]
  BY WriteKeeps
<1>2. Len(sent) \in Nat /\ ResponsesTo(sent, Len(sent)) \in Nat
  BY LinkCounts
<1>3. ASSUME NEW i \in 0..Len(sent) PROVE ResponsesTo(sent', i) = ResponsesTo(sent, i)
  <2>1. i \in Nat /\ \A j \in 1..i : sent'[j] = sent[j]
    BY <1>1, <1>2
  <2>. QED  BY <2>1, ResponsesAgree
<1>4. ResponsesTo(sent', Len(sent)) = ResponsesTo(sent, Len(sent))
  BY <1>2, <1>3
<1>5. ResponsesTo(sent', Len(sent) + 1) =
        IF IsResponse(f) THEN ResponsesTo(sent', Len(sent)) + 1
                         ELSE ResponsesTo(sent', Len(sent))
  BY <1>1, <1>2, ResponsesStep
<1>. QED  BY <1>1, <1>2, <1>3, <1>4, <1>5

\* The frames sent stay numbered if a response has the next number.
LEMMA WriteNumbers ==
  ASSUME LinkInv, NEW f \in AnyFrame, Write(f), UNCHANGED <<buf, fed>>,
         IsResponse(f) => f.of = ResponsesTo(sent, Len(sent)) + 1
  PROVE  \A i \in 1..Len(sent') : IsResponse(sent'[i]) => sent'[i].of = ResponsesTo(sent', i)
<1>. SUFFICES ASSUME NEW i \in 1..Len(sent'), IsResponse(sent'[i])
              PROVE  sent'[i].of = ResponsesTo(sent', i)
  OBVIOUS
<1>1. /\ Len(sent') = Len(sent) + 1 /\ sent'[Len(sent) + 1] = f
      /\ \A j \in 1..Len(sent) : sent'[j] = sent[j]
  BY WriteKeeps
<1>2. Len(sent) \in Nat
  BY LinkCounts
<1>3. CASE i \in 1..Len(sent)
  <2>1. sent'[i] = sent[i] /\ i \in 0..Len(sent)
    BY <1>1, <1>2, <1>3
  <2>2. sent[i].of = ResponsesTo(sent, i)
    BY <1>3, <2>1 DEF LinkInv, ResponsesInOrder
  <2>. QED  BY <2>1, <2>2, WriteCounts
<1>4. CASE i = Len(sent) + 1
  BY <1>1, <1>4, WriteCounts
<1>5. i \in 1..Len(sent) \/ i = Len(sent) + 1
  BY <1>1, <1>2
<1>. QED  BY <1>3, <1>4, <1>5

LEMMA FedCounts ==
  ASSUME LinkInv, NEW f \in AnyFrame, Write(f), UNCHANGED <<buf, fed>>
  PROVE  ResponsesTo(sent', Len(fed')) = ResponsesTo(sent, Len(fed))
<1>1. Len(fed) \in 0..Len(sent) /\ fed' = fed
  BY LinkCounts DEF LinkInv, StreamWhole
<1>. QED  BY <1>1, WriteCounts

LEMMA RespondKeeps ==
  ASSUME LinkInv, Respond
  PROVE  LinkInv'
<1>. DEFINE f == Response(serving)
            done == ResponsesTo(sent, Len(sent))
<1>1. f \in AnyFrame /\ IsResponse(f) /\ f.of = serving
  BY DEF LinkInv, LinkTypes, Response, AnyFrame, IsResponse
<1>2. Write(f) /\ serving' = 0 /\ UNCHANGED <<buf, fed>> /\ UNCHANGED <<clientVars, requests>>
  BY DEF Respond
<1>. HIDE DEF f
<1>3. serving = done + 1 /\ InTurn = 1 /\ InTurn' = 0
  BY <1>2 DEF LinkInv, ResponsesInOrder, InTurn, Respond
<1>4. done \in Nat /\ Len(requests) \in Nat
  BY LinkCounts
<1>5. done' = done + 1
  BY <1>1, <1>2, WriteCounts
<1>6. ResponsesInOrder'
  <2>1. \A i \in 1..Len(sent') : IsResponse(sent'[i]) => sent'[i].of = ResponsesTo(sent', i)
    BY <1>1, <1>2, <1>3, WriteNumbers
  <2>2. asked' = done' + InTurn' + Len(requests')
    BY <1>2, <1>3, <1>4, <1>5 DEF LinkInv, ResponsesInOrder, clientVars
  <2>3. \A i \in 1..Len(requests) : requests[i] = done + 1 + i
    BY <1>3 DEF LinkInv, ResponsesInOrder
  <2>. HIDE DEF done
  <2>4. \A i \in 1..Len(requests') : requests'[i] = done' + InTurn' + i
    BY <1>2, <1>3, <1>4, <1>5, <2>3
  <2>. QED  BY <1>2, <2>1, <2>2, <2>4 DEF ResponsesInOrder, done
<1>7. StreamWhole' /\ wire' \in Seq(AnyPiece) /\ sent' \in Seq(AnyFrame)
  BY <1>1, <1>2, WriteKeeps
<1>8. ResponsesTo(sent', Len(fed')) = ResponsesTo(sent, Len(fed))
  BY <1>1, <1>2, FedCounts
<1>9. LinkTypes' /\ FewUnanswered' /\ AnswersFallBehindByTimeouts'
  BY <1>2, <1>7, <1>8 DEF LinkInv, LinkTypes, FewUnanswered, AnswersFallBehindByTimeouts,
     clientVars
<1>. QED  BY <1>6, <1>7, <1>9 DEF LinkInv

LEMMA PushKeeps ==
  ASSUME LinkInv, PushState
  PROVE  LinkInv'
<1>. DEFINE done == ResponsesTo(sent, Len(sent))
<1>1. State \in AnyFrame /\ ~IsResponse(State)
  BY DEF State, AnyFrame, IsResponse
<1>2. Write(State) /\ UNCHANGED <<buf, fed>> /\ UNCHANGED <<clientVars, requests, serving>>
  BY DEF PushState
<1>3. done \in Nat /\ done' = done /\ InTurn' = InTurn
  BY <1>1, <1>2, WriteCounts, LinkCounts DEF InTurn
<1>4. ResponsesInOrder'
  <2>1. \A i \in 1..Len(sent') : IsResponse(sent'[i]) => sent'[i].of = ResponsesTo(sent', i)
    BY <1>1, <1>2, WriteNumbers
  <2>. QED  BY <1>2, <1>3, <2>1 DEF LinkInv, ResponsesInOrder, clientVars
<1>5. StreamWhole' /\ wire' \in Seq(AnyPiece) /\ sent' \in Seq(AnyFrame)
  BY <1>1, <1>2, WriteKeeps
<1>6. ResponsesTo(sent', Len(fed')) = ResponsesTo(sent, Len(fed))
  BY <1>1, <1>2, FedCounts
<1>7. LinkTypes' /\ FewUnanswered' /\ AnswersFallBehindByTimeouts'
  BY <1>2, <1>5, <1>6 DEF LinkInv, LinkTypes, FewUnanswered, AnswersFallBehindByTimeouts,
     clientVars
<1>. QED  BY <1>4, <1>5, <1>7 DEF LinkInv

LEMMA SendKeeps ==
  ASSUME LinkInv, Send
  PROVE  LinkInv'
<1>. DEFINE done == ResponsesTo(sent, Len(sent))
<1>1. requests \in Seq(Nat) /\ asked \in Nat /\ asked + 1 \in Nat
  BY DEF LinkInv, LinkTypes
<1>2. /\ requests' \in Seq(Nat) /\ Len(requests') = Len(requests) + 1
      /\ \A i \in 1..Len(requests) : requests'[i] = requests[i]
      /\ requests'[Len(requests) + 1] = asked + 1
  BY <1>1, AppendProperties DEF Send
<1>3. Len(requests) \in Nat /\ done \in Nat
  BY LinkCounts
<1>4. /\ asked' = asked + 1 /\ waiting = FALSE /\ waiting' = TRUE /\ answer' = 0
      /\ UNCHANGED <<timeouts, serving, wire, buf, sent, fed>>
  BY DEF Send, LinkInv, LinkTypes
<1>5. InTurn \in Nat /\ InTurn' = InTurn
  BY <1>4 DEF InTurn
<1>6. ResponsesInOrder'
  <2>1. asked = done + InTurn + Len(requests)
    BY DEF LinkInv, ResponsesInOrder
  <2>2. \A i \in 1..Len(requests) : requests[i] = done + InTurn + i
    BY DEF LinkInv, ResponsesInOrder
  <2>3. done' = done
    BY <1>4
  <2>. HIDE DEF done
  <2>4. ASSUME NEW i \in 1..Len(requests') PROVE requests'[i] = done' + InTurn' + i
    <3>1. CASE i \in 1..Len(requests)
      BY <1>2, <1>5, <2>2, <2>3, <3>1
    <3>2. CASE i = Len(requests) + 1
      BY <1>2, <1>3, <1>5, <2>1, <2>3, <3>2
    <3>3. i \in 1..Len(requests) \/ i = Len(requests) + 1
      BY <1>2, <1>3
    <3>. QED  BY <3>1, <3>2, <3>3
  <2>5. asked' = done' + InTurn' + Len(requests')
    BY <1>2, <1>3, <1>4, <1>5, <2>1, <2>3
  <2>6. serving' \in {0, done' + 1}
    BY <1>4, <2>3 DEF LinkInv, ResponsesInOrder, done
  <2>7. \A i \in 1..Len(sent') : IsResponse(sent'[i]) => sent'[i].of = ResponsesTo(sent', i)
    BY <1>4 DEF LinkInv, ResponsesInOrder
  <2>. QED  BY <2>4, <2>5, <2>6, <2>7 DEF ResponsesInOrder, done
<1>7. LinkTypes' /\ StreamWhole'
  BY <1>1, <1>2, <1>4 DEF LinkInv, LinkTypes, StreamWhole
<1>8. FewUnanswered'
  <2>1. ResponsesTo(sent, Len(fed)) \in Nat /\ timeouts \in Nat
    BY LinkCounts DEF LinkInv, LinkTypes
  <2>2. asked - ResponsesTo(sent, Len(fed)) <= timeouts
    BY <1>4, <2>1 DEF LinkInv, FewUnanswered
  <2>. QED  BY <1>1, <1>4, <2>1, <2>2 DEF FewUnanswered
<1>9. AnswersFallBehindByTimeouts'
  BY <1>4 DEF AnswersFallBehindByTimeouts
<1>. QED  BY <1>6, <1>7, <1>8, <1>9 DEF LinkInv

LEMMA TimeOutKeeps ==
  ASSUME LinkInv, TimeOut, MaxRequests \in Nat
  PROVE  LinkInv'
<1>1. /\ waiting = TRUE /\ waiting' = FALSE /\ timeouts' = timeouts + 1
      /\ answer' = TimedOut
      /\ UNCHANGED <<asked, requests, serving, wire, buf, sent, fed>>
  BY DEF TimeOut, LinkInv, LinkTypes
<1>2. TimedOut \in Nat /\ timeouts + 1 \in Nat
  BY DEF TimedOut, LinkInv, LinkTypes
<1>3. LinkTypes' /\ StreamWhole' /\ ResponsesInOrder'
  BY <1>1, <1>2 DEF LinkInv, LinkTypes, StreamWhole, ResponsesInOrder, InTurn
<1>4. FewUnanswered'
  <2>1. asked - ResponsesTo(sent, Len(fed)) <= timeouts + 1
    BY <1>1 DEF LinkInv, FewUnanswered
  <2>. QED  BY <1>1, <2>1, <1>2 DEF FewUnanswered, LinkInv, LinkTypes
<1>5. AnswersFallBehindByTimeouts'
  BY <1>1 DEF AnswersFallBehindByTimeouts, TimedOut
<1>. QED  BY <1>3, <1>4, <1>5 DEF LinkInv

LEMMA PartOf ==
  ASSUME NEW S, NEW s \in Seq(S), NEW a \in Nat, NEW e \in Nat, a <= e, e <= Len(s)
  PROVE  /\ SubSeq(s, a + 1, e) \in Seq(S) /\ Len(SubSeq(s, a + 1, e)) = e - a
         /\ \A i \in 1..(e - a) : SubSeq(s, a + 1, e)[i] = s[a + i]
<1>1. Len(s) \in Nat
  BY LenProperties
<1>2. \A i \in (a + 1)..e : s[i] \in S
  <2>1. \A i \in (a + 1)..e : i \in 1..Len(s)
    BY <1>1
  <2>. QED  BY <2>1, ElementOfSeq
<1>. DEFINE p == SubSeq(s, a + 1, e)
<1>3. /\ p \in Seq(S) /\ Len(p) = IF a + 1 <= e THEN e - (a + 1) + 1 ELSE 0
      /\ \A i \in 1..(e - (a + 1) + 1) : p[i] = s[(a + 1) + i - 1]
  <2>1. a + 1 \in Int /\ e \in Int
    OBVIOUS
  <2>. QED  BY <1>2, <2>1, SubSeqProperties
<1>. HIDE DEF p
<1>4. Len(p) = e - a
  BY <1>3
<1>5. ASSUME NEW i \in 1..(e - a) PROVE p[i] = s[a + i]
  <2>1. i \in 1..(e - (a + 1) + 1) /\ (a + 1) + i - 1 = a + i
    OBVIOUS
  <2>. QED  BY <1>3, <2>1
<1>6. p \in Seq(S) /\ Len(p) = e - a /\ \A i \in 1..(e - a) : p[i] = s[a + i]
  BY <1>3, <1>4, <1>5
<1>. QED  BY <1>6 DEF p

\* The client takes a chunk of the wire.
Chunk(n) ==
  LET data == buf \o SubSeq(wire, 1, n)
  IN  /\ wire' = SubSeq(wire, n + 1, Len(wire))
      /\ buf' = Rest(data)
      /\ fed' = fed \o FramesIn(data)

LEMMA ChunkKeeps ==
  ASSUME LinkInv, NEW c \in 1..Len(wire), Chunk(c), UNCHANGED sent
  PROVE  /\ wire' \in Seq(AnyPiece) /\ buf' \in Seq(AnyPiece) /\ fed' \in Seq(AnyFrame)
         /\ StreamWhole'
         /\ \E h \in Nat :
              /\ Len(fed') = Len(fed) + h
              /\ FramesIn(buf \o SubSeq(wire, 1, c)) = [k \in 1..h |-> sent[Len(fed) + k]]
<1>. DEFINE pre == SubSeq(wire, 1, c)
            post == SubSeq(wire, c + 1, Len(wire))
            data == buf \o pre
            flow == buf \o wire
            n == Len(fed)
            m == Len(sent)
<1>1. /\ sent \in Seq(AnyFrame) /\ buf \in Seq(AnyPiece) /\ wire \in Seq(AnyPiece)
      /\ fed \in Seq(AnyFrame)
  BY DEF LinkInv, LinkTypes
<1>2. /\ m \in Nat /\ n \in Nat /\ Len(buf) \in Nat /\ Len(wire) \in Nat /\ c \in Nat
      /\ c >= 1 /\ c <= Len(wire)
  BY LinkCounts
<1>3. /\ pre \in Seq(AnyPiece) /\ Len(pre) = c /\ \A i \in 1..c : pre[i] = wire[i]
  <2>1. 0 + 1 = 1 /\ 0 <= c /\ c - 0 = c /\ \A i \in 1..c : 0 + i = i
    BY <1>2
  <2>2. /\ SubSeq(wire, 0 + 1, c) \in Seq(AnyPiece) /\ Len(SubSeq(wire, 0 + 1, c)) = c - 0
        /\ \A i \in 1..(c - 0) : SubSeq(wire, 0 + 1, c)[i] = wire[0 + i]
    BY <1>1, <1>2, <2>1, PartOf
  <2>. QED  BY <2>1, <2>2
<1>4. /\ post \in Seq(AnyPiece) /\ Len(post) = Len(wire) - c
      /\ \A i \in 1..(Len(wire) - c) : post[i] = wire[c + i]
  BY <1>1, <1>2, PartOf
<1>. HIDE DEF pre, post
<1>5. /\ data \in Seq(AnyPiece) /\ Len(data) = Len(buf) + c
      /\ \A i \in 1..(Len(buf) + c) :
           data[i] = IF i <= Len(buf) THEN buf[i] ELSE pre[i - Len(buf)]
  BY <1>1, <1>3, ConcatProperties
<1>6. /\ flow \in Seq(AnyPiece) /\ Len(flow) = Len(buf) + Len(wire)
      /\ \A i \in 1..(Len(buf) + Len(wire)) :
           flow[i] = IF i <= Len(buf) THEN buf[i] ELSE wire[i - Len(buf)]
  BY <1>1, ConcatProperties
<1>7. Carries(flow, sent, n) /\ Len(flow) = 2 * (m - n) /\ n <= m /\ Len(buf) <= 1
  BY <1>6 DEF LinkInv, StreamWhole
<1>. HIDE DEF data, flow, n, m
<1>8. \A i \in 1..Len(data) : data[i] = flow[i]
  <2>. SUFFICES ASSUME NEW i \in 1..Len(data) PROVE data[i] = flow[i]
    OBVIOUS
  <2>1. i \in 1..(Len(buf) + c) /\ i \in 1..(Len(buf) + Len(wire)) /\ i \in Nat
    BY <1>2, <1>5
  <2>2. CASE i <= Len(buf)
    BY <1>5, <1>6, <2>1, <2>2
  <2>3. CASE i > Len(buf)
    <3>1. i - Len(buf) \in 1..c /\ ~(i <= Len(buf))
      BY <1>2, <2>1, <2>3
    <3>. QED  BY <1>3, <1>5, <1>6, <2>1, <3>1
  <2>. QED  BY <1>2, <2>1, <2>2, <2>3
<1>9. Len(data) \in Nat /\ Len(flow) \in Nat /\ Len(data) <= Len(flow)
  BY <1>2, <1>5, <1>6
<1>10. Carries(data, sent, n)
  <2>. SUFFICES ASSUME NEW k \in Nat
                PROVE  /\ 2 * k + 1 <= Len(data) =>
                            /\ n + k + 1 <= Len(sent)
                            /\ data[2 * k + 1] = [frame |-> sent[n + k + 1], last |-> FALSE]
                       /\ 2 * k + 2 <= Len(data) =>
                            data[2 * k + 2] = [frame |-> sent[n + k + 1], last |-> TRUE]
    BY DEF Carries
  <2>1. 2 * k + 1 <= Len(data) => 2 * k + 1 \in 1..Len(data) /\ 2 * k + 1 <= Len(flow)
    BY <1>9
  <2>2. 2 * k + 2 <= Len(data) => 2 * k + 2 \in 1..Len(data) /\ 2 * k + 2 <= Len(flow)
    BY <1>9
  <2>. QED  BY <1>7, <1>8, <2>1, <2>2 DEF Carries
<1>11. PICK h \in Nat : Len(data) \in {2 * h, 2 * h + 1}
  BY <1>9, Parity
<1>12. /\ h # 0 => n + h <= m
       /\ FramesIn(data) = [k \in 1..h |-> sent[n + k]]
       /\ Rest(data) = SubSeq(data, 2 * h + 1, Len(data))
  <2>1. n \in Nat /\ sent \in Seq(AnyFrame) /\ data \in Seq(AnyPiece)
    BY <1>1, <1>2, <1>5
  <2>2. /\ h # 0 => n + h <= Len(sent)
        /\ FramesIn(data) = [k \in 1..h |-> sent[n + k]]
    BY <1>10, <1>11, <2>1, FramesOf
  <2>3. Rest(data) = SubSeq(data, 2 * h + 1, Len(data))
    BY <1>10, <1>11, <2>1, RestOf
  <2>. QED  BY <2>2, <2>3 DEF m
<1>13. n + h <= m
  BY <1>2, <1>7, <1>12
<1>14. /\ fed' \in Seq(AnyFrame) /\ Len(fed') = n + h
       /\ \A i \in 1..(n + h) : fed'[i] = sent[i]
  <2>. DEFINE more == SubSeq(sent, n + 1, n + h)
  <2>2. /\ more \in Seq(AnyFrame) /\ Len(more) = n + h - n
        /\ \A i \in 1..(n + h - n) : more[i] = sent[n + i]
    <3>1. n \in Nat /\ n + h \in Nat /\ n <= n + h /\ n + h <= Len(sent)
      BY <1>2, <1>13 DEF m
    <3>. QED  BY <1>1, <3>1, PartOf
  <2>. HIDE DEF more
  <2>3. more \in Seq(AnyFrame) /\ Len(more) = h /\ \A i \in 1..h : more[i] = sent[n + i]
    <3>1. n + h - n = h
      BY <1>2
    <3>. QED  BY <2>2, <3>1
  <2>4. FramesIn(data) = more
    <3>1. more \in [1..h -> AnyFrame]
      BY <2>2, <2>3, LenProperties
    <3>. QED  BY <1>12, <2>3, <3>1
  <2>5. fed' = fed \o more
    BY <2>4 DEF Chunk, data, pre
  <2>6. /\ fed \o more \in Seq(AnyFrame) /\ Len(fed \o more) = n + h
        /\ \A i \in 1..(n + h) :
             (fed \o more)[i] = IF i <= n THEN fed[i] ELSE more[i - n]
    BY <1>1, <2>2, <2>3, ConcatProperties DEF n
  <2>7. \A i \in 1..n : fed[i] = sent[i]
    BY DEF LinkInv, StreamWhole, n
  <2>8. ASSUME NEW i \in 1..(n + h) PROVE fed'[i] = sent[i]
    <3>1. i \in Nat
      BY <1>2
    <3>2. CASE i <= n
      <4>1. i \in 1..n
        BY <1>2, <3>1, <3>2
      <4>. QED  BY <2>5, <2>6, <2>7, <3>2, <4>1
    <3>3. CASE i > n
      <4>1. i - n \in 1..h /\ n + (i - n) = i /\ ~(i <= n)
        BY <1>2, <3>1, <3>3
      <4>. QED  BY <2>3, <2>5, <2>6, <4>1
    <3>. QED  BY <1>2, <3>1, <3>2, <3>3
  <2>. QED  BY <2>5, <2>6, <2>8
<1>15. /\ buf' \in Seq(AnyPiece) /\ Len(buf') = Len(data) - 2 * h
       /\ \A i \in 1..Len(buf') : buf'[i] = flow[2 * h + i]
  <2>. DEFINE r == SubSeq(data, 2 * h + 1, Len(data))
  <2>1. 2 * h \in Nat /\ 2 * h <= Len(data)
    BY <1>9, <1>11
  <2>2. /\ r \in Seq(AnyPiece) /\ Len(r) = Len(data) - 2 * h
        /\ \A i \in 1..(Len(data) - 2 * h) : r[i] = data[2 * h + i]
    <3>1. PICK g \in Nat : g = 2 * h
      BY <2>1
    <3>2. g <= Len(data) /\ Len(data) \in Nat /\ data \in Seq(AnyPiece)
      BY <1>5, <1>9, <2>1, <3>1
    <3>3. /\ SubSeq(data, g + 1, Len(data)) \in Seq(AnyPiece)
          /\ Len(SubSeq(data, g + 1, Len(data))) = Len(data) - g
          /\ \A i \in 1..(Len(data) - g) : SubSeq(data, g + 1, Len(data))[i] = data[g + i]
      BY <3>2, PartOf
    <3>. QED  BY <3>1, <3>3
  <2>3. buf' = r
    BY <1>12 DEF Chunk, data, pre
  <2>. HIDE DEF r
  <2>4. ASSUME NEW i \in 1..Len(r) PROVE r[i] = flow[2 * h + i]
    <3>1. i \in 1..(Len(data) - 2 * h)
      BY <2>2
    <3>2. 2 * h + i \in 1..Len(data)
      BY <1>9, <2>1, <3>1
    <3>. QED  BY <1>8, <2>2, <3>1, <3>2
  <2>. QED  BY <2>2, <2>3, <2>4
<1>16. wire' = post
  BY DEF Chunk, post
<1>. DEFINE flow2 == buf' \o wire'
<1>17. /\ Len(flow2) = Len(flow) - 2 * h
       /\ \A i \in 1..(Len(flow) - 2 * h) : flow2[i] = flow[2 * h + i]
  <2>1. /\ Len(flow2) = Len(buf') + Len(post)
        /\ \A i \in 1..(Len(buf') + Len(post)) :
             flow2[i] = IF i <= Len(buf') THEN buf'[i] ELSE post[i - Len(buf')]
    BY <1>4, <1>15, <1>16, ConcatProperties
  <2>. HIDE DEF flow2
  <2>2. Len(buf') + Len(post) = Len(flow) - 2 * h /\ Len(buf') \in Nat
    BY <1>2, <1>4, <1>5, <1>6, <1>11, <1>15
  <2>3. ASSUME NEW i \in 1..(Len(flow) - 2 * h) PROVE flow2[i] = flow[2 * h + i]
    <3>1. i \in Nat /\ i >= 1
      BY <1>9
    <3>2. CASE i <= Len(buf')
      <4>1. i \in 1..Len(buf')
        BY <2>2, <3>1, <3>2
      <4>. QED  BY <1>15, <2>1, <2>2, <3>2, <4>1
    <3>3. CASE i > Len(buf')
      <4>1. /\ i - Len(buf') \in 1..(Len(wire) - c)
            /\ 2 * h + i \in 1..(Len(buf) + Len(wire))
            /\ c + (i - Len(buf')) = 2 * h + i - Len(buf)
            /\ ~(2 * h + i <= Len(buf)) /\ ~(i <= Len(buf'))
        <5>1. PICK b \in Nat : b = Len(buf')
          BY <2>2
        <5>2. /\ b = Len(buf) + c - 2 * h /\ i > b /\ Len(buf) \in Nat /\ Len(wire) \in Nat
              /\ c \in Nat /\ Len(flow) = Len(buf) + Len(wire) /\ c <= Len(wire)
          BY <1>2, <1>4, <1>5, <1>6, <1>9, <1>15, <3>3, <5>1
        <5>3. i <= Len(flow) - 2 * h
          BY <1>9
        <5>. HIDE DEF n, m
        <5>. QED  BY <1>2, <3>1, <5>1, <5>2, <5>3
      <4>2. flow2[i] = post[i - Len(buf')]
        BY <2>1, <2>2, <4>1
      <4>3. flow[2 * h + i] = wire[2 * h + i - Len(buf)]
        <5>1. PICK g \in Nat : g = 2 * h + i
          BY <4>1
        <5>2. g \in 1..(Len(buf) + Len(wire)) /\ ~(g <= Len(buf))
          BY <4>1, <5>1
        <5>. HIDE DEF n, m
        <5>3. flow[g] = wire[g - Len(buf)]
          BY <1>6, <5>2
        <5>. QED  BY <5>1, <5>3
      <4>. QED  BY <1>4, <4>1, <4>2, <4>3
    <3>. QED  BY <2>2, <3>1, <3>2, <3>3
  <2>. QED  BY <2>1, <2>2, <2>3
<1>. HIDE DEF flow2
<1>18. Carries(flow2, sent, n + h)
  <2>. SUFFICES ASSUME NEW k \in Nat
                PROVE  /\ 2 * k + 1 <= Len(flow2) =>
                            /\ n + h + k + 1 <= Len(sent)
                            /\ flow2[2 * k + 1] =
                                 [frame |-> sent[n + h + k + 1], last |-> FALSE]
                       /\ 2 * k + 2 <= Len(flow2) =>
                            flow2[2 * k + 2] =
                              [frame |-> sent[n + h + k + 1], last |-> TRUE]
    BY DEF Carries
  <2>. DEFINE l == h + k
  <2>1. /\ l \in Nat /\ 2 * h + (2 * k + 1) = 2 * l + 1 /\ 2 * h + (2 * k + 2) = 2 * l + 2
        /\ n + l + 1 = n + h + k + 1
    BY <1>2
  <2>2. 2 * k + 1 <= Len(flow2) =>
          2 * k + 1 \in 1..(Len(flow) - 2 * h) /\ 2 * l + 1 <= Len(flow)
    BY <1>9, <1>17, <2>1
  <2>3. 2 * k + 2 <= Len(flow2) =>
          2 * k + 2 \in 1..(Len(flow) - 2 * h) /\ 2 * l + 2 <= Len(flow)
    BY <1>9, <1>17, <2>1
  <2>. HIDE DEF l
  <2>4. /\ 2 * l + 1 <= Len(flow) =>
             /\ n + l + 1 <= Len(sent)
             /\ flow[2 * l + 1] = [frame |-> sent[n + l + 1], last |-> FALSE]
        /\ 2 * l + 2 <= Len(flow) =>
             flow[2 * l + 2] = [frame |-> sent[n + l + 1], last |-> TRUE]
    BY <1>7, <2>1 DEF Carries
  <2>5. 2 * k + 1 <= Len(flow2) => flow2[2 * k + 1] = flow[2 * l + 1]
    <3>1. ASSUME 2 * k + 1 <= Len(flow2) PROVE flow2[2 * k + 1] = flow[2 * h + (2 * k + 1)]
      BY <1>17, <2>2, <3>1
    <3>. QED  BY <2>1, <3>1
  <2>6. 2 * k + 2 <= Len(flow2) => flow2[2 * k + 2] = flow[2 * l + 2]
    <3>1. ASSUME 2 * k + 2 <= Len(flow2) PROVE flow2[2 * k + 2] = flow[2 * h + (2 * k + 2)]
      BY <1>17, <2>3, <3>1
    <3>. QED  BY <2>1, <3>1
  <2>7. n + h + k + 1 = n + l + 1
    BY <2>1
  <2>8. 2 * k + 1 <= Len(flow2) =>
          /\ n + l + 1 <= Len(sent)
          /\ flow2[2 * k + 1] = [frame |-> sent[n + l + 1], last |-> FALSE]
    BY <2>2, <2>4, <2>5
  <2>9. 2 * k + 2 <= Len(flow2) =>
          flow2[2 * k + 2] = [frame |-> sent[n + l + 1], last |-> TRUE]
    BY <2>3, <2>4, <2>6
  <2>. QED  BY <2>7, <2>8, <2>9
<1>19. StreamWhole'
  <2>1. Len(buf') <= 1 /\ Len(buf') + Len(wire') = 2 * (m - (n + h))
    <3>1. Len(buf') = Len(data) - 2 * h /\ Len(wire') = Len(wire) - c
      BY <1>4, <1>15, <1>16
    <3>2. Len(data) = Len(buf) + c /\ Len(buf) + Len(wire) = 2 * (m - n)
      BY <1>5, <1>6, <1>7
    <3>3. Len(data) <= 2 * h + 1
      BY <1>9, <1>11
    <3>. QED  BY <1>2, <1>9, <3>1, <3>2, <3>3
  <2>2. Carries(buf' \o wire', sent, Len(fed'))
    BY <1>14, <1>18 DEF flow2
  <2>. QED  BY <1>13, <1>14, <2>1, <2>2 DEF StreamWhole, m
<1>20. FramesIn(buf \o SubSeq(wire, 1, c)) = [k \in 1..h |-> sent[Len(fed) + k]]
  BY <1>12 DEF data, pre, n
<1>. QED  BY <1>4, <1>14, <1>15, <1>16, <1>19, <1>20 DEF n

LEMMA ReceiveKeeps ==
  ASSUME LinkInv, Receive
  PROVE  LinkInv'
<1>1. PICK c \in 1..Len(wire) :
        LET data == buf \o SubSeq(wire, 1, c)
            frames == FramesIn(data)
        IN  /\ Chunk(c)
            /\ IF frames # <<>> /\ IsResponse(Head(frames))
               THEN waiting' = FALSE /\ answer' = Head(frames).of
               ELSE UNCHANGED <<waiting, answer>>
  BY DEF Receive, Chunk
<1>. DEFINE frames == FramesIn(buf \o SubSeq(wire, 1, c))
            n == Len(fed)
<1>2. UNCHANGED <<asked, timeouts, requests, serving, sent>> /\ waiting
  BY DEF Receive
<1>3. /\ wire' \in Seq(AnyPiece) /\ buf' \in Seq(AnyPiece) /\ fed' \in Seq(AnyFrame)
      /\ StreamWhole'
  BY <1>1, <1>2, ChunkKeeps
<1>4. PICK h \in Nat : Len(fed') = n + h /\ frames = [k \in 1..h |-> sent[n + k]]
  BY <1>1, <1>2, ChunkKeeps
<1>5. /\ IF frames # <<>> /\ IsResponse(Head(frames))
         THEN waiting' = FALSE /\ answer' = Head(frames).of
         ELSE UNCHANGED <<waiting, answer>>
  BY <1>1
<1>. HIDE DEF frames
<1>6. n \in Nat /\ Len(sent) \in Nat /\ n + h <= Len(sent) /\ ResponsesTo(sent, n) \in Nat
  BY <1>2, <1>3, <1>4, LinkCounts DEF StreamWhole
<1>7. asked \in Nat /\ timeouts \in Nat /\ answer \in Nat /\ waiting = TRUE
  BY <1>2 DEF LinkInv, LinkTypes
<1>8. ResponsesInOrder'
  BY <1>2 DEF LinkInv, ResponsesInOrder, InTurn
<1>9. asked - ResponsesTo(sent, n) <= timeouts + 1
  BY <1>7 DEF LinkInv, FewUnanswered
<1>10. /\ ResponsesTo(sent, n + h) \in Nat /\ ResponsesTo(sent, n) <= ResponsesTo(sent, n + h)
  <2>1. PICK g \in Nat : g = n + h
    BY <1>6
  <2>2. n \in Nat /\ n <= g
    BY <1>6, <2>1
  <2>. HIDE DEF n
  <2>3. ResponsesTo(sent, g) \in Nat
    BY <2>1, ResponsesFinite
  <2>4. ResponsesTo(sent, n) <= ResponsesTo(sent, g)
    BY <2>1, <2>2, ResponsesGrow
  <2>. QED  BY <2>1, <2>3, <2>4
<1>11. CASE waiting' = waiting /\ answer' = answer
  <2>1. LinkTypes'
    BY <1>2, <1>3, <1>11 DEF LinkInv, LinkTypes
  <2>2. FewUnanswered'
    BY <1>2, <1>4, <1>6, <1>7, <1>9, <1>10, <1>11 DEF FewUnanswered
  <2>3. AnswersFallBehindByTimeouts'
    BY <1>2, <1>11 DEF AnswersFallBehindByTimeouts
  <2>. QED  BY <1>3, <1>8, <2>1, <2>2, <2>3 DEF LinkInv
<1>12. CASE frames # <<>> /\ IsResponse(Head(frames))
  <2>1. waiting' = FALSE /\ answer' = Head(frames).of
    BY <1>5, <1>12
  <2>2. h # 0
    <3>1. h = 0 => frames = <<>>
      BY <1>4
    <3>. QED  BY <1>12, <3>1
  <2>3. Head(frames) = sent[n + 1]
    BY <1>4, <2>2
  <2>4. n + 1 \in 1..Len(sent) /\ n + 1 <= n + h /\ n + 1 \in Nat /\ n + h \in Nat
    BY <1>6, <2>2
  <2>5. ResponsesTo(sent, n + 1) = ResponsesTo(sent, n) + 1
    BY <1>6, <1>12, <2>3, ResponsesStep
  <2>6. answer' = ResponsesTo(sent, n) + 1
    BY <1>12, <2>1, <2>3, <2>4, <2>5 DEF LinkInv, ResponsesInOrder
  <2>7. ResponsesTo(sent, n) + 1 <= ResponsesTo(sent, n + h)
    BY <2>4, <2>5, ResponsesGrow
  <2>8. LinkTypes'
    <3>. HIDE DEF n
    <3>0. \A r \in Nat : r + 1 \in Nat
      OBVIOUS
    <3>1. answer' \in Nat /\ waiting' \in BOOLEAN
      <4>1. ResponsesTo(sent, n) + 1 \in Nat
        BY <1>6, <3>0
      <4>. QED  BY <2>1, <2>6, <4>1
    <3>2. LinkTypes
      BY DEF LinkInv
    <3>. QED  BY <1>2, <1>3, <3>1, <3>2 DEF LinkTypes
  <2>9. FewUnanswered'
    BY <1>2, <1>4, <1>6, <1>7, <1>9, <1>10, <2>1, <2>7 DEF FewUnanswered
  <2>10. AnswersFallBehindByTimeouts'
    BY <1>2, <1>6, <1>7, <1>9, <2>6 DEF AnswersFallBehindByTimeouts
  <2>. QED  BY <1>3, <1>8, <2>8, <2>9, <2>10 DEF LinkInv
<1>. QED  BY <1>5, <1>11, <1>12

\* LinkInv holds in every state of the connection (tp_bridge.py, protocol.py,
\* tp_simulator.py).
THEOREM LinkInvariance == Spec => []LinkInv
<1>1. LinkInv /\ [Next]_vars => LinkInv'
  <2>. SUFFICES ASSUME LinkInv, [Next]_vars PROVE LinkInv'
    OBVIOUS
  <2>1. CASE Next
    BY <2>1, DispatchKeeps, RespondKeeps, PushKeeps, SendKeeps, ReceiveKeeps, TimeOutKeeps,
       BoundsAssumption DEF Next
  <2>2. CASE UNCHANGED vars
    BY <2>2 DEF vars, clientVars, LinkInv, LinkTypes, StreamWhole, ResponsesInOrder, InTurn,
       FewUnanswered, AnswersFallBehindByTimeouts
  <2>. QED  BY <2>1, <2>2
<1>. QED  BY <1>1, LinkInitial, PTL DEF Spec

\* However TCP cuts and joins what the bridge writes, FrameStream loses no frame, makes none
\* up and keeps the order (protocol.py:94-117, FrameStream.feed).
THEOREM Lossless == Spec => []StreamIsLossless
<1>1. LinkInv => StreamIsLossless
  <2>. SUFFICES ASSUME LinkInv PROVE fed \o FramesIn(buf \o wire) = sent
    BY DEF StreamIsLossless
  <2>. DEFINE flow == buf \o wire
              n == Len(fed)
              m == Len(sent)
  <2>1. /\ sent \in Seq(AnyFrame) /\ buf \in Seq(AnyPiece) /\ wire \in Seq(AnyPiece)
        /\ fed \in Seq(AnyFrame)
    BY DEF LinkInv, LinkTypes
  <2>2. n \in Nat /\ m \in Nat /\ n <= m
    BY LinkCounts DEF LinkInv, StreamWhole
  <2>3. Len(buf) + Len(wire) = 2 * (m - n) /\ Carries(flow, sent, n)
    BY DEF LinkInv, StreamWhole
  <2>4. flow \in Seq(AnyPiece) /\ Len(flow) = 2 * (m - n) /\ Carries(flow, sent, n)
    <3>1. flow \in Seq(AnyPiece) /\ Len(flow) = Len(buf) + Len(wire)
      BY <2>1, ConcatProperties
    <3>. QED  BY <2>3, <3>1
  <2>. HIDE DEF flow
  <2>5. PICK h \in Nat : h = m - n
    BY <2>2
  <2>6. Len(flow) = 2 * h
    BY <2>4, <2>5
  <2>7. FramesIn(flow) = [k \in 1..h |-> sent[n + k]]
    <3>1. Len(flow) \in {2 * h, 2 * h + 1} /\ n \in Nat
      BY <2>2, <2>6
    <3>2. Carries(flow, sent, n) /\ flow \in Seq(AnyPiece) /\ sent \in Seq(AnyFrame)
      BY <2>1, <2>4
    <3>. HIDE DEF n, m
    <3>. QED  BY <3>1, <3>2, FramesOf
  <2>. DEFINE more == SubSeq(sent, n + 1, m)
  <2>8. more \in Seq(AnyFrame) /\ Len(more) = h /\ \A i \in 1..h : more[i] = sent[n + i]
    BY <2>1, <2>2, <2>5, PartOf
  <2>. HIDE DEF more
  <2>9. FramesIn(flow) = more
    <3>1. more \in [1..h -> AnyFrame]
      BY <2>8, LenProperties
    <3>. QED  BY <2>7, <2>8, <3>1
  <2>10. /\ fed \o more \in Seq(AnyFrame) /\ Len(fed \o more) = n + h
        /\ \A i \in 1..(n + h) : (fed \o more)[i] = IF i <= n THEN fed[i] ELSE more[i - n]
    BY <2>1, <2>8, ConcatProperties
  <2>11. n + h = m
    BY <2>2, <2>5
  <2>12. ASSUME NEW i \in 1..m PROVE (fed \o more)[i] = sent[i]
    <3>1. CASE i <= n
      <4>1. i \in 1..n
        BY <2>2, <3>1
      <4>. QED  BY <2>10, <2>11, <3>1, <4>1 DEF LinkInv, StreamWhole
    <3>2. CASE i > n
      <4>1. i - n \in 1..h /\ n + (i - n) = i /\ ~(i <= n)
        BY <2>2, <2>11, <3>2
      <4>. QED  BY <2>8, <2>10, <2>11, <4>1
    <3>3. i \in Nat /\ n \in Nat
      BY <2>2
    <3>4. i <= n \/ i > n
      BY <3>3
    <3>. QED  BY <3>1, <3>2, <3>4
  <2>13. fed \o more = sent
    BY <2>1, <2>10, <2>11, <2>12, SeqEqual
  <2>. QED  BY <2>9, <2>13 DEF flow
<1>. QED  BY <1>1, LinkInvariance, PTL

\* Every timeout of a send can put the answers one request behind, and nothing else can
\* (tp_simulator.py:36-59, send and recv_response).
THEOREM FallBehind == Spec => []AnswersFallBehindByTimeouts
<1>. QED  BY LinkInvariance, PTL DEF LinkInv
============================================================================
