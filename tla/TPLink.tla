------------------------------- MODULE TPLink --------------------------------
(***************************************************************************)
(* One TP/1.0 connection: the client TPSimulator (teach_pendant/           *)
(* tp_simulator.py), the byte stream, and its handler in the protocol      *)
(* bridge (tp_bridge.py), which answers requests one after the other while *)
(* a second thread pushes STATE frames into the same socket.               *)
(*                                                                         *)
(* What a frame says is left out but for its kind and, for a response (OK  *)
(* or ERR), the request it answers.  A frame is two pieces on the wire, of *)
(* which only the second has the newline, so that a chunk can end inside a *)
(* frame.  Only the direction to the client is cut: the bridge reads whole *)
(* lines.  Both threads of the handler write a frame with one sendall,     *)
(* which is taken not to be torn: frames are smaller than a socket buffer. *)
(***************************************************************************)
EXTENDS Naturals, Sequences, FiniteSets

CONSTANTS
  MaxRequests,   \* bound: requests of one behaviour
  MaxPushes,     \* bound: STATE frames of one behaviour
  MaxTimeouts    \* bound: receives of the client that time out

ASSUME BoundsAssumption ==
  MaxRequests \in Nat /\ MaxPushes \in Nat /\ MaxTimeouts \in Nat

VARIABLES
  asked,      \* requests sent; the last is the one the client waits for
  waiting,    \* whether the client is inside send()
  answer,     \* what the last send() returned: the request of its response
  timeouts,   \* sends that have timed out
  requests,   \* requests the bridge has not read
  serving,    \* the request being dispatched, 0 if none
  wire,       \* pieces on their way to the client
  buf,        \* FrameStream._buf: the pieces of an incomplete frame
  sent, fed   \* history: frames written by the bridge, frames fed by FrameStream

clientVars == <<asked, waiting, answer, timeouts>>
vars == <<clientVars, requests, serving, wire, buf, sent, fed>>

Response(n) == [kind |-> "response", of |-> n]
State == [kind |-> "state", of |-> 0]
Garbled == [kind |-> "garbled", of |-> 0]
Frames == {State} \cup {Response(n) : n \in 1..MaxRequests}
TimedOut == MaxRequests + 1
Pieces(f) == <<[frame |-> f, last |-> FALSE], [frame |-> f, last |-> TRUE]>>

Init ==
  /\ asked = 0 /\ waiting = FALSE /\ answer = 0 /\ timeouts = 0
  /\ requests = <<>> /\ serving = 0
  /\ wire = <<>> /\ buf = <<>>
  /\ sent = <<>> /\ fed = <<>>

-----------------------------------------------------------------------------
(* The bridge. *)

\* dispatch() calls the controller and may take as long as a motion takes.
Dispatch ==
  /\ serving = 0 /\ requests # <<>>
  /\ serving' = Head(requests) /\ requests' = Tail(requests)
  /\ UNCHANGED <<clientVars, wire, buf, sent, fed>>

Write(f) == wire' = wire \o Pieces(f) /\ sent' = Append(sent, f)

Respond ==
  /\ serving # 0
  /\ Write(Response(serving))
  /\ serving' = 0
  /\ UNCHANGED <<clientVars, requests, buf, fed>>

\* The push thread runs whatever state_push says.
PushState ==
  /\ Len(SelectSeq(sent, LAMBDA f : f = State)) < MaxPushes
  /\ Write(State)
  /\ UNCHANGED <<clientVars, requests, serving, buf, fed>>

-----------------------------------------------------------------------------
(* The client. *)

Send ==
  /\ ~waiting /\ asked < MaxRequests
  /\ asked' = asked + 1 /\ waiting' = TRUE /\ answer' = 0
  /\ requests' = Append(requests, asked + 1)
  /\ UNCHANGED <<timeouts, serving, wire, buf, sent, fed>>

LastNewline(pieces) ==
  LET ends == {i \in DOMAIN pieces : pieces[i].last}
  IN  IF ends = {} THEN 0 ELSE CHOOSE i \in ends : \A j \in ends : j <= i

\* A newline ends a frame; without its first piece the line does not decode.
Line(pieces, i) == IF i > 1 /\ ~pieces[i - 1].last THEN pieces[i].frame ELSE Garbled
NewlinesTo(pieces, i) == Cardinality({j \in 1..i : pieces[j].last})
NthNewline(pieces, k) ==
  CHOOSE i \in DOMAIN pieces : pieces[i].last /\ NewlinesTo(pieces, i) = k
FramesIn(pieces) ==
  [k \in 1..NewlinesTo(pieces, Len(pieces)) |-> Line(pieces, NthNewline(pieces, k))]

\* Fault variant: what follows the last newline of a chunk is thrown away.
RestForgotten(data) == <<>>

\* FrameStream.feed: the complete frames of the data, and the rest for next time.
Rest(data) == SubSeq(data, LastNewline(data) + 1, Len(data))

\* Fault variant: the client takes a pushed state for its response.
IsResponseOrState(f) == f.kind \in {"response", "state"}

IsResponse(f) == f.kind = "response"

\* recv() gives any prefix of what is on the wire.  _read returns the first frame of
\* the chunk; the other frames of the same chunk are gone.  recv_response returns it
\* if it is a response and reads on if it is not.
Receive ==
  /\ waiting
  /\ \E n \in 1..Len(wire) :
       LET data == buf \o SubSeq(wire, 1, n)
           frames == FramesIn(data)
       IN /\ wire' = SubSeq(wire, n + 1, Len(wire))
          /\ buf' = Rest(data)
          /\ fed' = fed \o frames
          /\ IF frames # <<>> /\ IsResponse(Head(frames))
             THEN waiting' = FALSE /\ answer' = Head(frames).of
             ELSE UNCHANGED <<waiting, answer>>
  /\ UNCHANGED <<asked, timeouts, requests, serving, sent>>

\* socket.timeout leaves send(); the connection stays usable.
TimeOut ==
  /\ waiting /\ timeouts < MaxTimeouts
  /\ waiting' = FALSE /\ answer' = TimedOut /\ timeouts' = timeouts + 1
  /\ UNCHANGED <<asked, requests, serving, wire, buf, sent, fed>>

Next == Dispatch \/ Respond \/ PushState \/ Send \/ Receive \/ TimeOut
Spec == Init /\ [][Next]_vars

\* The handler thread serves what it reads, and a waiting client reads what arrives.
FairSpec == Spec /\ WF_vars(Dispatch) /\ WF_vars(Respond) /\ WF_vars(Receive)

-----------------------------------------------------------------------------
(* Properties. *)

\* Types, and every request in one place: answered, being served, or yet to be read,
\* in the order of the requests.
Responses == SelectSeq(sent, LAMBDA f : f # State)
InService == IF serving = 0 THEN <<>> ELSE <<serving>>
TypeOK ==
  /\ asked \in 0..MaxRequests /\ waiting \in BOOLEAN
  /\ answer \in 0..asked \cup {TimedOut} /\ timeouts \in 0..MaxTimeouts
  /\ sent \in Seq(Frames) /\ fed \in Seq(Frames)
  /\ Len(buf) <= 1
  /\ [i \in DOMAIN Responses |-> Responses[i].of] \o InService \o requests
       = [n \in 1..asked |-> n]

\* FrameStream loses nothing, makes nothing up and keeps the order, however TCP cuts
\* and joins what the bridge wrote: what it has fed and what is still to come are
\* the frames that were sent.
StreamIsLossless == fed \o FramesIn(buf \o wire) = sent

\* A send returns the response to its own request until a send times out; every
\* timeout can put the answers one request behind, and nothing else can.
AnswersFallBehindByTimeouts ==
  ~waiting /\ answer # TimedOut => asked - answer <= timeouts

\* tp_simulator.py:37, send: "waits for the response to its frame".  A send that
\* returns has the response to its own request.
AnswerIsMine == ~waiting => answer \in {asked, TimedOut}

\* tp_simulator.py:37, send: "waits for the response to its frame (skipping STATE
\* pushes)".  Every request gets its response.
EverySendReturns == waiting ~> ~waiting
=============================================================================
