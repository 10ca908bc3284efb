---------------------------- MODULE DriveBusProofs ----------------------------
(* Safety of Cia402 and DriveBus for any workers, drives, words and frames.    *)
EXTENDS DriveBus, SequenceTheorems, TLAPS

-----------------------------------------------------------------------------
(* The state machine. *)

Resting == DriveStates \ {"FaultReactionActive"}

LEMMA UpdateRests ==
  ASSUME NEW s \in DriveStates
  PROVE  Update(s) \in Resting /\ (s \in Resting => Update(s) = s)
BY DEF Update, Resting, DriveStates

\* The table is a function of state and command.
LEMMA TableIsFunction ==
  ASSUME NEW s, NEW c, NEW m, NEW n, <<s, c, m>> \in Table, <<s, c, n>> \in Table
  PROVE  m = n
BY DEF Table, Transitions

LEMMA RowTaken ==
  ASSUME NEW s, NEW c, NEW n \in DriveStates, <<s, c, n>> \in Table
  PROVE  TryTransition(s, c) = n
BY TableIsFunction DEF TryTransition

LEMMA NoRow ==
  ASSUME NEW s, NEW c, \A n \in DriveStates : <<s, c, n>> \notin Table
  PROVE  TryTransition(s, c) = s
BY DEF TryTransition

\* A transition leads to a state in which the same command is ignored.
LEMMA RowLeadsToRest ==
  ASSUME NEW s, NEW c, NEW n, <<s, c, n>> \in Table
  PROVE  n \in Resting /\ \A m : <<n, c, m>> \notin Table
<1>1. n \in Resting
  BY DEF Table, Transitions, Resting, DriveStates
<1>2. ASSUME NEW m, <<n, c, m>> \in Table PROVE FALSE
  BY <1>2 DEF Table, Transitions
<1>. QED  BY <1>1, <1>2

LEMMA CommandSettles ==
  ASSUME NEW s \in Resting, NEW c
  PROVE  /\ TryTransition(s, c) \in Resting
         /\ TryTransition(TryTransition(s, c), c) = TryTransition(s, c)
<1>1. CASE \E n \in DriveStates : <<s, c, n>> \in Table
  <2>1. PICK n \in DriveStates : <<s, c, n>> \in Table
    BY <1>1
  <2>. QED  BY <2>1, RowTaken, RowLeadsToRest, NoRow
<1>2. CASE \A n \in DriveStates : <<s, c, n>> \notin Table
  BY <1>2, NoRow
<1>. QED  BY <1>1, <1>2

LEMMA NextStateRests ==
  ASSUME NEW d \in Drives, NEW cw \in Controlwords
  PROVE  /\ NextState(d, cw) \in Resting /\ AfterControlword(d, cw) \in Drives
         /\ ~ResetRising(d, cw) => NextState(d, cw) = TryTransition(Update(d.state), cw.command)
<1>1. d.state \in DriveStates /\ Update(d.state) \in Resting /\ cw.reset \in BOOLEAN
  BY UpdateRests DEF Drives, Controlwords
<1>2. ~ResetRising(d, cw) => NextState(d, cw) = TryTransition(Update(d.state), cw.command)
  BY DEF NextState
<1>3. ResetRising(d, cw) => NextState(d, cw) \in {"SwitchOnDisabled", Update(d.state)}
  BY DEF NextState
<1>4. NextState(d, cw) \in Resting
  BY <1>1, <1>2, <1>3, CommandSettles DEF Resting, DriveStates
<1>5. AfterControlword(d, cw) \in Drives
  BY <1>1, <1>4 DEF AfterControlword, Drives, Resting
<1>. QED  BY <1>2, <1>4, <1>5

\* Once a word has been written its bit 7 no longer rises.
LEMMA WordRepeated ==
  ASSUME NEW d \in Drives, NEW cw \in Controlwords, d.state \in Resting, d.reset_bit = cw.reset
  PROVE  AfterControlword(d, cw) =
           [state |-> TryTransition(d.state, cw.command), reset_bit |-> cw.reset]
<1>1. ~ResetRising(d, cw)
  BY DEF ResetRising
<1>2. Update(d.state) = d.state
  BY UpdateRests DEF Resting
<1>. QED  BY <1>1, <1>2, NextStateRests DEF AfterControlword

\* No repeated controlword makes a drive oscillate (cia402_state_machine.cpp,
\* set_controlword and try_transition).
THEOREM DrivesSettle == \A d \in Drives : Settles(d)
<1>. SUFFICES ASSUME NEW d \in Drives, NEW cw \in Controlwords
              PROVE  LET once == AfterControlword(d, cw)
                         twice == AfterControlword(once, cw)
                     IN  AfterControlword(twice, cw) = twice
  BY DEF Settles
<1>. DEFINE once == AfterControlword(d, cw)
            twice == AfterControlword(once, cw)
<1>1. once \in Drives /\ once.state \in Resting /\ once.reset_bit = cw.reset
  BY NextStateRests DEF AfterControlword
<1>2. twice = [state |-> TryTransition(once.state, cw.command), reset_bit |-> cw.reset]
  BY <1>1, WordRepeated
<1>3. twice \in Drives
  BY <1>1, NextStateRests
<1>4. twice.state \in Resting /\ TryTransition(twice.state, cw.command) = twice.state
  BY <1>1, <1>2, CommandSettles
<1>5. AfterControlword(twice, cw) =
        [state |-> TryTransition(twice.state, cw.command), reset_bit |-> cw.reset]
  BY <1>2, <1>3, <1>4, WordRepeated
<1>. QED  BY <1>2, <1>4, <1>5

LEMMA Disabling ==
  ASSUME NEW s \in Resting
  PROVE  TryTransition(s, "DisableVoltage") \in {"SwitchOnDisabled", "Fault"}
<1>1. CASE s \in {"SwitchOnDisabled", "Fault"}
  <2>1. \A n \in DriveStates : <<s, "DisableVoltage", n>> \notin Table
    BY <1>1 DEF Table, Transitions
  <2>. QED  BY <1>1, <2>1, NoRow
<1>2. CASE s \notin {"SwitchOnDisabled", "Fault"}
  <2>1. <<s, "DisableVoltage", "SwitchOnDisabled">> \in Table
    BY <1>2 DEF Table, Transitions, Resting, DriveStates
  <2>. QED  BY <2>1, RowTaken DEF DriveStates
<1>. QED  BY <1>1, <1>2

\* A word without bit 7 in a state that its command leaves.
LEMMA PoweredOn ==
  ASSUME NEW d \in Drives, NEW c \in Commands, NEW n \in DriveStates,
         d.state \in Resting, <<d.state, c, n>> \in Table
  PROVE  AfterControlword(d, Controlword(c)) = [state |-> n, reset_bit |-> FALSE]
<1>1. Controlword(c) \in Controlwords /\ ~Controlword(c).reset /\ Controlword(c).command = c
      /\ Controlword(c).reset = FALSE
  BY DEF Controlword, Controlwords
<1>2. ~ResetRising(d, Controlword(c))
  BY <1>1 DEF ResetRising
<1>3. NextState(d, Controlword(c)) = TryTransition(d.state, c)
  BY <1>1, <1>2, NextStateRests, UpdateRests DEF Drives
<1>. QED  BY <1>1, <1>3, RowTaken DEF AfterControlword

LEMMA DriveAt ==
  ASSUME NEW d, NEW n \in Resting, d = [state |-> n, reset_bit |-> FALSE]
  PROVE  d \in Drives /\ d.state \in Resting /\ d.state = n
BY DEF Resting, Drives

\* The reset and power-on sequence of the tests brings every drive to
\* OperationEnabled, from whatever state clients left it in.
THEOREM DrivesRecover == \A d \in Drives : Recovers(d)
<1>. SUFFICES ASSUME NEW d \in Drives PROVE BroughtUp(d).state = "OperationEnabled"
  BY DEF Recovers
<1>. DEFINE cleared == AfterControlword(d, Controlword("DisableVoltage"))
            reset == AfterControlword(cleared, FaultReset)
            ready == AfterControlword(reset, Controlword("Shutdown"))
            on == AfterControlword(ready, Controlword("SwitchOn"))
            up == AfterControlword(on, Controlword("EnableOperation"))
<1>. DEFINE dv == Controlword("DisableVoltage")
<1>1. /\ dv \in Controlwords /\ FaultReset \in Controlwords
      /\ dv.reset = FALSE /\ dv.command = "DisableVoltage" /\ FaultReset.reset = TRUE
      /\ {"DisableVoltage", "Shutdown", "SwitchOn", "EnableOperation"} \subseteq Commands
  BY DEF Controlword, FaultReset, Controlwords, Commands
<1>2. cleared.state \in {"SwitchOnDisabled", "Fault"} /\ cleared.reset_bit = FALSE
  <2>1. ~ResetRising(d, dv)
    BY <1>1 DEF ResetRising
  <2>2. NextState(d, dv) = TryTransition(Update(d.state), "DisableVoltage")
    BY <1>1, <2>1, NextStateRests
  <2>3. Update(d.state) \in Resting
    BY UpdateRests DEF Drives
  <2>. QED  BY <1>1, <2>2, <2>3, Disabling DEF AfterControlword
<1>3. cleared \in Drives
  BY <1>1, NextStateRests
<1>4. reset.state = "SwitchOnDisabled" /\ reset \in Drives
  <2>1. ResetRising(cleared, FaultReset)
    BY <1>1, <1>2 DEF ResetRising
  <2>2. Update(cleared.state) = cleared.state
    BY <1>2 DEF Update
  <2>3. NextState(cleared, FaultReset) = "SwitchOnDisabled"
    BY <1>2, <2>1, <2>2 DEF NextState
  <2>. QED  BY <1>1, <1>3, <2>3, NextStateRests DEF AfterControlword
<1>5. ready = [state |-> "ReadyToSwitchOn", reset_bit |-> FALSE]
  <2>1. <<reset.state, "Shutdown", "ReadyToSwitchOn">> \in Table
    BY <1>4 DEF Table, Transitions
  <2>. QED  BY <1>1, <1>4, <2>1, PoweredOn DEF Resting, DriveStates
<1>6. on = [state |-> "SwitchedOn", reset_bit |-> FALSE]
  <2>1. <<ready.state, "SwitchOn", "SwitchedOn">> \in Table
    BY <1>5 DEF Table, Transitions
  <2>2. ready \in Drives /\ ready.state \in Resting
    BY <1>5, DriveAt DEF Resting, DriveStates
  <2>. QED  BY <1>1, <2>1, <2>2, PoweredOn DEF DriveStates
<1>7. up = [state |-> "OperationEnabled", reset_bit |-> FALSE]
  <2>1. <<on.state, "EnableOperation", "OperationEnabled">> \in Table
    BY <1>6 DEF Table, Transitions
  <2>2. on \in Drives /\ on.state \in Resting
    BY <1>6, DriveAt DEF Resting, DriveStates
  <2>. QED  BY <1>1, <2>1, <2>2, PoweredOn DEF DriveStates
<1>. QED  BY <1>7 DEF BroughtUp

-----------------------------------------------------------------------------
(* The bus. *)

Labels ==
  {"idle", "word", "store", "stored", "reaction", "fault slave", "clear slave",
   "exchange", "output", "store output", "input", "answered"}
Outputs == [slave : Nat, cw : Controlwords]
Calls ==
  [pc : Labels, frame : Seq(Outputs), sent : Nat, next : DriveStates, inputs : Seq(Inputs),
   cycles : Nat, cycle : Nat, first_inputs : Seq(Inputs), last_inputs : Seq(Inputs)]

\* Where a call is about to use the drive of its next output.
OnDrive == {"word", "store", "stored", "reaction", "store output", "input"}

\* The inputs so far answer the outputs that have been sent.
AnswersSent(c) ==
  /\ c.sent <= Len(c.frame) /\ Len(c.inputs) = c.sent
  /\ \A i \in 1..c.sent : c.inputs[i].slave = c.frame[i].slave

\* A call with the frame it sends, and what run_cycles has kept of its earlier cycles.
CallFits(c) ==
  /\ AnswersSent(c)
  /\ c.pc \in OnDrive => c.sent < Len(c.frame) /\ c.frame[c.sent + 1].slave \in Slaves
  /\ c.pc = "fault slave" => c.frame[c.sent + 1].slave \in BusSlaves
  /\ c.cycle > 0 => Answers(c.first_inputs, c.frame)
  /\ c.pc = "answered" =>
       /\ c.sent = Len(c.frame)
       /\ c.cycles > 0 => Answers(c.first_inputs, c.frame)
       /\ c.cycles > 1 => Answers(c.last_inputs, c.frame)

IInv ==
  /\ drive \in [Slaves -> Drives]
  /\ fault_type \in FaultTypes /\ fault_slave \in BusSlaves
  /\ call \in [Workers -> Calls]
  /\ \A w \in Workers : CallFits(call[w])

\* With the calls one after the other, the two words of the bus fault belong together
\* whenever no call is between its two stores.
FaultIsNamed ==
  /\ \A w \in Workers :
       /\ At(w, "clear slave") => fault_type = "NONE"
       /\ At(w, "fault slave") /\ fault_type = "SLAVE_LOSS" => Slave(w) \in named
  /\ fault_type = "SLAVE_LOSS" /\ (\A w \in Workers : ~At(w, "fault slave"))
       => fault_slave \in named

OneWorker == \A v, w \in Workers : v = w

-----------------------------------------------------------------------------
(* The calls on their own. *)

LEMMA NoCallFits == NoCall \in Calls /\ CallFits(NoCall)
<1>1. <<>> \in Seq(Outputs) /\ <<>> \in Seq(Inputs) /\ Len(<<>>) = 0
  BY EmptySeq
<1>2. NoCall \in Calls
  BY <1>1 DEF NoCall, Calls, Labels, DriveStates
<1>3. AnswersSent(NoCall)
  BY <1>1 DEF AnswersSent, NoCall
<1>4. NoCall.pc = "idle" /\ NoCall.cycle = 0
  BY DEF NoCall
<1>5. CallFits(NoCall)
  BY <1>3, <1>4 DEF CallFits, OnDrive
<1>. QED  BY <1>2, <1>5

LEMMA SlavesOnBus ==
  /\ Slaves \subseteq BusSlaves /\ NoSlave \in BusSlaves
  /\ \A s \in BusSlaves : s \in Nat
BY SlavesAssumption DEF Slaves, BusSlaves, NoSlave

LEMMA OneOutput ==
  ASSUME NEW S, NEW o \in S
  PROVE  <<o>> \in Seq(S) /\ Len(<<o>>) = 1 /\ <<o>>[1] = o
OBVIOUS

LEMMA OneToAnswer ==
  ASSUME NEW c, Len(c.frame) = 1, Len(c.inputs) = 0, c.sent = 0
  PROVE  AnswersSent(c) /\ c.sent < Len(c.frame) /\ c.sent + 1 = 1
BY DEF AnswersSent

LEMMA CallOnFits ==
  ASSUME NEW s \in BusSlaves, NEW cw \in Controlwords, NEW label \in Labels, label # "answered",
         label \in OnDrive => s \in Slaves
  PROVE  CallOn(s, cw, label) \in Calls /\ CallFits(CallOn(s, cw, label))
<1>. DEFINE o == [slave |-> s, cw |-> cw]
            c == CallOn(s, cw, label)
<1>1. o \in Outputs
  BY SlavesOnBus DEF Outputs
<1>. HIDE DEF o
<1>2. <<o>> \in Seq(Outputs) /\ Len(<<o>>) = 1 /\ <<o>>[1] = o
  BY <1>1, OneOutput
<1>. DEFINE f == <<o>>
<1>3. c = [pc |-> label, frame |-> f, sent |-> 0, next |-> "SwitchOnDisabled",
           inputs |-> <<>>, cycles |-> 0, cycle |-> 0, first_inputs |-> <<>>,
           last_inputs |-> <<>>]
  <2>1. c = [NoCall EXCEPT !.pc = label, !.frame = f]
    BY DEF CallOn, o
  <2>. HIDE DEF f, c
  <2>. QED  BY <2>1 DEF NoCall
<1>4. <<>> \in Seq(Inputs) /\ Len(<<>>) = 0
  BY EmptySeq
<1>. HIDE DEF c
<1>5. c \in Calls
  BY <1>2, <1>3, <1>4 DEF Calls, Labels, OnDrive, DriveStates
<1>6. /\ c.pc = label /\ c.frame = <<o>> /\ c.sent = 0 /\ c.inputs = <<>> /\ c.cycle = 0
  BY <1>3
<1>. HIDE DEF f
<1>7. Len(c.frame) = 1 /\ Len(c.inputs) = 0 /\ c.sent = 0 /\ c.frame[1].slave = s
  BY <1>2, <1>4, <1>6 DEF f, o
<1>8. AnswersSent(c) /\ c.sent < Len(c.frame) /\ c.frame[c.sent + 1].slave = s
  BY <1>7, OneToAnswer
<1>9. CallFits(c)
  <2>1. c.pc \in OnDrive => s \in Slaves
    BY <1>6
  <2>2. ~(c.cycle > 0) /\ c.pc # "answered"
    BY <1>6
  <2>. QED  BY <1>8, <2>1, <2>2 DEF CallFits
<1>. QED  BY <1>5, <1>9 DEF c

LEMMA ExchangeFits ==
  ASSUME NEW f \in Seq(Outputs), NEW n \in Nat, NEW c,
         c = [NoCall EXCEPT !.pc = "exchange", !.frame = f, !.cycles = n]
  PROVE  c \in Calls /\ CallFits(c)
<1>1. /\ c.pc = "exchange" /\ c.frame = f /\ c.sent = 0 /\ c.inputs = <<>> /\ c.cycle = 0
      /\ c.next = "SwitchOnDisabled" /\ c.cycles = n
  BY DEF NoCall
<1>2. <<>> \in Seq(Inputs) /\ Len(<<>>) = 0
  BY EmptySeq
<1>3. c \in Calls
  <2>1. "exchange" \in Labels
    BY DEF Labels
  <2>. QED  BY <2>1, NoCallFits DEF Calls
<1>4. Len(f) \in Nat
  BY LenProperties
<1>5. AnswersSent(c)
  BY <1>1, <1>2, <1>4 DEF AnswersSent
<1>. QED  BY <1>1, <1>3, <1>5 DEF CallFits, OnDrive

\* A call that goes on at another label with its frame as it was.
LEMMA MoveFits ==
  ASSUME NEW c \in Calls, CallFits(c), NEW label \in Labels \ {"fault slave"}, label # "answered",
         label \in OnDrive => c.sent < Len(c.frame) /\ c.frame[c.sent + 1].slave \in Slaves,
         NEW n \in DriveStates, NEW d, d = [c EXCEPT !.pc = label, !.next = n]
  PROVE  d \in Calls /\ CallFits(d)
<1>1. d \in Calls
  BY DEF Calls
<1>2. /\ d.pc = label /\ d.frame = c.frame /\ d.sent = c.sent /\ d.inputs = c.inputs
      /\ d.cycle = c.cycle /\ d.first_inputs = c.first_inputs
  BY DEF Calls
<1>3. AnswersSent(d)
  BY <1>2 DEF AnswersSent, CallFits
<1>. QED  BY <1>1, <1>2, <1>3 DEF CallFits

\* One more output answered.
LEMMA AnswerFits ==
  ASSUME NEW c \in Calls, CallFits(c), c.sent < Len(c.frame), NEW in \in Inputs,
         in.slave = c.frame[c.sent + 1].slave, NEW d,
         d = [c EXCEPT !.inputs = Append(c.inputs, in), !.sent = c.sent + 1, !.pc = "output"]
  PROVE  d \in Calls /\ CallFits(d)
<1>1. /\ c.inputs \in Seq(Inputs) /\ c.sent \in Nat /\ Len(c.frame) \in Nat
      /\ AnswersSent(c)
  BY LenProperties DEF Calls, CallFits
<1>2. /\ d.pc = "output" /\ d.frame = c.frame /\ d.sent = c.sent + 1
      /\ d.inputs = Append(c.inputs, in)
      /\ d.cycle = c.cycle /\ d.first_inputs = c.first_inputs
  BY DEF Calls
<1>3. /\ Append(c.inputs, in) \in Seq(Inputs) /\ Len(Append(c.inputs, in)) = c.sent + 1
      /\ \A i \in 1..c.sent : Append(c.inputs, in)[i] = c.inputs[i]
      /\ Append(c.inputs, in)[c.sent + 1] = in
  BY <1>1, AppendProperties DEF AnswersSent
<1>4. d \in Calls
  <2>1. "output" \in Labels /\ c.sent + 1 \in Nat
    BY <1>1 DEF Labels
  <2>. QED  BY <1>3, <2>1 DEF Calls
<1>5. AnswersSent(d)
  <2>1. d.sent <= Len(d.frame) /\ Len(d.inputs) = d.sent
    BY <1>1, <1>2, <1>3
  <2>2. ASSUME NEW i \in 1..d.sent PROVE d.inputs[i].slave = d.frame[i].slave
    <3>1. CASE i \in 1..c.sent
      BY <1>2, <1>3, <3>1 DEF CallFits, AnswersSent
    <3>2. CASE i = c.sent + 1
      BY <1>2, <1>3, <3>2
    <3>3. i \in 1..c.sent \/ i = c.sent + 1
      BY <1>1, <1>2
    <3>. QED  BY <3>1, <3>2, <3>3
  <2>. QED  BY <2>1, <2>2 DEF AnswersSent
<1>. QED  BY <1>2, <1>4, <1>5 DEF CallFits, OnDrive

\* A frame whose outputs are all sent is answered by its inputs.
LEMMA SentIsAnswered ==
  ASSUME NEW c \in Calls, AnswersSent(c), c.sent = Len(c.frame)
  PROVE  Answers(c.inputs, c.frame)
<1>1. DOMAIN c.frame = 1..Len(c.frame)
  BY LenProperties DEF Calls
<1>. QED  BY <1>1 DEF Answers, AnswersSent

\* What run_cycles keeps at the end of a cycle.
LEMMA Kept ==
  ASSUME NEW c \in Calls, CallFits(c), c.sent = Len(c.frame), NEW k, k = KeepInputs(c)
  PROVE  /\ k \in Calls
         /\ k.frame = c.frame /\ k.sent = c.sent /\ k.inputs = c.inputs
         /\ k.cycle = c.cycle /\ k.cycles = c.cycles
         /\ Answers(k.first_inputs, k.frame)
         /\ c.cycle > 0 => Answers(k.last_inputs, k.frame)
<1>1. Answers(c.inputs, c.frame) /\ <<>> \in Seq(Inputs) /\ c.cycle \in Nat
  BY SentIsAnswered, EmptySeq DEF CallFits, Calls
<1>2. CASE c.cycle = 0
  <2>1. k = [c EXCEPT !.first_inputs = c.inputs, !.last_inputs = <<>>]
    BY <1>2 DEF KeepInputs
  <2>2. /\ k.frame = c.frame /\ k.sent = c.sent /\ k.inputs = c.inputs
        /\ k.cycle = c.cycle /\ k.cycles = c.cycles /\ k.first_inputs = c.inputs
    BY <2>1 DEF Calls
  <2>3. k \in Calls
    BY <1>1, <2>1 DEF Calls
  <2>. QED  BY <1>1, <1>2, <2>2, <2>3
<1>3. CASE c.cycle # 0
  <2>1. k = [c EXCEPT !.last_inputs = c.inputs]
    BY <1>3 DEF KeepInputs
  <2>2. c.cycle > 0
    BY <1>1, <1>3
  <2>3. Answers(c.first_inputs, c.frame)
    BY <2>2 DEF CallFits
  <2>. QED  BY <1>1, <2>1, <2>2, <2>3 DEF Calls
<1>. QED  BY <1>2, <1>3

\* The call of a next cycle, made from k, is a call.
LEMMA CycleAgain ==
  ASSUME NEW k \in Calls, NEW n \in Nat, NEW d,
         d = [k EXCEPT !.cycle = n, !.sent = 0, !.inputs = <<>>, !.pc = "exchange"]
  PROVE  d \in Calls
<1>1. "exchange" \in Labels /\ <<>> \in Seq(Inputs)
  BY EmptySeq DEF Labels
<1>. QED  BY <1>1 DEF Calls

LEMMA NextCycleFits ==
  ASSUME NEW c \in Calls, CallFits(c), c.sent = Len(c.frame), NEW d,
         d = [KeepInputs(c) EXCEPT !.cycle = c.cycle + 1, !.sent = 0, !.inputs = <<>>,
                                   !.pc = "exchange"]
  PROVE  d \in Calls /\ CallFits(d)
<1>. DEFINE k == KeepInputs(c)
<1>1. k \in Calls /\ k.frame = c.frame /\ Answers(k.first_inputs, k.frame)
  BY Kept
<1>. HIDE DEF k
<1>2. d = [k EXCEPT !.cycle = c.cycle + 1, !.sent = 0, !.inputs = <<>>, !.pc = "exchange"]
  BY DEF k
<1>3. <<>> \in Seq(Inputs) /\ Len(<<>>) = 0 /\ c.cycle \in Nat /\ Len(c.frame) \in Nat
  BY EmptySeq, LenProperties DEF Calls
<1>4. d \in Calls
  <2>1. c.cycle + 1 \in Nat
    BY <1>3
  <2>. QED  BY <1>1, <1>2, <2>1, CycleAgain
<1>5. /\ d.pc = "exchange" /\ d.sent = 0 /\ d.inputs = <<>> /\ d.frame = k.frame
      /\ d.first_inputs = k.first_inputs
  BY <1>1, <1>2 DEF Calls
<1>6. AnswersSent(d)
  BY <1>1, <1>3, <1>5 DEF AnswersSent
<1>. QED  BY <1>1, <1>4, <1>5, <1>6 DEF CallFits, OnDrive

LEMMA CompleteFits ==
  ASSUME NEW c \in Calls, CallFits(c), c.sent = Len(c.frame), c.cycle + 1 >= c.cycles, NEW d,
         d = [(IF c.cycles = 0 THEN c ELSE KeepInputs(c)) EXCEPT !.pc = "answered"]
  PROVE  d \in Calls /\ CallFits(d)
<1>. DEFINE k == IF c.cycles = 0 THEN c ELSE KeepInputs(c)
<1>1. /\ k \in Calls
      /\ k.frame = c.frame /\ k.sent = c.sent /\ k.inputs = c.inputs
      /\ k.cycle = c.cycle /\ k.cycles = c.cycles
      /\ c.cycles # 0 => Answers(k.first_inputs, k.frame)
      /\ c.cycles # 0 /\ c.cycle > 0 => Answers(k.last_inputs, k.frame)
      /\ k.cycle > 0 => Answers(k.first_inputs, k.frame)
  BY Kept DEF CallFits
<1>. HIDE DEF k
<1>2. d = [k EXCEPT !.pc = "answered"]
  BY DEF k
<1>3. d \in Calls /\ d.pc = "answered" /\ d.frame = k.frame /\ d.sent = k.sent
      /\ d.inputs = k.inputs /\ d.cycle = k.cycle /\ d.cycles = k.cycles
      /\ d.first_inputs = k.first_inputs /\ d.last_inputs = k.last_inputs
  <2>1. k \in Calls /\ "answered" \in Labels
    BY <1>1 DEF Labels
  <2>2. d \in Calls /\ d.pc = "answered"
    BY <1>2, <2>1 DEF Calls
  <2>3. d.frame = k.frame /\ d.sent = k.sent /\ d.inputs = k.inputs
    BY <1>2, <2>1 DEF Calls
  <2>4. d.cycle = k.cycle /\ d.cycles = k.cycles
    BY <1>2, <2>1 DEF Calls
  <2>5. d.first_inputs = k.first_inputs /\ d.last_inputs = k.last_inputs
    BY <1>2, <2>1 DEF Calls
  <2>. QED  BY <2>2, <2>3, <2>4, <2>5
<1>4. AnswersSent(d)
  <2>1. AnswersSent(c)
    BY DEF CallFits
  <2>2. d.frame = c.frame /\ d.sent = c.sent /\ d.inputs = c.inputs
    BY <1>1, <1>3
  <2>. QED  BY <2>1, <2>2 DEF AnswersSent
<1>5. c.cycle \in Nat /\ c.cycles \in Nat
  BY DEF Calls
<1>6. c.cycles > 1 => c.cycle > 0
  BY <1>5
<1>7. d.cycle > 0 => Answers(d.first_inputs, d.frame)
  BY <1>1, <1>3
<1>8. d.cycles > 0 => Answers(d.first_inputs, d.frame)
  BY <1>1, <1>3, <1>5
<1>9. d.cycles > 1 => Answers(d.last_inputs, d.frame)
  BY <1>1, <1>3, <1>5, <1>6
<1>10. d.sent = Len(d.frame) /\ d.pc \notin OnDrive
  BY <1>1, <1>3 DEF OnDrive
<1>. QED  BY <1>3, <1>4, <1>7, <1>8, <1>9, <1>10 DEF CallFits

-----------------------------------------------------------------------------
(* The calls of all workers, and the drives. *)

LEMMA InitIInv == Init => IInv
<1>. SUFFICES ASSUME Init PROVE IInv
  OBVIOUS
<1>1. drive \in [Slaves -> Drives]
  <2>1. NewDrive \in Drives
    BY DEF NewDrive, Drives, DriveStates
  <2>. QED  BY <2>1 DEF Init
<1>2. fault_type \in FaultTypes /\ fault_slave \in BusSlaves
  BY SlavesOnBus DEF Init, FaultTypes
<1>3. call \in [Workers -> Calls] /\ \A w \in Workers : CallFits(call[w])
  BY NoCallFits DEF Init
<1>. QED  BY <1>1, <1>2, <1>3 DEF IInv

\* A step of worker w takes its call to c and leaves the other calls alone.
LEMMA CallKeeps ==
  ASSUME IInv, NEW w \in Workers, NEW c \in Calls, CallFits(c),
         call' = [call EXCEPT ![w] = c]
  PROVE  call' \in [Workers -> Calls] /\ \A u \in Workers : CallFits(call'[u])
<1>1. call \in [Workers -> Calls]
  BY DEF IInv
<1>2. \A u \in Workers : call'[u] = IF u = w THEN c ELSE call[u]
  BY <1>1
<1>. QED  BY <1>1, <1>2 DEF IInv

\* What is known of a call.
LEMMA CallNow ==
  ASSUME IInv, NEW w \in Workers
  PROVE  call[w] \in Calls /\ CallFits(call[w])
BY DEF IInv

LEMMA SlaveNow ==
  ASSUME IInv, NEW w \in Workers, call[w].sent < Len(call[w].frame)
  PROVE  Output(w) \in Outputs
<1>1. call[w] \in Calls
  BY CallNow
<1>2. call[w].frame \in Seq(Outputs) /\ call[w].sent \in Nat
  BY <1>1 DEF Calls
<1>3. Len(call[w].frame) \in Nat
  BY <1>2, LenProperties
<1>4. call[w].sent + 1 \in 1..Len(call[w].frame)
  BY <1>2, <1>3
<1>. QED  BY <1>2, <1>4, ElementOfSeq DEF Output

LEMMA ReturnKeeps ==
  ASSUME IInv, NEW w \in Workers, Return(w)
  PROVE  call' \in [Workers -> Calls] /\ \A u \in Workers : CallFits(call'[u])
BY NoCallFits, CallKeeps DEF Return

LEMMA CallOnKeeps ==
  ASSUME IInv, NEW w \in Workers, NEW s \in BusSlaves, NEW cw \in Controlwords,
         NEW label \in Labels, label # "answered", label \in OnDrive => s \in Slaves,
         call' = [call EXCEPT ![w] = CallOn(s, cw, label)]
  PROVE  call' \in [Workers -> Calls] /\ \A u \in Workers : CallFits(call'[u])
BY CallOnFits, CallKeeps

\* A call that goes on to another label.
LEMMA MoveKeeps ==
  ASSUME IInv, NEW w \in Workers, NEW label \in Labels \ {"fault slave"}, label # "answered",
         label \in OnDrive =>
           call[w].sent < Len(call[w].frame) /\ Slave(w) \in Slaves,
         NEW n \in DriveStates,
         call' = [call EXCEPT ![w] = [call[w] EXCEPT !.pc = label, !.next = n]]
  PROVE  call' \in [Workers -> Calls] /\ \A u \in Workers : CallFits(call'[u])
<1>. DEFINE d == [call[w] EXCEPT !.pc = label, !.next = n]
<1>1. call[w] \in Calls /\ CallFits(call[w])
  BY CallNow
<1>2. d \in Calls /\ CallFits(d)
  BY <1>1, MoveFits DEF Slave, Output
<1>. QED  BY <1>2, CallKeeps

LEMMA GotoKeeps ==
  ASSUME IInv, NEW w \in Workers, NEW label \in Labels \ {"fault slave"}, label # "answered",
         label \in OnDrive =>
           call[w].sent < Len(call[w].frame) /\ Slave(w) \in Slaves,
         Goto(w, label)
  PROVE  call' \in [Workers -> Calls] /\ \A u \in Workers : CallFits(call'[u])
<1>1. call[w] \in Calls /\ call \in [Workers -> Calls]
  BY DEF IInv
<1>2. call[w].next \in DriveStates
  BY <1>1 DEF Calls
<1>3. [call[w] EXCEPT !.pc = label] = [call[w] EXCEPT !.pc = label, !.next = call[w].next]
  BY <1>1 DEF Calls
<1>4. call' = [call EXCEPT ![w] = [call[w] EXCEPT !.pc = label, !.next = call[w].next]]
  BY <1>1, <1>3 DEF Goto
<1>. QED  BY <1>2, <1>4, MoveKeeps

\* The drive of a call.
LEMMA OnDriveNow ==
  ASSUME IInv, NEW w \in Workers, call[w].pc \in OnDrive
  PROVE  /\ call[w].sent < Len(call[w].frame) /\ Slave(w) \in Slaves
         /\ Output(w) \in Outputs /\ drive[Slave(w)] \in Drives
<1>1. CallFits(call[w])
  BY CallNow
<1>2. call[w].sent < Len(call[w].frame) /\ Slave(w) \in Slaves
  BY <1>1 DEF CallFits, Slave, Output
<1>. QED  BY <1>2, SlaveNow DEF IInv

LEMMA StoreKeeps ==
  ASSUME IInv, NEW s \in Slaves, NEW n \in DriveStates,
         drive' = [drive EXCEPT ![s] = [drive[s] EXCEPT !.state = n]]
  PROVE  drive' \in [Slaves -> Drives]
<1>1. drive \in [Slaves -> Drives]
  BY DEF IInv
<1>2. [drive[s] EXCEPT !.state = n] \in Drives
  BY <1>1 DEF Drives
<1>. QED  BY <1>1, <1>2

LEMMA LatchKeeps ==
  ASSUME IInv, NEW w \in Workers, call[w].sent < Len(call[w].frame), Slave(w) \in Slaves,
         NEW store \in Labels \ {"fault slave"}, NEW done \in Labels \ {"fault slave"},
         store # "answered", done # "answered",
         Latch(w, store, done)
  PROVE  /\ drive' \in [Slaves -> Drives]
         /\ call' \in [Workers -> Calls] /\ \A u \in Workers : CallFits(call'[u])
<1>. DEFINE s == Slave(w)
            cw == Output(w).cw
            after == NextState(drive[s], cw)
            label == IF after = Update(drive[s].state) THEN done ELSE store
<1>1. drive \in [Slaves -> Drives] /\ drive[s] \in Drives /\ cw \in Controlwords
  BY SlaveNow DEF IInv, Outputs
<1>2. after \in DriveStates
  BY <1>1, NextStateRests DEF Resting
<1>3. [state |-> Update(drive[s].state), reset_bit |-> cw.reset] \in Drives
  BY <1>1, UpdateRests DEF Drives, Controlwords, Resting
<1>4. drive' \in [Slaves -> Drives]
  <2>1. drive' = [drive EXCEPT ![s] =
                    [state |-> Update(drive[s].state), reset_bit |-> cw.reset]]
    BY <1>1 DEF Latch
  <2>. QED  BY <1>1, <1>3, <2>1
<1>5. call' = [call EXCEPT ![w] = [call[w] EXCEPT !.pc = label, !.next = after]]
  <2>1. call \in [Workers -> Calls] /\ call[w] \in Calls
    BY DEF IInv
  <2>2. call' = [call EXCEPT ![w].next = after, ![w].pc = label]
    BY DEF Latch
  <2>. HIDE DEF after, label
  <2>. QED  BY <2>1, <2>2 DEF Calls
<1>6. label \in Labels \ {"fault slave"} /\ label # "answered"
  OBVIOUS
<1>. HIDE DEF label, after, s
<1>7. call' \in [Workers -> Calls] /\ \A u \in Workers : CallFits(call'[u])
  BY <1>2, <1>5, <1>6, MoveKeeps
<1>. QED  BY <1>4, <1>7

-----------------------------------------------------------------------------
(* Every step keeps the invariant. *)

LEMMA DriveCallKeeps ==
  ASSUME IInv, NEW w \in Workers, DriveCall(w)
  PROVE  IInv'
<1>. SUFFICES /\ drive' \in [Slaves -> Drives]
              /\ fault_type' \in FaultTypes /\ fault_slave' \in BusSlaves
              /\ call' \in [Workers -> Calls] /\ \A u \in Workers : CallFits(call'[u])
  BY DEF IInv
<1>1. /\ drive \in [Slaves -> Drives]
      /\ fault_type \in FaultTypes /\ fault_slave \in BusSlaves
  BY DEF IInv
<1>2. FaultReset \in Controlwords /\ "word" \in Labels /\ "reaction" \in Labels
  BY DEF FaultReset, Controlwords, Commands, Labels
<1>3. CASE SetControlword(w)
  BY <1>1, <1>2, <1>3, CallOnKeeps, SlavesOnBus, WordsAssumption DEF SetControlword
<1>4. CASE ReadWord(w)
  <2>1. call[w].sent < Len(call[w].frame) /\ Slave(w) \in Slaves
    BY <1>4, OnDriveNow DEF ReadWord, At, OnDrive
  <2>2. "store" \in Labels /\ "stored" \in Labels
    BY DEF Labels
  <2>. QED  BY <1>1, <1>4, <2>1, <2>2, LatchKeeps DEF ReadWord
<1>5. CASE StoreWord(w)
  <2>1. call' \in [Workers -> Calls] /\ \A u \in Workers : CallFits(call'[u])
    BY <1>5, ReturnKeeps DEF StoreWord
  <2>2. CASE UNCHANGED drive
    BY <1>1, <1>5, <2>1, <2>2 DEF StoreWord
  <2>3. CASE At(w, "store") /\ drive' = [drive EXCEPT ![Slave(w)].state = call[w].next]
    <3>1. Slave(w) \in Slaves /\ call[w].next \in DriveStates
      BY <2>3, OnDriveNow, CallNow DEF At, OnDrive, Calls
    <3>2. drive' = [drive EXCEPT ![Slave(w)] = [drive[Slave(w)] EXCEPT !.state = call[w].next]]
      BY <1>1, <2>3, <3>1
    <3>3. drive' \in [Slaves -> Drives]
      BY <3>1, <3>2, StoreKeeps
    <3>. QED  BY <1>1, <1>5, <2>1, <3>3 DEF StoreWord
  <2>. QED  BY <1>5, <2>2, <2>3 DEF StoreWord
<1>6. CASE InjectFault(w)
  <2>1. PICK s \in Slaves :
          /\ drive' = [drive EXCEPT ![s].state = "FaultReactionActive"]
          /\ call' = [call EXCEPT ![w] = CallOn(s, FaultReset, "reaction")]
    BY <1>6 DEF InjectFault
  <2>2. drive' \in [Slaves -> Drives]
    <3>1. drive' = [drive EXCEPT ![s] = [drive[s] EXCEPT !.state = "FaultReactionActive"]]
      BY <1>1, <2>1
    <3>. QED  BY <3>1, StoreKeeps DEF DriveStates
  <2>3. call' \in [Workers -> Calls] /\ \A u \in Workers : CallFits(call'[u])
    BY <1>2, <2>1, CallOnKeeps, SlavesOnBus
  <2>. QED  BY <1>1, <1>6, <2>2, <2>3 DEF InjectFault
<1>7. CASE CompleteReaction(w)
  <2>1. call' \in [Workers -> Calls] /\ \A u \in Workers : CallFits(call'[u])
    BY <1>7, ReturnKeeps DEF CompleteReaction
  <2>2. Slave(w) \in Slaves /\ drive[Slave(w)].state \in DriveStates
    BY <1>7, OnDriveNow DEF CompleteReaction, At, OnDrive, Drives
  <2>3. Update(drive[Slave(w)].state) \in DriveStates
    BY <2>2, UpdateRests DEF Resting
  <2>4. drive' = [drive EXCEPT ![Slave(w)] =
                    [drive[Slave(w)] EXCEPT !.state = Update(drive[Slave(w)].state)]]
    BY <1>1, <1>7, <2>2 DEF CompleteReaction
  <2>5. drive' \in [Slaves -> Drives]
    BY <2>2, <2>3, <2>4, StoreKeeps
  <2>. QED  BY <1>1, <1>7, <2>1, <2>5 DEF CompleteReaction
<1>. QED  BY <1>3, <1>4, <1>5, <1>6, <1>7 DEF DriveCall

LEMMA FaultCallKeeps ==
  ASSUME IInv, NEW w \in Workers, FaultCall(w)
  PROVE  IInv'
<1>. SUFFICES /\ drive' \in [Slaves -> Drives]
              /\ fault_type' \in FaultTypes /\ fault_slave' \in BusSlaves
              /\ call' \in [Workers -> Calls] /\ \A u \in Workers : CallFits(call'[u])
  BY DEF IInv
<1>1. /\ drive \in [Slaves -> Drives]
      /\ fault_type \in FaultTypes /\ fault_slave \in BusSlaves
  BY DEF IInv
<1>2. CASE InjectBusFault(w)
  <2>1. FaultReset \in Controlwords /\ "fault slave" \in Labels \ OnDrive
    BY DEF FaultReset, Controlwords, Commands, OnDrive, Labels
  <2>2. PICK type \in FaultTypes, s \in BusSlaves :
          /\ fault_type' = type
          /\ call' = [call EXCEPT ![w] = CallOn(s, FaultReset, "fault slave")]
    BY <1>2 DEF InjectBusFault
  <2>3. call' \in [Workers -> Calls] /\ \A u \in Workers : CallFits(call'[u])
    BY <2>1, <2>2, CallOnKeeps
  <2>. QED  BY <1>1, <1>2, <2>2, <2>3 DEF InjectBusFault
<1>3. CASE InjectFaultSlave(w)
  <2>1. call' \in [Workers -> Calls] /\ \A u \in Workers : CallFits(call'[u])
    BY <1>3, ReturnKeeps DEF InjectFaultSlave
  <2>2. Slave(w) \in BusSlaves
    BY <1>3, CallNow DEF InjectFaultSlave, At, CallFits, Slave, Output
  <2>. QED  BY <1>1, <1>3, <2>1, <2>2 DEF InjectFaultSlave
<1>4. CASE ClearBusFault(w)
  <2>1. "clear slave" \in Labels /\ "clear slave" \notin OnDrive
    BY DEF Labels, OnDrive
  <2>2. call' \in [Workers -> Calls] /\ \A u \in Workers : CallFits(call'[u])
    BY <1>4, <2>1, GotoKeeps DEF ClearBusFault
  <2>. QED  BY <1>1, <1>4, <2>2 DEF ClearBusFault, FaultTypes
<1>5. CASE ClearFaultSlave(w)
  <2>1. call' \in [Workers -> Calls] /\ \A u \in Workers : CallFits(call'[u])
    BY <1>5, ReturnKeeps DEF ClearFaultSlave
  <2>. QED  BY <1>1, <1>5, <2>1, SlavesOnBus DEF ClearFaultSlave
<1>. QED  BY <1>2, <1>3, <1>4, <1>5 DEF FaultCall

\* The answer of an output, with the state of its drive or as lost.
LEMMA AnswerKeeps ==
  ASSUME IInv, NEW w \in Workers, call[w].sent < Len(call[w].frame), Slave(w) \in Slaves,
         NEW state \in DriveStates \cup {"LOST"}, Answer(w, state)
  PROVE  call' \in [Workers -> Calls] /\ \A u \in Workers : CallFits(call'[u])
<1>. DEFINE c == call[w]
            in == [slave |-> Slave(w), state |-> state]
            d == [c EXCEPT !.inputs = Append(c.inputs, in), !.sent = c.sent + 1,
                           !.pc = "output"]
<1>1. c \in Calls /\ CallFits(c) /\ call \in [Workers -> Calls]
  BY DEF IInv
<1>2. in \in Inputs /\ in.slave = c.frame[c.sent + 1].slave
  BY DEF Inputs, Slave, Output
<1>3. d \in Calls /\ CallFits(d)
  <2>. HIDE DEF in
  <2>. QED  BY <1>1, <1>2, AnswerFits
<1>4. call' = [call EXCEPT ![w] = d]
  <2>1. call' = [call EXCEPT ![w].inputs = Append(@, in), ![w].sent = @ + 1,
                             ![w].pc = "output"]
    BY DEF Answer
  <2>. HIDE DEF in
  <2>. QED  BY <1>1, <2>1 DEF Calls
<1>. HIDE DEF d
<1>. QED  BY <1>3, <1>4, CallKeeps

LEMMA FrameCallKeeps ==
  ASSUME IInv, NEW w \in Workers, FrameCall(w)
  PROVE  IInv'
<1>. SUFFICES /\ drive' \in [Slaves -> Drives]
              /\ fault_type' \in FaultTypes /\ fault_slave' \in BusSlaves
              /\ call' \in [Workers -> Calls] /\ \A u \in Workers : CallFits(call'[u])
  BY DEF IInv
<1>1. /\ drive \in [Slaves -> Drives]
      /\ fault_type \in FaultTypes /\ fault_slave \in BusSlaves
      /\ call \in [Workers -> Calls] /\ call[w] \in Calls /\ CallFits(call[w])
  BY DEF IInv
<1>2. CASE Exchange(w)
  <2>1. PICK f \in Frames, n \in 0..MaxCycles :
          call' = [call EXCEPT ![w] = [NoCall EXCEPT !.pc = "exchange", !.frame = f,
                                                     !.cycles = n]]
    BY <1>2 DEF Exchange
  <2>2. n \in Nat
    BY CyclesAssumption
  <2>4. f \in Seq(Outputs)
    BY FramesAssumption DEF Outputs
  <2>3. call' \in [Workers -> Calls] /\ \A u \in Workers : CallFits(call'[u])
    BY <2>1, <2>2, <2>4, ExchangeFits, CallKeeps
  <2>. QED  BY <1>1, <1>2, <2>3 DEF Exchange, ExchangeOnly
<1>3. CASE CheckBus(w)
  <2>1. "output" \in Labels /\ "output" \notin OnDrive
    BY DEF Labels, OnDrive
  <2>2. Return(w) \/ Goto(w, "output")
    BY <1>3 DEF CheckBus
  <2>3. call' \in [Workers -> Calls] /\ \A u \in Workers : CallFits(call'[u])
    BY <2>1, <2>2, ReturnKeeps, GotoKeeps
  <2>. QED  BY <1>1, <1>3, <2>3 DEF CheckBus, ExchangeOnly
<1>4. CASE RejectSlave(w) \/ Acknowledge(w)
  <2>1. call' \in [Workers -> Calls] /\ \A u \in Workers : CallFits(call'[u])
    BY <1>4, ReturnKeeps DEF RejectSlave, Acknowledge
  <2>. QED  BY <1>1, <1>4, <2>1 DEF RejectSlave, Acknowledge, ExchangeOnly
<1>5. CASE LoseSlave(w)
  <2>1. call' \in [Workers -> Calls] /\ \A u \in Workers : CallFits(call'[u])
    BY <1>5, AnswerKeeps DEF LoseSlave, OutputLeft
  <2>. QED  BY <1>1, <1>5, <2>1 DEF LoseSlave, ExchangeOnly
<1>6. CASE WriteOutput(w)
  <2>1. "store output" \in Labels /\ "input" \in Labels
    BY DEF Labels
  <2>2. /\ drive' \in [Slaves -> Drives]
        /\ call' \in [Workers -> Calls] /\ \A u \in Workers : CallFits(call'[u])
    BY <1>6, <2>1, LatchKeeps DEF WriteOutput, OutputLeft
  <2>. QED  BY <1>1, <1>6, <2>2 DEF WriteOutput
<1>7. CASE StoreOutput(w)
  <2>1. /\ call[w].sent < Len(call[w].frame) /\ Slave(w) \in Slaves
        /\ call[w].next \in DriveStates
    BY <1>1, <1>7, OnDriveNow DEF StoreOutput, At, OnDrive, Calls
  <2>2. drive' = [drive EXCEPT ![Slave(w)] = [drive[Slave(w)] EXCEPT !.state = call[w].next]]
    BY <1>1, <1>7, <2>1 DEF StoreOutput
  <2>3. drive' \in [Slaves -> Drives]
    BY <2>1, <2>2, StoreKeeps
  <2>4. "input" \in Labels
    BY DEF Labels
  <2>5. call' \in [Workers -> Calls] /\ \A u \in Workers : CallFits(call'[u])
    BY <1>7, <2>1, <2>4, GotoKeeps DEF StoreOutput
  <2>. QED  BY <1>1, <1>7, <2>3, <2>5 DEF StoreOutput
<1>8. CASE ReadInput(w)
  <2>1. /\ call[w].sent < Len(call[w].frame) /\ Slave(w) \in Slaves
        /\ drive[Slave(w)].state \in DriveStates
    BY <1>8, OnDriveNow DEF ReadInput, At, OnDrive, Drives
  <2>2. call' \in [Workers -> Calls] /\ \A u \in Workers : CallFits(call'[u])
    BY <1>8, <2>1, AnswerKeeps DEF ReadInput
  <2>. QED  BY <1>1, <1>8, <2>2 DEF ReadInput, ExchangeOnly
<1>9. CASE NextCycle(w)
  <2>. DEFINE d == [KeepInputs(call[w]) EXCEPT !.cycle = call[w].cycle + 1, !.sent = 0,
                                               !.inputs = <<>>, !.pc = "exchange"]
  <2>1. call[w].sent = Len(call[w].frame)
    BY <1>9 DEF NextCycle, FrameDone
  <2>2. d \in Calls /\ CallFits(d)
    BY <1>1, <2>1, NextCycleFits
  <2>3. call' = [call EXCEPT ![w] = d]
    BY <1>9 DEF NextCycle
  <2>. HIDE DEF d
  <2>4. call' \in [Workers -> Calls] /\ \A u \in Workers : CallFits(call'[u])
    BY <2>2, <2>3, CallKeeps
  <2>. QED  BY <1>1, <1>9, <2>4 DEF NextCycle, ExchangeOnly
<1>10. CASE Complete(w)
  <2>. DEFINE d == [(IF call[w].cycles = 0 THEN call[w] ELSE KeepInputs(call[w]))
                     EXCEPT !.pc = "answered"]
  <2>1. call[w].sent = Len(call[w].frame) /\ call[w].cycle + 1 >= call[w].cycles
    BY <1>10 DEF Complete, FrameDone
  <2>2. d \in Calls /\ CallFits(d)
    BY <1>1, <2>1, CompleteFits
  <2>3. call' = [call EXCEPT ![w] = d]
    BY <1>1, <1>10 DEF Complete
  <2>. HIDE DEF d
  <2>4. call' \in [Workers -> Calls] /\ \A u \in Workers : CallFits(call'[u])
    BY <2>2, <2>3, CallKeeps
  <2>. QED  BY <1>1, <1>10, <2>4 DEF Complete, ExchangeOnly
<1>. QED  BY <1>2, <1>3, <1>4, <1>5, <1>6, <1>7, <1>8, <1>9, <1>10 DEF FrameCall

LEMMA NextIInv == IInv /\ [Next]_vars => IInv'
<1>. SUFFICES ASSUME IInv, [Next]_vars PROVE IInv'
  OBVIOUS
<1>1. CASE Next
  BY <1>1, DriveCallKeeps, FaultCallKeeps, FrameCallKeeps DEF Next
<1>2. CASE UNCHANGED vars
  BY <1>2 DEF vars, IInv
<1>. QED  BY <1>1, <1>2

\* IInv holds in every state of Spec.
THEOREM Invariance == Spec => []IInv
<1>. QED  BY InitIInv, NextIInv, PTL DEF Spec

\* The words of the bus, the drives and the locals of every call have their types.
THEOREM TypeCorrect == Spec => []TypeOK
<1>1. IInv => TypeOK
  <2>. SUFFICES ASSUME IInv, NEW w \in Workers
                PROVE  /\ call[w].next \in DriveStates
                       /\ call[w].sent \in 0..Len(call[w].frame)
                       /\ call[w].inputs \in Seq(Inputs)
                       /\ call[w].first_inputs \in Seq(Inputs)
                       /\ call[w].last_inputs \in Seq(Inputs)
    BY DEF IInv, TypeOK
  <2>1. call[w] \in Calls /\ CallFits(call[w])
    BY CallNow
  <2>2. call[w].sent \in Nat /\ Len(call[w].frame) \in Nat
    BY <2>1, LenProperties DEF Calls
  <2>3. call[w].sent <= Len(call[w].frame)
    BY <2>1 DEF CallFits, AnswersSent
  <2>. QED  BY <2>1, <2>2, <2>3 DEF Calls
<1>. QED  BY <1>1, Invariance, PTL

\* Whatever clients do to the drives, all at once, every drive stays one that a repeated
\* controlword settles and the power-on sequence recovers.
THEOREM Recoverable == Spec => []AlwaysRecoverable
<1>1. IInv => AlwaysRecoverable
  BY DrivesSettle, DrivesRecover DEF IInv, AlwaysRecoverable
<1>. QED  BY <1>1, Invariance, PTL

\* Every answer of CycleExchange and RunCycles matches the frame output by output, though
\* slaves are lost under it and other workers write the drives (virtual_ethercat.cpp:50-136).
THEOREM InputsMatch == Spec => []InputsMatchFrame
<1>1. IInv => InputsMatchFrame
  <2>. SUFFICES ASSUME IInv, NEW w \in Workers, At(w, "answered")
                PROVE  /\ Answers(call[w].inputs, call[w].frame)
                       /\ call[w].cycles > 0 => Answers(call[w].first_inputs, call[w].frame)
                       /\ call[w].cycles > 1 => Answers(call[w].last_inputs, call[w].frame)
    BY DEF InputsMatchFrame
  <2>1. call[w] \in Calls /\ CallFits(call[w])
    BY CallNow
  <2>2. Answers(call[w].inputs, call[w].frame)
    BY <2>1, SentIsAnswered DEF CallFits, At
  <2>. QED  BY <2>1, <2>2 DEF CallFits, At
<1>. QED  BY <1>1, Invariance, PTL

-----------------------------------------------------------------------------
(* The words of a bus fault, while calls do not overlap. *)

\* A step that leaves the bus fault alone and is not of a call about to store it.
LEMMA FaultUntouched ==
  ASSUME FaultIsNamed, IInv, NEW w \in Workers,
         UNCHANGED <<fault_type, fault_slave, named>>,
         \A u \in Workers : u # w => call'[u] = call[u],
         call[w].pc # "fault slave", call'[w].pc \notin {"fault slave", "clear slave"}
  PROVE  FaultIsNamed'
<1>1. \A u \in Workers : At(u, "fault slave")' => u # w /\ call'[u] = call[u]
  BY DEF At
<1>2. \A u \in Workers : At(u, "clear slave")' => u # w /\ call'[u] = call[u]
  BY DEF At
<1>3. ASSUME NEW u \in Workers
      PROVE  /\ At(u, "clear slave")' => fault_type' = "NONE"
             /\ At(u, "fault slave")' /\ fault_type' = "SLAVE_LOSS" => Slave(u)' \in named'
  BY <1>1, <1>2 DEF FaultIsNamed, At, Slave, Output
<1>4. ASSUME \A u \in Workers : ~At(u, "fault slave")' PROVE \A u \in Workers : ~At(u, "fault slave")
  BY <1>4 DEF At
<1>5. fault_type' = "SLAVE_LOSS" /\ (\A u \in Workers : ~At(u, "fault slave")')
        => fault_slave' \in named'
  BY <1>4 DEF FaultIsNamed
<1>. QED  BY <1>3, <1>5 DEF FaultIsNamed

LEMMA OthersStay ==
  ASSUME IInv, NEW w \in Workers, DriveCall(w) \/ FrameCall(w)
  PROVE  /\ \A u \in Workers : u # w => call'[u] = call[u]
         /\ call[w].pc # "fault slave" /\ call'[w].pc \notin {"fault slave", "clear slave"}
         /\ UNCHANGED <<fault_type, fault_slave, named>>
<1>1. call \in [Workers -> Calls] /\ call[w] \in Calls
  BY DEF IInv
<1>2. UNCHANGED <<fault_type, fault_slave, named>>
  BY DEF DriveCall, FrameCall, SetControlword, ReadWord, StoreWord, InjectFault,
         CompleteReaction, Exchange, CheckBus, RejectSlave, LoseSlave, WriteOutput,
         StoreOutput, ReadInput, NextCycle, Complete, Acknowledge, ExchangeOnly
<1>3. call[w].pc # "fault slave"
  BY DEF DriveCall, FrameCall, SetControlword, ReadWord, StoreWord, InjectFault,
         CompleteReaction, Exchange, CheckBus, RejectSlave, LoseSlave, WriteOutput,
         StoreOutput, ReadInput, NextCycle, Complete, Acknowledge, At, OutputLeft, FrameDone
<1>. DEFINE Quiet(c) == c.pc \notin {"fault slave", "clear slave"}
<1>4. ASSUME NEW c, call' = [call EXCEPT ![w] = c]
      PROVE  call'[w] = c /\ \A u \in Workers : u # w => call'[u] = call[u]
  BY <1>1, <1>4
<1>5. ASSUME NEW label, Goto(w, label), label \notin {"fault slave", "clear slave"}
      PROVE  Quiet(call'[w]) /\ \A u \in Workers : u # w => call'[u] = call[u]
  BY <1>1, <1>5 DEF Goto, Calls
<1>6. ASSUME Return(w)
      PROVE  Quiet(call'[w]) /\ \A u \in Workers : u # w => call'[u] = call[u]
  BY <1>1, <1>6 DEF Return, NoCall
<1>7. ASSUME NEW store, NEW done, Latch(w, store, done),
             {store, done} \cap {"fault slave", "clear slave"} = {}
      PROVE  Quiet(call'[w]) /\ \A u \in Workers : u # w => call'[u] = call[u]
  BY <1>1, <1>7 DEF Latch, Calls
<1>8. ASSUME NEW state, Answer(w, state)
      PROVE  Quiet(call'[w]) /\ \A u \in Workers : u # w => call'[u] = call[u]
  BY <1>1, <1>8 DEF Answer, Calls
<1>9. \A s, cw, label : CallOn(s, cw, label).pc = label
  BY DEF CallOn, NoCall
<1>. DEFINE Done == Quiet(call'[w]) /\ \A u \in Workers : u # w => call'[u] = call[u]
<1>10. CASE SetControlword(w) \/ InjectFault(w)
  <2>1. PICK c : call' = [call EXCEPT ![w] = c] /\ c.pc \in {"word", "reaction"}
    <3>1. CASE SetControlword(w)
      <4>1. PICK s \in Slaves, cw \in Words :
              call' = [call EXCEPT ![w] = CallOn(s, cw, "word")]
        BY <3>1 DEF SetControlword
      <4>2. CallOn(s, cw, "word").pc = "word"
        BY <1>9
      <4>. QED  BY <4>1, <4>2, Zenon
    <3>2. CASE InjectFault(w)
      <4>1. PICK s \in Slaves : call' = [call EXCEPT ![w] = CallOn(s, FaultReset, "reaction")]
        BY <3>2 DEF InjectFault
      <4>2. CallOn(s, FaultReset, "reaction").pc = "reaction"
        BY <1>9
      <4>. QED  BY <4>1, <4>2, Zenon
    <3>. QED  BY <1>10, <3>1, <3>2
  <2>. QED  BY <1>2, <1>3, <1>4, <2>1
<1>11. CASE StoreWord(w) \/ CompleteReaction(w) \/ RejectSlave(w) \/ Acknowledge(w)
  BY <1>2, <1>3, <1>6, <1>11 DEF StoreWord, CompleteReaction, RejectSlave, Acknowledge
<1>12. CASE ReadWord(w) \/ WriteOutput(w)
  BY <1>2, <1>3, <1>7, <1>12 DEF ReadWord, WriteOutput
<1>13. CASE Exchange(w)
  BY <1>1, <1>2, <1>3, <1>13 DEF Exchange, NoCall
<1>14. CASE CheckBus(w) \/ StoreOutput(w)
  BY <1>2, <1>3, <1>5, <1>6, <1>14 DEF CheckBus, StoreOutput
<1>15. CASE LoseSlave(w) \/ ReadInput(w)
  BY <1>2, <1>3, <1>8, <1>15 DEF LoseSlave, ReadInput
<1>16. CASE NextCycle(w)
  <2>1. call[w].sent = Len(call[w].frame) /\ CallFits(call[w])
    BY <1>16, CallNow DEF NextCycle, FrameDone
  <2>2. KeepInputs(call[w]) \in Calls
    BY <1>1, <2>1, Kept
  <2>3. [KeepInputs(call[w]) EXCEPT !.cycle = call[w].cycle + 1, !.sent = 0,
                                    !.inputs = <<>>, !.pc = "exchange"].pc = "exchange"
    BY <2>2 DEF Calls
  <2>. QED  BY <1>2, <1>3, <1>4, <1>16, <2>3 DEF NextCycle
<1>17. CASE Complete(w)
  <2>1. call[w].sent = Len(call[w].frame) /\ CallFits(call[w])
    BY <1>17, CallNow DEF Complete, FrameDone
  <2>2. KeepInputs(call[w]) \in Calls
    BY <1>1, <2>1, Kept
  <2>. DEFINE k == IF call[w].cycles = 0 THEN call[w] ELSE KeepInputs(call[w])
  <2>3. k \in Calls
    BY <1>1, <2>2
  <2>4. call' = [call EXCEPT ![w] = [k EXCEPT !.pc = "answered"]]
    BY <1>17 DEF Complete
  <2>. HIDE DEF k
  <2>5. [k EXCEPT !.pc = "answered"].pc = "answered"
    BY <2>3 DEF Calls
  <2>. QED  BY <1>2, <1>3, <1>4, <2>4, <2>5
<1>. QED  BY <1>10, <1>11, <1>12, <1>13, <1>14, <1>15, <1>16, <1>17 DEF DriveCall, FrameCall

LEMMA FaultCallNames ==
  ASSUME OneWorker, FaultIsNamed, IInv, NEW w \in Workers, FaultCall(w)
  PROVE  FaultIsNamed'
<1>1. \A u \in Workers : u = w
  BY DEF OneWorker
<1>2. call \in [Workers -> Calls] /\ call[w] \in Calls
  BY DEF IInv
<1>3. CASE InjectBusFault(w)
  <2>1. PICK type \in FaultTypes, s \in BusSlaves :
          /\ fault_type' = type
          /\ named' = IF type = "SLAVE_LOSS" THEN named \cup {s} ELSE named
          /\ call' = [call EXCEPT ![w] = CallOn(s, FaultReset, "fault slave")]
    BY <1>3 DEF InjectBusFault
  <2>2. call'[w] = CallOn(s, FaultReset, "fault slave")
    BY <1>2, <2>1
  <2>3. call'[w].pc = "fault slave" /\ Slave(w)' = s
    BY <2>2 DEF CallOn, NoCall, Slave, Output
  <2>. QED  BY <1>1, <2>1, <2>3 DEF FaultIsNamed, At
<1>4. CASE InjectFaultSlave(w)
  <2>1. call'[w].pc = "idle"
    BY <1>2, <1>4 DEF InjectFaultSlave, Return, NoCall
  <2>2. fault_type = "SLAVE_LOSS" => Slave(w) \in named
    BY <1>4 DEF FaultIsNamed, InjectFaultSlave
  <2>. QED  BY <1>1, <1>4, <2>1, <2>2 DEF FaultIsNamed, InjectFaultSlave, At
<1>5. CASE ClearBusFault(w)
  <2>1. call'[w].pc = "clear slave"
    BY <1>2, <1>5 DEF ClearBusFault, Goto, Calls
  <2>. QED  BY <1>1, <1>5, <2>1 DEF FaultIsNamed, ClearBusFault, At
<1>6. CASE ClearFaultSlave(w)
  <2>1. call'[w].pc = "idle"
    BY <1>2, <1>6 DEF ClearFaultSlave, Return, NoCall
  <2>2. fault_type' = "NONE"
    BY <1>6 DEF FaultIsNamed, ClearFaultSlave
  <2>. QED  BY <1>1, <2>1, <2>2 DEF FaultIsNamed, At
<1>. QED  BY <1>3, <1>4, <1>5, <1>6 DEF FaultCall

LEMMA NextFaultIsNamed ==
  ASSUME OneWorker, IInv, FaultIsNamed, [Next]_vars
  PROVE  FaultIsNamed'
<1>1. ASSUME NEW w \in Workers, DriveCall(w) \/ FrameCall(w) PROVE FaultIsNamed'
  BY <1>1, OthersStay, FaultUntouched
<1>2. ASSUME NEW w \in Workers, FaultCall(w) PROVE FaultIsNamed'
  BY <1>2, FaultCallNames
<1>3. CASE UNCHANGED vars
  BY <1>3 DEF vars, FaultIsNamed, At, Slave, Output
<1>. QED  BY <1>1, <1>2, <1>3 DEF Next

\* While calls do not overlap, only a slave that a SLAVE_LOSS injection has named since the
\* last clear is answered LOST (inject_fault and exchange in virtual_ethercat.cpp).  Calls
\* that overlap can see the kind of one injection with the slave of another.
THEOREM NamedAlone ==
  ASSUME OneWorker
  PROVE  Spec => OnlyNamedSlaveIsLost
<1>1. Init => FaultIsNamed
  BY DEF Init, FaultIsNamed, At, NoCall
<1>2. IInv /\ FaultIsNamed /\ [Next]_vars => FaultIsNamed'
  BY OneWorker, NextFaultIsNamed
<1>3. FaultIsNamed => \A w \in Workers : LoseSlave(w) => Slave(w) \in named
  <2>. SUFFICES ASSUME FaultIsNamed, NEW w \in Workers, LoseSlave(w)
                PROVE  Slave(w) \in named
    OBVIOUS
  <2>1. \A u \in Workers : u = w
    BY OneWorker DEF OneWorker
  <2>2. At(w, "output") /\ IsLost(w)
    BY DEF LoseSlave, OutputLeft
  <2>3. \A u \in Workers : ~At(u, "fault slave")
    BY <2>1, <2>2 DEF At
  <2>. QED  BY <2>2, <2>3 DEF FaultIsNamed, IsLost
<1>4. Spec => [](IInv /\ FaultIsNamed)
  BY <1>1, <1>2, Invariance, PTL DEF Spec
<1>. QED  BY <1>3, <1>4, PTL DEF Spec, OnlyNamedSlaveIsLost
=============================================================================
