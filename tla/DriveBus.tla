------------------------------ MODULE DriveBus -------------------------------
(***************************************************************************)
(* The virtual drives and the virtual EtherCAT bus over them, as their two *)
(* gRPC services use them: Cia402Service writes a drive directly,          *)
(* EthercatService through a frame.                                        *)
(*                                                                         *)
(* Neither the drives nor the bus has a mutex.  A worker therefore reads   *)
(* the state of a drive, and stores the next one, in two steps; it stores  *)
(* the two words of a bus fault in two steps as well; the completion of a  *)
(* fault reaction is one step.  The position and mode objects are left     *)
(* out (nothing here depends on them), and with them WriteObject, which on *)
(* the controlword object does what SetControlword does.                   *)
(***************************************************************************)
EXTENDS Cia402, Naturals, Sequences

CONSTANTS
  Workers,     \* gRPC worker threads
  NumSlaves,   \* drives are 0 .. NumSlaves-1; NumSlaves is an unknown one
  Words,       \* controlwords that clients write
  Frames,      \* sequences of [slave, cw]: the outputs clients send
  MaxCycles    \* bound: cycles of one RunCycles

ASSUME SlavesAssumption == NumSlaves \in Nat \ {0}
ASSUME WordsAssumption == Words \subseteq Controlwords
ASSUME FramesAssumption == Frames \subseteq Seq([slave : Nat, cw : Controlwords])
ASSUME CyclesAssumption == MaxCycles \in Nat

Slaves == 0..NumSlaves - 1
NoSlave == NumSlaves + 1   \* fault_slave_ = -1
BusSlaves == 0..NoSlave    \* what a client may name in a bus fault

VARIABLES
  drive,                    \* slave -> drive
  fault_type, fault_slave,  \* of the bus
  call,      \* per worker: where its call is, and the locals of the call
  faulted,   \* history: drives whose InjectFault has returned, until their reset
  named      \* history: slaves named by a SLAVE_LOSS since the bus was last cleared

vars == <<drive, fault_type, fault_slave, call, faulted, named>>

FaultTypes == {"NONE", "LINK_LOSS", "SLAVE_LOSS", "BUS_ERROR"}

\* The locals: the frame being sent and how many of its outputs are done, the drive
\* state about to be stored, the inputs so far, and those of run_cycles.
NoCall ==
  [pc |-> "idle", frame |-> <<>>, sent |-> 0, next |-> "SwitchOnDisabled", inputs |-> <<>>,
   cycles |-> 0, cycle |-> 0, first_inputs |-> <<>>, last_inputs |-> <<>>]

Init ==
  /\ drive = [s \in Slaves |-> NewDrive]
  /\ fault_type = "NONE" /\ fault_slave = NoSlave
  /\ call = [w \in Workers |-> NoCall]
  /\ faulted = {} /\ named = {}

At(w, label) == call[w].pc = label
Goto(w, label) == call' = [call EXCEPT ![w].pc = label]
Return(w) == call' = [call EXCEPT ![w] = NoCall]

\* A call on one slave is a frame of one output.
CallOn(s, cw, label) ==
  [NoCall EXCEPT !.pc = label, !.frame = <<[slave |-> s, cw |-> cw]>>]

Output(w) == call[w].frame[call[w].sent + 1]
Slave(w) == Output(w).slave

-----------------------------------------------------------------------------
(* Cia402Service *)

SetControlword(w) ==
  /\ At(w, "idle")
  /\ \E s \in Slaves, cw \in Words : call' = [call EXCEPT ![w] = CallOn(s, cw, "word")]
  /\ UNCHANGED <<drive, fault_type, fault_slave, faulted, named>>

\* set_controlword up to its reading of the state: bit 7 is remembered, a fault
\* reaction completes.  If the word makes no transition the call is done, at label
\* done; otherwise the next state is stored in a step of its own.
Latch(w, store, done) ==
  LET s == Slave(w)
      cw == Output(w).cw
      after == NextState(drive[s], cw)
  IN /\ drive' = [drive EXCEPT ![s] = [state |-> Update(@.state), reset_bit |-> cw.reset]]
     /\ faulted' = IF ResetRising(drive[s], cw) THEN faulted \ {s} ELSE faulted
     /\ call' = [call EXCEPT ![w].next = after,
                             ![w].pc = IF after = Update(drive[s].state) THEN done ELSE store]

ReadWord(w) ==
  /\ At(w, "word")
  /\ Latch(w, "store", "stored")
  /\ UNCHANGED <<fault_type, fault_slave, named>>

StoreWord(w) ==
  /\ \/ At(w, "store") /\ drive' = [drive EXCEPT ![Slave(w)].state = call[w].next]
     \/ At(w, "stored") /\ UNCHANGED drive
  /\ Return(w)
  /\ UNCHANGED <<fault_type, fault_slave, faulted, named>>

\* inject_fault: a drive that is already in or going to Fault is left alone.
InjectFault(w) ==
  /\ At(w, "idle")
  /\ \E s \in Slaves :
       /\ drive[s].state \notin {"Fault", "FaultReactionActive"}
       /\ drive' = [drive EXCEPT ![s].state = "FaultReactionActive"]
       /\ call' = [call EXCEPT ![w] = CallOn(s, FaultReset, "reaction")]
  /\ UNCHANGED <<fault_type, fault_slave, faulted, named>>

CompleteReaction(w) ==
  /\ At(w, "reaction")
  /\ drive' = [drive EXCEPT ![Slave(w)].state = Update(@)]
  /\ faulted' = IF drive'[Slave(w)].state = "Fault" THEN faulted \cup {Slave(w)} ELSE faulted
  /\ Return(w)
  /\ UNCHANGED <<fault_type, fault_slave, named>>

-----------------------------------------------------------------------------
(* EthercatService: the bus fault. *)

\* Only a SLAVE_LOSS needs a slave there is.
InjectBusFault(w) ==
  /\ At(w, "idle")
  /\ \E type \in FaultTypes, s \in BusSlaves :
       /\ type = "SLAVE_LOSS" => s \in Slaves
       /\ fault_type' = type
       /\ named' = IF type = "SLAVE_LOSS" THEN named \cup {s} ELSE named
       /\ call' = [call EXCEPT ![w] = CallOn(s, FaultReset, "fault slave")]
  /\ UNCHANGED <<drive, fault_slave, faulted>>

InjectFaultSlave(w) ==
  /\ At(w, "fault slave")
  /\ fault_slave' = Slave(w)
  /\ Return(w)
  /\ UNCHANGED <<drive, fault_type, faulted, named>>

ClearBusFault(w) ==
  /\ At(w, "idle")
  /\ fault_type' = "NONE"
  /\ Goto(w, "clear slave")
  /\ UNCHANGED <<drive, fault_slave, faulted, named>>

ClearFaultSlave(w) ==
  /\ At(w, "clear slave")
  /\ fault_slave' = NoSlave
  /\ named' = {}
  /\ Return(w)
  /\ UNCHANGED <<drive, fault_type, faulted>>

-----------------------------------------------------------------------------
(* EthercatService: CycleExchange (cycles = 0) and RunCycles.  A step of an    *)
(* exchange changes the locals of its call and, where said, drives.            *)

ExchangeOnly == UNCHANGED <<drive, fault_type, fault_slave, faulted, named>>

Exchange(w) ==
  /\ At(w, "idle")
  /\ \E f \in Frames, n \in 0..MaxCycles :
       call' = [call EXCEPT ![w] = [NoCall EXCEPT !.pc = "exchange", !.frame = f,
                                                  !.cycles = n]]
  /\ ExchangeOnly

\* The bus-wide fault is looked at once a frame, before its first output.
BusDown == fault_type \in {"LINK_LOSS", "BUS_ERROR"}
CheckBus(w) ==
  /\ At(w, "exchange")
  /\ IF BusDown THEN Return(w) ELSE Goto(w, "output")
  /\ ExchangeOnly

OutputLeft(w) == At(w, "output") /\ call[w].sent < Len(call[w].frame)

\* An unknown slave ends the exchange; the outputs before it have taken effect.
RejectSlave(w) ==
  /\ OutputLeft(w)
  /\ Slave(w) \notin Slaves
  /\ Return(w)
  /\ ExchangeOnly

Answer(w, state) ==
  call' = [call EXCEPT ![w].inputs = Append(@, [slave |-> Slave(w), state |-> state]),
                       ![w].sent = @ + 1, ![w].pc = "output"]

\* Fault variant: the kind of the bus fault is not looked at.
IsLostAnyType(w) == Slave(w) = fault_slave

IsLost(w) == fault_type = "SLAVE_LOSS" /\ Slave(w) = fault_slave

LoseSlave(w) ==
  /\ OutputLeft(w)
  /\ Slave(w) \in Slaves /\ IsLost(w)
  /\ Answer(w, "LOST")
  /\ ExchangeOnly

WriteOutput(w) ==
  /\ OutputLeft(w)
  /\ Slave(w) \in Slaves /\ ~IsLost(w)
  /\ Latch(w, "store output", "input")
  /\ UNCHANGED <<fault_type, fault_slave, named>>

StoreOutput(w) ==
  /\ At(w, "store output")
  /\ drive' = [drive EXCEPT ![Slave(w)].state = call[w].next]
  /\ Goto(w, "input")
  /\ UNCHANGED <<fault_type, fault_slave, faulted, named>>

ReadInput(w) ==
  /\ At(w, "input")
  /\ Answer(w, drive[Slave(w)].state)
  /\ ExchangeOnly

FrameDone(w) == At(w, "output") /\ call[w].sent = Len(call[w].frame)

\* run_cycles moves the inputs of its first cycle into first_inputs and then copies
\* what is left, nothing, into last_inputs; the next cycle overwrites that.
KeepInputs(c) ==
  IF c.cycle = 0
  THEN [c EXCEPT !.first_inputs = c.inputs, !.last_inputs = <<>>]
  ELSE [c EXCEPT !.last_inputs = c.inputs]

\* Fault variant: the inputs of one cycle are still there in the next one.
NextCycleKeeps(w) ==
  /\ FrameDone(w) /\ call[w].cycle + 1 < call[w].cycles
  /\ call' = [call EXCEPT ![w] = [KeepInputs(call[w]) EXCEPT
                                    !.cycle = call[w].cycle + 1, !.sent = 0,
                                    !.pc = "exchange"]]
  /\ ExchangeOnly

NextCycle(w) ==
  /\ FrameDone(w) /\ call[w].cycle + 1 < call[w].cycles
  /\ call' = [call EXCEPT ![w] = [KeepInputs(call[w]) EXCEPT
                                    !.cycle = call[w].cycle + 1, !.sent = 0,
                                    !.inputs = <<>>, !.pc = "exchange"]]
  /\ ExchangeOnly

\* The answer is ok, and at "answered" as the client gets it.
Complete(w) ==
  /\ FrameDone(w) /\ call[w].cycle + 1 >= call[w].cycles
  /\ call' = [call EXCEPT ![w] = [(IF @.cycles = 0 THEN @ ELSE KeepInputs(@))
                                   EXCEPT !.pc = "answered"]]
  /\ ExchangeOnly

Acknowledge(w) == At(w, "answered") /\ Return(w) /\ ExchangeOnly

DriveCall(w) ==
  SetControlword(w) \/ ReadWord(w) \/ StoreWord(w) \/ InjectFault(w) \/ CompleteReaction(w)
FaultCall(w) ==
  InjectBusFault(w) \/ InjectFaultSlave(w) \/ ClearBusFault(w) \/ ClearFaultSlave(w)
FrameCall(w) ==
  \/ Exchange(w) \/ CheckBus(w) \/ RejectSlave(w) \/ LoseSlave(w) \/ WriteOutput(w)
  \/ StoreOutput(w) \/ ReadInput(w) \/ NextCycle(w) \/ Complete(w) \/ Acknowledge(w)

Next == \E w \in Workers : DriveCall(w) \/ FaultCall(w) \/ FrameCall(w)
Spec == Init /\ [][Next]_vars

-----------------------------------------------------------------------------
(* Properties. *)

Inputs == [slave : Slaves, state : DriveStates \cup {"LOST"}]

TypeOK ==
  /\ drive \in [Slaves -> Drives]
  /\ fault_type \in FaultTypes /\ fault_slave \in BusSlaves
  /\ \A w \in Workers :
       /\ call[w].next \in DriveStates
       /\ call[w].sent \in 0..Len(call[w].frame)
       /\ call[w].inputs \in Seq(Inputs)
       /\ call[w].first_inputs \in Seq(Inputs) /\ call[w].last_inputs \in Seq(Inputs)

\* Every drive state that clients can bring about is one a repeated controlword
\* settles and one the power-on sequence recovers from (test_cia402.py, _reset_slave
\* and _enable, do so between tests).
AlwaysRecoverable == \A s \in Slaves : Settles(drive[s]) /\ Recovers(drive[s])

\* The inputs of a frame answer its outputs one by one and in order, though lost
\* slaves are skipped and the arrays are reused from one cycle to the next.
Answers(answer, f) ==
  Len(answer) = Len(f) /\ \A i \in DOMAIN f : answer[i].slave = f[i].slave
InputsMatchFrame ==
  \A w \in Workers : LET c == call[w] IN At(w, "answered") =>
    /\ Answers(c.inputs, c.frame)
    /\ c.cycles > 0 => Answers(c.first_inputs, c.frame)
    /\ c.cycles > 1 => Answers(c.last_inputs, c.frame)

\* virtual_ethercat.hpp:34: "first/last inputs for assertions".  A successful
\* RunCycles gives the inputs of its last cycle.
LastInputsGiven ==
  \A w \in Workers : LET c == call[w] IN
    At(w, "answered") /\ c.cycles > 0 => Answers(c.last_inputs, c.frame)

\* cia402_state_machine.hpp:56, fault injection: "any state -> FaultReactionActive ->
\* Fault".  A drive whose InjectFault has returned is in Fault until it is reset.
InjectedFaultSticks == \A s \in faulted : drive[s].state = "Fault"

\* design.md:153, SLAVE_LOSS: "this slave's input is marked LOST, the others exchange as
\* usual".  Only a slave named by a SLAVE_LOSS injection is lost.
OnlyNamedSlaveIsLost ==
  [][\A w \in Workers : LoseSlave(w) => Slave(w) \in named]_vars
=============================================================================
