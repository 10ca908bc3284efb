------------------------------- MODULE Cia402 --------------------------------
(***************************************************************************)
(* The CiA 402 drive state machine of simulator/src/                       *)
(* cia402_state_machine.cpp, as functions of a drive and a controlword.    *)
(*                                                                         *)
(* A controlword is its command (the low four bits; "none" for a value     *)
(* that is no command) and its bit 7, the fault reset.                     *)
(***************************************************************************)
DriveStates == {"SwitchOnDisabled", "ReadyToSwitchOn", "SwitchedOn", "OperationEnabled",
                "QuickStopActive", "FaultReactionActive", "Fault"}
Commands == {"DisableVoltage", "QuickStop", "Shutdown", "SwitchOn", "EnableOperation",
             "none"}
Controlword(command) == [command |-> command, reset |-> FALSE]
FaultReset == [command |-> "DisableVoltage", reset |-> TRUE]
Controlwords == [command : Commands, reset : BOOLEAN]

\* reset_bit is bit 7 of last_controlword_.
Drives == [state : DriveStates, reset_bit : BOOLEAN]
NewDrive == [state |-> "SwitchOnDisabled", reset_bit |-> FALSE]

\* The transitions of try_transition; every other command is ignored.
Transitions ==
  { <<"SwitchOnDisabled", "Shutdown",        "ReadyToSwitchOn">>,
    <<"ReadyToSwitchOn",  "SwitchOn",        "SwitchedOn">>,
    <<"ReadyToSwitchOn",  "DisableVoltage",  "SwitchOnDisabled">>,
    <<"SwitchedOn",       "EnableOperation", "OperationEnabled">>,
    <<"SwitchedOn",       "Shutdown",        "ReadyToSwitchOn">>,
    <<"SwitchedOn",       "DisableVoltage",  "SwitchOnDisabled">>,
    <<"OperationEnabled", "DisableVoltage",  "SwitchOnDisabled">>,
    <<"OperationEnabled", "Shutdown",        "ReadyToSwitchOn">>,
    <<"OperationEnabled", "SwitchOn",        "SwitchedOn">>,
    <<"OperationEnabled", "QuickStop",       "QuickStopActive">>,
    <<"QuickStopActive",  "EnableOperation", "OperationEnabled">>,
    <<"QuickStopActive",  "DisableVoltage",  "SwitchOnDisabled">> }

\* Fault variant: Quick Stop has no exit.
TableWithoutQuickStopExit == {row \in Transitions : row[1] # "QuickStopActive"}
Table == Transitions

TryTransition(state, command) ==
  IF \E next \in DriveStates : <<state, command, next>> \in Table
  THEN CHOOSE next \in DriveStates : <<state, command, next>> \in Table
  ELSE state

\* The fault reaction takes one update().
Update(state) == IF state = "FaultReactionActive" THEN "Fault" ELSE state

ResetRising(d, cw) == cw.reset /\ ~d.reset_bit

\* A rising fault reset does nothing but leave Fault; the command is not looked at.
NextState(d, cw) ==
  CASE ResetRising(d, cw) /\ Update(d.state) = "Fault" -> "SwitchOnDisabled"
    [] ResetRising(d, cw) /\ Update(d.state) # "Fault" -> Update(d.state)
    [] ~ResetRising(d, cw) -> TryTransition(Update(d.state), cw.command)

AfterControlword(d, cw) == [state |-> NextState(d, cw), reset_bit |-> cw.reset]

-----------------------------------------------------------------------------
(* Properties of the function, stated for a drive d. *)

\* However often a controlword is repeated (RunCycles writes the same outputs every
\* cycle), two cycles settle the drive; no repeated word makes it oscillate.
Settles(d) ==
  \A cw \in Controlwords :
    LET once == AfterControlword(d, cw)
        twice == AfterControlword(once, cw)
    IN  AfterControlword(twice, cw) = twice

\* What a client does to bring a drive up from any state: clear bit 7, reset, and
\* the power-on sequence.
BroughtUp(d) ==
  LET cleared == AfterControlword(d, Controlword("DisableVoltage"))
      reset == AfterControlword(cleared, FaultReset)
      ready == AfterControlword(reset, Controlword("Shutdown"))
      on == AfterControlword(ready, Controlword("SwitchOn"))
  IN  AfterControlword(on, Controlword("EnableOperation"))

Recovers(d) == BroughtUp(d).state = "OperationEnabled"
=============================================================================
