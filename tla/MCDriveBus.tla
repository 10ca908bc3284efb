----------------------------- MODULE MCDriveBus ------------------------------
(* Instances of DriveBus for TLC. *)
EXTENDS DriveBus

\* A frame over one drive, over two, twice the same drive, and one whose second
\* output names an unknown drive.
Out(s, cw) == [slave |-> s, cw |-> cw]
MCWords == {Controlword(c) : c \in Commands} \cup {FaultReset}
MCFrames ==
  {<<Out(0, cw)>> : cw \in {FaultReset, Controlword("QuickStop")}}
    \cup {<<Out(0, Controlword("Shutdown")), Out(1, Controlword("Shutdown"))>>,
          <<Out(1, FaultReset), Out(1, Controlword("SwitchOn"))>>,
          <<Out(0, Controlword("SwitchOn")), Out(2, Controlword("SwitchOn"))>>}

\* For two workers: one drive, and the words that matter to a fault.
RaceWords == {Controlword("Shutdown"), FaultReset}
RaceFrames == {<<Out(0, Controlword("Shutdown"))>>}
RaceFrames2 == {<<Out(0, Controlword("Shutdown")), Out(1, Controlword("Shutdown"))>>}
=============================================================================
