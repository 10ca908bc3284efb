---------------------------- MODULE DriveObjects -----------------------------
(***************************************************************************)
(* The object dictionary of one virtual drive (each has its own), as the   *)
(* gRPC workers use it: SDO reads and writes of Cia402Service, and the     *)
(* frames of EthercatService, which write controlword and target position  *)
(* and read the actual position back.                                      *)
(*                                                                         *)
(* The drive has no mutex.  Each access to the dictionary is a step; a     *)
(* write of the target position is two, because the actual position        *)
(* follows it at once.  What a controlword does to the state machine is    *)
(* DriveBus's subject: here it leads to any statusword.                    *)
(***************************************************************************)
EXTENDS Naturals

CONSTANTS
  Workers,     \* gRPC worker threads
  MaxValue,    \* values are 0 .. MaxValue
  ModeSize,    \* a mode is stored modulo ModeSize (0xFF and its successor in the code)
  Statuswords  \* what the state machine can answer; 0 at first

ASSUME SizesAssumption == MaxValue \in Nat \ {0} /\ ModeSize \in Nat \ {0}
ASSUME StatuswordsAssumption == 0 \in Statuswords /\ Statuswords \subseteq 0..MaxValue
ASSUME WorkersAssumption == {"torn", "none"} \cap Workers = {}

VARIABLES
  status,    \* the statusword of the state machine
  od,        \* object -> stored value
  call,      \* per worker: where its call is, its arguments and its answer
  current,   \* history: what was last written of the object, or Unsure
  lone       \* history: the worker whose target write was the last to begin, if it
             \* overlapped no other; "torn" if it did, "none" before the first

vars == <<status, od, call, current, lone>>

\* The accelerations and the homing method behave like ProfileVelocity.
ReadWrite ==
  {"Controlword", "ModesOfOperation", "TargetPosition", "ProfileVelocity"}
ReadOnly == {"Statusword", "ModesDisplay", "PositionActual", "VelocityActual"}
Objects == ReadWrite \cup ReadOnly
Indices == Objects \cup {"unknown"}

Values == 0..MaxValue
Unsure == MaxValue + 1

NoCall == [pc |-> "idle", op |-> "read", index |-> "unknown", value |-> 0, ok |-> FALSE]

\* The profile values start at 1 (1000 in the code).
Init ==
  /\ status = 0
  /\ od = [o \in Objects |-> IF o = "ProfileVelocity" THEN 1 ELSE 0]
  /\ call = [w \in Workers |-> NoCall]
  /\ current = od /\ lone = "none"

At(w, label) == call[w].pc = label
Goto(w, label) == call' = [call EXCEPT ![w].pc = label]
Answer(w, op, index, value, ok) ==
  call' = [call EXCEPT ![w] =
             [pc |-> "answered", op |-> op, index |-> index, value |-> value, ok |-> ok]]

\* Workers between the two stores of a target write.
Following == {w \in Workers : At(w, "actual")}

-----------------------------------------------------------------------------
(* Reading *)

\* Fault variant: every object is read from the dictionary.
ReadStored(index) == od[index]

\* The statusword comes from the state machine and the mode display from the mode,
\* whatever the dictionary has under their own indices.
ReadValue(index) ==
  CASE index = "Statusword" -> status
    [] index = "ModesDisplay" -> od["ModesOfOperation"] % ModeSize
    [] OTHER -> od[index]

ReadObject(w) ==
  /\ At(w, "idle")
  /\ \E index \in Indices :
       IF index \in Objects THEN Answer(w, "read", index, ReadValue(index), TRUE)
                            ELSE Answer(w, "read", index, 0, FALSE)
  /\ UNCHANGED <<status, od, current, lone>>

-----------------------------------------------------------------------------
(* Writing *)

\* What write_object refuses, on its way through the dictionary's own check.
WriteRefused(w) ==
  /\ At(w, "idle")
  /\ \E index \in Indices \ ReadWrite : Answer(w, "write", index, 0, FALSE)
  /\ UNCHANGED <<status, od, current, lone>>

WriteProfile(w) ==
  /\ At(w, "idle")
  /\ \E v \in Values :
       /\ od' = [od EXCEPT !["ProfileVelocity"] = v]
       /\ current' = [current EXCEPT !["ProfileVelocity"] = v]
       /\ Answer(w, "write", "ProfileVelocity", v, TRUE)
  /\ UNCHANGED <<status, lone>>

\* SetMode, and WriteObject on the mode object.
SetMode(w) ==
  /\ At(w, "idle")
  /\ \E v \in Values :
       /\ od' = [od EXCEPT !["ModesOfOperation"] = v % ModeSize]
       /\ current' = [current EXCEPT !["ModesOfOperation"] = v % ModeSize,
                                     !["ModesDisplay"] = v % ModeSize]
       /\ Answer(w, "write", "ModesOfOperation", v, TRUE)
  /\ UNCHANGED <<status, lone>>

\* A call that goes on: a write of the target or of the controlword, or a frame.
Begin(w, op, index, value, label) ==
  call' = [call EXCEPT ![w] =
             [pc |-> label, op |-> op, index |-> index, value |-> value, ok |-> FALSE]]

WriteTarget(w) ==
  /\ At(w, "idle")
  /\ \E v \in Values : Begin(w, "write", "TargetPosition", v, "target")
  /\ UNCHANGED <<status, od, current, lone>>

\* WriteObject on the controlword, and SetControlword.
SetControlword(w) ==
  /\ At(w, "idle")
  /\ \E v \in Values : Begin(w, "write", "Controlword", v, "control")
  /\ UNCHANGED <<status, od, current, lone>>

InjectFault(w) ==
  /\ At(w, "idle")
  /\ Begin(w, "fault", "unknown", 0, "control")
  /\ UNCHANGED <<status, od, current, lone>>

\* A frame for this drive, with a target and some controlword.  Target 0 stands for none.
CycleExchange(w) ==
  /\ At(w, "idle")
  /\ \E v \in Values : Begin(w, "frame", "TargetPosition", v, "control")
  /\ UNCHANGED <<status, od, current, lone>>

\* The controlwords that the state machine may be given by the call.
Controlwords(w) ==
  CASE call[w].op = "write" -> {call[w].value}
    [] call[w].op = "frame" -> Values
    [] OTHER -> {}

\* The state machine takes the controlword or the fault, and nobody stores a controlword:
\* the dictionary keeps the 0 it has begun with.
Control(w) ==
  /\ At(w, "control")
  /\ status' \in Statuswords
  /\ \/ \E cw \in Controlwords(w) :
          current' = [current EXCEPT !["Statusword"] = status', !["Controlword"] = cw]
     \/ Controlwords(w) = {} /\ current' = [current EXCEPT !["Statusword"] = status']
  /\ Goto(w, "sync")
  /\ UNCHANGED <<od, lone>>

\* Fault variant: the target of a frame is never written.
InputNext(w) == "input"

AfterControl(w) == IF call[w].value = 0 THEN "input" ELSE "target"

\* sync_statusword reads the state machine and then stores; what it stores may be out of
\* date by then, and any statusword is allowed.  Nothing ever reads this copy.
Sync(w) ==
  /\ At(w, "sync")
  /\ \E s \in Statuswords : od' = [od EXCEPT !["Statusword"] = s]
  /\ IF call[w].op = "frame"
     THEN Goto(w, AfterControl(w))
     ELSE call' = [call EXCEPT ![w].pc = "answered", ![w].ok = TRUE]
  /\ UNCHANGED <<status, current, lone>>

StoreTarget(w) ==
  /\ At(w, "target")
  /\ od' = [od EXCEPT !["TargetPosition"] = call[w].value]
  /\ current' = [current EXCEPT !["TargetPosition"] = call[w].value,
                                !["PositionActual"] = Unsure]
  /\ lone' = IF Following = {} THEN w ELSE "torn"
  /\ Goto(w, "actual")
  /\ UNCHANGED status

\* Where a call goes once the actual position is stored.
Followed(w) ==
  IF call[w].op = "frame" THEN Goto(w, "input")
                          ELSE Answer(w, "write", "TargetPosition", call[w].value, TRUE)

\* Fault variant: only a frame makes the actual position follow.
FollowInFramesOnly(w) ==
  /\ At(w, "actual")
  /\ od' = IF call[w].op = "frame"
           THEN [od EXCEPT !["PositionActual"] = call[w].value] ELSE od
  /\ current' = IF lone = w THEN [current EXCEPT !["PositionActual"] = call[w].value]
                            ELSE current
  /\ Followed(w)
  /\ UNCHANGED <<status, lone>>

StoreActual(w) ==
  /\ At(w, "actual")
  /\ od' = [od EXCEPT !["PositionActual"] = call[w].value]
  /\ current' = IF lone = w THEN [current EXCEPT !["PositionActual"] = call[w].value]
                            ELSE current
  /\ Followed(w)
  /\ UNCHANGED <<status, lone>>

\* The input of a frame: ok tells whether the position it shows is the frame's target.
Input(w) ==
  /\ At(w, "input")
  /\ call' = [call EXCEPT ![w].pc = "answered", ![w].index = "PositionActual",
                          ![w].ok = od["PositionActual"] = call[w].value]
  /\ UNCHANGED <<status, od, current, lone>>

Return(w) ==
  /\ At(w, "answered")
  /\ call' = [call EXCEPT ![w] = NoCall]
  /\ UNCHANGED <<status, od, current, lone>>

Next ==
  \E w \in Workers :
    \/ ReadObject(w)
    \/ WriteRefused(w) \/ WriteProfile(w) \/ SetMode(w)
    \/ WriteTarget(w) \/ StoreTarget(w) \/ StoreActual(w)
    \/ SetControlword(w) \/ InjectFault(w) \/ Control(w) \/ Sync(w)
    \/ CycleExchange(w) \/ Input(w) \/ Return(w)

Spec == Init /\ [][Next]_vars

-----------------------------------------------------------------------------
(* Properties. *)

\* The objects that nobody stores keep their first value; a mode fits in its width.
TypeOK ==
  /\ status \in Statuswords
  /\ od \in [Objects -> Values]
  /\ od["Controlword"] = 0 /\ od["ModesDisplay"] = 0 /\ od["VelocityActual"] = 0
  /\ od["Statusword"] \in Statuswords /\ od["ModesOfOperation"] < ModeSize
  /\ call \in [Workers -> [pc : {"idle", "control", "sync", "target", "actual", "input",
                                 "answered"},
                           op : {"read", "write", "frame", "fault"}, index : Indices,
                           value : Values, ok : BOOLEAN]]
  /\ current \in [Objects -> Values \cup {Unsure}] /\ lone \in Workers \cup {"torn", "none"}

\* virtual_drive.cpp:31: "the target position is reflected in the actual position at
\* once".  Between target writes the two agree, by whichever service and in whatever
\* order they came, unless the last one overlapped another.
ActualFollowsTarget ==
  Following = {} /\ lone # "torn" => od["PositionActual"] = od["TargetPosition"]

\* test_ethercat.py:63: the input of a frame shows the target that the frame wrote,
\* unless another worker's target write overlapped it or came in between.
FeedbackIsMine ==
  \A w \in Workers :
    At(w, "answered") /\ call[w].op = "frame" /\ call[w].value # 0 /\ lone = w => call[w].ok

\* A client reads what the last write left (test_cia402.py:200, 211), through the
\* objects that stand for another one too, although the dictionary's own copies of
\* statusword and mode display may be stale.  The controlword alone is no such object: a
\* write of it is answered ok and a read answers 0, whatever any worker has written.
ReadsAreCurrent ==
  [][\A w \in Workers :
       At(w, "idle") /\ call'[w].op = "read" /\ call'[w].pc = "answered" /\ call'[w].ok =>
         IF call'[w].index = "Controlword"
         THEN call'[w].value = 0
         ELSE current[call'[w].index] \in {call'[w].value, Unsure}]_vars

\* object_dictionary.hpp:13 has 0x6040 as "RW".  A controlword written is not what a read
\* answers; no run checks this.
ControlwordReadsBack == ReadValue("Controlword") = current["Controlword"]
=============================================================================
