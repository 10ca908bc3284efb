-------------------------- MODULE DriveObjectsProofs --------------------------
(* Safety of DriveObjects for any workers, values and statuswords.             *)
EXTENDS DriveObjects, TLAPS

\* As long as target writes do not overlap, the one writer between its two stores is the
\* last to have begun, and the target is still its own.
OneFollows ==
  lone # "torn" =>
    \A w \in Following : w = lone /\ od["TargetPosition"] = call[w].value

\* A frame whose target write was the last to begin, and is over, finds its own target.
FeedbackHeld ==
  \A w \in Workers :
    At(w, "input") /\ call[w].op = "frame" /\ call[w].value # 0 /\ lone = w
      => od["PositionActual"] = call[w].value

\* What a read answers is what the history expects of it, but for the controlword.
HistoryFits ==
  /\ \A o \in Objects \ {"Controlword"} : current[o] \in {ReadValue(o), Unsure}
  /\ Following # {} => current["PositionActual"] = Unsure

IInv ==
  TypeOK /\ OneFollows /\ ActualFollowsTarget /\ FeedbackHeld /\ FeedbackIsMine /\ HistoryFits

LEMMA SmallMod ==
  ASSUME NEW v \in Nat, v < ModeSize
  PROVE  v % ModeSize = v
BY SizesAssumption, Z3

LEMMA Mod ==
  ASSUME NEW v \in Values
  PROVE  v % ModeSize \in Values /\ v % ModeSize < ModeSize
<1>1. v \in Nat /\ ModeSize \in Nat \ {0}
  BY SizesAssumption DEF Values
<1>2. v % ModeSize \in 0..ModeSize - 1
  BY <1>1
<1>3. CASE v < ModeSize
  BY <1>1, <1>3, SmallMod, SizesAssumption DEF Values
<1>4. CASE v >= ModeSize
  BY <1>1, <1>2, <1>4, SizesAssumption DEF Values
<1>. QED  BY <1>1, <1>3, <1>4
Call ==
  [pc : {"idle", "control", "sync", "target", "actual", "input", "answered"},
   op : {"read", "write", "frame", "fault"}, index : Indices, value : Values, ok : BOOLEAN]

-----------------------------------------------------------------------------
(* The initial state. *)

\* The invariant holds at first.
THEOREM InitIInv == Init => IInv
<1>. SUFFICES ASSUME Init PROVE IInv
  OBVIOUS
<1>1. 0 \in Values /\ 1 \in Values /\ 0 \in Statuswords
  BY SizesAssumption, StatuswordsAssumption DEF Values
<1>2. NoCall \in Call
  BY <1>1 DEF NoCall, Call, Indices
<1>3. \A o \in Objects : od[o] = IF o = "ProfileVelocity" THEN 1 ELSE 0
  BY DEF Init
<1>4. od \in [Objects -> Values] /\ current = od /\ status = 0 /\ lone = "none"
  BY <1>1 DEF Init
<1>5. TypeOK
  <2>1. call \in [Workers -> Call]
    BY <1>2 DEF Init
  <2>2. /\ od["Controlword"] = 0 /\ od["ModesDisplay"] = 0 /\ od["VelocityActual"] = 0
        /\ od["Statusword"] = 0 /\ od["ModesOfOperation"] = 0
    BY <1>3 DEF Objects, ReadWrite, ReadOnly
  <2>. QED  BY <1>1, <1>4, <2>1, <2>2, SizesAssumption DEF TypeOK, Call
<1>6. \A w \in Workers : call[w].pc = "idle"
  BY DEF Init, NoCall
<1>7. Following = {} /\ OneFollows /\ FeedbackHeld /\ FeedbackIsMine
  BY <1>6 DEF Following, OneFollows, FeedbackHeld, FeedbackIsMine, At
<1>8. ActualFollowsTarget
  BY <1>3 DEF ActualFollowsTarget, Objects, ReadWrite, ReadOnly
<1>9. HistoryFits
  <2>1. od["ModesOfOperation"] % ModeSize = 0
    BY <1>3, Mod, <1>1, SmallMod, SizesAssumption DEF Objects, ReadWrite, ReadOnly
  <2>. SUFFICES ASSUME NEW o \in Objects \ {"Controlword"} PROVE current[o] = ReadValue(o)
    BY <1>7 DEF HistoryFits
  <2>. QED  BY <1>3, <1>4, <2>1 DEF ReadValue, Objects, ReadWrite, ReadOnly
<1>. QED  BY <1>5, <1>7, <1>8, <1>9 DEF IInv

-----------------------------------------------------------------------------
(* Steps that leave the two positions alone. *)

\* What such a step of worker w, which takes its call to c, keeps.
LEMMA ElsewhereKeeps ==
  ASSUME IInv, NEW w \in Workers, NEW c \in Call, call' = [call EXCEPT ![w] = c],
         call[w].pc # "actual", c.pc # "actual", c.pc = "input" => c.value = 0,
         c.pc = "answered" /\ c.op = "frame" /\ c.value # 0 /\ lone = w => c.ok,
         od'["TargetPosition"] = od["TargetPosition"],
         od'["PositionActual"] = od["PositionActual"], UNCHANGED lone
  PROVE  /\ call' \in [Workers -> Call] /\ Following' = Following
         /\ OneFollows' /\ ActualFollowsTarget' /\ FeedbackHeld' /\ FeedbackIsMine'
<1>1. call \in [Workers -> Call]
  BY DEF IInv, TypeOK, Call
<1>2. call' \in [Workers -> Call] /\ call'[w] = c
  BY <1>1
<1>3. \A u \in Workers : u # w => call'[u] = call[u]
  BY <1>1
<1>4. Following' = Following
  BY <1>2, <1>3 DEF Following, At
<1>5. OneFollows'
  BY <1>3, <1>4 DEF OneFollows, IInv, Following, At
<1>6. ActualFollowsTarget'
  BY <1>4 DEF ActualFollowsTarget, IInv
<1>7. FeedbackHeld'
  BY <1>2, <1>3 DEF FeedbackHeld, IInv, At
<1>8. FeedbackIsMine'
  BY <1>2, <1>3 DEF FeedbackIsMine, IInv, At
<1>. QED  BY <1>2, <1>4, <1>5, <1>6, <1>7, <1>8

\* A step that changes nothing but its call.
LEMMA CallOnlyKeeps ==
  ASSUME IInv, NEW w \in Workers, NEW c \in Call, call' = [call EXCEPT ![w] = c],
         call[w].pc # "actual", c.pc # "actual", c.pc # "input",
         c.pc = "answered" /\ c.op = "frame" /\ c.value # 0 /\ lone = w => c.ok,
         UNCHANGED <<status, od, current, lone>>
  PROVE  IInv'
<1>1. /\ call' \in [Workers -> Call] /\ Following' = Following
      /\ OneFollows' /\ ActualFollowsTarget' /\ FeedbackHeld' /\ FeedbackIsMine'
  BY ElsewhereKeeps
<1>2. TypeOK'
  BY <1>1 DEF IInv, TypeOK, Call
<1>3. HistoryFits'
  BY <1>1 DEF IInv, HistoryFits, ReadValue
<1>. QED  BY <1>1, <1>2, <1>3 DEF IInv
-----------------------------------------------------------------------------
(* The steps that change nothing but their call. *)

LEMMA LocalKeeps ==
  ASSUME IInv, NEW w \in Workers,
         \/ ReadObject(w) \/ WriteRefused(w) \/ WriteTarget(w) \/ SetControlword(w)
         \/ InjectFault(w) \/ CycleExchange(w) \/ Input(w) \/ Return(w)
  PROVE  IInv'
<1>1. call[w] \in Call /\ 0 \in Values
  BY SizesAssumption DEF IInv, TypeOK, Call, Values
<1>2. NoCall \in Call
  BY <1>1 DEF NoCall, Call, Indices
<1>3. CASE ReadObject(w)
  <2>1. PICK index \in Indices :
          IF index \in Objects THEN Answer(w, "read", index, ReadValue(index), TRUE)
                               ELSE Answer(w, "read", index, 0, FALSE)
    BY <1>3 DEF ReadObject
  <2>2. index \in Objects => ReadValue(index) \in Values
    <3>1. od \in [Objects -> Values] /\ status \in Values
      BY StatuswordsAssumption DEF IInv, TypeOK, Values
    <3>2. od["ModesOfOperation"] % ModeSize \in Values
      BY <3>1, Mod DEF Objects, ReadWrite
    <3>. QED  BY <3>1, <3>2 DEF ReadValue
  <2>3. PICK v \in Values, ok \in BOOLEAN : Answer(w, "read", index, v, ok)
    BY <2>1, <2>2, <1>1
  <2>. DEFINE c == [pc |-> "answered", op |-> "read", index |-> index, value |-> v, ok |-> ok]
  <2>4. c \in Call /\ call' = [call EXCEPT ![w] = c]
    BY <2>3 DEF Call, Answer
  <2>5. call[w].pc # "actual" /\ UNCHANGED <<status, od, current, lone>>
    BY <1>3 DEF ReadObject, At
  <2>. QED  BY <2>4, <2>5, CallOnlyKeeps
<1>4. CASE WriteRefused(w)
  <2>1. PICK index \in Indices : Answer(w, "write", index, 0, FALSE)
    BY <1>4 DEF WriteRefused
  <2>. DEFINE c == [pc |-> "answered", op |-> "write", index |-> index, value |-> 0,
                    ok |-> FALSE]
  <2>2. c \in Call /\ call' = [call EXCEPT ![w] = c]
    BY <2>1, <1>1 DEF Call, Answer
  <2>3. call[w].pc # "actual" /\ UNCHANGED <<status, od, current, lone>>
    BY <1>4 DEF WriteRefused, At
  <2>. QED  BY <2>2, <2>3, CallOnlyKeeps
<1>5. CASE WriteTarget(w) \/ SetControlword(w) \/ InjectFault(w) \/ CycleExchange(w)
  <2>1. PICK op \in {"write", "frame", "fault"}, index \in Indices, v \in Values,
             label \in {"target", "control"} : Begin(w, op, index, v, label)
    BY <1>5, <1>1 DEF WriteTarget, SetControlword, InjectFault, CycleExchange, Indices, Objects, ReadWrite
  <2>. DEFINE c == [pc |-> label, op |-> op, index |-> index, value |-> v, ok |-> FALSE]
  <2>2. c \in Call /\ call' = [call EXCEPT ![w] = c]
    BY <2>1 DEF Call, Begin
  <2>3. call[w].pc # "actual" /\ UNCHANGED <<status, od, current, lone>>
    BY <1>5 DEF WriteTarget, SetControlword, InjectFault, CycleExchange, At
  <2>. QED  BY <2>2, <2>3, CallOnlyKeeps
<1>6. CASE Input(w)
  <2>. DEFINE c == [call[w] EXCEPT !.pc = "answered", !.index = "PositionActual",
                                   !.ok = od["PositionActual"] = call[w].value]
  <2>1. c \in Call
    BY <1>1 DEF Call, Indices, Objects, ReadOnly
  <2>2. call' = [call EXCEPT ![w] = c]
    BY <1>6 DEF Input
  <2>3. call[w].pc = "input" /\ UNCHANGED <<status, od, current, lone>>
    BY <1>6 DEF Input, At
  <2>4. c.op = "frame" /\ c.value # 0 /\ lone = w => c.ok
    BY <1>1, <2>3 DEF IInv, FeedbackHeld, At, Call
  <2>5. c.pc = "answered"
    BY <1>1 DEF Call
  <2>. QED  BY <2>1, <2>2, <2>3, <2>4, <2>5, CallOnlyKeeps
<1>7. CASE Return(w)
  <2>1. call' = [call EXCEPT ![w] = NoCall] /\ NoCall.pc = "idle"
    BY <1>7 DEF Return, NoCall
  <2>2. call[w].pc # "actual" /\ UNCHANGED <<status, od, current, lone>>
    BY <1>7 DEF Return, At
  <2>. QED  BY <1>2, <2>1, <2>2, CallOnlyKeeps
<1>. QED  BY <1>3, <1>4, <1>5, <1>6, <1>7
-----------------------------------------------------------------------------
(* The steps that store something other than a position. *)

LEMMA WriteProfileKeeps ==
  ASSUME IInv, NEW w \in Workers, WriteProfile(w)
  PROVE  IInv'
<1>1. PICK v \in Values :
        /\ od' = [od EXCEPT !["ProfileVelocity"] = v]
        /\ current' = [current EXCEPT !["ProfileVelocity"] = v]
        /\ Answer(w, "write", "ProfileVelocity", v, TRUE)
  BY DEF WriteProfile
<1>. DEFINE c == [pc |-> "answered", op |-> "write", index |-> "ProfileVelocity",
                  value |-> v, ok |-> TRUE]
<1>2. c \in Call /\ call' = [call EXCEPT ![w] = c] /\ call[w].pc # "actual"
  BY <1>1 DEF Call, Answer, Indices, Objects, ReadWrite, WriteProfile, At
<1>3. /\ od \in [Objects -> Values] /\ current \in [Objects -> Values \cup {Unsure}]
      /\ UNCHANGED <<status, lone>>
  BY DEF IInv, TypeOK, WriteProfile
<1>4. od' \in [Objects -> Values] /\ current' \in [Objects -> Values \cup {Unsure}]
  BY <1>1, <1>3
<1>5. \A o \in Objects : o # "ProfileVelocity" => od'[o] = od[o] /\ current'[o] = current[o]
  BY <1>1, <1>3
<1>6. od'["ProfileVelocity"] = v /\ current'["ProfileVelocity"] = v
  BY <1>1, <1>3 DEF Objects, ReadWrite
<1>7. /\ call' \in [Workers -> Call] /\ Following' = Following
      /\ OneFollows' /\ ActualFollowsTarget' /\ FeedbackHeld' /\ FeedbackIsMine'
  BY <1>2, <1>3, <1>5, ElsewhereKeeps DEF Objects, ReadWrite, ReadOnly
<1>8. TypeOK'
  BY <1>3, <1>4, <1>5, <1>7 DEF IInv, TypeOK, Call, Objects, ReadWrite, ReadOnly
<1>9. HistoryFits'
  <2>1. \A o \in Objects \ {"Controlword"} : current'[o] \in {ReadValue(o)', Unsure}
    BY <1>3, <1>5, <1>6 DEF IInv, HistoryFits, ReadValue, Objects, ReadWrite, ReadOnly
  <2>. QED  BY <2>1, <1>5, <1>7 DEF IInv, HistoryFits, Objects, ReadOnly
<1>. QED  BY <1>7, <1>8, <1>9 DEF IInv

LEMMA SetModeKeeps ==
  ASSUME IInv, NEW w \in Workers, SetMode(w)
  PROVE  IInv'
<1>1. PICK v \in Values :
        /\ od' = [od EXCEPT !["ModesOfOperation"] = v % ModeSize]
        /\ current' = [current EXCEPT !["ModesOfOperation"] = v % ModeSize,
                                      !["ModesDisplay"] = v % ModeSize]
        /\ Answer(w, "write", "ModesOfOperation", v, TRUE)
  BY DEF SetMode
<1>. DEFINE c == [pc |-> "answered", op |-> "write", index |-> "ModesOfOperation",
                  value |-> v, ok |-> TRUE]
<1>. DEFINE m == v % ModeSize
<1>2. c \in Call /\ call' = [call EXCEPT ![w] = c] /\ call[w].pc # "actual"
  BY <1>1 DEF Call, Answer, Indices, Objects, ReadWrite, SetMode, At
<1>3. /\ od \in [Objects -> Values] /\ current \in [Objects -> Values \cup {Unsure}]
      /\ UNCHANGED <<status, lone>>
  BY DEF IInv, TypeOK, SetMode
<1>4. m \in Values /\ m < ModeSize /\ m % ModeSize = m
  BY Mod, SizesAssumption DEF Values
<1>. HIDE DEF m
<1>5. od' = [od EXCEPT !["ModesOfOperation"] = m]
  BY <1>1 DEF m
<1>6. current' = [current EXCEPT !["ModesOfOperation"] = m, !["ModesDisplay"] = m]
  BY <1>1 DEF m
<1>7. od' \in [Objects -> Values] /\ current' \in [Objects -> Values \cup {Unsure}]
  BY <1>3, <1>4, <1>5, <1>6
<1>8. /\ \A o \in Objects : o # "ModesOfOperation" => od'[o] = od[o]
      /\ \A o \in Objects : o \notin {"ModesOfOperation", "ModesDisplay"}
                              => current'[o] = current[o]
  BY <1>3, <1>5, <1>6
<1>9. /\ od'["ModesOfOperation"] = m /\ current'["ModesOfOperation"] = m
      /\ current'["ModesDisplay"] = m
  BY <1>3, <1>5, <1>6 DEF Objects, ReadWrite, ReadOnly
<1>10. /\ call' \in [Workers -> Call] /\ Following' = Following
       /\ OneFollows' /\ ActualFollowsTarget' /\ FeedbackHeld' /\ FeedbackIsMine'
  BY <1>2, <1>3, <1>8, ElsewhereKeeps DEF Objects, ReadWrite, ReadOnly
<1>11. TypeOK'
  BY <1>3, <1>4, <1>7, <1>8, <1>9, <1>10
     DEF IInv, TypeOK, Call, Objects, ReadWrite, ReadOnly
<1>12. HistoryFits'
  <2>1. \A o \in Objects \ {"Controlword"} : current'[o] \in {ReadValue(o)', Unsure}
    BY <1>3, <1>4, <1>8, <1>9 DEF IInv, HistoryFits, ReadValue, Objects, ReadWrite, ReadOnly
  <2>. QED  BY <2>1, <1>8, <1>10 DEF IInv, HistoryFits, Objects, ReadOnly
<1>. QED  BY <1>10, <1>11, <1>12 DEF IInv

LEMMA ControlKeeps ==
  ASSUME IInv, NEW w \in Workers, Control(w)
  PROVE  IInv'
<1>. DEFINE c == [call[w] EXCEPT !.pc = "sync"]
<1>1. call[w] \in Call /\ call[w].pc = "control"
  BY DEF IInv, TypeOK, Call, Control, At
<1>2. c \in Call /\ call' = [call EXCEPT ![w] = c] /\ c.pc = "sync"
  BY <1>1 DEF Call, Control, Goto
<1>3. /\ od \in [Objects -> Values] /\ current \in [Objects -> Values \cup {Unsure}]
      /\ UNCHANGED <<od, lone>> /\ status' \in Statuswords /\ status' \in Values
  BY StatuswordsAssumption DEF IInv, TypeOK, Control, Values
<1>8. Controlwords(w) \subseteq Values
  <2>1. \/ call[w].op = "write" /\ Controlwords(w) = {call[w].value}
        \/ call[w].op = "frame" /\ Controlwords(w) = Values
        \/ call[w].op \notin {"write", "frame"} /\ Controlwords(w) = {}
    BY DEF Controlwords
  <2>. QED  BY <1>1, <2>1 DEF Call
<1>. HIDE DEF c
<1>4. /\ current' \in [Objects -> Values \cup {Unsure}]
      /\ \A o \in Objects : o \notin {"Statusword", "Controlword"} => current'[o] = current[o]
      /\ current'["Statusword"] = status'
  <2>1. CASE current' = [current EXCEPT !["Statusword"] = status']
    BY <1>3, <2>1 DEF Objects, ReadOnly
  <2>2. CASE \E cw \in Controlwords(w) :
               current' = [current EXCEPT !["Statusword"] = status', !["Controlword"] = cw]
    BY <1>3, <1>8, <2>2 DEF Objects, ReadOnly
  <2>. QED  BY <2>1, <2>2 DEF Control
<1>5. /\ call' \in [Workers -> Call] /\ Following' = Following
      /\ OneFollows' /\ ActualFollowsTarget' /\ FeedbackHeld' /\ FeedbackIsMine'
  BY <1>1, <1>2, <1>3, ElsewhereKeeps
<1>6. TypeOK'
  BY <1>3, <1>4, <1>5 DEF IInv, TypeOK, Call
<1>7. HistoryFits'
  <2>1. \A o \in Objects \ {"Controlword"} : current'[o] \in {ReadValue(o)', Unsure}
    BY <1>3, <1>4 DEF IInv, HistoryFits, ReadValue
  <2>. QED  BY <2>1, <1>4, <1>5 DEF IInv, HistoryFits, Objects, ReadOnly
<1>. QED  BY <1>5, <1>6, <1>7 DEF IInv

LEMMA SyncKeeps ==
  ASSUME IInv, NEW w \in Workers, Sync(w)
  PROVE  IInv'
<1>1. call[w] \in Call /\ call[w].pc = "sync" /\ 0 \in Values
  BY SizesAssumption DEF IInv, TypeOK, Call, Sync, At, Values
<1>2. PICK s \in Statuswords : od' = [od EXCEPT !["Statusword"] = s]
  BY DEF Sync
<1>3. PICK c \in Call :
        /\ call' = [call EXCEPT ![w] = c] /\ c.pc # "actual"
        /\ c.pc = "input" => c.value = 0
        /\ c.pc = "answered" => c.op # "frame"
  <2>1. CASE call[w].op = "frame"
    <3>. DEFINE c == [call[w] EXCEPT !.pc = AfterControl(w)]
    <3>1. c \in Call /\ c.pc = AfterControl(w) /\ c.value = call[w].value
      BY <1>1 DEF Call, AfterControl
    <3>2. call' = [call EXCEPT ![w] = c]
      BY <2>1 DEF Sync, Goto
    <3>. HIDE DEF c
    <3>3. c.pc # "actual" /\ c.pc # "answered" /\ (c.pc = "input" => c.value = 0)
      BY <3>1 DEF AfterControl
    <3>. QED  BY <3>1, <3>2, <3>3
  <2>2. CASE call[w].op # "frame"
    <3>. DEFINE c == [call[w] EXCEPT !.pc = "answered", !.ok = TRUE]
    <3>1. c \in Call /\ c.pc = "answered" /\ c.op = call[w].op
      BY <1>1 DEF Call
    <3>2. call' = [call EXCEPT ![w] = c]
      BY <1>1, <2>2 DEF Sync, Call
    <3>. HIDE DEF c
    <3>. QED  BY <2>2, <3>1, <3>2
  <2>. QED  BY <2>1, <2>2
<1>4. /\ od \in [Objects -> Values] /\ current \in [Objects -> Values \cup {Unsure}]
      /\ s \in Values /\ UNCHANGED <<status, current, lone>>
  BY StatuswordsAssumption DEF IInv, TypeOK, Sync, Values
<1>5. /\ od' \in [Objects -> Values] /\ od'["Statusword"] = s
      /\ \A o \in Objects : o # "Statusword" => od'[o] = od[o]
  BY <1>2, <1>4 DEF Objects, ReadOnly
<1>6. /\ call' \in [Workers -> Call] /\ Following' = Following
      /\ OneFollows' /\ ActualFollowsTarget' /\ FeedbackHeld' /\ FeedbackIsMine'
  BY <1>1, <1>3, <1>4, <1>5, ElsewhereKeeps DEF Objects, ReadWrite, ReadOnly
<1>7. TypeOK'
  BY <1>4, <1>5, <1>6 DEF IInv, TypeOK, Call, Objects, ReadWrite, ReadOnly
<1>8. HistoryFits'
  <2>1. \A o \in Objects \ {"Controlword"} : current'[o] \in {ReadValue(o)', Unsure}
    BY <1>4, <1>5 DEF IInv, HistoryFits, ReadValue, Objects, ReadWrite
  <2>. QED  BY <2>1, <1>4, <1>6 DEF IInv, HistoryFits
<1>. QED  BY <1>6, <1>7, <1>8 DEF IInv
-----------------------------------------------------------------------------
(* The two stores of a target write. *)

LEMMA StoreTargetKeeps ==
  ASSUME IInv, NEW w \in Workers, StoreTarget(w)
  PROVE  IInv'
<1>. DEFINE c == [call[w] EXCEPT !.pc = "actual"]
<1>. DEFINE v == call[w].value
<1>1. call \in [Workers -> Call] /\ call[w].pc = "target" /\ v \in Values
  BY DEF IInv, TypeOK, Call, StoreTarget, At
<1>2. c \in Call /\ call' = [call EXCEPT ![w] = c] /\ c.pc = "actual" /\ c.value = v
  BY <1>1 DEF Call, StoreTarget, Goto
<1>. HIDE DEF c
<1>3. /\ call' \in [Workers -> Call] /\ call'[w] = c
      /\ \A u \in Workers : u # w => call'[u] = call[u]
  BY <1>1, <1>2
<1>4. Following' = Following \cup {w} /\ w \notin Following
  BY <1>1, <1>2, <1>3 DEF Following, At
<1>5. /\ od \in [Objects -> Values] /\ current \in [Objects -> Values \cup {Unsure}]
      /\ od' = [od EXCEPT !["TargetPosition"] = v]
      /\ current' = [current EXCEPT !["TargetPosition"] = v, !["PositionActual"] = Unsure]
      /\ lone' = IF Following = {} THEN w ELSE "torn"
      /\ UNCHANGED status
  BY DEF IInv, TypeOK, StoreTarget
<1>. HIDE DEF v
<1>6. /\ od' \in [Objects -> Values] /\ od'["TargetPosition"] = v
      /\ \A o \in Objects : o # "TargetPosition" => od'[o] = od[o]
  BY <1>1, <1>5 DEF Objects, ReadWrite
<1>7. /\ current' \in [Objects -> Values \cup {Unsure}]
      /\ current'["TargetPosition"] = v /\ current'["PositionActual"] = Unsure
      /\ \A o \in Objects : o \notin {"TargetPosition", "PositionActual"}
                              => current'[o] = current[o]
  BY <1>1, <1>5 DEF Objects, ReadWrite, ReadOnly
<1>8. TypeOK'
  BY <1>3, <1>5, <1>6, <1>7 DEF IInv, TypeOK, Call, Objects, ReadWrite, ReadOnly
<1>9. OneFollows'
  BY <1>2, <1>3, <1>4, <1>5, <1>6 DEF OneFollows
<1>10. ActualFollowsTarget'
  BY <1>4 DEF ActualFollowsTarget
<1>11. \A u \in Workers : call'[u].pc \in {"input", "answered"} => u # lone'
  BY <1>2, <1>3, <1>5, WorkersAssumption
<1>12. FeedbackHeld' /\ FeedbackIsMine'
  BY <1>11 DEF FeedbackHeld, FeedbackIsMine, At
<1>13. HistoryFits'
  BY <1>5, <1>6, <1>7 DEF IInv, HistoryFits, ReadValue, Objects, ReadWrite, ReadOnly
<1>. QED  BY <1>8, <1>9, <1>10, <1>12, <1>13 DEF IInv

\* Where StoreActual takes the call of its worker.
LEMMA FollowedCall ==
  ASSUME IInv, NEW w \in Workers, Followed(w)
  PROVE  \E c \in Call :
           /\ call' = [call EXCEPT ![w] = c] /\ c.pc \in {"input", "answered"}
           /\ c.pc = "input" => c.value = call[w].value
           /\ c.pc = "answered" => c.op = "write"
<1>1. call[w] \in Call
  BY DEF IInv, TypeOK, Call
<1>2. CASE call[w].op = "frame"
  <2>. DEFINE c == [call[w] EXCEPT !.pc = "input"]
  <2>1. c \in Call /\ c.pc = "input" /\ c.value = call[w].value
    BY <1>1 DEF Call
  <2>2. call' = [call EXCEPT ![w] = c]
    BY <1>2 DEF Followed, Goto
  <2>. HIDE DEF c
  <2>. QED  BY <2>1, <2>2
<1>3. CASE call[w].op # "frame"
  <2>. DEFINE c == [pc |-> "answered", op |-> "write", index |-> "TargetPosition",
                    value |-> call[w].value, ok |-> TRUE]
  <2>1. c \in Call /\ call' = [call EXCEPT ![w] = c]
    BY <1>1, <1>3 DEF Call, Followed, Answer, Indices, Objects, ReadWrite
  <2>. QED  BY <2>1
<1>. QED  BY <1>2, <1>3

LEMMA StoreActualKeeps ==
  ASSUME IInv, NEW w \in Workers, StoreActual(w)
  PROVE  IInv'
<1>. DEFINE v == call[w].value
<1>1. call \in [Workers -> Call] /\ call[w].pc = "actual" /\ v \in Values
  BY DEF IInv, TypeOK, Call, StoreActual, At
<1>2. PICK c \in Call :
        /\ call' = [call EXCEPT ![w] = c] /\ c.pc \in {"input", "answered"}
        /\ c.pc = "input" => c.value = v
        /\ c.pc = "answered" => c.op = "write"
  BY FollowedCall DEF StoreActual
<1>3. /\ call' \in [Workers -> Call] /\ call'[w] = c
      /\ \A u \in Workers : u # w => call'[u] = call[u]
  BY <1>1, <1>2
<1>4. Following' = Following \ {w} /\ w \in Following
  BY <1>1, <1>2, <1>3 DEF Following, At
<1>5. /\ od \in [Objects -> Values] /\ current \in [Objects -> Values \cup {Unsure}]
      /\ od' = [od EXCEPT !["PositionActual"] = v]
      /\ current' = IF lone = w THEN [current EXCEPT !["PositionActual"] = v] ELSE current
      /\ UNCHANGED <<status, lone>>
  BY DEF IInv, TypeOK, StoreActual
<1>6. lone # "torn" => Following = {w} /\ od["TargetPosition"] = v
  BY <1>4 DEF IInv, OneFollows
<1>. HIDE DEF v
<1>7. /\ od' \in [Objects -> Values] /\ od'["PositionActual"] = v
      /\ \A o \in Objects : o # "PositionActual" => od'[o] = od[o]
  BY <1>1, <1>5 DEF Objects, ReadOnly
<1>8. /\ current' \in [Objects -> Values \cup {Unsure}]
      /\ \A o \in Objects : o # "PositionActual" => current'[o] = current[o]
      /\ current'["PositionActual"] = IF lone = w THEN v ELSE Unsure
  BY <1>1, <1>4, <1>5 DEF IInv, HistoryFits, Objects, ReadOnly
<1>9. TypeOK'
  BY <1>3, <1>5, <1>7, <1>8 DEF IInv, TypeOK, Call, Objects, ReadWrite, ReadOnly
<1>10. OneFollows'
  BY <1>4, <1>5, <1>6 DEF OneFollows
<1>11. ActualFollowsTarget'
  BY <1>5, <1>6, <1>7 DEF ActualFollowsTarget, Objects, ReadWrite
<1>12. \A u \in Workers : u # w => u # lone \/ lone = "torn"
  BY <1>4, <1>6 DEF IInv, OneFollows
<1>13. FeedbackHeld'
  BY <1>2, <1>3, <1>5, <1>7, <1>12, WorkersAssumption DEF FeedbackHeld, At
<1>14. FeedbackIsMine'
  BY <1>2, <1>3, <1>5 DEF IInv, FeedbackIsMine, At
<1>15. HistoryFits'
  <2>1. \A o \in Objects \ {"Controlword"} : current'[o] \in {ReadValue(o)', Unsure}
    BY <1>5, <1>7, <1>8 DEF IInv, HistoryFits, ReadValue, Objects, ReadWrite, ReadOnly
  <2>2. lone = w => Following' = {}
    BY <1>4, <1>6, WorkersAssumption
  <2>. QED  BY <2>1, <2>2, <1>8 DEF HistoryFits
<1>. QED  BY <1>9, <1>10, <1>11, <1>13, <1>14, <1>15 DEF IInv

-----------------------------------------------------------------------------
(* The theorems. *)

\* Every step keeps the invariant.
THEOREM NextIInv == IInv /\ [Next]_vars => IInv'
<1>. SUFFICES ASSUME IInv, [Next]_vars PROVE IInv'
  OBVIOUS
<1>1. CASE Next
  <2>. PICK w \in Workers :
         \/ ReadObject(w)
         \/ WriteRefused(w) \/ WriteProfile(w) \/ SetMode(w)
         \/ WriteTarget(w) \/ StoreTarget(w) \/ StoreActual(w)
         \/ SetControlword(w) \/ InjectFault(w) \/ Control(w) \/ Sync(w)
         \/ CycleExchange(w) \/ Input(w) \/ Return(w)
    BY <1>1 DEF Next
  <2>. QED
    BY LocalKeeps, WriteProfileKeeps, SetModeKeeps, ControlKeeps, SyncKeeps,
       StoreTargetKeeps, StoreActualKeeps
<1>2. CASE UNCHANGED vars
  BY <1>2 DEF vars, IInv, TypeOK, OneFollows, ActualFollowsTarget, FeedbackHeld,
              FeedbackIsMine, HistoryFits, ReadValue, Following, At
<1>. QED  BY <1>1, <1>2

\* The invariant holds always.
THEOREM Invariance == Spec => []IInv
BY InitIInv, NextIInv, PTL DEF Spec

\* Type correctness of the object dictionary and of the calls on it.
THEOREM Typing == Spec => []TypeOK
<1>1. IInv => TypeOK
  BY DEF IInv
<1>. QED  BY <1>1, Invariance, PTL

\* virtual_drive.cpp:31: the actual position is the target whenever no target write is
\* half done, unless the last one overlapped another; whatever the number of workers.
THEOREM Mirroring == Spec => []ActualFollowsTarget
<1>1. IInv => ActualFollowsTarget
  BY DEF IInv
<1>. QED  BY <1>1, Invariance, PTL

\* test_ethercat.py:63: a frame whose target write was the last to begin, and met no
\* other, answers with its own target.
THEOREM Feedback == Spec => []FeedbackIsMine
<1>1. IInv => FeedbackIsMine
  BY DEF IInv
<1>. QED  BY <1>1, Invariance, PTL

\* test_cia402.py:200: what a read answers is what the last write of the object, or of
\* the one it stands for, left; but a read of the controlword answers 0, whatever has been
\* written and acknowledged (virtual_drive.cpp:22).
THEOREM FreshReads == Spec => ReadsAreCurrent
<1>. DEFINE Fresh ==
       \A w \in Workers :
         At(w, "idle") /\ call'[w].op = "read" /\ call'[w].pc = "answered" /\ call'[w].ok =>
           IF call'[w].index = "Controlword"
           THEN call'[w].value = 0
           ELSE current[call'[w].index] \in {call'[w].value, Unsure}
<1>1. IInv /\ [Next]_vars => [Fresh]_vars
  <2>. SUFFICES ASSUME IInv, Next, NEW w \in Workers, At(w, "idle"), call'[w].op = "read",
                       call'[w].pc = "answered", call'[w].ok
                PROVE  IF call'[w].index = "Controlword"
                       THEN call'[w].value = 0
                       ELSE current[call'[w].index] \in {call'[w].value, Unsure}
    OBVIOUS
  <2>1. call \in [Workers -> Call] /\ call[w].pc = "idle"
    BY DEF IInv, TypeOK, Call, At
  <2>2. ReadObject(w)
    <3>1. PICK u \in Workers :
            \/ ReadObject(u)
            \/ WriteRefused(u) \/ WriteProfile(u) \/ SetMode(u)
            \/ WriteTarget(u) \/ StoreTarget(u) \/ StoreActual(u)
            \/ SetControlword(u) \/ InjectFault(u) \/ Control(u) \/ Sync(u)
            \/ CycleExchange(u) \/ Input(u) \/ Return(u)
      BY DEF Next
    <3>2. call' = [call EXCEPT ![u] = call'[u]]
      BY <2>1, <3>1
         DEF ReadObject, WriteRefused, WriteProfile, SetMode, WriteTarget, StoreTarget,
             StoreActual, SetControlword, InjectFault, Control, Sync, CycleExchange, Input, Return,
             Answer, Begin, Goto, Followed
    <3>3. u = w
      BY <2>1, <3>2
    <3>4. ~(WriteRefused(w) \/ WriteProfile(w) \/ SetMode(w))
      BY <2>1 DEF WriteRefused, WriteProfile, SetMode, Answer
    <3>5. ~(WriteTarget(w) \/ SetControlword(w) \/ InjectFault(w) \/ CycleExchange(w))
      BY <2>1 DEF WriteTarget, SetControlword, InjectFault, CycleExchange, Begin
    <3>6. ~(StoreTarget(w) \/ StoreActual(w) \/ Control(w) \/ Sync(w) \/ Input(w) \/ Return(w))
      BY <2>1 DEF StoreTarget, StoreActual, Control, Sync, Input, Return, At
    <3>. QED  BY <3>1, <3>3, <3>4, <3>5, <3>6
  <2>3. PICK index \in Indices :
          IF index \in Objects THEN Answer(w, "read", index, ReadValue(index), TRUE)
                               ELSE Answer(w, "read", index, 0, FALSE)
    BY <2>2 DEF ReadObject
  <2>4. /\ index \in Objects /\ call'[w].index = index
        /\ call'[w].value = ReadValue(index)
    BY <2>1, <2>3 DEF Answer
  <2>5. ReadValue("Controlword") = 0
    BY DEF ReadValue, IInv, TypeOK
  <2>. QED  BY <2>4, <2>5 DEF IInv, HistoryFits
<1>2. Spec => [][Fresh]_vars
  BY <1>1, Invariance, PTL DEF Spec
<1>. QED  BY <1>2 DEF ReadsAreCurrent
===============================================================================
