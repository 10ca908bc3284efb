------------------------------- MODULE QtPanel -------------------------------
(***************************************************************************)
(* The desktop panel of the teach pendant (teach_pendant/qt_panel.py): one *)
(* event loop whose handlers poll the REST back end for status and alarm,  *)
(* enable the jog buttons accordingly, and repeat a jog while its button   *)
(* is held.  Each request ends with an answer or with an error; the two    *)
(* polls are served at different times and answered in any order.          *)
(*                                                                         *)
(* Of the controller the panel sees whether it is enabled and whether it   *)
(* has an error, which is one of three states here; others change it.      *)
(***************************************************************************)
EXTENDS Naturals

VARIABLES
  ctrl,       \* the controller: "disabled", "enabled" or "error"
  inflight,   \* _inflight: polls not yet settled
  poll,       \* "status" and "alarm" -> "none", "sent", "failed", or "yes" or "no": the answer
  can_jog,    \* whether the jog buttons are enabled
  alarmed,    \* whether the alarm label shows an alarm
  held,       \* whether a jog button is held down, which keeps _jog_repeat running
  quiet       \* history: no change and no failure since the last poll was begun

panelVars ==
  <<ctrl, inflight, poll, can_jog, alarmed, held, quiet>>

Polls == {"status", "alarm"}
Controllers == {"disabled", "enabled", "error"}

CanJog(c) == c = "enabled"

\* What a poll asks: may the arm be jogged; is there an alarm.
Reply(p) == IF IF p = "status" THEN CanJog(ctrl) ELSE ctrl = "error" THEN "yes" ELSE "no"

\* The constructor starts the first poll.  The buttons come enabled out of the form.
PanelInit ==
  /\ ctrl = "disabled"
  /\ inflight = 2 /\ poll = [p \in Polls |-> "sent"]
  /\ can_jog = TRUE /\ alarmed = FALSE
  /\ held = FALSE /\ quiet = TRUE

-----------------------------------------------------------------------------
(* The controller *)

\* do_servo and do_reset of this panel, and everything others do.
Change ==
  /\ \E c \in Controllers \ {ctrl} : ctrl' = c
  /\ quiet' = FALSE
  /\ UNCHANGED <<inflight, poll, can_jog, alarmed, held>>

-----------------------------------------------------------------------------
(* Polling *)

\* The timer fires, or F5: skipped while a poll is in flight.
RefreshStatus ==
  /\ inflight = 0
  /\ inflight' = 2 /\ poll' = [p \in Polls |-> "sent"]
  /\ quiet' = TRUE
  /\ UNCHANGED <<ctrl, can_jog, alarmed, held>>

\* The back end reads the controller, or the request fails.
Serve(p) ==
  /\ poll[p] = "sent"
  /\ \/ poll' = [poll EXCEPT ![p] = Reply(p)] /\ UNCHANGED quiet
     \/ poll' = [poll EXCEPT ![p] = "failed"] /\ quiet' = FALSE
  /\ UNCHANGED <<ctrl, inflight, can_jog, alarmed, held>>

\* A request is over: answered or failed.
Over(p) == poll[p] \in {"yes", "no", "failed"}

\* Fault variant: a request that failed is not settled.
SettleAnswers(p) ==
  inflight' = IF poll[p] # "failed" /\ inflight > 0 THEN inflight - 1 ELSE inflight

\* Fault variant: the first of the two ends the poll.
SettleBoth(p) == inflight' = 0

Settle(p) == inflight' = IF inflight > 0 THEN inflight - 1 ELSE 0

\* A failed poll leaves the buttons as they are.  Buttons that are disabled while held
\* let go (Qt emits released).
OnStatus ==
  /\ Over("status")
  /\ can_jog' = IF poll["status"] = "failed" THEN can_jog ELSE poll["status"] = "yes"
  /\ held' = (held /\ can_jog')
  /\ Settle("status")
  /\ poll' = [poll EXCEPT !["status"] = "none"]
  /\ UNCHANGED <<ctrl, alarmed, quiet>>

\* A failed poll shows no alarm.
OnAlarm ==
  /\ Over("alarm")
  /\ alarmed' = (poll["alarm"] = "yes")
  /\ Settle("alarm")
  /\ poll' = [poll EXCEPT !["alarm"] = "none"]
  /\ UNCHANGED <<ctrl, can_jog, held, quiet>>

-----------------------------------------------------------------------------
(* Holding a jog button.  PendantSession adds the jogs that are sent. *)

JogPress ==
  /\ can_jog /\ ~held
  /\ held' = TRUE
  /\ UNCHANGED <<ctrl, inflight, poll, can_jog, alarmed, quiet>>

JogRepeat == held /\ UNCHANGED panelVars

JogRelease ==
  /\ held
  /\ held' = FALSE
  /\ UNCHANGED <<ctrl, inflight, poll, can_jog, alarmed, quiet>>

Answered == OnStatus \/ OnAlarm \/ \E p \in Polls : Serve(p)

-----------------------------------------------------------------------------
(* Properties. *)

PanelTypeOK ==
  /\ ctrl \in Controllers
  /\ poll \in [Polls -> {"none", "sent", "failed", "yes", "no"}]
  /\ can_jog \in BOOLEAN /\ alarmed \in BOOLEAN
  /\ held \in BOOLEAN /\ quiet \in BOOLEAN
  /\ inflight \in 0..2

\* qt_panel.py:201, "if the last round is not back, skip this one": however slowly and in
\* whatever order the two requests of a poll are served, what the panel shows between polls
\* is one state of the controller, that of now, unless it changed or a request failed
\* since the poll began.
DisplayAgrees ==
  inflight = 0 /\ quiet => can_jog = CanJog(ctrl) /\ alarmed = (ctrl = "error")

\* Whatever failed before: as long as the controller stays as it is, the requests end,
\* and the failures stop, the panel comes to show the controller's state and keeps it.
Calm == <>[][FALSE]_ctrl
NoFailure == <>[](\A p \in Polls : poll[p] # "failed")
DisplayCatchesUp ==
  Calm /\ NoFailure => <>[](can_jog = CanJog(ctrl) /\ alarmed = (ctrl = "error"))

\* An alarm that is shown stays until a poll has seen the controller without one.  A
\* failed poll turns the label to "no alarm"; no run checks this.
AlarmStays ==
  [][alarmed /\ ~alarmed' => poll["alarm"] = "no"]_panelVars
=============================================================================
