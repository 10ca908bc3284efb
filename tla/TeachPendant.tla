---------------------------- MODULE TeachPendant -----------------------------
(***************************************************************************)
(* The jog of the teach pendants over the controller: POST /api/jog of the *)
(* REST backend (teach_pendant/main.py) and JOG of the TP/1.0 bridge       *)
(* (teach_pendant/tp_bridge.py).  Both call Stop and then MoveRelative,    *)
(* two calls between which other clients get theirs in.  A pendant's       *)
(* handler is identified with the gRPC worker that serves its calls; all   *)
(* its other operations are the controller's own commands.                 *)
(***************************************************************************)
EXTENDS ControllerAgent

VARIABLES
  jog,        \* thread -> how far the jog it serves has got
  disturbed   \* history: jogs during which another motion started or a Reset came

pendantVars == <<vars, jog, disturbed>>

PendantInit ==
  /\ Init
  /\ jog = [t \in Threads |-> "none"]
  /\ disturbed = {}

\* Fault variant: the stop in front of the step is left out.
StopFirstSkipped == UNCHANGED vars

StopFirst == Stop

\* The stop is requested; nothing waits for the control loop to serve it.
JogStop(t) ==
  /\ jog[t] = "none" /\ MayIssue(t)
  /\ StopFirst
  /\ jog' = [jog EXCEPT ![t] = "stopped"]
  /\ disturbed' = disturbed \ {t}

JogMove(t) ==
  /\ jog[t] = "stopped"
  /\ MoveRelative(t)
  /\ jog' = [jog EXCEPT ![t] = "moving"]
  /\ UNCHANGED disturbed

\* A motion that thread t starts disturbs the jogs of all others.
DisturbOthers(t) ==
  disturbed' = IF ~busy /\ busy' THEN disturbed \cup (Threads \ {t}) ELSE disturbed

Command(t) ==
  /\ jog[t] = "none"
  /\ MoveAbsolute(t) \/ Home(t) \/ MoveRelative(t)
  /\ DisturbOthers(t)
  /\ UNCHANGED jog

Continue(t) ==
  /\ Resume(t) \/ SpuriousWakeup(t)
  /\ DisturbOthers(t)
  /\ jog' = IF pc'[t] = "idle" THEN [jog EXCEPT ![t] = "none"] ELSE jog

PendantNext ==
  \/ \E t \in Threads : JogStop(t) \/ JogMove(t) \/ Command(t) \/ Continue(t)
  \/ (Enable \/ Disable \/ Stop \/ EmergencyStop \/ ControlCycle)
       /\ UNCHANGED <<jog, disturbed>>
  \/ Reset /\ disturbed' = Threads /\ UNCHANGED jog

PendantSpec == PendantInit /\ [][PendantNext]_pendantVars

-----------------------------------------------------------------------------
(* Properties. *)

\* A jog steps from where the arm rests (main.py:292, "Stop first, to clear any
\* motion, then one small step"): from its Stop to the start of its own motion, the
\* reading of the position included, the arm does not move, unless another client's
\* motion starts in between or a Reset takes the stop request back.
JogReadsRestingArm ==
  [][\A t \in Threads \ disturbed :
       jog[t] = "stopped" \/ (jog[t] = "moving" /\ pc[t] = "relative")
         => position' = position]_pendantVars

\* tp_bridge.py:34, JOG: "an ordinary stop first, then the step (to avoid a BUSY
\* rejection)".  A jog nobody else disturbs does not find the controller busy.
JogAvoidsBusy ==
  [][\A t \in Threads \ disturbed :
       jog[t] = "moving" /\ pc[t] = "relative" /\ pc'[t] = "idle"
         => ~(busy /\ ctrl_state = "ENABLED")]_pendantVars
=============================================================================
