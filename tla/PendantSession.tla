--------------------------- MODULE PendantSession ----------------------------
(***************************************************************************)
(* The desktop panel and the back end it jogs through: a button held down  *)
(* sends a jog on the press and on each firing of the repeat timer,        *)
(* whether or not the earlier ones are answered, so the pool of the back   *)
(* end serves several at once.                                             *)
(***************************************************************************)
EXTENDS QtPanel, ManualSampler

sessionVars == <<panelVars, samplerVars>>

SessionInit == PanelInit /\ SamplerInit

\* Bound: as many jogs under way as there are Requests.
SendJog == \E r \in Requests : Jog(r)

Press == JogPress /\ SendJog
Repeat == JogRepeat /\ SendJog
Release == JogRelease /\ UNCHANGED samplerVars

SessionNext ==
  \/ Press \/ Repeat \/ Release
  \/ (Change \/ RefreshStatus \/ Answered) /\ UNCHANGED samplerVars
  \/ \E r \in Requests : Work(r) /\ UNCHANGED panelVars
  \/ \E s \in Samplers : Loop(s) /\ UNCHANGED panelVars
  \/ (GrowOld \/ Expire) /\ UNCHANGED panelVars

SessionSpec == SessionInit /\ [][SessionNext]_sessionVars

\* The event loop runs and its timer fires; requests end; the threads of the back end run;
\* the clock runs, so that a marker nobody touches grows stale.
FairSession ==
  /\ SessionSpec
  /\ WF_sessionVars((RefreshStatus \/ OnStatus \/ OnAlarm) /\ UNCHANGED samplerVars)
  /\ \A p \in Polls : WF_sessionVars(Serve(p) /\ UNCHANGED samplerVars)
  /\ \A r \in Requests : WF_sessionVars(Work(r) /\ UNCHANGED panelVars)
  /\ \A s \in Samplers : WF_sessionVars(Loop(s) /\ UNCHANGED panelVars)
  /\ WF_sessionVars(Expire /\ UNCHANGED panelVars)
=============================================================================
