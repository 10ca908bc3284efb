---------------------------- MODULE MCSafetyLink ----------------------------
(* SafetyLink with the constants of MCControllerAgent. *)
EXTENDS SafetyLink, MCControllerAgent
=============================================================================
