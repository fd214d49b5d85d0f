---------------------------- MODULE MCEmergency -----------------------------
(* Instances of EmergencyDispatcher for TLC. *)
EXTENDS EmergencyDispatcher
=============================================================================
