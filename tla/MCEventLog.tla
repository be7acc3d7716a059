----------------------------- MODULE MCEventLog -----------------------------
(* Values of the constants of EventLog for TLC. *)
EXTENDS EventLog
=============================================================================
