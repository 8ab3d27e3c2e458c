----------------------------- MODULE MCEventLog -----------------------------
(* EventLog for TLC: its constants need no definitions. *)
EXTENDS EventLog
=============================================================================
