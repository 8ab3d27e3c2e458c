----------------------------- MODULE MCJobQueue -----------------------------
(* JobQueue for TLC: its constants need no definitions. *)
EXTENDS JobQueue
=============================================================================
