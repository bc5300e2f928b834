----------------------------- MODULE MCLogQueue -----------------------------
(* The log with one or two threads that write a few lines each. *)
EXTENDS LogQueue
=============================================================================
