----------------------------- MODULE MCThreads ------------------------------
(* Small instances of Threads for TLC. *)
EXTENDS Threads
=============================================================================
