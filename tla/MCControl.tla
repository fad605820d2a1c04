----------------------------- MODULE MCControl ------------------------------
(* Small instances of Control for TLC. *)
EXTENDS Control
=============================================================================
