----------------------------- MODULE MCCompiler -----------------------------
(* Small instances of Compiler for TLC: Nat, which the abstract            *)
(* specification quantifies over, never needs to be enumerated.            *)
EXTENDS Compiler
=============================================================================
