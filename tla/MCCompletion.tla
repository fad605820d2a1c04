---------------------------- MODULE MCCompletion ----------------------------
(* Instances of Completion for TLC: a few builtin words and names that     *)
(* differ in case and length.                                              *)
EXTENDS Completion

SomeBuiltins == <<<<"A", "B">>, <<"B">>>>
SomeNames == {<<"a">>, <<"a", "b", "a">>, <<"b", "a">>}
=============================================================================
