------------------------------- MODULE MCCode -------------------------------
(* Instances of Code for TLC: all definitions of a few items that are made *)
(* of the words of the model, some numbers and some strings.               *)
EXTENDS Code

\* cell 1 is BASE
SomeVariables == <<10, 5, 7>>

SomeStacks == {<<>>, <<0>>, <<4, 3>>, <<9, 1, 200>>, <<7, 2, 4, 128>>, <<1, 2, 3, 4, 2>>, <<1, 2, 3, 4, 5, 1>>}
AllWords == DOMAIN Abstract!Takes \cup {"PICK", "ROLL"}
Written(w, m) == [written |-> w, meant |-> m]
a == Written(<<"a">>, <<"a">>)
b == Written(<<"b">>, <<"b">>)
newline == Written(<<ESC, "n">>, <<"0a">>)
twice == Written(<<ESC, "m">>, <<"0d", "0a">>)
quote == Written(<<ESC, "q">>, <<QUOTE>>)
backslash == Written(<<ESC, ESC>>, <<ESC>>)
byCode == Written(<<ESC, "x", "4", "1">>, <<"41">>)
unknown == Written(<<ESC, "y">>, <<ESC, "y">>)
noCode == Written(<<ESC, "x", "4", "y">>, <<ESC, "x", "4", "y">>)
Pieces == {a, b, newline, twice, quote, backslash, byCode, unknown, noCode}
SomeTexts == {<<>>, <<a>>, <<b, a>>, <<a, b, a>>, <<newline>>, <<backslash, newline>>, <<a, twice>>, <<byCode, a, quote>>, <<unknown, noCode>>}

UncheckedRun == before' = Seen /\ UNCHANGED <<src, starts>> /\ (FIND \/ UNUSED)
UncheckedSpec == Init /\ [][Next \/ UncheckedRun]_vars
=============================================================================
