------------------------------- MODULE MCInput -------------------------------
(* Programs for TLC: every text of a few pieces, of three kinds.  The       *)
(* pieces that store strings fill a buffer of nine characters several times *)
(* over; the lines of the others are longer than the input buffer.          *)
EXTENDS Input

Texts(pieces, n) == {FlattenSeq(t) : t \in UNION {[1..k -> pieces] : k \in 1..n}}
Program(sid, texts, sz) == [sid : {sid}, text : texts, sz : {sz}]

Line_ == <<NL>>
T == <<"true[IF]", " ">>   F == <<"false[IF]", " ">>
E == <<"[ELSE]", " ">>     X == <<"[THEN]", " ">>
W == <<"p", " ">>
Pieces_ == {T, F, E, X, W, Line_}
Conditional == Texts(Pieces_, 3) \cup {F \o t : t \in Texts(Pieces_, 4)}

Comment_ == {<<"(", " ", "p", " ", "p", ")", " ">>, <<ESC, " ", "p", " ">>}
Lines_   == Comment_ \cup {<<"S_QUOTE", " ", " ", "p", QUOTE>>, <<"S_ESC_QUOTE", " ", ESC, QUOTE, "p">>,
                           <<"REFILL", " ">>, <<" ", "p", "p", "p">>, Line_}
Parsing == Texts(Lines_, 3)

S(text) == <<"S_QUOTE", " ">> \o text \o <<QUOTE>>
Z(text) == <<"S_ESC_QUOTE", " ">> \o text \o <<QUOTE>>
Strings_ == {S(<<"p">>), S(<<"p", "q">>), S(<<"p", "q", "r">>), Z(<<"p", ESC, "m">>),
             Z(<<ESC, "n", "p", ESC, "z", ESC, "x", "4", "1">>), S([i \in 1..10 |-> "p"])}
Stored == Texts(Strings_, 5)
StoredStrings == Program("string", Stored, 1)

\* REFILL before the end of its line, and a string that escapes the end of its
\* line.
Refilled == Texts({<<"REFILL", " ">>, W, <<"S_ESC_QUOTE", " ", ESC, NL>>, Line_}, 4)

\* CATCH of a word that refills and throws, on the last line: there is no more
\* to read.
LastCaught == {<<"p", NL, "q", " ", "CATCH", " ", "p">>}

SomeLetters == {"true[IF]", "false[IF]", "[ELSE]", "[THEN]", "(", ")", ESC, QUOTE, "S_QUOTE", "S_ESC_QUOTE",
                "REFILL", "CATCH", "p", "q", "r", "m", "n", "z", "x", "4", "1", " ", NL}

SomePrograms == Program("file", LastCaught, 9) \cup Program("file", Conditional, 7)
                  \cup Program("file", Parsing \cup Refilled, 9)
                  \cup Program("string", Parsing, 1) \cup StoredStrings

\* A comment with nothing in it.
EmptyComments == Program("string", {<<"(", " ", ")", " ", "p", " ", "p", ")", " ", "p">>,
                                    <<"p", " ", ESC, NL, "p", " ", "p">>}, 1)
\* A conditional that a string does not close.
OpenConditional == Program("string", {F \o W}, 1)
\* A word that refills and throws, on a line that is followed by longer ones.
Caught == Program("file", {<<"p", " ", "CATCH", " ", "p", NL, "q", "q", "q", " ", "q", "q", NL, "p">>}, 9)
=============================================================================
