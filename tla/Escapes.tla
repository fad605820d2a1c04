------------------------------- MODULE Escapes ------------------------------
(***************************************************************************)
(* Characters and the escapes of S\" (e4__mem_strnescape of                *)
(* core/src/util/mem.c).  A character is named by itself or by its code in *)
(* two hexadecimal digits.                                                 *)
(***************************************************************************)
EXTENDS Integers, SequencesExt

QUOTE == "\""
ESC   == "\\"
Hex   == {"0", "1", "2", "3", "4", "5", "6", "7", "8", "9", "a", "b", "c", "d", "e", "f"}

\* What the character after a backslash stands for; other characters are named
\* by their codes.
Escaped == [a |-> <<"07">>, b |-> <<"08">>, e |-> <<"1b">>, f |-> <<"0c">>, l |-> <<"0a">>,
            n |-> <<"0a">>, q |-> <<QUOTE>>, r |-> <<"0d">>, t |-> <<"09">>, v |-> <<"0b">>,
            z |-> <<"00">>, m |-> <<"0d", "0a">>] @@ QUOTE :> <<QUOTE>> @@ ESC :> <<ESC>>

\* e4__mem_strnescape: the chunk at position i, how many characters it takes
\* and what it becomes: an escape, or all that precedes the next backslash.
\* A backslash that begins no escape is one of the characters.
Chunk(str, i) ==
  LET rest == SubSeq(str, i, Len(str))
      size == CHOOSE k \in DOMAIN rest : /\ k < Len(rest) => rest[k + 1] = ESC
                                         /\ \A j \in 2..k : rest[j] # ESC
  IN  CASE rest[1] = ESC /\ Len(rest) >= 2 /\ rest[2] \in DOMAIN Escaped ->
             [taken |-> 2, text |-> Escaped[rest[2]]]
        [] rest[1] = ESC /\ Len(rest) >= 4 /\ rest[2] = "x" /\ {rest[3], rest[4]} \subseteq Hex ->
             [taken |-> 4, text |-> <<rest[3] \o rest[4]>>]
        [] OTHER -> [taken |-> size, text |-> SubSeq(rest, 1, size)]

Chunks(str) ==
  LET From[i \in 1..(Len(str) + 1)] ==
        IF i > Len(str) THEN <<>>
        ELSE <<Chunk(str, i).text>> \o From[i + Chunk(str, i).taken]
  IN  From[1]

-----------------------------------------------------------------------------
(* Codes. *)

HexDigit == <<"0", "1", "2", "3", "4", "5", "6", "7", "8", "9", "a", "b", "c", "d", "e", "f">>
ByCode(n) == HexDigit[(n \div 16) + 1] \o HexDigit[(n % 16) + 1]
Characters == [n \in 0..255 |-> CASE n = 32 -> " " [] n = 34 -> QUOTE [] n = 92 -> ESC
                                  [] n = 97 -> "a" [] n = 98 -> "b" [] OTHER -> ByCode(n)]
Chr(n) == Characters[n % 256]
Ord(c) == CHOOSE n \in 0..255 : Characters[n] = c
=============================================================================
