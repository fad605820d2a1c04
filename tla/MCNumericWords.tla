--------------------------- MODULE MCNumericWords ---------------------------
(* Instances of NumericWords for TLC: every cell of a machine of four      *)
(* bits, the cells at the edges of a machine of eight, every short text of *)
(* the characters that numbers are made of, and days around the places     *)
(* where the calendar is irregular.                                        *)
EXTENDS NumericWords

AllCells  == Word
EdgeCells == {0, 1, 2, 3, 7, 15, 16, 17, 100, 127, 128, 129, 239, 240, 254, 255}
SomeBases == {2, 3, 10, 12}
MoreBases == {2, 10, 16, 36}
Characters == {"0", "1", "b", "x", "-", "dollar", "'"}
ShortTexts == {Append(t, c) : t \in UNION {[1..n -> Characters] : n \in 1..4}, c \in {"0", "x"}}
\* the years around 1970, 1972, 2000, 2004, 2100, 2104 and 2400
SomeDays == (0..1500) \cup (10900..12700) \cup (47400..49400) \cup (156900..157800)

\* The hypothesis of the theorems about numbers.
ASSUME PowersAssumption == PowersOfTwo
=============================================================================
