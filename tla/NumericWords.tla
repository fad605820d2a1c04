---------------------------- MODULE NumericWords ----------------------------
(***************************************************************************)
(* The words that calculate, read and print numbers (core/src/builtin),    *)
(* one action each: the operands a program may give are chosen, the word   *)
(* stores what it computed with Arithmetic, Numbers or Calendar, and       *)
(* returns.  The data stack is left out: the operands are those the word   *)
(* popped, the outcome is what it pushes or throws.                        *)
(***************************************************************************)
EXTENDS Numbers, Calendar, FiniteSetsExt, SequencesExt

CONSTANTS
  Operands,   \* cells that divisions and products are given
  Bases,      \* contents of BASE
  Texts,      \* texts that are read, followed by one character of the input
  Rooms,      \* lengths of the buffers that are printed into
  Initials,   \* numbers that >NUMBER continues
  Days        \* times of TIME&DATE

ASSUME OperandsAssumption ==
  /\ Operands \subseteq Word /\ Initials \subseteq Word /\ Bases \subseteq Word \cap (2..36)
  /\ Rooms \subseteq Nat /\ Days \subseteq Nat
  /\ \A t \in Texts : Len(t) \in Nat /\ Len(t) >= 2

VARIABLES
  word,    \* the word that was executed last, or "none"
  args,    \* its operands
  out      \* its outcome

numericVars == <<word, args, out>>

NumericInit == word = "none" /\ args = <<>> /\ out = <<>>

Execute(w, a, o) == word' = w /\ args' = a /\ out' = o

Doubles == [low : Operands, high : Operands]

-----------------------------------------------------------------------------
(* Multiplication and division. *)

UM_STAR == \E l, r \in Operands : Execute("UM*", <<l, r>>, usize_mul(l, r, FALSE))
M_STAR  == \E l, r \in Operands : Execute("M*", <<l, r>>, usize_mul(l, r, TRUE))

UM_SLASH_MOD == \E d \in Doubles, n \in Operands :
  Execute("UM/MOD", <<d, n>>, double_ndiv(d, n, FALSE, FALSE, TRUE))
SM_SLASH_REM == \E d \in Doubles, n \in Operands :
  Execute("SM/REM", <<d, n>>, double_ndiv(d, n, TRUE, FALSE, TRUE))
FM_SLASH_MOD == \E d \in Doubles, n \in Operands :
  Execute("FM/MOD", <<d, n>>, double_ndiv(d, n, TRUE, TRUE, TRUE))

STAR_SLASH_MOD == \E l, r, d \in Operands :
  Execute("*/MOD", <<l, r, d>>, double_ndiv(usize_mul(l, r, TRUE), d, TRUE, FALSE, TRUE))

SLASH_MOD == \E n, d \in Operands :
  Execute("/MOD", <<n, d>>, IF d = 0 THEN Failed("DIVBYZERO") ELSE usize_sdiv(n, d))

\* The division of two words by one, with the flags of its interface.
DoubleDiv == \E d \in Doubles, n \in Operands, flags \in {<<FALSE, FALSE>>, <<TRUE, FALSE>>, <<TRUE, TRUE>>} :
  Execute("double_div", <<d, n, flags>>, double_div(d, n, flags[1], flags[2]))

\* The end of a loop: does the step cross the limit?  Fault: it is looked
\* for where numbers change sign.
Crosses_Zero(inc, index, limit) ==
  IsNegative(index) # IsNegative((index + inc) % Base)
Crosses(inc, index, limit) ==
  LET x == (index - limit + Base \div 2) % Base
  IN  IsNegative(x) # IsNegative((x + inc) % Base)
LOOP_INC == \E inc, index, limit \in Operands :
  Execute("+LOOP", <<inc, index, limit>>,
          [done |-> Crosses(inc, index, limit), index |-> (index + inc) % Base])

-----------------------------------------------------------------------------
(* Numbers as text, and the date. *)

\* e4__evaluate_interpret takes a word for a number if all of it is one.
Interpret == \E t \in Texts, base \in Bases :
  Execute("number", <<t, base>>, mem_number(t, Len(t) - 1, base, AllFlags))

TO_NUMBER == \E t \in Texts, base \in Bases, initial \in Initials :
  LET n == mem_number(t, Len(t) - 1, base, {})
  IN  Execute(">NUMBER", <<t, base, initial>>,
              [n EXCEPT !.out = (@ + initial * base) % Base])

\* `.', `U.' and the numbers of `.S'; #S prints doubles.
NUMBER_SIGN_S == \E d \in Doubles, base \in Bases, signed \in BOOLEAN, n \in Rooms :
  Execute("print", <<d, base, signed, n>>, pno_digits(n, base, signed, d))

FormatCell == \E u \in Operands, base \in Bases, signed \in BOOLEAN, n \in Rooms \ {0} :
  Execute("format", <<u, base, signed, n>>,
          [res |-> "OK", text |-> usize_format(u, base, signed, n)])

TIME_AND_DATE == \E t \in Days : Execute("TIME&DATE", <<t>>, togmt(t))

\* e4__execute_ret; the next word follows.
Return == word # "none" /\ word' = "none" /\ args' = <<>> /\ out' = <<>>

Call ==
  \/ UM_STAR \/ M_STAR
  \/ UM_SLASH_MOD \/ SM_SLASH_REM \/ FM_SLASH_MOD \/ STAR_SLASH_MOD \/ SLASH_MOD
  \/ DoubleDiv \/ LOOP_INC
  \/ Interpret \/ TO_NUMBER \/ NUMBER_SIGN_S \/ FormatCell \/ TIME_AND_DATE

NumericNext == (word = "none" /\ Call) \/ Return

NumericSpec == NumericInit /\ [][NumericNext]_numericVars

-----------------------------------------------------------------------------
(* What the results mean.  Numbers here are mathematical integers. *)

\* What the words rely on of powers of two; TLC evaluates it.
PowersOfTwo ==
  /\ 2^0 = 1 /\ 2^1 = 2
  /\ \A i, j \in 0..W : 2^i \in Nat \ {0} /\ (i + j <= W => 2^(i + j) = 2^i * 2^j)

Cell(u, signed) == IF signed /\ IsNegative(u) THEN u - Base ELSE u
TwoCells(d, signed) == Cell(d.high, signed) * Base + d.low
MostNegative == -(Base \div 2)
MostNegativeDouble == -((Base \div 2) * Base)
Abs(n) == IF n < 0 THEN -n ELSE n

Divisions == {"UM/MOD", "SM/REM", "FM/MOD", "*/MOD", "/MOD", "double_div"}
IsSigned  == IF word = "double_div" THEN args[3][1] ELSE word # "UM/MOD"
IsFloored == IF word = "double_div" THEN args[3][2] ELSE word = "FM/MOD"
Dividend  == CASE word = "/MOD"  -> Cell(args[1], TRUE)
               [] word = "*/MOD" -> Cell(args[1], TRUE) * Cell(args[2], TRUE)
               [] OTHER -> TwoCells(args[1], IsSigned)
Divisor   == Cell(IF word = "*/MOD" THEN args[3] ELSE args[2], IsSigned)
Quotient  ==
  LET q == Abs(Dividend) \div Abs(Divisor)
      exact == q * Abs(Divisor) = Abs(Dividend)
  IN  IF (Dividend < 0) = (Divisor < 0) THEN q
      ELSE IF IsFloored /\ ~exact THEN -q - 1 ELSE -q

Polynomial(digits, base) ==
  MapThenSumSet(LAMBDA i: DigitOf(digits[i]) * base^(Len(digits) - i), DOMAIN digits)
AllDigits(digits, base) == \A i \in DOMAIN digits : IsDigit(digits[i], base)

\* The numbers that text spells in the base, or in the base of its prefix: one
\* or none.  A 0 and a letter are a prefix in a text of more than two
\* characters, its sign counted.
Numerals(text, base) ==
  LET minus == Head(text) = "-"
      body  == IF minus THEN Tail(text) ELSE text
      k     == CASE body = <<>> -> 0
                 [] body[1] \in DOMAIN Sigil -> 1
                 [] body[1] = "0" /\ Len(text) > 2 /\ body[2] \in DOMAIN Radix -> 2
                 [] OTHER -> 0
      radix == CASE k = 0 -> base [] k = 1 -> Sigil[body[1]] [] k = 2 -> Radix[body[2]]
      digits == SubSeq(body, k + 1, Len(body))
      n      == Polynomial(digits, radix)
  IN  IF digits = <<>> \/ ~AllDigits(digits, radix) THEN {}
      ELSE {(IF minus THEN -n ELSE n) % Base}

\* How many characters a number takes.
Needed(n, base) ==
  (CHOOSE k \in 1..(2 * W) : base^k > Abs(n) /\ (k > 1 => base^(k - 1) <= Abs(n)))
    + (IF n < 0 THEN 1 ELSE 0)

Leap(y) == y % 4 = 0 /\ (y % 100 # 0 \/ y % 400 = 0)
MonthLengths(y) == <<31, IF Leap(y) THEN 29 ELSE 28, 31, 30, 31, 30, 31, 31, 30, 31, 30, 31>>
DaysBefore(m) == <<0, 31, 59, 90, 120, 151, 181, 212, 243, 273, 304, 334>>[m]
DayNumber(y, m, d) ==
  365 * (y - 1970) + (y - 1969) \div 4 - (y - 1901) \div 100 + (y - 1601) \div 400
    + DaysBefore(m) + (IF m > 2 /\ Leap(y) THEN 1 ELSE 0) + d - 1
IsDateOf(date, t) ==
  /\ date.mon \in 1..12 /\ date.mday \in 1..MonthLengths(date.year)[date.mon]
  /\ DayNumber(date.year, date.mon, date.mday) = t

-----------------------------------------------------------------------------
(* Properties. *)

\* Every word yields cells, an error only where it can throw, and texts of
\* characters; type invariant of the machine.
NumericTypeOK ==
  /\ word \in Divisions => out.res \in {"OK", "DIVBYZERO", "RSLTOUTORANGE"} /\ out.r \in Word
  /\ word \in {"UM*", "M*"} => out \in [low : Word, high : Word]
  /\ word \in {"print", "format"} => out.res \in {"OK", "PNOOVERFLOW"}
  /\ word \in {"number", ">NUMBER"} => out.count \in 0..(Len(args[1]) - 1)
  /\ word = "TIME&DATE" => out.mon \in 1..12 /\ out.mday \in 1..31

\* A product of two cells is the exact product, in two cells: the carries of
\* the multiplication by halves reach the high cell (e4__usize_mul).
ProductsAreExact ==
  word \in {"UM*", "M*"} =>
    LET signed == word = "M*"
    IN  TwoCells(out, signed) = Cell(args[1], signed) * Cell(args[2], signed)

\* A division that returns gives quotient and remainder of the dividend, the
\* remainder smaller than the divisor and of the dividend's sign, or the
\* divisor's when the division floors; the one quotient that has no signed
\* representation, the most negative number divided by -1, wraps
\* (e4__double_ndiv, e4__double_div, e4__usize_sdiv).
DivisionIsExact ==
  word \in Divisions /\ out.res = "OK" =>
    LET q == IF word = "double_div" THEN TwoCells(out.q, IsSigned) ELSE Cell(out.q, IsSigned)
        r == Cell(out.r, IsSigned)
        wraps == /\ word \in {"/MOD", "double_div"} /\ Divisor = -1 /\ q = Dividend /\ r = 0
                 /\ Dividend = IF word = "/MOD" THEN MostNegative ELSE MostNegativeDouble
    IN  /\ wraps \/ Dividend = q * Divisor + r
        /\ Abs(r) < Abs(Divisor)
        /\ r # 0 => (r < 0) = ((IF IsFloored THEN Divisor ELSE Dividend) < 0)

\* A division throws only if it has no result: the divisor is 0, or no cell
\* holds the quotient.  The most negative cell is not used for a quotient:
\* e4__double_ndiv takes it for an overflow.
RangeErrorsAreJustified ==
  word \in Divisions /\ out.res # "OK" =>
    IF Divisor = 0 THEN out.res = "DIVBYZERO"
    ELSE /\ out.res = "RSLTOUTORANGE"
         /\ IF IsSigned THEN Quotient <= MostNegative \/ Quotient >= Base \div 2
            ELSE Quotient >= Base

\* Products and divisions are exact, or refused for a reason.
ResultsAreExact == NumericTypeOK /\ ProductsAreExact /\ DivisionIsExact /\ RangeErrorsAreJustified

\* A loop ends with the step that takes its index across the boundary
\* between limit - 1 and limit, in either direction and wherever the numbers
\* wrap, as long as index and limit are within half the numbers of each other.
LoopsEndAtTheLimit ==
  word = "+LOOP" =>
    LET distance == Cell((args[2] - args[3]) % Base, TRUE)
        next     == distance + Cell(args[1], TRUE)
    IN  next \in MostNegative..(-MostNegative - 1) =>
          out.done = ((distance < 0) # (next < 0))

\* A word is taken for a number exactly if it is a character in quotes, or
\* spells one; >NUMBER converts the longest run of digits, and neither looks
\* at the input behind its text (e4__mem_number).
NumbersAreSpelled ==
  /\ word = "number" =>
       LET text == Front(args[1])
           all  == out.count = Len(text)
       IN  IF Len(text) = 3 /\ text[1] = "'" /\ text[3] = "'"
           THEN all /\ out.out = text[2]
           ELSE Numerals(text, args[2]) = IF all THEN {out.out} ELSE {}
  /\ word = ">NUMBER" =>
       LET text == Front(args[1])   n == out.count
           run  == SubSeq(text, 1, n)
       IN  /\ AllDigits(run, args[2])
           /\ out.out = (args[3] * args[2]^n + Polynomial(run, args[2])) % Base
           /\ n < Len(text) => ~IsDigit(text[n + 1], args[2])

\* A number that is printed reads back as itself in the same base, and
\* printing fails only if the room is too small for its digits and its sign.
PrintedNumbersReadBack ==
  word \in {"print", "format"} =>
    LET value == IF word = "print" THEN TwoCells(args[1], args[3]) ELSE Cell(args[1], args[3])
        back  == mem_number(Append(out.text, "0"), Len(out.text), args[2], {"NEG_PREFIX"})
    IN  /\ word = "print" => ((out.res = "OK") = (Needed(value, args[2]) <= args[4]))
        /\ Needed(value, args[2]) <= args[4] =>
             back = [count |-> Needed(value, args[2]), out |-> value % Base]

\* TIME&DATE gives the day, month and year of its day, except on the first two
\* days of March (see TimeAndDateIsCivil) and on the first leap day of a century
\* that begins without one, 29 February 2104.
DatesAreCivil ==
  word = "TIME&DATE" =>
    \/ IsDateOf(out, args[1])
    \/ \E y \in (out.year - 1)..(out.year + 1), d \in 1..2 : args[1] = DayNumber(y, 3, d)
    \/ out.year % 100 = 4 /\ out.year % 400 # 4 /\ args[1] = DayNumber(out.year, 2, 29)

\* TIME&DATE of the Facility Extensions gives the day, month and year of
\* every day.
TimeAndDateIsCivil == word = "TIME&DATE" => IsDateOf(out, args[1])

=============================================================================
