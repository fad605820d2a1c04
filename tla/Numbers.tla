------------------------------- MODULE Numbers -------------------------------
(***************************************************************************)
(* Numbers as text: reading them (e4__mem_number of core/src/util/mem.c)   *)
(* and printing them (e4__mem_pno_digits there, e4__usize_format of        *)
(* core/src/util/usize.c).                                                 *)
(*                                                                         *)
(* A text is a sequence of characters.  A letter stands for both cases:    *)
(* the code prints capitals and folds what it reads.                       *)
(***************************************************************************)
EXTENDS Arithmetic, Sequences

Digits == <<"0", "1", "2", "3", "4", "5", "6", "7", "8", "9",
            "a", "b", "c", "d", "e", "f", "g", "h", "i", "j", "k", "l", "m",
            "n", "o", "p", "q", "r", "s", "t", "u", "v", "w", "x", "y", "z">>
IsDigit(c, base) == \E d \in 1..base : Digits[d] = c
DigitOf(c) == (CHOOSE d \in 1..36 : Digits[d] = c) - 1

Clamp(base) == IF base < 2 THEN 2 ELSE IF base > 36 THEN 36 ELSE base

-----------------------------------------------------------------------------
(* Reading. *)

AllFlags == {"CHAR_LITERAL", "NEG_PREFIX", "BASE_PREFIX"}   \* e4__F_...

Radix == [x |-> 16, o |-> 8, b |-> 2]
Sigil == [dollar |-> 16, hash |-> 10, percent |-> 2]  \* $ # %

\* The base prefix at position p of a text of length n: its width and base.
\* Fault: $ # and % are skipped, but the base stays what it was.
Prefix_BaseKept(buf, n, p, base) ==
  CASE buf[p] = "0" /\ n > 2 /\ buf[p + 1] \in DOMAIN Radix -> <<2, Radix[buf[p + 1]]>>
    [] buf[p] \in DOMAIN Sigil -> <<1, base>>
    [] OTHER -> <<0, base>>
Prefix(buf, n, p, base) ==
  CASE buf[p] = "0" /\ n > 2 /\ buf[p + 1] \in DOMAIN Radix -> <<2, Radix[buf[p + 1]]>>
    [] buf[p] \in DOMAIN Sigil -> <<1, Sigil[buf[p]]>>
    [] OTHER -> <<0, base>>

\* Value[k] is the number that the first k of the digits spell.
Value(digits, base) ==
  LET V[k \in 0..Len(digits)] ==
        IF k = 0 THEN 0 ELSE (V[k - 1] * base + DigitOf(digits[k])) % Base
  IN  V[Len(digits)]

\* e4__mem_number: how many of the first n characters of buf are consumed,
\* and the number; 0 of them if there is none.
mem_number(buf, n, base, flags) ==
  LET negate == "NEG_PREFIX" \in flags /\ buf[1] = "-"
      first  == IF negate THEN 2 ELSE 1
      prefix == IF "BASE_PREFIX" \in flags /\ n > 1
                THEN Prefix(buf, n, first, Clamp(base)) ELSE <<0, Clamp(base)>>
      start  == first + prefix[1]
      end    == CHOOSE e \in start..(n + 1) :
                  /\ \A i \in start..(e - 1) : IsDigit(buf[i], prefix[2])
                  /\ e <= n => ~IsDigit(buf[e], prefix[2])
      number == Value(SubSeq(buf, start, end - 1), prefix[2])
  IN  IF "CHAR_LITERAL" \in flags /\ n > 2 /\ buf[1] = "'" /\ buf[3] = "'"
      THEN [count |-> 3, out |-> buf[2]]
      ELSE IF end = start THEN [count |-> 0, out |-> 0]
      ELSE [count |-> end - 1, out |-> IF negate THEN Negate(number) ELSE number]

-----------------------------------------------------------------------------
(* Printing. *)

\* e4__mem_pno_digit: the last digit of ud, and what is left of ud.
pno_digit(base, ud) ==
  LET div == double_div(ud, Clamp(base), FALSE, FALSE)
  IN  [digit |-> Digits[div.r + 1], ud |-> div.q]

\* The digits of a number, which the code finds from the last one up to the step
\* that leaves nothing.
AllOf(Step) ==
  LET count == CHOOSE k \in 1..(2 * W) :
                 /\ Step[k].ud = double_u(0, 0)
                 /\ \A j \in 1..(k - 1) : Step[j].ud # double_u(0, 0)
  IN  [i \in 1..count |-> Step[count + 1 - i].digit]

\* The text: the last digits if there is not enough room.  Fault: the room for
\* the sign is not looked at.
Overflows_Unsigned(n, k, negative) == k > n
Overflows(n, k, negative) == k + (IF negative THEN 1 ELSE 0) > n
Shown(n, digits, negative) ==
  LET over == IF Len(digits) > n THEN Len(digits) - n ELSE 0
  IN  [res |-> IF Overflows(n, Len(digits), negative) THEN "PNOOVERFLOW" ELSE "OK",
       text |-> (IF negative /\ Len(digits) < n THEN <<"-">> ELSE <<>>)
                  \o SubSeq(digits, over + 1, Len(digits))]

\* e4__mem_pno_digits with room for n characters.
pno_digits(n, base, signed, ud) ==
  LET negative == signed /\ IsNegative(ud.high)
      Step[k \in 0..(2 * W)] ==
        IF k = 0
        THEN [digit |-> "0", ud |-> IF negative THEN double_negate(ud) ELSE ud]
        ELSE pno_digit(base, Step[k - 1].ud)
  IN  Shown(n, AllOf(Step), negative)

\* e4__usize_format into a buffer of sz characters, which takes the last
\* digits if they are too many; the base is not clamped.
usize_format(n, base, signed, sz) ==
  LET negative == signed /\ IsNegative(n)
      room == IF negative THEN sz - 1 ELSE sz
      N[k \in 0..W] == CASE k > 0 -> N[k - 1] \div base
                         [] OTHER -> IF negative THEN Negate(n) ELSE n
      count == CHOOSE k \in 1..W : N[k] = 0 /\ \A j \in 1..(k - 1) : N[j] # 0
      shown == IF count > room THEN room ELSE count
  IN  (IF negative THEN <<"-">> ELSE <<>>)
        \o [i \in 1..shown |-> Digits[(N[shown - i] % base) + 1]]

=============================================================================
