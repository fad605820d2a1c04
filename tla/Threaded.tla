------------------------------ MODULE Threaded ------------------------------
(***************************************************************************)
(* Words that are threaded code put together by hand (the arrays in        *)
(* core/src/builtin).  A cell holds the execution token of a word, a       *)
(* number, or characters.  The operand of a branch counts from its own     *)
(* cell; nothing checks these numbers.                                     *)
(***************************************************************************)
EXTENDS Arithmetic, Sequences

CONSTANT CellSize    \* sizeof(e4__cell)

ASSUME CellAssumption == CellSize \in Nat \ {0}

Xt(word) == [xt |-> word]
Num(n)   == [n |-> n]

Xts(words)  == [i \in DOMAIN words |-> Xt(words[i])]
Lit(n)      == <<Xt("LIT_CELL"), Num(n)>>
Branch0(n)  == <<Xt("BRANCH0"), Num(n)>>
Branch(n)   == <<Xt("BRANCH"), Num(n)>>
End         == Xts(<<"EXIT", "SENTINEL">>)

-----------------------------------------------------------------------------
(* Items of the stack. *)

NIP           == Xts(<<"SWAP", "DROP">>) \o End
QUESTION_DUP  == Xts(<<"DUP">>) \o Branch0(2) \o Xts(<<"DUP">>) \o End
TWO_DROP      == Xts(<<"DROP", "DROP">>) \o End
TWO_DUP       == Xts(<<"OVER", "OVER">>) \o End
TWO_OVER      == Xts(<<"TO_R", "TO_R", "TWO_DUP", "R_FROM", "R_FROM", "TWO_SWAP">>) \o End
TWO_SWAP      == Xts(<<"ROT", "TO_R", "ROT", "R_FROM", "EXIT">>) \o End

(* Numbers. *)

ABS              == Xts(<<"DUP", "ZERO_LESS">>) \o Branch0(2) \o Xts(<<"NEGATE">>) \o End
MOD              == Xts(<<"SLASH_MOD", "DROP">>) \o End
SLASH            == Xts(<<"SLASH_MOD", "SWAP", "DROP">>) \o End
ONE_MINUS        == Lit(1) \o Xts(<<"MINUS">>) \o End
ONE_PLUS         == Lit(1) \o Xts(<<"PLUS">>) \o End
CELL_PLUS        == Lit(CellSize) \o Xts(<<"PLUS">>) \o End
CELLS            == Lit(CellSize) \o Xts(<<"STAR">>) \o End
CHAR_PLUS        == Lit(1) \o Xts(<<"PLUS">>) \o End
CHARS            == Lit(1) \o Xts(<<"STAR">>) \o End
GREATER_THAN     == Xts(<<"SWAP", "LESS_THAN">>) \o End
U_GREATER_THAN   == Xts(<<"SWAP", "U_LESS_THAN">>) \o End
NOT_EQUALS       == Xts(<<"EQUALS", "INVERT">>) \o End
ZERO_EQUALS      == Lit(0) \o Xts(<<"EQUALS">>) \o End
ZERO_LESS        == Lit(0) \o Xts(<<"LESS_THAN">>) \o End
ZERO_GREATER     == Lit(0) \o Xts(<<"GREATER_THAN">>) \o End
ZERO_NOT_EQUALS  == Lit(0) \o Xts(<<"NOT_EQUALS">>) \o End

(* Memory and output. *)

COUNT     == Xts(<<"DUP", "CHAR_PLUS", "SWAP", "C_FETCH">>) \o End
PLUS_STORE == Xts(<<"DUP", "FETCH", "ROT", "PLUS", "SWAP", "STORE">>) \o End
TWO_FETCH == Xts(<<"DUP", "CELL_PLUS", "FETCH", "SWAP", "FETCH">>) \o End
TWO_STORE == Xts(<<"SWAP", "OVER", "STORE", "CELL_PLUS", "STORE">>) \o End
DECIMAL   == Lit(10) \o Xts(<<"BASE", "STORE">>) \o End
HEX       == Lit(16) \o Xts(<<"BASE", "STORE">>) \o End
SPACE     == Xts(<<"BL", "EMIT">>) \o End

\* Fault: the branch back passes over the test.
SPACES_Untested ==
  Xts(<<"DUP">>) \o Lit(0) \o Xts(<<"GREATER_THAN">>) \o Branch0(5)
    \o Xts(<<"SPACE", "ONE_MINUS">>) \o Branch(Negate(2)) \o Xts(<<"DROP">>) \o End
SPACES ==
  Xts(<<"DUP">>) \o Lit(0) \o Xts(<<"GREATER_THAN">>) \o Branch0(5)
    \o Xts(<<"SPACE", "ONE_MINUS">>) \o Branch(Negate(9)) \o Xts(<<"DROP">>) \o End

Library ==
  [NIP |-> NIP, QUESTION_DUP |-> QUESTION_DUP, TWO_DROP |-> TWO_DROP, TWO_DUP |-> TWO_DUP,
   TWO_OVER |-> TWO_OVER, TWO_SWAP |-> TWO_SWAP, ABS |-> ABS, MOD |-> MOD, SLASH |-> SLASH,
   ONE_MINUS |-> ONE_MINUS, ONE_PLUS |-> ONE_PLUS, CELL_PLUS |-> CELL_PLUS, CELLS |-> CELLS,
   CHAR_PLUS |-> CHAR_PLUS, CHARS |-> CHARS, GREATER_THAN |-> GREATER_THAN,
   U_GREATER_THAN |-> U_GREATER_THAN, NOT_EQUALS |-> NOT_EQUALS, ZERO_EQUALS |-> ZERO_EQUALS,
   ZERO_LESS |-> ZERO_LESS, ZERO_GREATER |-> ZERO_GREATER, ZERO_NOT_EQUALS |-> ZERO_NOT_EQUALS,
   COUNT |-> COUNT, PLUS_STORE |-> PLUS_STORE, TWO_FETCH |-> TWO_FETCH, TWO_STORE |-> TWO_STORE,
   DECIMAL |-> DECIMAL, HEX |-> HEX, SPACE |-> SPACE, SPACES |-> SPACES]
=============================================================================
