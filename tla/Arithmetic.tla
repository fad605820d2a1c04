----------------------------- MODULE Arithmetic -----------------------------
(***************************************************************************)
(* The arithmetic utilities (core/src/util/usize.c, core/src/util/         *)
(* double.c): numbers of one cell (e4__usize) and of two (struct           *)
(* e4__double) on a machine of W bits.  The code works with words that     *)
(* wrap and halves of words; here they are numbers below Base and Half.    *)
(*                                                                         *)
(* A function that can fail returns the error in `res'; q and r of a       *)
(* failed division are the variables its caller left unset.                *)
(***************************************************************************)
EXTENDS Integers

CONSTANT W    \* e4__USIZE_BIT

ASSUME WordAssumption == W \in {2, 4, 8, 16, 32, 64}

Base == 2^W
Half == 2^(W \div 2)
Word == 0..(Base - 1)

-----------------------------------------------------------------------------
(* Words and halves. *)

IsNegative(u) == u > (Base - 1) \div 2
HH(u)         == u \div Half
LH(u)         == u % Half
U(m, l)       == LH(m) * Half + LH(l)

Negate(u) == ((Base - 1 - u) + 1) % Base

double_u(low, high) == [low |-> low, high |-> high]
usize_todouble(n)   == double_u(n, IF IsNegative(n) THEN Base - 1 ELSE 0)

double_negate(d) ==
  LET low == Negate(d.low)
  IN  double_u(low, (Base - 1 - d.high + (IF low = 0 THEN 1 ELSE 0)) % Base)

\* e4__usize_clz, a binary search for the highest bit that is set.
Search[w \in 0..W] ==
  [u \in Word |-> IF w = 0 THEN 0
                  ELSE IF u \div 2^(W - w) = 0 THEN w + Search[w \div 2][(u * 2^w) % Base]
                  ELSE Search[w \div 2][u]]
usize_clz(u) == IF u = 0 THEN W ELSE Search[W \div 2][u]

-----------------------------------------------------------------------------
(* Multiplication and division. *)

Magnitude(u, signed) == IF signed /\ IsNegative(u) THEN Negate(u) ELSE u

\* e4__usize_mul by halves.
Carry(low, s0) == IF low < s0 THEN 1 ELSE 0
usize_mul(l, r, signed) ==
  LET ml == Magnitude(l, signed)   mr == Magnitude(r, signed)
      p0 == LH(ml) * LH(mr)
      p1 == (LH(ml) * HH(mr) + HH(p0)) % Base
      p2 == HH(ml) * LH(mr)
      s0 == U(p1, p0)
      low == (s0 + U(p2, 0)) % Base
      p  == double_u(low,
              (HH(p1) + HH(p2) + HH(ml) * HH(mr) + Carry(low, s0)) % Base)
  IN  IF signed /\ IsNegative(l) # IsNegative(r) THEN double_negate(p) ELSE p

\* Truncated division; d # 0.
usize_sdiv(n, d) ==
  LET q == Magnitude(n, TRUE) \div Magnitude(d, TRUE)
      r == Magnitude(n, TRUE) % Magnitude(d, TRUE)
  IN  [res |-> "OK", q |-> IF IsNegative(n) # IsNegative(d) THEN Negate(q) ELSE q,
       r |-> IF IsNegative(n) THEN Negate(r) ELSE r]

\* One digit of a long division, in base Half: the estimate n \div d1 is
\* lowered until the digit below d1 agrees, or cannot disagree any more.
\* Fault: the estimate is taken for the digit.
Digit_Estimate(n, d, low) == n \div HH(d)
Digit(n, d, low) ==
  LET q(k)   == n \div HH(d) - k
      rem(k) == (n % HH(d)) + k * HH(d)
      TooBig(k) == q(k) >= Half \/ (q(k) * LH(d)) % Base > U(rem(k), low)
      Done(k)   == (k > 0 /\ rem(k) >= Half) \/ ~TooBig(k)
  IN  q(CHOOSE k \in 0..Half : Done(k) /\ \A j \in 0..(k - 1) : ~Done(j))

Failed(e) == [res |-> e, q |-> 0, r |-> 0]

\* Is the quotient too large for a signed cell?  uq is its magnitude.
Overflow(uq, q) == IsNegative(uq)

\* e4__double_ndiv: two digits of a division normalised by the leading zeros
\* of d, then the signs, then the floor.  wantQ: q is not NULL.
Narrow(nn, nd, signed, floored, wantQ, minus, negD) ==
  LET s   == usize_clz(nd)
      d   == (nd * 2^s) % Base
      n32 == ((nn.high * 2^s) % Base) + nn.low \div 2^(W - s)
      n10 == (nn.low * 2^s) % Base
      q1  == Digit(n32, d, HH(n10))
      n21 == (U(n32, HH(n10)) - q1 * d) % Base
      q0  == Digit(n21, d, LH(n10))
      uq  == U(q1, q0)
      ur  == ((U(n21, LH(n10)) - q0 * d) % Base) \div 2^s
      q   == IF minus # negD THEN Negate(uq) ELSE uq
      r   == IF minus THEN Negate(ur) ELSE ur
  IN  IF wantQ /\ signed /\ Overflow(uq, q) THEN Failed("RSLTOUTORANGE")
      ELSE IF signed /\ floored /\ r # 0 /\ minus # negD
      THEN [res |-> "OK", q |-> (q - 1) % Base,
            r |-> (r + (IF negD THEN Negate(nd) ELSE nd)) % Base]
      ELSE [res |-> "OK", q |-> q, r |-> r]
double_ndiv(n, d, signed, floored, wantQ) ==
  LET minus == signed /\ IsNegative(n.high)
      nn == IF minus THEN double_negate(n) ELSE n
  IN  IF d = 0 THEN Failed("DIVBYZERO")
      ELSE IF nn.high >= Magnitude(d, signed) THEN Failed("RSLTOUTORANGE")
      ELSE Narrow(nn, Magnitude(d, signed), signed, floored, wantQ,
                  minus, signed /\ IsNegative(d))

\* e4__double_div: a quotient of two words, the high one first and then what it
\* leaves with the low one; only d = 0 fails.
DivideLow(top, low, d) ==
  LET rest == double_ndiv(double_u(low, top.r), d, FALSE, FALSE, TRUE)
  IN  [res |-> top.res, q |-> double_u(rest.q, top.q), r |-> rest.r]
DivideHigh(n, d) ==
  DivideLow(IF n.high < d THEN [res |-> "OK", q |-> 0, r |-> n.high]
            ELSE double_ndiv(double_u(n.high, 0), d, FALSE, FALSE, TRUE), n.low, d)

\* Its signs and floor; u is the quotient of the magnitudes, and the magnitude of
\* the divisor with its sign is d again.
WithSigns(u, d, floored, minus, negD) ==
  LET q == IF minus # negD THEN double_negate(u.q) ELSE u.q
      r == IF minus THEN Negate(u.r) ELSE u.r
  IN  IF u.res # "OK" THEN Failed(u.res)
      ELSE IF floored /\ r # 0 /\ minus # negD
      THEN [res |-> "OK", r |-> (r + d) % Base,
            q |-> double_u((q.low - 1) % Base,
                           IF q.low = 0 THEN (q.high - 1) % Base ELSE q.high)]
      ELSE [res |-> "OK", q |-> q, r |-> r]

double_div(n, d, signed, floored) ==
  LET minus == signed /\ IsNegative(n.high)
  IN  WithSigns(DivideHigh(IF minus THEN double_negate(n) ELSE n, Magnitude(d, signed)),
                d, signed /\ floored, minus, signed /\ IsNegative(d))

=============================================================================
