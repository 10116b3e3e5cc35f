------------------------------ MODULE BitsTests ------------------------------
(***************************************************************************)
(* The reference solutions of tests.c.  A finite float is its sign and the *)
(* weights of its bits: it is the sum of 2^w over them.                    *)
(***************************************************************************)
EXTENDS Words

Truth(p) == IF p THEN one_word ELSE {}

test_bitXor(x, y) == Xor(x, y)
test_tmin == sign_bit
test_isTmax(x) == Truth(x = Not(sign_bit))
test_allOddBits(x) == Truth(\A b \in Bit : b % 2 = 1 => b \in x)
test_negate(x) == Minus({}, x)
test_isAsciiDigit(x) == Truth(48 <= ToInt(x) /\ ToInt(x) <= 57)
test_conditional(x, y, z) == IF x # {} THEN y ELSE z
test_isLessOrEqual(x, y) == Truth(ToInt(x) <= ToInt(y))
test_logicalNeg(x) == Truth(x = {})

test_howManyBits(x) ==
  LET a   == IF 31 \in x THEN Minus(Minus({}, x), one_word) ELSE x
      cnt == Min({c \in 0 .. 32 : Shr(a, c) = {}})
  IN  ToWord(cnt + 1)
-----------------------------------------------------------------------------
isnan(uf) == 23 .. 30 \subseteq uf /\ uf \cap 0 .. 22 # {}
isinf(uf) == uf \ sign_bit = 23 .. 30

\* u2f and f2u.  The sign goes along as a bit.
u2f(uf) ==
  LET e == ToInt(Shr(uf \ sign_bit, 23))
  IN  {b - 149 + Max({e, 1}) - 1 : b \in (uf \cap 0 .. 22) \cup (IF e > 0 THEN {23} ELSE {})}

f2u(sign, weights) ==
  LET top == Max(weights)
  IN  sign \cup
      IF weights = {} THEN {}
      ELSE IF top > 127 THEN 23 .. 30
      ELSE IF top < -126 THEN {w + 149 : w \in weights} \cap Bit
      ELSE {w - top + 23 : w \in weights \ {top}} \cup Shl(ToWord(top + 127), 23)

test_floatScale2(uf) ==
  IF isnan(uf) \/ isinf(uf) THEN uf
  ELSE f2u(uf \cap sign_bit, {w + 1 : w \in u2f(uf)})

\* The conversion of x86 gives 0x80000000 for what does not fit.
test_floatFloat2Int(uf) ==
  LET int == u2f(uf) \cap 0 .. 128
  IN  IF isnan(uf) \/ isinf(uf) \/ ~(int \subseteq 0 .. 30) THEN sign_bit
      ELSE IF 31 \in uf THEN Minus({}, int) ELSE int

\* p2 is squared once per bit of x: its exponent is 2^b, or beyond the range of
\* floats, where it becomes 0 or infinite.  So is the product of those taken.
test_floatPower2(x) ==
  LET recip == 31 \in x
      m     == IF recip THEN Minus({}, x) ELSE x
      e     == MapThenSumSet(LAMBDA b : IF b < 8 THEN 2 ^ b ELSE 256, m)
  IN  IF x = sign_bit THEN {}
      ELSE f2u({}, {IF recip THEN -e ELSE e})
=============================================================================
