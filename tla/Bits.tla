--------------------------------- MODULE Bits ---------------------------------
(***************************************************************************)
(* The solutions of bits.c.                                                *)
(***************************************************************************)
EXTENDS Words

bitXor(x, y) == LET x0y1 == Not(x) \cap y
                    y0x1 == Not(y) \cap x
                IN  Not(Not(x0y1) \cap Not(y0x1))

tmin == Shl(one_word, 31)

\* x + x + 1 is -1 for the maximum and for -1, and only the latter has x + 1 = 0.
isTmax(x) == LET Tmin == Plus(x, one_word)
             IN  Bang(Plus(Not(Plus(x, Tmin)), Bang(Tmin)))

allOddBits(x) == LET mask == Plus(ToWord(43690), Shl(ToWord(43690), 16))
                 IN  Bang(Xor(mask \cap x, mask))

negate(x) == Plus(Not(x), one_word)

\* Seeded fault: the upper bound is one too low.
isAsciiDigit_fault(x) ==
  LET larger  == sign_bit \cap Sar(Plus(Not(sign_bit \cup ToWord(56)), x), 31)
      smaller == sign_bit \cap Sar(Plus(Minus({}, ToWord(48)), x), 31)
  IN  Bang(larger \cup smaller)

isAsciiDigit(x) ==
  LET upper   == Not(sign_bit \cup ToWord(57))
      lower   == Not(ToWord(48))
      larger  == sign_bit \cap Sar(Plus(upper, x), 31)
      smaller == sign_bit \cap Sar(Plus(Plus(lower, one_word), x), 31)
  IN  Bang(larger \cup smaller)

conditional(x, y, z) == LET mask == Plus(Not(Bang(Bang(x))), one_word)
                        IN  (mask \cap y) \cup (Not(mask) \cap z)

isLessOrEqual(x, y) ==
  LET smaller == Sar(Plus(y, Plus(Not(x), one_word)), 31) \cap one_word
      signX   == x \cap sign_bit
      signY   == y \cap sign_bit
      diff    == Sar(Xor(signX, signY), 31) \cap one_word
  IN  IF \/ diff = {} /\ smaller = {}
         \/ diff # {} /\ Sar(signX, 31) \cap one_word # {}
      THEN one_word ELSE {}

logicalNeg(x) == Plus(Sar(x \cup Plus(Not(x), one_word), 31), one_word)

\* Halve the range that holds the highest bit, from 16 bits down to 1.
Halved(s, k) == LET n == IF Sar(s.x, k) # {} THEN k ELSE 0
                IN  [x |-> Sar(s.x, n), bits |-> s.bits + n]

howManyBits(x) ==
  LET sign == Sar(x, 31)
      abs  == [x |-> (Not(sign) \cap x) \cup (sign \cap Not(x)), bits |-> 0]
      last == Halved(Halved(Halved(Halved(Halved(abs, 16), 8), 4), 2), 1)
  IN  ToWord(last.bits + ToInt(last.x) + 1)
-----------------------------------------------------------------------------
\* Single precision floats: the exponent field, its mask and the fraction.
exp_bits == 23 .. 30
frac_bits == 0 .. 22
exp_field(uf) == ToInt(Shr(uf \cap exp_bits, 23))

floatScale2(uf) ==
  LET sign == uf \cap sign_bit
      exp  == exp_field(uf)
  IN  CASE exp = 0    -> Shl(uf, 1) \cup sign
        [] exp = 255  -> uf
        [] exp = 254  -> exp_bits \cup sign
        [] OTHER      -> Shl(ToWord(exp + 1), 23) \cup (uf \cap (sign_bit \cup frac_bits))

floatFloat2Int(uf) ==
  LET negative == 31 \in uf
      exp      == exp_field(uf) - 127
      F        == (uf \cap frac_bits) \cup {23}
      shifted  == IF exp > 23 THEN Shl(F, exp - 23) ELSE Sar(F, 23 - exp)
  IN  IF uf \subseteq sign_bit THEN {}
      ELSE IF exp > 31 THEN sign_bit
      ELSE IF exp < 0 THEN {}
      ELSE IF (31 \in shifted) = negative THEN shifted
      ELSE IF 31 \in shifted THEN {}
      ELSE negate(shifted)

\* The shift by 150 - x, more than 32 bits, takes the count modulo 32 on x86.
floatPower2(x) ==
  LET n == ToInt(x)
  IN  IF n < -150 THEN {}
      ELSE IF n > 127 THEN exp_bits
      ELSE IF n < -127 THEN Shl(one_word, (150 - n) % 32)
      ELSE Shl(ToWord(n + 127), 23)
=============================================================================
