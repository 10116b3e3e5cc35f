-------------------------------- MODULE Words --------------------------------
(***************************************************************************)
(* The 32-bit words of the data lab.  A word is the set of its bits that   *)
(* are 1, so that & and | are intersection and union.  Signed arithmetic   *)
(* wraps, as it does in what gcc makes of bits.c.                          *)
(***************************************************************************)
EXTENDS Integers, FiniteSetsExt

Bit == 0 .. 31
Word == SUBSET Bit
sign_bit == {31}
one_word == {0}

Xor(x, y) == (x \ y) \cup (y \ x)
Not(x) == Bit \ x
Bang(x) == IF x = {} THEN one_word ELSE {}

\* A shift to the left, and the shifts to the right of signed and unsigned words.
Shl(x, n) == {b + n : b \in x} \cap Bit
Sar(x, n) == {b \in Bit : Min({b + n, 31}) \in x}
Shr(x, n) == {b \in Bit : b + n \in x}

\* A bit of the sum gets a carry when some lower bit generates one and every bit
\* between them passes it on.
Plus(x, y) ==
  LET carry(b) == \E g \in x \cap y : g < b /\ g + 1 .. b - 1 \subseteq x \cup y
  IN  {b \in Bit : (b \in Xor(x, y)) # carry(b)}

Minus(x, y) == Plus(Plus(x, Not(y)), one_word)

\* The word of an int, and the int of a word.
ToWord(n) ==
  LET low(k) == {b \in 0 .. 30 : (k \div 2 ^ b) % 2 = 1}
  IN  IF n >= 0 THEN low(n) ELSE Not(low(-(n + 1)))

ToInt(x) ==
  LET low(y) == MapThenSumSet(LAMBDA b : 2 ^ b, y)
  IN  IF 31 \in x THEN -low(Not(x)) - 1 ELSE low(x)
=============================================================================
