------------------------------- MODULE MCBtest -------------------------------
(* Finite instance of Btest: four values per region, for which the array of *)
(* values is just long enough, and probes on both sides of every boundary   *)
(* the puzzles have.                                                        *)
EXTENDS Btest

Ints == {ToWord(n) : n \in {-151, -150, -128, -127, -126, -1, 0, 47, 48, 57, 58,
                            127, 128, TMin, TMax}}
Exponent(e) == Shl(ToWord(e), 23)
Floats == {Exponent(157) \cup frac_bits, Exponent(158), Exponent(158) \cup {31},
           Exponent(158) \cup {0, 31}, Exponent(159), Exponent(254) \cup {0}}

MCRandomWords == {ToWord(-1431655766)}
MCProbes == <<Ints \cup Floats, {ToWord(5)}, {ToWord(-5)}>>
MCRatings == {3}
=============================================================================
