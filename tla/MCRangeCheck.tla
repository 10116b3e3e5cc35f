---------------------------- MODULE MCRangeCheck ----------------------------
(* Finite instance of RangeCheck: payloads of one to three double words.   *)
EXTENDS RangeCheck

MCSizes == {8, 16, 24}
=============================================================================
