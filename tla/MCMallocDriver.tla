--------------------------- MODULE MCMallocDriver ---------------------------
(* Finite instance of MallocDriver: sizes that need blocks of 4 and 6   *)
(* words.                                                                  *)
EXTENDS MallocDriver

MCIndices == 1 .. 3
MCSizes == {8, 12}
=============================================================================
