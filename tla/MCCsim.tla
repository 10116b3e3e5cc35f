------------------------------- MODULE MCCsim -------------------------------
(* Finite instance of Csim: four blocks of one set, and in the other one   *)
(* block by two addresses, the second cut to the first when it is read.    *)
EXTENDS Csim

MCAddresses == {0, 4, 8, 12} \cup {2, 18}
=============================================================================
