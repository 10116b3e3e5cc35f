------------------------------ MODULE MCMdriver ------------------------------
(* Finite instance of Mdriver: traces that split, merge with both           *)
(* neighbours, grow, reallocate and exhaust the heap, and two whose header  *)
(* is wrong.  The counter wraps during a measurement that starts at 14, and *)
(* the arenas are enough for fcyc on two files only if its samples agree.   *)
EXTENDS Mdriver

A(i, n) == [type |-> "a", index |-> i, size |-> n]
R(i, n) == [type |-> "r", index |-> i, size |-> n]
F(i) == [type |-> "f", index |-> i, size |-> 0]

Trace(ids, ops) == [num_ids |-> ids, num_ops |-> Len(ops), ops |-> ops]

MCTraceFiles ==
  {Trace(3, <<A(0, 8), A(1, 12), F(0), A(2, 8), F(1), F(2)>>),
   Trace(2, <<A(0, 12), R(0, 8), A(1, 8), F(0), R(1, 12)>>),
   Trace(3, <<A(0, 8), A(1, 8), A(2, 8), F(0), F(2), F(1), A(0, 12)>>),
   Trace(3, <<A(0, 12), A(1, 12), A(2, 12)>>),
   Trace(1, <<A(0, 8), A(1, 8)>>),
   [num_ids |-> 1, num_ops |-> 1, ops |-> <<A(0, 8), F(0)>>]}

MCIndices == 0 .. 2
MCSizes == {8, 12}
MCStarts == {14}
MCDurations == {5}
=============================================================================
