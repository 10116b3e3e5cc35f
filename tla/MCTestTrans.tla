----------------------------- MODULE MCTestTrans -----------------------------
(* Finite instance of TestTrans: the session of driver.py, and its first    *)
(* test, with the addresses of the repository's tracegen; every function on *)
(* shapes around the multiples of 8, 16 and 32; small shapes with faults.   *)
EXTENDS TestTrans

Shape(M, N) == [M |-> M, N |-> N, lower |-> 100, upper |-> 500, maxscore |-> 8]
Entry(f, d) == [func |-> f, description |-> d]

Submitted == <<Entry("transpose_submit", SUBMIT_DESCRIPTION)>>
All == <<Entry("trans", "simple"), Entry("transpose_submit", SUBMIT_DESCRIPTION),
         Entry("transBlock", "block"), Entry("transBlockSpaceConsuming", "space"),
         Entry("transBlockSpaceConsuming64", "space")>>
Mixed == <<Entry("transBlockSpaceConsuming64", "space"),
           Entry("transpose_submit", SUBMIT_DESCRIPTION), Entry("trans", "simple")>>
\* Two of them claim to be the submission; the second is right for 32 rows only.
Twice == <<Entry("trans", SUBMIT_DESCRIPTION), Entry("transBlock", SUBMIT_DESCRIPTION)>>
Other == <<Entry("transBlock", SUBMIT_DESCRIPTION), Entry("trans", "simple")>>

Session(tests, list) == [tests |-> tests, func_list |-> list, faults |-> 0,
                         shell_execs |-> FALSE, old_results |-> Nothing]
Single(shapes, list) == {Session(<<Shape(x[1], x[2])>>, list) : x \in shapes}

\* There is no .csim_results yet, or the one the repository holds.
Faulty(tests, list, kinds) ==
  {[Session(tests, list) EXCEPT !.faults = kinds, !.shell_execs = x, !.old_results = old] :
     x \in BOOLEAN, old \in {Nothing, 1963}}

MCSessions ==
  {Session(tests, Submitted) : tests \in {DriverTests, SubSeq(DriverTests, 1, 1)}}
  \cup Faulty(<<Shape(17, 18), Shape(4, 3)>>, Submitted, 3)
  \cup Faulty(<<Shape(9, 10), Shape(3, 8)>>, Mixed, 2)
  \cup Faulty(<<Shape(3, 8)>>, Twice, 2)
  \cup Single({1, 2, 8, 9, 16, 17, 33} \X {1, 2, 8, 16, 17, 32, 33}, Submitted)
  \cup {Session(<<Shape(0, 9), Shape(2, 3), Shape(257, 1)>>, Submitted)}
  \cup Single({<<2, 8>>, <<2, 32>>, <<8, 8>>, <<10, 16>>, <<9, 17>>, <<20, 32>>, <<33, 32>>, <<25, 32>>}, All)
  \cup Single({<<20, 32>>, <<32, 20>>}, Other)
  \cup Single({<<9, 10>>, <<5, 32>>}, Twice)
  \cup Single({<<9, 9>>}, <<Entry("trans", "simple")>>)
=============================================================================
