-------------------------------- MODULE Trans --------------------------------
(***************************************************************************)
(* The transposes of trans.c.  A matrix A of N rows and M columns becomes  *)
(* B of M rows and N columns: wherever a function takes its values from,   *)
(* it stores A[i][j] in B[j][i].  So a function is the sequence of its     *)
(* innermost loops over rows, each a sequence of copies, and a copy loads  *)
(* some cells <<i, j>> and then stores them, perhaps in another order.     *)
(***************************************************************************)
EXTENDS Integers, SequencesExt

\* for (x = from; x < below; x += step)
Steps(from, below, step) ==
  [k \in 1 .. Max({0, (below - from + step - 1) \div step}) |-> from + (k - 1) * step]

Each(seq, Body(_)) == [k \in DOMAIN seq |-> Body(seq[k])]
Nested(seq, Body(_)) == FlattenSeq(Each(seq, Body))

Copy(cells) == [loads |-> cells, stores |-> cells]
Cell(i, j) == Copy(<<<<i, j>>>>)
Row(i, from, n) == Copy([k \in 1 .. n |-> <<i, from + k - 1>>])

trans(M, N) ==
  Each(Steps(0, N, 1), LAMBDA i : Each(Steps(0, M, 1), LAMBDA j : Cell(i, j)))

\* B[i][j] = A[j][i], so that the inner loop goes down a column of A.
transBlock(M, N) ==
  Nested(Steps(0, 32, 8), LAMBDA jj : Nested(Steps(0, 32, 8), LAMBDA ii :
    Each(Steps(ii, ii + 8, 1), LAMBDA i : Each(Steps(jj, jj + 8, 1), LAMBDA j : Cell(j, i)))))

transBlockSpaceConsuming(M, N) ==
  Nested(Steps(0, 32, 8), LAMBDA jj : Nested(Steps(0, 32, 8), LAMBDA ii :
    Each(Steps(ii, ii + 8, 1), LAMBDA i : <<Row(i, jj, 8)>>)))

\* Two rows of A at a time, stored in turns.
transBlockSpaceConsuming64(M, N) ==
  LET pair(i, jj) ==
        [loads  |-> Row(i, jj, 4).loads \o Row(i + 1, jj, 4).loads,
         stores |-> Nested(Steps(jj, jj + 4, 1), LAMBDA j : <<<<i, j>>, <<i + 1, j>>>>)]
  IN  Nested(Steps(0, N, 4), LAMBDA jj : Nested(Steps(0, M, 8), LAMBDA ii :
        Each(Steps(ii, ii + 8, 2), LAMBDA i : <<pair(i, jj)>>)))

\* Seeded fault: ii + 16 <= N at the top, but the edges begin as if it were <.
trans_5_fault(M, N) ==
  LET ii == 16 * ((N - 1) \div 16)
      jj == 16 * (M \div 16)
  IN  Nested(Steps(0, ii, 16), LAMBDA r : Nested(Steps(0, 16 * ((M - 1) \div 16), 16), LAMBDA c :
        Each(Steps(r, r + 16, 1), LAMBDA i : <<Row(i, c, 8), Row(i, c + 8, 8)>>)))
      \o Each(Steps(ii, N, 1), LAMBDA i : Each(Steps(0, M, 1), LAMBDA j : Cell(i, j)))
      \o Each(Steps(0, ii, 1), LAMBDA i : Each(Steps(jj, M, 1), LAMBDA j : Cell(i, j)))

\* ii and jj are what the loops leave: the first multiples of 16 with fewer than 17
\* to go.  When no row is left to the blocks jj is never set, but never used either.
trans_5(M, N) ==
  LET ii == 16 * ((N - 1) \div 16)
      jj == 16 * ((M - 1) \div 16)
  IN  Nested(Steps(0, ii, 16), LAMBDA r : Nested(Steps(0, jj, 16), LAMBDA c :
        Each(Steps(r, r + 16, 1), LAMBDA i : <<Row(i, c, 8), Row(i, c + 8, 8)>>)))
      \o Each(Steps(ii, N, 1), LAMBDA i : Each(Steps(0, M, 1), LAMBDA j : Cell(i, j)))
      \o Each(Steps(0, ii, 1), LAMBDA i : Each(Steps(jj, M, 1), LAMBDA j : Cell(i, j)))

transpose_submit(M, N) == trans_5(M, N)

\* The functions of trans.c, of which registerFunctions registers one or several.
Registered == {"transpose_submit", "trans", "transBlock", "transBlockSpaceConsuming",
               "transBlockSpaceConsuming64"}

Transposed(func, M, N) ==
  CASE func = "transpose_submit"           -> transpose_submit(M, N)
    [] func = "trans"                      -> trans(M, N)
    [] func = "transBlock"                 -> transBlock(M, N)
    [] func = "transBlockSpaceConsuming"   -> transBlockSpaceConsuming(M, N)
    [] func = "transBlockSpaceConsuming64" -> transBlockSpaceConsuming64(M, N)
-----------------------------------------------------------------------------
\* Where A[i][j] and B[j][i] are, counted in ints: an index beyond a row is in
\* the next one.
InA(M, cell) == cell[1] * M + cell[2]
InB(N, cell) == cell[2] * N + cell[1]

\* B after a sequence of copies, by the place in A its values are from.  What is
\* stored behind the matrix stays in the array of 256 x 256 around it.
Stored(B, copies, M, N) ==
  LET stores == FlattenSeq([k \in DOMAIN copies |-> copies[k].stores])
      place  == [n \in DOMAIN stores |-> InB(N, stores[n])]
      stored == ToSet(place)
      last(p) == Max({n \in DOMAIN stores : place[n] = p})
  IN  [p \in DOMAIN B |-> IF p \in stored THEN InA(M, stores[last(p)]) ELSE B[p]]

\* correctTrans and the comparison of validate.
validate(B, M, N) == \A i \in 0 .. N - 1, j \in 0 .. M - 1 :
                       B[InB(N, <<i, j>>)] = InA(M, <<i, j>>)
=============================================================================
