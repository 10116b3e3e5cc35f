-------------------------------- MODULE Btest --------------------------------
(***************************************************************************)
(* The test harness of the data lab: btest.c runs the puzzles of bits.c    *)
(* against those of tests.c, in the order of the table in decl.c.  A test  *)
(* is interrupted by SIGALRM when it takes too long.  The alarm is never   *)
(* taken back, so it may also go off after the test has returned.          *)
(***************************************************************************)
EXTENDS Bits, BitsTests, SequencesExt

CONSTANTS TEST_RANGE,   \* test values per region of a word
          RandomWords,  \* what random_val may return
          Probes,       \* words given with -1, -2 and -3, by argument
          Ratings,      \* ratings given with -r
          MaxOptions, MaxAlarms  \* model bounds

ASSUME RangeAssumption == /\ TEST_RANGE \in Nat \ {0}
                          /\ RandomWords \subseteq Word
                          /\ Probes \in [1 .. 3 -> SUBSET Word]
                          /\ Ratings \subseteq Nat
                          /\ MaxOptions \in Nat /\ MaxAlarms \in Nat

\* TEST_RANGE is 500000: room for the four special floats.
ASSUME RoomAssumption == TEST_RANGE >= 4

\* Seeded fault: the array has room for the regions alone.
MAX_TEST_VALS_fault == 12 * TEST_RANGE

MAX_TEST_VALS == 13 * TEST_RANGE
TMin == -2147483647 - 1
TMax == 2147483647

Puzzle(name, args, rating) ==
  [name |-> name, args |-> args, rating |-> rating, min |-> TMin, max |-> TMax]
FloatPuzzle(name) == [Puzzle(name, 1, 4) EXCEPT !.min = 1, !.max = 1]

test_set ==
  <<Puzzle("bitXor", 2, 1), Puzzle("tmin", 0, 1), Puzzle("isTmax", 1, 1),
    Puzzle("allOddBits", 1, 2), Puzzle("negate", 1, 2), Puzzle("isAsciiDigit", 1, 3),
    Puzzle("conditional", 3, 3), Puzzle("isLessOrEqual", 2, 3),
    Puzzle("logicalNeg", 1, 4), Puzzle("howManyBits", 1, 4),
    FloatPuzzle("floatScale2"), FloatPuzzle("floatFloat2Int"), FloatPuzzle("floatPower2")>>

solution_funct(name, a) ==
  CASE name = "bitXor"         -> bitXor(a[1], a[2])
    [] name = "tmin"           -> tmin
    [] name = "isTmax"         -> isTmax(a[1])
    [] name = "allOddBits"     -> allOddBits(a[1])
    [] name = "negate"         -> negate(a[1])
    [] name = "isAsciiDigit"   -> isAsciiDigit(a[1])
    [] name = "conditional"    -> conditional(a[1], a[2], a[3])
    [] name = "isLessOrEqual"  -> isLessOrEqual(a[1], a[2])
    [] name = "logicalNeg"     -> logicalNeg(a[1])
    [] name = "howManyBits"    -> howManyBits(a[1])
    [] name = "floatScale2"    -> floatScale2(a[1])
    [] name = "floatFloat2Int" -> floatFloat2Int(a[1])
    [] name = "floatPower2"    -> floatPower2(a[1])

test_funct(name, a) ==
  CASE name = "bitXor"         -> test_bitXor(a[1], a[2])
    [] name = "tmin"           -> test_tmin
    [] name = "isTmax"         -> test_isTmax(a[1])
    [] name = "allOddBits"     -> test_allOddBits(a[1])
    [] name = "negate"         -> test_negate(a[1])
    [] name = "isAsciiDigit"   -> test_isAsciiDigit(a[1])
    [] name = "conditional"    -> test_conditional(a[1], a[2], a[3])
    [] name = "isLessOrEqual"  -> test_isLessOrEqual(a[1], a[2])
    [] name = "logicalNeg"     -> test_logicalNeg(a[1])
    [] name = "howManyBits"    -> test_howManyBits(a[1])
    [] name = "floatScale2"    -> test_floatScale2(a[1])
    [] name = "floatFloat2Int" -> test_floatFloat2Int(a[1])
    [] name = "floatPower2"    -> test_floatPower2(a[1])

-----------------------------------------------------------------------------
\* gen_vals for floats: around 0, around the smallest normalized float, around 1,
\* below the largest one, and the special values, each with either sign.
FloatVals(range) ==
  LET smallest_norm == 8388608
      one           == 1065353216
      largest_norm  == 2130706432
      region(i) == <<i, smallest_norm + i, smallest_norm - i, one + i, one - i,
                     largest_norm - i>>
      inf       == ToWord(largest_norm + smallest_norm)
      both(seq) == seq \o [k \in DOMAIN seq |-> seq[k] \cup sign_bit]
      vals(i)   == both([k \in DOMAIN region(i) |-> ToWord(region(i)[k])])
  IN  FlattenSeq([k \in 1 .. Min({range, smallest_norm}) |-> vals(k - 1)])
        \o both(<<inf, inf \cup {22}>>)

\* gen_vals for ints: at both ends, around 0 and anywhere between.
SampledVals(min, max, range, random) ==
  LET inside(n) == IF min <= n /\ n <= max THEN <<ToWord(n)>> ELSE <<>>
      vals(i)   == <<ToWord(min + i), ToWord(max - i)>> \o inside(i) \o inside(-i)
                     \o <<random[i + 1]>>
  IN  FlattenSeq([k \in 1 .. range |-> vals(k - 1)])

\* No puzzle of test_set has a range that is small enough to be tested in full.
gen_vals(t, range, random) ==
  IF t.min = 1 /\ t.max = 1 THEN FloatVals(range)
  ELSE SampledVals(t.min, t.max, range, random)

\* pow(TEST_RANGE, 0.5) and, up to rounding, pow(TEST_RANGE, 0.333); at least 1.
arg_test_range(args) ==
  IF args = 1 THEN TEST_RANGE
  ELSE LET k == IF args = 2 THEN 2 ELSE 3
       IN  Max({r \in 0 .. TEST_RANGE : r ^ k <= TEST_RANGE} \cup {1})
-----------------------------------------------------------------------------
VARIABLES
  phase,    \* where run_tests is, or how the program has ended
  options,  \* options seen
  test_fname, global_rating, timeout, has_arg, argval,  \* what they say
  i,        \* the puzzle being tested
  vals, at, \* arg_test_vals and the indices a1, a2, a3
  tried,    \* combinations of values tried so far
  terrors,  \* errors of this puzzle
  alarmed,  \* an alarm is on its way
  envbuf,   \* the call of test_function that siglongjmp returns to; 0 for none
  timeouts, \* alarms that have gone off
  table     \* what is printed: errors of each puzzle, -1 when it is not tested

vars == <<phase, options, test_fname, global_rating, timeout, has_arg, argval, i,
          vals, at, tried, terrors, alarmed, envbuf, timeouts, table>>

VARIABLES points, max_points, errors  \* the totals
score_vars == <<points, max_points, errors>>
option_vars == <<options, test_fname, global_rating, timeout, has_arg, argval>>
btest_vars == <<vars, score_vars>>

NULL == ""  \* test_fname without -f
puzzle == test_set[i]
Names == {test_set[k].name : k \in DOMAIN test_set}
First == <<1, 1, 1>>

BtestInit ==
  /\ phase = "options" /\ options = 0
  /\ test_fname = NULL /\ global_rating = 0 /\ timeout = TRUE
  /\ has_arg = [k \in 1 .. 3 |-> FALSE] /\ argval = [k \in 1 .. 3 |-> {}]
  /\ i = 0 /\ vals = <<>> /\ at = First /\ tried = 0 /\ terrors = 0
  /\ alarmed = FALSE /\ envbuf = 0 /\ timeouts = 0
  /\ table = [k \in DOMAIN test_set |-> -1]
  /\ points = 0 /\ max_points = 0 /\ errors = 0

\* An option of main is read.
Option == /\ phase = "options" /\ options < MaxOptions /\ options' = options + 1
          /\ UNCHANGED <<i, vals, at, tried, terrors, alarmed, envbuf, timeouts, table, score_vars>>

OptionF(name) == /\ Option /\ test_fname' = name
                 /\ UNCHANGED <<phase, global_rating, timeout, has_arg, argval>>

OptionR(n) == /\ Option /\ global_rating' = n
              /\ UNCHANGED <<phase, test_fname, timeout, has_arg, argval>>

\* -T 0: no limit.
OptionT == /\ Option /\ timeout' = FALSE
           /\ UNCHANGED <<phase, test_fname, global_rating, has_arg, argval>>

\* get_num_val takes an int only if *valp is still 0, and a float always.
OptionArg(k, word, isfloat) ==
  /\ Option
  /\ IF isfloat \/ argval[k] = {}
     THEN /\ argval' = [argval EXCEPT ![k] = word] /\ has_arg' = [has_arg EXCEPT ![k] = TRUE]
          /\ UNCHANGED phase
     ELSE phase' = "exit" /\ has_arg' = [has_arg EXCEPT ![k] = FALSE] /\ UNCHANGED argval
  /\ UNCHANGED <<test_fname, global_rating, timeout>>

Start == /\ phase = "options" /\ phase' = "next" /\ i' = 1
         /\ UNCHANGED <<option_vars, vals, at, tried, terrors, alarmed, envbuf, timeouts, table,
                        score_vars>>

\* The loop of run_tests.
NextTest ==
  /\ phase = "next" /\ i <= Len(test_set)
  /\ IF test_fname \in {NULL, puzzle.name} THEN phase' = "generate" /\ UNCHANGED i
     ELSE i' = i + 1 /\ UNCHANGED phase
  /\ UNCHANGED <<option_vars, vals, at, tried, terrors, alarmed, envbuf, timeouts, table,
                 score_vars>>

\* main returns.
Done == /\ phase = "next" /\ i > Len(test_set) /\ phase' = "done"
        /\ UNCHANGED <<option_vars, i, vals, at, tried, terrors, alarmed, envbuf, timeouts, table,
                       score_vars>>

\* The head of test_function: the values of each argument.
Generate ==
  LET args  == puzzle.args
      range == arg_test_range(args)
  IN  /\ phase = "generate"
      /\ \E random \in [1 .. args -> [1 .. range -> RandomWords]] :
           vals' = [k \in 1 .. args |->
                      IF has_arg[k] THEN <<argval[k]>> ELSE gen_vals(puzzle, range, random[k])]
      /\ phase' = IF timeout THEN "setjmp" ELSE "test"
      /\ at' = First /\ tried' = 0 /\ terrors' = 0
      /\ UNCHANGED <<option_vars, i, alarmed, envbuf, timeouts, table, score_vars>>

SetJmp == /\ phase = "setjmp" /\ phase' = "alarm" /\ envbuf' = i
          /\ UNCHANGED <<option_vars, i, vals, at, tried, terrors, alarmed, timeouts, table,
                         score_vars>>

\* alarm takes the place of the one before.
SetAlarm == /\ phase = "alarm" /\ phase' = "test"
            /\ alarmed' = (timeouts < MaxAlarms)
            /\ UNCHANGED <<option_vars, i, vals, at, tried, terrors, envbuf, timeouts, table,
                           score_vars>>

Arguments(p) == [k \in DOMAIN vals |-> vals[k][p[k]]]

Agree(p) == solution_funct(puzzle.name, Arguments(p)) = test_funct(puzzle.name, Arguments(p))

\* Seeded fault: the last value of an argument is never used.
Next3_fault(p) ==
  LET open == {k \in DOMAIN vals : p[k] + 1 < Len(vals[k])}
      k    == Max(open)
  IN  IF open = {} THEN p
      ELSE [j \in 1 .. 3 |-> IF j < k THEN p[j] ELSE IF j = k THEN p[j] + 1 ELSE 1]

\* The next indices in the order of the three loops; the same ones at their end.
Next3(p) ==
  LET open == {k \in DOMAIN vals : p[k] < Len(vals[k])}
      k    == Max(open)
  IN  IF open = {} THEN p
      ELSE [j \in 1 .. 3 |-> IF j < k THEN p[j] ELSE IF j = k THEN p[j] + 1 ELSE 1]

\* test_0_arg to test_3_arg, up to the first error.
Test ==
  /\ phase = "test" /\ tried' = tried + 1
  /\ IF ~Agree(at) THEN phase' = "return" /\ terrors' = 1 /\ UNCHANGED at
     ELSE /\ at' = Next3(at)
          /\ phase' = IF at' = at THEN "return" ELSE "test"
          /\ UNCHANGED terrors
  /\ UNCHANGED <<option_vars, i, vals, alarmed, envbuf, timeouts, table, score_vars>>

\* timeout_handler.  While test_function runs, sigsetjmp returns again and reports
\* an error; later on its frame is gone, and anything may happen.
Alarm ==
  /\ alarmed /\ alarmed' = FALSE /\ timeouts' = timeouts + 1
  /\ IF phase \in {"alarm", "test"}
     THEN phase' = "return" /\ terrors' = 1
     ELSE phase' = "undefined" /\ UNCHANGED terrors
  /\ UNCHANGED <<option_vars, i, vals, at, tried, envbuf, table, score_vars>>

\* Seeded fault: a test that fails keeps its points.
Score_fault ==
  LET rating == IF global_rating # 0 THEN global_rating ELSE puzzle.rating
  IN  /\ phase = "return" /\ phase' = "next" /\ i' = i + 1
      /\ errors' = errors + terrors
      /\ points' = points + rating /\ max_points' = max_points + rating
      /\ table' = [table EXCEPT ![i] = terrors]
      /\ vals' = <<>> /\ at' = First /\ tried' = 0 /\ terrors' = 0
      /\ UNCHANGED <<option_vars, alarmed, envbuf, timeouts>>

Score ==
  LET rating == IF global_rating # 0 THEN global_rating ELSE puzzle.rating
  IN  /\ phase = "return" /\ phase' = "next" /\ i' = i + 1
      /\ errors' = errors + terrors
      /\ points' = points + (IF terrors = 0 THEN rating ELSE 0)
      /\ max_points' = max_points + rating
      /\ table' = [table EXCEPT ![i] = terrors]
      /\ vals' = <<>> /\ at' = First /\ tried' = 0 /\ terrors' = 0
      /\ UNCHANGED <<option_vars, alarmed, envbuf, timeouts>>

Over == phase \in {"done", "exit", "undefined"}

BtestNext ==
  \/ \E name \in Names : OptionF(name)
  \/ \E n \in Ratings : OptionR(n)
  \/ OptionT
  \/ \E k \in 1 .. 3 : \E word \in Probes[k], isfloat \in BOOLEAN : OptionArg(k, word, isfloat)
  \/ Start \/ NextTest \/ Generate \/ SetJmp \/ SetAlarm \/ Test \/ Score \/ Done
  \/ Alarm /\ ~Over
  \/ Over /\ UNCHANGED btest_vars

BtestSpec == BtestInit /\ [][BtestNext]_btest_vars
-----------------------------------------------------------------------------
BtestTypeOK ==
  /\ phase \in {"options", "next", "generate", "setjmp", "alarm", "test", "return",
                "done", "exit", "undefined"}
  /\ options \in 0 .. MaxOptions /\ test_fname \in Names \cup {NULL}
  /\ global_rating \in Ratings \cup {0} /\ timeout \in BOOLEAN
  /\ has_arg \in [1 .. 3 -> BOOLEAN] /\ argval \in [1 .. 3 -> Word]
  /\ i \in 0 .. Len(test_set) + 1
  /\ \A k \in DOMAIN vals : \A p \in DOMAIN vals[k] : vals[k][p] \in Word
  /\ at \in [1 .. 3 -> Nat \ {0}] /\ tried \in Nat /\ terrors \in {0, 1}
  /\ alarmed \in BOOLEAN /\ envbuf \in 0 .. Len(test_set) /\ timeouts \in 0 .. MaxAlarms
  /\ table \in [DOMAIN test_set -> {-1, 0, 1}]

(* MAX_TEST_VALS leaves room for the values gen_vals makes, the four       *)
(* special floats among them: the array is one word longer per value of    *)
(* TEST_RANGE than the regions need.                                       *)
ValuesFit == BtestTypeOK /\ \A k \in DOMAIN vals : Len(vals[k]) <= MAX_TEST_VALS

\* Where the tests may be, and the order of the three loops.
Indices3 == LET range(k) == 1 .. IF k \in DOMAIN vals THEN Len(vals[k]) ELSE 1
            IN  range(1) \X range(2) \X range(3)
Earlier(p, q) == \E k \in 1 .. 3 : p[k] < q[k] /\ \A j \in 1 .. k - 1 : p[j] = q[j]

(* A verdict has its reason.  A puzzle without error was tried on every    *)
(* combination of the values of its arguments and agreed on each; one with *)
(* an error has disagreed on the combination reported and agreed on all    *)
(* before, unless an alarm went off.                                       *)
VerdictHasReason ==
  phase = "return" =>
    /\ terrors = 0 => tried = Cardinality(Indices3) /\ \A p \in Indices3 : Agree(p)
    /\ terrors = 1 /\ timeouts = 0 => /\ ~Agree(at)
                                      /\ \A p \in Indices3 : Earlier(p, at) => Agree(p)

\* The sum of the ratings of a set of puzzles, as a number of pairs.
Rating(k) == IF global_rating # 0 THEN global_rating ELSE test_set[k].rating
RatingSum(set) == Cardinality(UNION {{k} \X (1 .. Rating(k)) : k \in set})

(* The totals are those of the table: whatever puzzles are tested, fail    *)
(* and time out, the points are the ratings of those without error.        *)
TotalsAddUp ==
  LET row(set) == {k \in DOMAIN test_set : table[k] \in set}
  IN  /\ points = RatingSum(row({0})) /\ max_points = RatingSum(row({0, 1}))
      /\ errors = Cardinality(row({1}))
      /\ phase = "done" => \A k \in DOMAIN test_set :
           table[k] # -1 <=> test_fname \in {NULL, test_set[k].name}

(* The puzzles are right but for two gaps, which no value of the harness   *)
(* meets: 2.0^x for the x whose result is denormalized or just below, and  *)
(* the conversion of floats from 2^31 up to 2^32, but for -2^31.  So       *)
(* without alarms the harness gives full marks, and only -1 shows them.    *)
Gap(name) ==
  CASE name = "floatPower2"    -> {ToWord(n) : n \in -150 .. -127}
    [] name = "floatFloat2Int" -> {x \in Probes[1] : exp_field(x) = 158
                                                     /\ x # sign_bit \cup Shl(ToWord(158), 23)}
    [] OTHER -> {}

GapsAreExact ==
  phase = "return" /\ timeouts = 0 =>
    (terrors = 1 <=> has_arg[1] /\ puzzle.args = 1 /\ argval[1] \in Gap(puzzle.name))
=============================================================================
