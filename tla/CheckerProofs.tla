---------------------------- MODULE CheckerProofs ----------------------------
(***************************************************************************)
(* What the labs' own checkers guarantee of what they check: the overlap   *)
(* test of mdriver.c for every heap and every sequence of calls, and the   *)
(* harness of the data lab for every size of its test values, options,     *)
(* random values and alarms.                                               *)
(***************************************************************************)
EXTENDS RangeCheck, Btest, DataLemmas, FiniteSetTheorems

Range_t == [lo : 0 .. HeapHi, hi : 0 .. HeapHi]

(* What p is to a later payload q: apart from it, or swallowed by it.      *)
ApartOrSwallowed(q, p) == Disjoint(q, p) \/ (q.lo < p.lo /\ p.hi < q.hi)

(* add_range puts the new range in front of the others.                    *)
LEMMA AddRangeFacts ==
  ASSUME NEW q \in Seq(Range_t), NEW lo, NEW size,
         [lo |-> lo, hi |-> lo + size - 1] \in Range_t
  PROVE  /\ add_range(q, lo, size) \in Seq(Range_t)
         /\ Len(add_range(q, lo, size)) = Len(q) + 1
         /\ add_range(q, lo, size)[1] = [lo |-> lo, hi |-> lo + size - 1]
         /\ \A k \in 2 .. Len(q) + 1 : add_range(q, lo, size)[k] = q[k - 1]
<1> DEFINE new == [lo |-> lo, hi |-> lo + size - 1]
<1>1. <<new>> \in Seq(Range_t) /\ Len(<<new>>) = 1 /\ <<new>>[1] = new
  OBVIOUS
<1>2. Len(q) \in Nat
  BY LenProperties
<1>3. add_range(q, lo, size) = <<new>> \o q
  BY DEF add_range
<1> HIDE DEF new
<1>4. /\ <<new>> \o q \in Seq(Range_t)
      /\ Len(<<new>> \o q) = 1 + Len(q)
      /\ \A j \in 1 .. 1 + Len(q) :
           (<<new>> \o q)[j] = IF j <= 1 THEN <<new>>[1] ELSE q[j - 1]
  <2>1. /\ <<new>> \o q \in Seq(Range_t)
        /\ Len(<<new>> \o q) = Len(<<new>>) + Len(q)
        /\ \A j \in 1 .. Len(<<new>>) + Len(q) : (<<new>> \o q)[j] =
             IF j <= Len(<<new>>) THEN <<new>>[j] ELSE q[j - Len(<<new>>)]
    BY <1>1, ConcatProperties
  <2>2. \A j \in 1 .. 1 + Len(q) : j <= 1 => j = 1
    BY <1>2
  <2> QED BY <2>1, <2>2, <1>1
<1>5. (<<new>> \o q)[1] = new
  BY <1>1, <1>2, <1>4
<1>6. \A k \in 2 .. Len(q) + 1 : (<<new>> \o q)[k] = q[k - 1]
  BY <1>2, <1>4
<1> QED BY <1>2, <1>3, <1>4, <1>5, <1>6 DEF new

(* remove_range leaves the list alone or takes out one of its entries.     *)
LEMMA RemoveRangeFacts ==
  ASSUME NEW q \in Seq(Range_t), NEW lo
  PROVE  \/ remove_range(q, lo) = q
         \/ \E n \in 1 .. Len(q) : remove_range(q, lo) = RemoveAt(q, n)
<1> DEFINE places == {k \in DOMAIN q : q[k].lo = lo}
<1>1. CASE places = {}
  BY <1>1 DEF remove_range
<1>2. CASE places # {}
  <2>1. Len(q) \in Nat /\ DOMAIN q = 1 .. Len(q)
    BY LenProperties
  <2>2. places \in SUBSET Nat
    BY <2>1
  <2>3. remove_range(q, lo) = RemoveAt(q, Min(places))
    BY <1>2 DEF remove_range
  <2>4. Min(places) \in places
    <3> HIDE DEF places
    <3> QED BY <1>2, <2>2, MinOfNats
  <2> QED BY <2>1, <2>3, <2>4
<1> QED BY <1>1, <1>2

(* A payload that passes the test against an older one is apart from it or *)
(* swallows it.                                                            *)
LEMMA OverlapsFacts ==
  ASSUME NEW lo \in Int, NEW hi \in Int, NEW p \in Range_t,
         ~Overlaps(lo, hi, p)
  PROVE  ApartOrSwallowed([lo |-> lo, hi |-> hi], p)
<1>1. p.lo \in Int /\ p.hi \in Int
  BY RequestAssumption DEF Range_t
<1> QED BY <1>1 DEF Overlaps, ApartOrSwallowed, Disjoint
-----------------------------------------------------------------------------
Inv == TypeOK /\ SwallowsOrDisjoint

(* SwallowsOrDisjoint, entry by entry.                                     *)
LEMMA SwallowsByEntry ==
  SwallowsOrDisjoint <=>
    \A k, l \in DOMAIN ranges : k < l => ApartOrSwallowed(ranges[k], ranges[l])
BY DEF SwallowsOrDisjoint, ApartOrSwallowed

(* An accepted payload keeps the invariant.                                *)
LEMMA AcceptKeepsInv ==
  ASSUME Inv, NEW lo \in 0 .. HeapHi, NEW size \in Sizes, Accept(lo, size)
  PROVE  Inv'
<1> DEFINE new == [lo |-> lo, hi |-> lo + size - 1]
<1>1. ranges \in Seq(Range_t) /\ Len(ranges) \in Nat /\ DOMAIN ranges = 1 .. Len(ranges)
  BY LenProperties DEF Inv, TypeOK, Range_t
<1>2. lo + size - 1 \in 0 .. HeapHi /\ new \in Range_t
  BY DEF Accept, Accepts, Range_t
<1>3. /\ ranges' \in Seq(Range_t)
      /\ Len(ranges') = Len(ranges) + 1
      /\ ranges'[1] = new
      /\ \A k \in 2 .. Len(ranges) + 1 : ranges'[k] = ranges[k - 1]
  BY <1>1, <1>2, AddRangeFacts DEF Accept
<1>4. DOMAIN ranges' = 1 .. Len(ranges) + 1
  BY <1>3, LenProperties
<1>5. \A l \in 1 .. Len(ranges) : ApartOrSwallowed(new, ranges[l])
  <2> SUFFICES ASSUME NEW l \in 1 .. Len(ranges)
               PROVE  ApartOrSwallowed(new, ranges[l])
    OBVIOUS
  <2>1. ~Overlaps(lo, lo + size - 1, ranges[l])
    BY <1>1 DEF Accept, Accepts
  <2>2. ranges[l] \in Range_t
    BY <1>1, ElementOfSeq
  <2>3. lo \in Int /\ lo + size - 1 \in Int
    BY <1>2, RequestAssumption
  <2> QED BY <2>1, <2>2, <2>3, OverlapsFacts
<1>6. ASSUME NEW k \in DOMAIN ranges', NEW l \in DOMAIN ranges', k < l
      PROVE  ApartOrSwallowed(ranges'[k], ranges'[l])
  <2>1. l - 1 \in 1 .. Len(ranges) /\ ranges'[l] = ranges[l - 1]
    BY <1>1, <1>3, <1>4, <1>6
  <2>2. CASE k = 1
    BY <2>1, <2>2, <1>3, <1>5
  <2>3. CASE k # 1
    <3>1. k - 1 \in DOMAIN ranges /\ ranges'[k] = ranges[k - 1]
      BY <2>3, <1>1, <1>3, <1>4, <1>6
    <3>2. k - 1 < l - 1
      BY <1>1, <1>4, <1>6
    <3> QED BY <2>1, <3>1, <3>2, <1>1, SwallowsByEntry DEF Inv
  <2> QED BY <2>2, <2>3
<1>7. SwallowsOrDisjoint'
  BY <1>6 DEF SwallowsOrDisjoint, ApartOrSwallowed
<1>8. TypeOK'
  BY <1>3 DEF TypeOK, Range_t
<1> QED BY <1>7, <1>8 DEF Inv

(* Removing an entry keeps the order of the others, and so the invariant.  *)
LEMMA RemovalKeepsInv ==
  ASSUME Inv, NEW n \in 1 .. Len(ranges), ranges' = RemoveAt(ranges, n)
  PROVE  Inv'
<1>1. ranges \in Seq(Range_t) /\ Len(ranges) \in Nat /\ DOMAIN ranges = 1 .. Len(ranges)
  BY LenProperties, SMTT(60) DEF Inv, TypeOK, Range_t
<1>2. /\ ranges' \in Seq(Range_t)
      /\ Len(ranges') = Len(ranges) - 1
      /\ \A k \in 1 .. Len(ranges) - 1 :
           ranges'[k] = IF k < n THEN ranges[k] ELSE ranges[k + 1]
  BY <1>1, RemoveAtFacts
<1>3. DOMAIN ranges' = 1 .. Len(ranges) - 1
  BY <1>2, LenProperties
<1>4. ASSUME NEW k \in DOMAIN ranges', NEW l \in DOMAIN ranges', k < l
      PROVE  ApartOrSwallowed(ranges'[k], ranges'[l])
  <2>1. PICK u \in DOMAIN ranges :
          ranges'[k] = ranges[u] /\ u = IF k < n THEN k ELSE k + 1
    BY <1>1, <1>2, <1>3
  <2>2. PICK v \in DOMAIN ranges :
          ranges'[l] = ranges[v] /\ v = IF l < n THEN l ELSE l + 1
    BY <1>1, <1>2, <1>3
  <2>3. u < v
    BY <2>1, <2>2, <1>1, <1>3, <1>4
  <2> QED BY <2>1, <2>2, <2>3, SwallowsByEntry DEF Inv
<1>5. SwallowsOrDisjoint'
  BY <1>4 DEF SwallowsOrDisjoint, ApartOrSwallowed
<1>6. TypeOK'
  BY <1>2 DEF TypeOK, Range_t
<1> QED BY <1>5, <1>6 DEF Inv

LEMMA InvInductive == Inv /\ [Next]_ranges => Inv'
<1> SUFFICES ASSUME Inv, [Next]_ranges PROVE Inv'
  OBVIOUS
<1>1. CASE UNCHANGED ranges
  BY <1>1 DEF Inv, TypeOK, SwallowsOrDisjoint
<1>2. ASSUME NEW lo \in 0 .. HeapHi, NEW size \in Sizes, Accept(lo, size)
      PROVE  Inv'
  BY <1>2, AcceptKeepsInv
<1>3. ASSUME NEW k \in DOMAIN ranges, Release(k)
      PROVE  Inv'
  <2>1. ranges \in Seq(Range_t)
    BY DEF Inv, TypeOK, Range_t
  <2>2. \/ ranges' = ranges
        \/ \E n \in 1 .. Len(ranges) : ranges' = RemoveAt(ranges, n)
    BY <1>3, <2>1, RemoveRangeFacts DEF Release
  <2> QED BY <2>2, <1>1, RemovalKeepsInv
<1> QED BY <1>1, <1>2, <1>3 DEF Next

LEMMA InvHolds == Spec => []Inv
<1>1. Init => Inv
  BY EmptySeq DEF Init, Inv, TypeOK, SwallowsOrDisjoint
<1> QED BY <1>1, InvInductive, PTL DEF Spec

(* The ranges on the list lie within the heap.                             *)
THEOREM TypeCorrect == Spec => []TypeOK
<1>1. Inv => TypeOK
  BY DEF Inv
<1> QED BY <1>1, InvHolds, PTL

(* Whatever an allocator hands out, a payload accepted by add_range is     *)
(* apart from each older one on the list or swallows it.                   *)
THEOREM AcceptedAreSound == Spec => []SwallowsOrDisjoint
<1>1. Inv => SwallowsOrDisjoint
  BY DEF Inv
<1> QED BY <1>1, InvHolds, PTL
-----------------------------------------------------------------------------
\* The puzzles and the values they are tested on.

(* test_set has 13 puzzles, of at most three arguments.                    *)
LEMMA PuzzleFacts ==
  /\ Len(test_set) = 13 /\ DOMAIN test_set = 1 .. 13
  /\ \A n \in 1 .. 13 : test_set[n].args \in 0 .. 3 /\ test_set[n].rating \in 1 .. 4
<1>1. Len(test_set) = 13 /\ DOMAIN test_set = 1 .. 13
  BY DEF test_set
<1>2. \A name, args, rating : /\ Puzzle(name, args, rating).args = args
                              /\ Puzzle(name, args, rating).rating = rating
  BY DEF Puzzle
<1>3. ASSUME NEW name
      PROVE  FloatPuzzle(name).args = 1 /\ FloatPuzzle(name).rating = 4
  <2>1. PICK p : p = Puzzle(name, 1, 4)
    OBVIOUS
  <2>2. DOMAIN p = {"name", "args", "rating", "min", "max"} /\ p.args = 1 /\ p.rating = 4
    BY <2>1 DEF Puzzle
  <2>3. FloatPuzzle(name) = [p EXCEPT !.min = 1, !.max = 1]
    BY <2>1 DEF FloatPuzzle
  <2> QED BY <2>2, <2>3
<1>4. ASSUME NEW n \in 1 .. 13
      PROVE  \/ \E name, args, rating : /\ test_set[n] = Puzzle(name, args, rating)
                                        /\ args \in 0 .. 3 /\ rating \in 1 .. 4
             \/ \E name : test_set[n] = FloatPuzzle(name)
  <2>1. CASE n \in 1 .. 5
    BY <2>1 DEF test_set
  <2>2. CASE n \in 6 .. 10
    BY <2>2 DEF test_set
  <2>3. CASE n \in 11 .. 13
    BY <2>3 DEF test_set
  <2> QED BY <2>1, <2>2, <2>3
<1>5. ASSUME NEW n \in 1 .. 13
      PROVE  test_set[n].args \in 0 .. 3 /\ test_set[n].rating \in 1 .. 4
  BY <1>2, <1>3, <1>4
<1> QED BY <1>1, <1>5

(* What ToWord makes of any number is a word.                              *)
LEMMA WordFacts == /\ \A n : ToWord(n) \in Word
                   /\ \A w \in Word : w \cup sign_bit \in Word /\ w \cup {22} \in Word
                   /\ {} \in Word
<1>1. \A n : ToWord(n) \in Word
  BY DEF ToWord, Word, Bit, Not
<1>2. 31 \in Bit /\ 22 \in Bit
  BY DEF Bit
<1> QED BY <1>1, <1>2 DEF Word, sign_bit

(* A test range is at least 1 and at most TEST_RANGE.                      *)
LEMMA TestRange ==
  ASSUME NEW args
  PROVE  arg_test_range(args) \in 1 .. TEST_RANGE
<1>0. TEST_RANGE \in Nat /\ TEST_RANGE >= 1
  BY RangeAssumption, RoomAssumption
<1>1. CASE args = 1
  BY <1>0, <1>1 DEF arg_test_range
<1>2. CASE args # 1
  <2>1. PICK S : S = {r \in 0 .. TEST_RANGE :
                        r ^ (IF args = 2 THEN 2 ELSE 3) <= TEST_RANGE} \cup {1}
    OBVIOUS
  <2>2. arg_test_range(args) = Max(S)
    BY <1>2, <2>1 DEF arg_test_range
  <2>3. S \in SUBSET Nat /\ 1 \in S /\ \A r \in S : r <= TEST_RANGE
    BY <2>1, <1>0
  <2>4. Max(S) \in S /\ \A r \in S : r <= Max(S)
    BY <2>3, <1>0, MaxOfNats
  <2>5. Max(S) \in Nat /\ Max(S) <= TEST_RANGE /\ 1 <= Max(S)
    BY <2>3, <2>4
  <2> QED BY <1>0, <2>2, <2>5
<1> QED BY <1>1, <1>2

(* For a float 12 values for each region and the four special ones.        *)
LEMMA FloatLength ==
  ASSUME NEW range \in 1 .. TEST_RANGE
  PROVE  /\ FloatVals(range) \in Seq(Word)
         /\ Len(FloatVals(range)) \in 1 .. MAX_TEST_VALS
<1> DEFINE small == 8388608
           largest == 2130706432
           one == 1065353216
           region(j) == <<j, small + j, small - j, one + j, one - j, largest - j>>
           inf == ToWord(largest + small)
           both(q) == q \o [k \in DOMAIN q |-> q[k] \cup sign_bit]
           values(j) == both([k \in DOMAIN region(j) |-> ToWord(region(j)[k])])
           n == Min({range, small})
           parts == [k \in 1 .. n |-> values(k - 1)]
           special == both(<<inf, inf \cup {22}>>)
<1>1. FloatVals(range) = FlattenSeq(parts) \o special
  BY DEF FloatVals
<1>2. small \in Nat \ {0}
  OBVIOUS
<1> HIDE DEF small, largest, one
<1>3. ASSUME NEW q \in Seq(Word)
      PROVE  both(q) \in Seq(Word) /\ Len(both(q)) = 2 * Len(q)
  <2> DEFINE s == [k \in DOMAIN q |-> q[k] \cup sign_bit]
  <2>1. Len(q) \in Nat /\ DOMAIN q = 1 .. Len(q) /\ \A k \in 1 .. Len(q) : q[k] \in Word
    BY LenProperties, ElementOfSeq
  <2>2. s \in Seq(Word) /\ Len(s) = Len(q)
    <3>1. \A k \in 1 .. Len(q) : q[k] \cup sign_bit \in Word
      BY <2>1, WordFacts
    <3> QED BY <2>1, <3>1
  <2> HIDE DEF s
  <2>3. q \o s \in Seq(Word) /\ Len(q \o s) = Len(q) + Len(s)
    BY <2>2, ConcatProperties
  <2>4. both(q) = q \o s
    BY DEF s
  <2> HIDE DEF both
  <2> QED BY <2>1, <2>2, <2>3, <2>4
<1>4. ASSUME NEW j
      PROVE  values(j) \in Seq(Word) /\ Len(values(j)) = 12
  <2>1. DOMAIN region(j) = 1 .. 6
    OBVIOUS
  <2> HIDE DEF region
  <2>2. PICK q : q = [k \in 1 .. 6 |-> ToWord(region(j)[k])]
    OBVIOUS
  <2>3. q \in Seq(Word) /\ Len(q) = 6
    BY <2>2, WordFacts
  <2>4. values(j) = both(q)
    BY <2>1, <2>2
  <2> HIDE DEF both, values
  <2>5. both(q) \in Seq(Word) /\ Len(both(q)) = 2 * Len(q)
    BY <1>3, <2>3
  <2> QED BY <2>3, <2>4, <2>5
<1>5. special \in Seq(Word) /\ Len(special) = 4
  <2>1. PICK q : q = <<inf, inf \cup {22}>>
    OBVIOUS
  <2>2. inf \in Word /\ inf \cup {22} \in Word
    BY WordFacts
  <2> HIDE DEF inf
  <2>3. q \in Seq(Word) /\ Len(q) = 2
    BY <2>1, <2>2
  <2>4. special = both(q)
    BY <2>1 DEF inf
  <2> HIDE DEF both, special
  <2>5. both(q) \in Seq(Word) /\ Len(both(q)) = 2 * Len(q)
    BY <1>3, <2>3
  <2> QED BY <2>3, <2>4, <2>5
<1>6. n \in 1 .. range
  <2>1. {range, small} \in SUBSET Nat /\ {range, small} # {}
    BY <1>2
  <2>2. n \in {range, small} /\ n <= range
    BY <2>1, MinOfNats
  <2>3. \A x \in {range, small} : x \in Nat \ {0}
    BY <1>2
  <2> HIDE DEF n
  <2> QED BY <2>2, <2>3
<1> HIDE DEF values, special, n
<1>7. /\ Len(parts) = n /\ n \in Nat \ {0}
      /\ \A j \in 1 .. n : parts[j] \in Seq(Word) /\ Len(parts[j]) \in 1 .. 12
  BY <1>4, <1>6
<1> HIDE DEF parts
<1>8. PICK f \in Seq(Word) : f = FlattenSeq(parts) /\ Len(f) \in 1 .. 12 * n
  <2>1. PICK hi \in Nat : hi = 12
    OBVIOUS
  <2>2. \A j \in 1 .. n : parts[j] \in Seq(Word) /\ Len(parts[j]) \in 1 .. hi
    BY <1>7, <2>1
  <2>3. FlattenSeq(parts) \in Seq(Word) /\ Len(FlattenSeq(parts)) \in 1 .. hi * n
    BY <1>7, <2>2, FlattenFacts
  <2> QED BY <2>1, <2>3
<1>9. f \o special \in Seq(Word) /\ Len(f \o special) = Len(f) + 4
  <2>1. PICK q \in Seq(Word) : q = special /\ Len(q) = 4
    BY <1>5
  <2>2. f \o q \in Seq(Word) /\ Len(f \o q) = Len(f) + Len(q)
    BY ConcatProperties
  <2> QED BY <2>1, <2>2
<1>10. TEST_RANGE \in Nat /\ TEST_RANGE >= 4
  BY RangeAssumption, RoomAssumption
<1>11. Len(f) + 4 \in 1 .. 13 * TEST_RANGE
  BY <1>6, <1>8, <1>10
<1> QED BY <1>1, <1>8, <1>9, <1>11 DEF MAX_TEST_VALS

(* For an int at most five values for each region.                         *)
LEMMA SampledLength ==
  ASSUME NEW min, NEW max, NEW range \in 1 .. TEST_RANGE,
         NEW random \in [1 .. range -> RandomWords]
  PROVE  /\ SampledVals(min, max, range, random) \in Seq(Word)
         /\ Len(SampledVals(min, max, range, random)) \in 1 .. MAX_TEST_VALS
<1> DEFINE inside(n) == IF min <= n /\ n <= max THEN <<ToWord(n)>> ELSE <<>>
           values(j) == <<ToWord(min + j), ToWord(max - j)>> \o inside(j) \o inside(-j)
                          \o <<random[j + 1]>>
           parts == [k \in 1 .. range |-> values(k - 1)]
<1>1. SampledVals(min, max, range, random) = FlattenSeq(parts)
  BY DEF SampledVals
<1>2. ASSUME NEW n
      PROVE  inside(n) \in Seq(Word) /\ Len(inside(n)) \in 0 .. 1
  BY WordFacts
<1>3. ASSUME NEW j \in 0 .. range - 1
      PROVE  values(j) \in Seq(Word) /\ Len(values(j)) \in 1 .. 5
  <2>1. PICK a, c \in Word : a = ToWord(min + j) /\ c = ToWord(max - j)
    BY WordFacts
  <2>2. PICK p \in Seq(Word) : p = <<a, c>> /\ Len(p) = 2
    <3>1. <<a, c>> \in Seq(Word) /\ Len(<<a, c>>) = 2
      OBVIOUS
    <3> QED BY <3>1
  <2>3. PICK q, r \in Seq(Word) : /\ q = inside(j) /\ r = inside(-j)
                                  /\ Len(q) \in 0 .. 1 /\ Len(r) \in 0 .. 1
    BY <1>2
  <2>4. PICK s \in Seq(Word) : s = <<random[j + 1]>> /\ Len(s) = 1
    <3>1. random[j + 1] \in Word
      <4>1. j + 1 \in 1 .. range
        OBVIOUS
      <4>2. random[j + 1] \in RandomWords
        BY <4>1
      <4> QED BY <4>2, RangeAssumption
    <3>2. PICK w \in Word : w = random[j + 1]
      BY <3>1
    <3>3. <<w>> \in Seq(Word) /\ Len(<<w>>) = 1
      OBVIOUS
    <3> QED BY <3>2, <3>3
  <2>5. values(j) = p \o q \o r \o s
    BY <2>1, <2>2, <2>3, <2>4
  <2> HIDE DEF values, inside
  <2>6. p \o q \in Seq(Word) /\ Len(p \o q) = 2 + Len(q)
    BY <2>2, <2>3, ConcatProperties
  <2>7. p \o q \o r \in Seq(Word) /\ Len(p \o q \o r) = Len(p \o q) + Len(r)
    BY <2>3, <2>6, ConcatProperties
  <2>8. p \o q \o r \o s \in Seq(Word) /\ Len(p \o q \o r \o s) = Len(p \o q \o r) + 1
    BY <2>4, <2>7, ConcatProperties
  <2>9. Len(p \o q \o r \o s) \in 1 .. 5
    <3>1. PICK u, v \in 0 .. 1 : u = Len(q) /\ v = Len(r)
      BY <2>3
    <3>2. Len(p \o q) = 2 + u
      BY <2>6, <3>1
    <3>3. Len(p \o q \o r) = 2 + u + v
      BY <2>7, <3>1, <3>2
    <3>4. Len(p \o q \o r \o s) = 2 + u + v + 1
      BY <2>8, <3>3
    <3> QED BY <3>4
  <2> QED BY <2>5, <2>8, <2>9
<1> HIDE DEF values
<1>4. /\ Len(parts) = range /\ range \in Nat \ {0}
      /\ \A j \in 1 .. range : parts[j] \in Seq(Word) /\ Len(parts[j]) \in 1 .. 5
  BY <1>3
<1> HIDE DEF parts
<1>5. /\ FlattenSeq(parts) \in Seq(Word)
      /\ Len(FlattenSeq(parts)) \in 1 .. 5 * range
  <2>1. PICK hi \in Nat : hi = 5
    OBVIOUS
  <2>2. \A j \in 1 .. range : parts[j] \in Seq(Word) /\ Len(parts[j]) \in 1 .. hi
    BY <1>4, <2>1
  <2>3. FlattenSeq(parts) \in Seq(Word) /\ Len(FlattenSeq(parts)) \in 1 .. hi * range
    BY <1>4, <2>2, FlattenFacts
  <2> QED BY <2>1, <2>3
<1>6. TEST_RANGE \in Nat
  BY RangeAssumption
<1> QED BY <1>1, <1>5, <1>6 DEF MAX_TEST_VALS

(* gen_vals fills no more than the array has.                              *)
LEMMA GenLength ==
  ASSUME NEW t, NEW range \in 1 .. TEST_RANGE, NEW random \in [1 .. range -> RandomWords]
  PROVE  /\ gen_vals(t, range, random) \in Seq(Word)
         /\ Len(gen_vals(t, range, random)) \in 1 .. MAX_TEST_VALS
BY FloatLength, SampledLength DEF gen_vals
-----------------------------------------------------------------------------
\* The three loops.

Box(w) == (1 .. w[1]) \X (1 .. w[2]) \X (1 .. w[3])
Before(q, w) == {p \in Box(w) : Earlier(p, q)}

(* The order of the loops, index by index.                                 *)
LEMMA EarlierIs ==
  ASSUME NEW p, NEW q
  PROVE  Earlier(p, q) <=> \/ p[1] < q[1]
                           \/ p[1] = q[1] /\ p[2] < q[2]
                           \/ p[1] = q[1] /\ p[2] = q[2] /\ p[3] < q[3]
<1>1. /\ 1 .. 1 - 1 = {} /\ 1 .. 2 - 1 = {1} /\ 1 .. 3 - 1 = {1, 2} /\ 1 .. 3 = {1, 2, 3}
  OBVIOUS
<1>2. Earlier(p, q) <=> \E k \in {1, 2, 3} : p[k] < q[k] /\ \A j \in 1 .. k - 1 : p[j] = q[j]
  BY <1>1, Zenon DEF Earlier
<1>3. (\A j \in 1 .. 1 - 1 : p[j] = q[j]) /\ ((\A j \in 1 .. 2 - 1 : p[j] = q[j]) <=> p[1] = q[1])
  BY <1>1
<1>4. (\A j \in 1 .. 3 - 1 : p[j] = q[j]) <=> p[1] = q[1] /\ p[2] = q[2]
  BY <1>1
<1> QED BY <1>2, <1>3, <1>4

(* An index is a triple.                                                   *)
LEMMA BoxElements ==
  ASSUME NEW w \in [1 .. 3 -> Nat \ {0}]
  PROVE  /\ \A a, b, c : <<a, b, c>> \in Box(w) <=> /\ a \in 1 .. w[1] /\ b \in 1 .. w[2]
                                                    /\ c \in 1 .. w[3]
         /\ \A p \in Box(w) : /\ p = <<p[1], p[2], p[3]>>
                              /\ p[1] \in 1 .. w[1] /\ p[2] \in 1 .. w[2] /\ p[3] \in 1 .. w[3]
         /\ First \in Box(w) /\ Before(First, w) = {}
         /\ IsFiniteSet(Box(w))
<1>1. \A a, b, c : <<a, b, c>> \in Box(w) <=> /\ a \in 1 .. w[1] /\ b \in 1 .. w[2]
                                               /\ c \in 1 .. w[3]
  BY DEF Box
<1>2. \A p \in Box(w) : /\ p = <<p[1], p[2], p[3]>>
                        /\ p[1] \in 1 .. w[1] /\ p[2] \in 1 .. w[2] /\ p[3] \in 1 .. w[3]
  BY DEF Box
<1>3. w[1] \in Nat \ {0} /\ w[2] \in Nat \ {0} /\ w[3] \in Nat \ {0}
  OBVIOUS
<1>4. First \in Box(w)
  BY <1>1, <1>3 DEF First
<1>5. Before(First, w) = {}
  <2>1. SUFFICES ASSUME NEW p \in Box(w), Earlier(p, First) PROVE FALSE
    BY DEF Before
  <2>2. First[1] = 1 /\ First[2] = 1 /\ First[3] = 1
    BY DEF First
  <2>3. PICK a \in 1 .. w[1], b \in 1 .. w[2], c \in 1 .. w[3] : a = p[1] /\ b = p[2] /\ c = p[3]
    BY <1>2
  <2>4. a < 1 \/ b < 1 \/ c < 1
    BY <2>1, <2>2, <2>3, EarlierIs
  <2> QED BY <1>3, <2>4
<1>6. IsFiniteSet(Box(w))
  <2>1. IsFiniteSet(1 .. w[1]) /\ IsFiniteSet(1 .. w[2]) /\ IsFiniteSet(1 .. w[3])
    BY <1>3, FS_Interval
  <2>2. PICK A, B, C : /\ A = 1 .. w[1] /\ B = 1 .. w[2] /\ C = 1 .. w[3]
                       /\ IsFiniteSet(A) /\ IsFiniteSet(B) /\ IsFiniteSet(C)
    BY <2>1
  <2>3. IsFiniteSet(A \X B) /\ IsFiniteSet((A \X B) \X C)
    BY <2>2, FS_Product
  <2>4. PICK f : f = [r \in (A \X B) \X C |-> <<r[1][1], r[1][2], r[2]>>]
    OBVIOUS
  <2>5. ASSUME NEW r \in (A \X B) \X C
        PROVE  f[r] \in Box(w)
    <3>1. r[1][1] \in A /\ r[1][2] \in B /\ r[2] \in C
      OBVIOUS
    <3> QED BY <3>1, <2>2, <2>4, <1>1
  <2>6. ASSUME NEW p \in Box(w)
        PROVE  \E r \in (A \X B) \X C : f[r] = p
    <3>1. PICK a \in A, b \in B, c \in C : p = <<a, b, c>>
      BY <1>2, <2>2
    <3>2. <<<<a, b>>, c>> \in (A \X B) \X C /\ f[<<<<a, b>>, c>>] = <<a, b, c>>
      BY <2>4
    <3> QED BY <3>1, <3>2
  <2>7. f \in Surjection((A \X B) \X C, Box(w))
    BY <2>4, <2>5, <2>6 DEF Surjection
  <2> QED BY <2>3, <2>7, FS_Surjection DEF ExistsSurjection
<1> QED BY <1>1, <1>2, <1>4, <1>5, <1>6

(* One step of the loops: the indices before the next ones are those       *)
(* before the present ones, and the present ones.                          *)
LEMMA LoopStep ==
  ASSUME NEW w \in [1 .. 3 -> Nat \ {0}], NEW p \in Box(w), NEW open,
         open = {k \in 1 .. 3 : p[k] < w[k]}, NEW q,
         q = [j \in 1 .. 3 |-> IF j < Max(open) THEN p[j]
                               ELSE IF j = Max(open) THEN p[j] + 1 ELSE 1]
  PROVE  /\ p \notin Before(p, w)
         /\ open = {} => Box(w) = Before(p, w) \cup {p}
         /\ open # {} => /\ q \in Box(w) /\ q # p
                         /\ Before(q, w) = Before(p, w) \cup {p}
<1>1. PICK w1, w2, w3 \in Nat \ {0} : w1 = w[1] /\ w2 = w[2] /\ w3 = w[3]
  OBVIOUS
<1>2. PICK a \in 1 .. w1, b \in 1 .. w2, c \in 1 .. w3 :
        /\ a = p[1] /\ b = p[2] /\ c = p[3] /\ p = <<a, b, c>>
  BY <1>1, BoxElements
<1>3. ASSUME NEW r \in Box(w)
      PROVE  \E x \in 1 .. w1, y \in 1 .. w2, z \in 1 .. w3 :
               x = r[1] /\ y = r[2] /\ z = r[3] /\ r = <<x, y, z>>
  BY <1>1, BoxElements
<1>4. 1 \in open <=> a < w1
  BY <1>1, <1>2
<1>5. 2 \in open <=> b < w2
  BY <1>1, <1>2
<1>6. 3 \in open <=> c < w3
  BY <1>1, <1>2
<1>7. p \notin Before(p, w)
  <2>1. ~Earlier(p, p)
    <3>1. ~ (a < a) /\ ~ (b < b) /\ ~ (c < c)
      OBVIOUS
    <3> QED BY <1>2, <3>1, EarlierIs
  <2> QED BY <2>1 DEF Before
<1>8. ASSUME open = {}
      PROVE  Box(w) = Before(p, w) \cup {p}
  <2>1. a = w1 /\ b = w2 /\ c = w3
    BY <1>4, <1>5, <1>6, <1>8
  <2>2. ASSUME NEW r \in Box(w)
        PROVE  Earlier(r, p) \/ r = p
    <3>1. PICK x \in 1 .. w1, y \in 1 .. w2, z \in 1 .. w3 :
            x = r[1] /\ y = r[2] /\ z = r[3] /\ r = <<x, y, z>>
      BY <1>3
    <3>2. \/ x < a
          \/ x = a /\ y < b
          \/ x = a /\ y = b /\ z < c
          \/ x = a /\ y = b /\ z = c
      BY <2>1
    <3> QED BY <3>1, <3>2, <1>2, EarlierIs
  <2> QED BY <2>2 DEF Before
<1>9. ASSUME open # {}
      PROVE  q \in Box(w) /\ q # p /\ Before(q, w) = Before(p, w) \cup {p}
  <2>1. PICK m : m = Max(open)
    OBVIOUS
  <2>2. m \in open /\ \A k \in open : k <= m
    <3>1. open \in SUBSET Nat /\ \A k \in open : k <= 3
      OBVIOUS
    <3>2. 3 \in Nat
      OBVIOUS
    <3> QED BY <3>1, <3>2, <2>1, <1>9, MaxOfNats
  <2>3. m \in {1, 2, 3}
    BY <2>2
  <2>4. q = [j \in 1 .. 3 |-> IF j < m THEN p[j] ELSE IF j = m THEN p[j] + 1 ELSE 1]
    BY <2>1
  <2>5. q = <<q[1], q[2], q[3]>>
    BY <2>4
  <2>6. ASSUME NEW u \in 1 .. w1, NEW v \in 1 .. w2, NEW t \in 1 .. w3,
               u = q[1], v = q[2], t = q[3],
               \A x \in 1 .. w1, y \in 1 .. w2, z \in 1 .. w3 :
                 (x < u \/ (x = u /\ y < v) \/ (x = u /\ y = v /\ z < t))
                 <=> \/ x < a \/ (x = a /\ y < b) \/ (x = a /\ y = b /\ z < c)
                     \/ (x = a /\ y = b /\ z = c)
        PROVE  q \in Box(w) /\ q # p /\ Before(q, w) = Before(p, w) \cup {p}
    <3>1. q \in Box(w)
      BY <2>5, <2>6, <1>1, BoxElements
    <3>2. ASSUME NEW r \in Box(w)
          PROVE  Earlier(r, q) <=> Earlier(r, p) \/ r = p
      <4>1. PICK x \in 1 .. w1, y \in 1 .. w2, z \in 1 .. w3 :
              x = r[1] /\ y = r[2] /\ z = r[3] /\ r = <<x, y, z>>
        BY <1>3
      <4>2. r = p <=> x = a /\ y = b /\ z = c
        BY <4>1, <1>2
      <4>3. Earlier(r, q) <=> x < u \/ (x = u /\ y < v) \/ (x = u /\ y = v /\ z < t)
        BY <4>1, <2>6, EarlierIs
      <4>4. Earlier(r, p) <=> x < a \/ (x = a /\ y < b) \/ (x = a /\ y = b /\ z < c)
        BY <4>1, <1>2, EarlierIs
      <4>5. (x < u \/ (x = u /\ y < v) \/ (x = u /\ y = v /\ z < t))
            <=> \/ x < a \/ (x = a /\ y < b) \/ (x = a /\ y = b /\ z < c)
                \/ (x = a /\ y = b /\ z = c)
        BY <2>6
      <4> QED BY <4>2, <4>3, <4>4, <4>5
    <3>3. Earlier(p, q)
      BY <3>2
    <3>4. q # p
      BY <3>3, <1>7 DEF Before
    <3>5. Before(q, w) = Before(p, w) \cup {p}
      BY <3>2 DEF Before
    <3> QED BY <3>1, <3>4, <3>5
  <2>7. CASE m = 1
    <3>1. a < w1 /\ b = w2 /\ c = w3
      BY <2>7, <2>2, <1>4, <1>5, <1>6
    <3>2. q[1] = a + 1 /\ q[2] = 1 /\ q[3] = 1
      BY <2>4, <2>7, <1>2
    <3>3. a + 1 \in 1 .. w1 /\ 1 \in 1 .. w2 /\ 1 \in 1 .. w3
      BY <3>1
    <3> DEFINE u == a + 1
    <3>4. \A x \in 1 .. w1, y \in 1 .. w2, z \in 1 .. w3 :
            (x < u \/ (x = u /\ y < 1) \/ (x = u /\ y = 1 /\ z < 1))
            <=> \/ x < a \/ (x = a /\ y < b) \/ (x = a /\ y = b /\ z < c)
                \/ (x = a /\ y = b /\ z = c)
      BY <3>1
    <3> QED BY <2>6, <3>2, <3>3, <3>4
  <2>8. CASE m = 2
    <3>1. b < w2 /\ c = w3
      BY <2>8, <2>2, <1>5, <1>6
    <3>2. q[1] = a /\ q[2] = b + 1 /\ q[3] = 1
      BY <2>4, <2>8, <1>2
    <3>3. b + 1 \in 1 .. w2 /\ 1 \in 1 .. w3
      BY <3>1
    <3> DEFINE v == b + 1
    <3>4. \A x \in 1 .. w1, y \in 1 .. w2, z \in 1 .. w3 :
            (x < a \/ (x = a /\ y < v) \/ (x = a /\ y = v /\ z < 1))
            <=> \/ x < a \/ (x = a /\ y < b) \/ (x = a /\ y = b /\ z < c)
                \/ (x = a /\ y = b /\ z = c)
      BY <3>1
    <3> QED BY <2>6, <3>2, <3>3, <3>4
  <2>9. CASE m = 3
    <3>1. c < w3
      BY <2>9, <2>2, <1>6
    <3>2. q[1] = a /\ q[2] = b /\ q[3] = c + 1
      BY <2>4, <2>9, <1>2
    <3>3. c + 1 \in 1 .. w3
      BY <3>1
    <3> DEFINE t == c + 1
    <3>4. \A x \in 1 .. w1, y \in 1 .. w2, z \in 1 .. w3 :
            (x < a \/ (x = a /\ y < b) \/ (x = a /\ y = b /\ z < t))
            <=> \/ x < a \/ (x = a /\ y < b) \/ (x = a /\ y = b /\ z < c)
                \/ (x = a /\ y = b /\ z = c)
      BY <3>1
    <3> QED BY <2>6, <3>2, <3>3, <3>4
  <2> QED BY <2>3, <2>7, <2>8, <2>9
<1> QED BY <1>7, <1>8, <1>9
-----------------------------------------------------------------------------
\* Where the harness is.

Testing == {"setjmp", "alarm", "test", "return"}
Selected == phase \in Testing \cup {"generate"}

(* The values of each argument, at least one and no more than fit.         *)
ValsFit == \A k \in DOMAIN vals : /\ k \in 1 .. 3 /\ vals[k] \in Seq(Word)
                                  /\ Len(vals[k]) \in 1 .. MAX_TEST_VALS

(* An alarm may only be on its way when it may still go off.               *)
AlarmCounted == /\ alarmed \in BOOLEAN /\ timeouts \in 0 .. MaxAlarms
                /\ (alarmed = TRUE => timeouts < MaxAlarms)

(* Types, the puzzle that is tested, and the values of its arguments, which *)
(* are at least one and fit the array.                                     *)
PlaceInv ==
  /\ BtestTypeOK
  /\ AlarmCounted
  /\ alarmed = TRUE => phase \notin {"options", "exit"}
  /\ phase \in {"options", "exit"} <=> i = 0
  /\ Selected => i <= 13 /\ test_fname \in {NULL, puzzle.name}
  /\ phase = "done" => i = 14
  /\ ValsFit

(* Where the puzzle and the values are.                                    *)
LEMMA PlaceFacts ==
  ASSUME PlaceInv
  PROVE  /\ i \in 0 .. 14 /\ (Selected => i \in 1 .. 13)
         /\ has_arg \in [1 .. 3 -> BOOLEAN] /\ argval \in [1 .. 3 -> Word]
         /\ timeouts \in 0 .. MaxAlarms /\ MaxAlarms \in Nat /\ tried \in Nat
         /\ table \in [1 .. 13 -> {-1, 0, 1}] /\ terrors \in {0, 1}
         /\ \A k \in 1 .. 3 : argval[k] \in Word
<1>1. Len(test_set) = 13 /\ DOMAIN test_set = 1 .. 13 /\ 13 + 1 = 14
  BY PuzzleFacts
<1>2. /\ has_arg \in [1 .. 3 -> BOOLEAN] /\ argval \in [1 .. 3 -> Word]
      /\ timeouts \in 0 .. MaxAlarms /\ tried \in Nat /\ terrors \in {0, 1}
  BY DEF PlaceInv, BtestTypeOK
<1>3. table \in [1 .. 13 -> {-1, 0, 1}]
  BY <1>1 DEF PlaceInv, BtestTypeOK
<1>4. i \in 0 .. 14
  <2>1. i \in 0 .. Len(test_set) + 1
    BY DEF PlaceInv, BtestTypeOK
  <2> QED BY <1>1, <2>1
<1>5. Selected => i \in 1 .. 13
  BY <1>4 DEF PlaceInv, Selected, Testing
<1> QED BY <1>2, <1>3, <1>4, <1>5, RangeAssumption

(* The program starts with its options, and with no values.                *)
LEMMA PlaceInit == BtestInit => PlaceInv
<1> SUFFICES ASSUME BtestInit PROVE PlaceInv
  OBVIOUS
<1>1. DOMAIN vals = {}
  <2>1. vals = <<>>
    BY DEF BtestInit
  <2>2. DOMAIN <<>> = {}
    OBVIOUS
  <2> QED BY <2>1, <2>2
<1>2. /\ phase = "options" /\ options = 0 /\ test_fname = NULL /\ global_rating = 0
      /\ timeout = TRUE /\ tried = 0 /\ terrors = 0 /\ alarmed = FALSE /\ envbuf = 0
      /\ timeouts = 0 /\ i = 0
  BY DEF BtestInit
<1>3. /\ options \in 0 .. MaxOptions /\ timeouts \in 0 .. MaxAlarms
      /\ i \in 0 .. Len(test_set) + 1 /\ envbuf \in 0 .. Len(test_set)
  BY <1>2, RangeAssumption, PuzzleFacts
<1>4. at \in [1 .. 3 -> Nat \ {0}]
  <2>1. at = <<1, 1, 1>>
    BY DEF BtestInit, First
  <2> QED BY <2>1
<1>5. argval \in [1 .. 3 -> Word] /\ has_arg \in [1 .. 3 -> BOOLEAN]
      /\ table \in [DOMAIN test_set -> {-1, 0, 1}]
  BY WordFacts DEF BtestInit
<1>6. BtestTypeOK
  BY <1>1, <1>2, <1>3, <1>4, <1>5 DEF BtestTypeOK
<1>7. AlarmCounted
  BY <1>2, <1>3, Zenon DEF AlarmCounted
<1> QED BY <1>1, <1>2, <1>6, <1>7 DEF PlaceInv, Selected, Testing, ValsFit

(* The options change nothing but what they say.                           *)
LEMMA PlaceOptions ==
  ASSUME PlaceInv,
         \/ \E name \in Names : OptionF(name)
         \/ \E n \in Ratings : OptionR(n)
         \/ OptionT
         \/ \E k \in 1 .. 3 : \E word \in Probes[k], isfloat \in BOOLEAN :
              OptionArg(k, word, isfloat)
  PROVE  PlaceInv'
<1>1. /\ phase = "options" /\ phase' \in {"options", "exit"} /\ options' = options + 1
      /\ options < MaxOptions
      /\ UNCHANGED <<i, vals, at, tried, terrors, alarmed, envbuf, timeouts, table>>
  BY DEF OptionF, OptionR, OptionT, OptionArg, Option
<1>2. /\ test_fname' \in Names \cup {NULL} /\ global_rating' \in Ratings \cup {0}
      /\ timeout' \in BOOLEAN
  BY DEF OptionF, OptionR, OptionT, OptionArg, Option, PlaceInv, BtestTypeOK
<1>3. has_arg' \in [1 .. 3 -> BOOLEAN] /\ argval' \in [1 .. 3 -> Word]
  <2>1. has_arg \in [1 .. 3 -> BOOLEAN] /\ argval \in [1 .. 3 -> Word]
    BY DEF PlaceInv, BtestTypeOK
  <2>2. CASE \E k \in 1 .. 3 : \E word \in Probes[k], isfloat \in BOOLEAN :
               OptionArg(k, word, isfloat)
    <3>1. PICK k \in 1 .. 3 : \E word \in Probes[k], isfloat \in BOOLEAN :
                                OptionArg(k, word, isfloat)
      BY <2>2
    <3>2. PICK word \in Probes[k] : \E isfloat \in BOOLEAN : OptionArg(k, word, isfloat)
      BY <3>1
    <3>3. word \in Word
      BY RangeAssumption
    <3>4. /\ has_arg' \in {[has_arg EXCEPT ![k] = TRUE], [has_arg EXCEPT ![k] = FALSE]}
          /\ argval' \in {argval, [argval EXCEPT ![k] = word]}
      BY <3>2 DEF OptionArg
    <3> QED BY <2>1, <3>3, <3>4
  <2>3. CASE UNCHANGED <<has_arg, argval>>
    BY <2>1, <2>3
  <2> QED BY <2>2, <2>3 DEF OptionF, OptionR, OptionT
<1>4. options' \in 0 .. MaxOptions
  <2>1. options \in 0 .. MaxOptions /\ MaxOptions \in Nat
    BY RangeAssumption DEF PlaceInv, BtestTypeOK
  <2> QED BY <1>1, <2>1
<1>5. BtestTypeOK'
  BY <1>1, <1>2, <1>3, <1>4 DEF PlaceInv, BtestTypeOK
<1>6. i = 0 /\ ~Selected' /\ phase' # "done" /\ ~alarmed
  BY <1>1 DEF PlaceInv, Selected, Testing
<1>7. ValsFit' /\ AlarmCounted'
  BY <1>1 DEF PlaceInv, ValsFit, AlarmCounted
<1> QED BY <1>1, <1>5, <1>6, <1>7 DEF PlaceInv

(* The values that Generate makes.                                         *)
LEMMA Generated ==
  ASSUME PlaceInv, Generate
  PROVE  /\ DOMAIN vals' = 1 .. puzzle.args /\ puzzle.args \in 0 .. 3
         /\ \A k \in 1 .. puzzle.args : /\ vals'[k] \in Seq(Word)
                                        /\ Len(vals'[k]) \in 1 .. MAX_TEST_VALS
<1>1. i \in 1 .. 13
  BY PlaceFacts DEF Generate, Selected
<1>2. puzzle.args \in 0 .. 3
  BY <1>1, PuzzleFacts DEF puzzle
<1>3. PICK n : n = puzzle.args
  OBVIOUS
<1>4. PICK range \in 1 .. TEST_RANGE : range = arg_test_range(n)
  BY TestRange
<1>5. PICK random \in [1 .. n -> [1 .. range -> RandomWords]] :
        vals' = [k \in 1 .. n |->
                   IF has_arg[k] THEN <<argval[k]>> ELSE gen_vals(puzzle, range, random[k])]
  BY <1>3, <1>4 DEF Generate
<1>6. ASSUME NEW k \in 1 .. n
      PROVE  vals'[k] \in Seq(Word) /\ Len(vals'[k]) \in 1 .. MAX_TEST_VALS
  <2>1. argval[k] \in Word
    <3>1. k \in 1 .. 3
      BY <1>2, <1>3
    <3> QED BY <3>1, PlaceFacts
  <2>2. CASE has_arg[k]
    <3>1. PICK w \in Word : w = argval[k]
      BY <2>1
    <3>2. <<w>> \in Seq(Word) /\ Len(<<w>>) = 1
      OBVIOUS
    <3>3. 1 \in 1 .. MAX_TEST_VALS
      BY RangeAssumption, RoomAssumption DEF MAX_TEST_VALS
    <3>4. vals'[k] = <<w>>
      BY <1>5, <2>2, <3>1
    <3> QED BY <3>2, <3>3, <3>4
  <2>3. CASE ~has_arg[k]
    <3>1. vals'[k] = gen_vals(puzzle, range, random[k])
      BY <1>5, <2>3
    <3>2. random[k] \in [1 .. range -> RandomWords]
      BY <1>5
    <3> QED BY <3>1, <3>2, GenLength
  <2> QED BY <2>2, <2>3
<1>7. DOMAIN vals' = 1 .. n
  BY <1>5
<1> QED BY <1>2, <1>3, <1>6, <1>7

(* A step of the harness keeps the rest of PlaceInv when it keeps the      *)
(* options and the types of what it changes.                               *)
LEMMA PlaceStep ==
  ASSUME PlaceInv, UNCHANGED option_vars,
         phase' \in {"next", "generate", "setjmp", "alarm", "test", "return", "done",
                    "undefined"},
         i' \in 1 .. 14, Selected' => i' <= 13 /\ test_fname \in {NULL, test_set[i'].name},
         phase' = "done" => i' = 14,
         ValsFit',
         at' \in [1 .. 3 -> Nat \ {0}], tried' \in Nat, terrors' \in {0, 1},
         AlarmCounted', envbuf' \in 0 .. 13,
         table' \in [1 .. 13 -> {-1, 0, 1}]
  PROVE  PlaceInv'
<1>1. Len(test_set) = 13 /\ DOMAIN test_set = 1 .. 13 /\ 13 + 1 = 14
  BY PuzzleFacts
<1>2. /\ options' \in 0 .. MaxOptions /\ test_fname' \in Names \cup {NULL}
      /\ global_rating' \in Ratings \cup {0} /\ timeout' \in BOOLEAN
      /\ has_arg' \in [1 .. 3 -> BOOLEAN] /\ argval' \in [1 .. 3 -> Word]
  BY DEF PlaceInv, BtestTypeOK, option_vars
<1>3. \A k \in DOMAIN vals' : \A p \in DOMAIN vals'[k] : vals'[k][p] \in Word
  BY ElementOfSeq, LenProperties DEF ValsFit
<1>4. BtestTypeOK'
  <2>1. alarmed' \in BOOLEAN /\ timeouts' \in 0 .. MaxAlarms
    BY DEF AlarmCounted
  <2>2. phase' \in {"options", "next", "generate", "setjmp", "alarm", "test", "return",
                    "done", "exit", "undefined"}
    OBVIOUS
  <2>3. i' \in 0 .. Len(test_set) + 1 /\ envbuf' \in 0 .. Len(test_set)
    BY <1>1
  <2>4. table' \in [DOMAIN test_set -> {-1, 0, 1}]
    BY <1>1
  <2> QED BY <1>2, <1>3, <2>1, <2>2, <2>3, <2>4 DEF BtestTypeOK
<1>5. i' # 0 /\ phase' \notin {"options", "exit"}
  BY DEF Testing
<1>6. Selected' => test_fname' \in {NULL, puzzle'.name}
  BY DEF puzzle, option_vars
<1> QED BY <1>4, <1>5, <1>6 DEF PlaceInv

(* Every step keeps PlaceInv.                                              *)
LEMMA PlaceNext == PlaceInv /\ [BtestNext]_btest_vars => PlaceInv'
<1> SUFFICES ASSUME PlaceInv, [BtestNext]_btest_vars PROVE PlaceInv'
  OBVIOUS
<1>1. /\ i \in 0 .. 14 /\ (Selected => i \in 1 .. 13) /\ 0 \in Nat /\ 1 \in Nat
      /\ timeouts \in 0 .. MaxAlarms /\ MaxAlarms \in Nat /\ tried \in Nat
      /\ table \in [1 .. 13 -> {-1, 0, 1}] /\ terrors \in {0, 1}
  BY PlaceFacts
<1>2. /\ at \in [1 .. 3 -> Nat \ {0}] /\ First \in [1 .. 3 -> Nat \ {0}]
      /\ AlarmCounted /\ envbuf \in 0 .. 13
      /\ ValsFit
  BY PuzzleFacts DEF PlaceInv, BtestTypeOK, First
<1>3. /\ phase \notin {"options", "exit"} => i \in 1 .. 14
      /\ Selected => test_fname \in {NULL, test_set[i].name}
  BY <1>1 DEF PlaceInv, puzzle
<1>4. CASE \/ \E name \in Names : OptionF(name)
           \/ \E n \in Ratings : OptionR(n)
           \/ OptionT
           \/ \E k \in 1 .. 3 : \E word \in Probes[k], isfloat \in BOOLEAN :
                OptionArg(k, word, isfloat)
  BY <1>4, PlaceOptions
<1>5. CASE Start
  <2>1. /\ phase' = "next" /\ i' = 1 /\ UNCHANGED option_vars
        /\ UNCHANGED <<vals, at, tried, terrors, alarmed, envbuf, timeouts, table>>
    BY <1>5 DEF Start
  <2>2. ~Selected'
    BY <2>1 DEF Selected, Testing
  <2>5. ValsFit' /\ AlarmCounted'
    BY <2>1, <1>2 DEF ValsFit, AlarmCounted
  <2> QED BY <2>1, <2>5, <2>2, <1>1, <1>2, PlaceStep
<1>6. CASE NextTest
  <2>1. /\ phase = "next" /\ i <= 13 /\ UNCHANGED option_vars
        /\ UNCHANGED <<vals, at, tried, terrors, alarmed, envbuf, timeouts, table>>
        /\ \/ phase' = "generate" /\ i' = i /\ test_fname \in {NULL, puzzle.name}
           \/ phase' = "next" /\ i' = i + 1
    BY <1>6, PuzzleFacts DEF NextTest
  <2>2. i' \in 1 .. 14
    BY <2>1, <1>3
  <2>3. Selected' => i' <= 13 /\ test_fname \in {NULL, test_set[i'].name}
    BY <2>1 DEF Selected, Testing, puzzle
  <2>5. ValsFit' /\ AlarmCounted'
    BY <2>1, <1>2 DEF ValsFit, AlarmCounted
  <2> QED BY <2>1, <2>5, <2>2, <2>3, <1>1, <1>2, PlaceStep
<1>7. CASE Done
  <2>1. /\ phase' = "done" /\ i > 13 /\ phase = "next" /\ UNCHANGED option_vars
        /\ UNCHANGED <<i, vals, at, tried, terrors, alarmed, envbuf, timeouts, table>>
    BY <1>7, PuzzleFacts DEF Done
  <2>2. ~Selected' /\ i' = 14
    BY <2>1, <1>1 DEF Selected, Testing
  <2>5. ValsFit' /\ AlarmCounted'
    BY <2>1, <1>2 DEF ValsFit, AlarmCounted
  <2> QED BY <2>1, <2>5, <2>2, <1>1, <1>2, PlaceStep
<1>8. CASE Generate
  <2>1. /\ phase = "generate" /\ phase' \in {"setjmp", "test"} /\ UNCHANGED option_vars
        /\ at' = First /\ tried' = 0 /\ terrors' = 0
        /\ UNCHANGED <<i, alarmed, envbuf, timeouts, table>>
    BY <1>8 DEF Generate
  <2>2. Selected
    BY <2>1 DEF Selected
  <2>3. ValsFit'
    BY <1>8, Generated DEF ValsFit
  <2>4. i' \in 1 .. 13 /\ test_fname \in {NULL, test_set[i'].name}
    BY <2>1, <2>2, <1>1, <1>3
  <2>5. AlarmCounted'
    BY <2>1, <1>2 DEF AlarmCounted
  <2> QED BY <2>5, <2>1, <2>2, <2>3, <2>4, <1>1, <1>2, <1>3, PlaceStep
<1>9. CASE SetJmp
  <2>1. /\ phase = "setjmp" /\ phase' = "alarm" /\ envbuf' = i /\ UNCHANGED option_vars
        /\ UNCHANGED <<i, vals, at, tried, terrors, alarmed, timeouts, table>>
    BY <1>9 DEF SetJmp
  <2>2. Selected
    BY <2>1 DEF Selected, Testing
  <2>3. i' \in 1 .. 13 /\ test_fname \in {NULL, test_set[i'].name}
    BY <2>1, <2>2, <1>1, <1>3
  <2>5. ValsFit' /\ AlarmCounted'
    BY <2>1, <1>2 DEF ValsFit, AlarmCounted
  <2> QED BY <2>1, <2>5, <2>2, <2>3, <1>1, <1>2, <1>3, PlaceStep
<1>10. CASE SetAlarm
  <2>1. /\ phase = "alarm" /\ phase' = "test" /\ alarmed' = (timeouts < MaxAlarms)
        /\ UNCHANGED option_vars
        /\ UNCHANGED <<i, vals, at, tried, terrors, envbuf, timeouts, table>>
    BY <1>10 DEF SetAlarm
  <2>2. Selected
    BY <2>1 DEF Selected, Testing
  <2>3. i' \in 1 .. 13 /\ test_fname \in {NULL, test_set[i'].name}
    BY <2>1, <2>2, <1>1, <1>3
  <2>4. (timeouts < MaxAlarms) \in BOOLEAN
    OBVIOUS
  <2>5. ValsFit' /\ AlarmCounted'
    BY <2>1, <2>4, <1>2, Zenon DEF ValsFit, AlarmCounted
  <2> QED BY <2>1, <2>5, <2>2, <2>3, <1>1, <1>2, <1>3, PlaceStep
<1>11. CASE Test
  <2>1. /\ phase = "test" /\ phase' \in {"test", "return"} /\ UNCHANGED option_vars
        /\ tried' = tried + 1 /\ terrors' \in {terrors, 1} /\ at' \in {at, Next3(at)}
        /\ UNCHANGED <<i, vals, alarmed, envbuf, timeouts, table>>
    BY <1>11 DEF Test
  <2>2. Selected
    BY <2>1 DEF Selected, Testing
  <2>3. Next3(at) \in [1 .. 3 -> Nat \ {0}]
    BY <1>2 DEF Next3
  <2>4. i' \in 1 .. 13 /\ test_fname \in {NULL, test_set[i'].name}
    BY <2>1, <2>2, <1>1, <1>3
  <2>5. ValsFit' /\ AlarmCounted'
    BY <2>1, <1>2 DEF ValsFit, AlarmCounted
  <2> QED BY <2>1, <2>5, <2>2, <2>3, <2>4, <1>1, <1>2, <1>3, PlaceStep
<1>12. CASE Score
  <2>1. /\ phase = "return" /\ phase' = "next" /\ i' = i + 1 /\ UNCHANGED option_vars
        /\ table' = [table EXCEPT ![i] = terrors] /\ vals' = <<>> /\ at' = First
        /\ tried' = 0 /\ terrors' = 0 /\ UNCHANGED <<alarmed, envbuf, timeouts>>
    BY <1>12 DEF Score
  <2>2. Selected /\ ~Selected'
    BY <2>1 DEF Selected, Testing
  <2>3. table' \in [1 .. 13 -> {-1, 0, 1}] /\ i' \in 1 .. 14
    <3>1. PICK n \in 1 .. 13, e \in {-1, 0, 1} : n = i /\ e = terrors
      BY <2>2, <1>1
    <3>2. table' = [table EXCEPT ![n] = e]
      BY <2>1, <3>1
    <3>3. table' \in [1 .. 13 -> {-1, 0, 1}]
      BY <3>2, <1>1
    <3>4. n + 1 \in 1 .. 14
      OBVIOUS
    <3> QED BY <2>1, <3>1, <3>3, <3>4
  <2>4. ValsFit'
    BY <2>1 DEF ValsFit
  <2>5. AlarmCounted'
    BY <2>1, <1>2 DEF AlarmCounted
  <2> QED BY <2>5, <2>1, <2>2, <2>3, <2>4, <1>1, <1>2, PlaceStep
<1>13. CASE Alarm /\ ~Over
  <2>1. /\ alarmed = TRUE /\ alarmed' = FALSE /\ timeouts' = timeouts + 1
        /\ phase' \in {"return", "undefined"} /\ terrors' \in {terrors, 1}
        /\ (phase' = "return" => phase \in {"alarm", "test"})
        /\ UNCHANGED option_vars /\ UNCHANGED <<i, vals, at, tried, envbuf, table>>
    BY <1>13 DEF Alarm
  <2>2. Selected' => Selected
    BY <2>1 DEF Selected, Testing
  <2>3. phase \notin {"options", "exit"}
    BY <2>1 DEF PlaceInv
  <2>4. PICK n \in 0 .. MaxAlarms : n = timeouts /\ n < MaxAlarms
    <3>1. timeouts < MaxAlarms /\ timeouts \in 0 .. MaxAlarms
      BY <2>1, <1>2, Zenon DEF AlarmCounted
    <3> QED BY <3>1
  <2>5. i' \in 1 .. 14
    BY <2>1, <2>3, <1>3
  <2>6. Selected' => i' <= 13 /\ test_fname \in {NULL, test_set[i'].name}
    BY <2>1, <2>2, <1>1, <1>3
  <2>7. phase' # "done" /\ terrors' \in {0, 1}
    BY <2>1, <1>1
  <2>8. timeouts' \in 0 .. MaxAlarms
    BY <2>1, <2>4, <1>1
  <2>9. AlarmCounted'
    BY <2>1, <2>8, Zenon DEF AlarmCounted
  <2>10. ValsFit'
    BY <2>1, <1>2 DEF ValsFit
  <2> QED BY <2>1, <2>5, <2>6, <2>7, <2>9, <2>10, <1>1, <1>2, PlaceStep
<1>14. CASE UNCHANGED btest_vars
  <2>1. UNCHANGED vars
    BY <1>14 DEF btest_vars
  <2>2. BtestTypeOK' /\ AlarmCounted' /\ ValsFit'
    BY <2>1 DEF vars, PlaceInv, BtestTypeOK, AlarmCounted, ValsFit
  <2>3. UNCHANGED <<phase, i, alarmed, test_fname, puzzle>> /\ Selected' = Selected
    BY <2>1 DEF vars, puzzle, Selected
  <2> QED BY <2>2, <2>3 DEF PlaceInv
<1> QED BY <1>4, <1>5, <1>6, <1>7, <1>8, <1>9, <1>10, <1>11, <1>12, <1>13, <1>14 DEF BtestNext
-----------------------------------------------------------------------------
\* The verdict on a puzzle.

(* How far each of the three loops goes: a puzzle has at most three        *)
(* arguments, and the loops of those it lacks make one round.              *)
WidthsOf(v) == [k \in 1 .. 3 |-> IF k \in DOMAIN v THEN Len(v[k]) ELSE 1]
Widths == WidthsOf(vals)

(* The indices stay where the loops go.  Until a test has failed, those    *)
(* that came before have been tried, each once, and agreed.                *)
VerdictInv ==
  /\ at \in Box(Widths)
  /\ phase \in {"setjmp", "alarm", "test"} =>
       /\ terrors = 0 /\ tried = Cardinality(Before(at, Widths))
       /\ \A p \in Before(at, Widths) : Agree(p)
  /\ phase = "return" =>
       /\ terrors = 0 => /\ tried = Cardinality(Box(Widths))
                         /\ \A p \in Box(Widths) : Agree(p)
       /\ (terrors = 1 /\ timeouts = 0) => /\ ~Agree(at)
                                           /\ \A p \in Before(at, Widths) : Agree(p)

(* The loops go at least once round, and the next indices are those whose  *)
(* loop has not come to its end.                                           *)
LEMMA WidthFacts ==
  ASSUME NEW v,
         \A k \in DOMAIN v : /\ k \in 1 .. 3 /\ v[k] \in Seq(Word)
                             /\ Len(v[k]) \in 1 .. MAX_TEST_VALS
  PROVE  /\ WidthsOf(v) \in [1 .. 3 -> Nat \ {0}]
         /\ \A p \in Box(WidthsOf(v)) :
              {k \in DOMAIN v : p[k] < Len(v[k])} = {k \in 1 .. 3 : p[k] < WidthsOf(v)[k]}
<1>1. WidthsOf(v) \in [1 .. 3 -> Nat \ {0}]
  <2>1. ASSUME NEW k \in 1 .. 3
        PROVE  (IF k \in DOMAIN v THEN Len(v[k]) ELSE 1) \in Nat \ {0}
    <3>1. CASE k \in DOMAIN v
      <4>1. PICK n \in Nat : n = Len(v[k]) /\ n >= 1
        <5>1. Len(v[k]) \in Nat /\ Len(v[k]) \in 1 .. MAX_TEST_VALS
          BY <3>1, LenProperties
        <5> QED BY <5>1
      <4> QED BY <3>1, <4>1
    <3> QED BY <3>1
  <2> QED BY <2>1 DEF WidthsOf
<1>2. ASSUME NEW p \in Box(WidthsOf(v)), NEW k \in 1 .. 3
      PROVE  k \in DOMAIN v /\ p[k] < Len(v[k]) <=> p[k] < WidthsOf(v)[k]
  <2>1. CASE k \in DOMAIN v
    BY <2>1 DEF WidthsOf
  <2>2. CASE k \notin DOMAIN v
    <3>1. WidthsOf(v)[k] = 1
      BY <2>2 DEF WidthsOf
    <3>2. /\ p[1] \in 1 .. WidthsOf(v)[1] /\ p[2] \in 1 .. WidthsOf(v)[2]
          /\ p[3] \in 1 .. WidthsOf(v)[3]
      BY <1>1, BoxElements
    <3>3. k = 1 \/ k = 2 \/ k = 3
      OBVIOUS
    <3>4. p[k] \in 1 .. WidthsOf(v)[k]
      BY <3>2, <3>3
    <3>5. p[k] = 1
      BY <3>1, <3>4
    <3> QED BY <2>2, <3>1, <3>5
  <2> QED BY <2>1, <2>2
<1> QED BY <1>1, <1>2

(* The indices the tests may use are those of the loops.                   *)
LEMMA IndicesAreBox == Indices3 = Box(Widths)
<1> DEFINE range(k) == 1 .. IF k \in DOMAIN vals THEN Len(vals[k]) ELSE 1
<1>1. \A k \in 1 .. 3 : range(k) = 1 .. Widths[k]
  BY DEF Widths, WidthsOf
<1>2. range(1) = 1 .. Widths[1] /\ range(2) = 1 .. Widths[2] /\ range(3) = 1 .. Widths[3]
  BY <1>1
<1>3. Indices3 = range(1) \X range(2) \X range(3)
  BY DEF Indices3
<1> HIDE DEF range
<1> QED BY <1>2, <1>3 DEF Box

(* Agreement depends on the puzzle and the values only.                    *)
LEMMA AgreeStays == UNCHANGED <<i, vals>> => \A p : Agree(p)' <=> Agree(p)
BY DEF Agree, Arguments, puzzle

(* The verdict stands as long as nothing it speaks of changes.             *)
LEMMA VerdictStays ==
  ASSUME VerdictInv, UNCHANGED <<i, vals, at, tried, terrors, timeouts>>,
         phase' \in {"setjmp", "alarm", "test"} => phase \in {"setjmp", "alarm", "test"},
         phase' = "return" => phase = "return"
  PROVE  VerdictInv'
<1>1. \A p : Agree(p)' <=> Agree(p)
  BY AgreeStays
<1>2. Widths' = Widths
  BY DEF Widths
<1> QED BY <1>1, <1>2 DEF VerdictInv

(* At the first indices nothing has been tried yet.                        *)
LEMMA VerdictFresh ==
  ASSUME ValsFit', at' = First, tried' = 0, terrors' = 0, phase' # "return"
  PROVE  VerdictInv'
<1>1. WidthsOf(vals') \in [1 .. 3 -> Nat \ {0}]
  BY WidthFacts DEF ValsFit
<1>2. Widths' = WidthsOf(vals')
  BY DEF Widths
<1>3. First \in Box(WidthsOf(vals')) /\ Before(First, WidthsOf(vals')) = {}
  BY <1>1, BoxElements
<1>4. Cardinality({}) = 0
  BY FS_EmptySet
<1>5. at' \in Box(Widths') /\ Before(at', Widths') = {}
  BY <1>2, <1>3
<1> QED BY <1>4, <1>5 DEF VerdictInv

(* A test: the present indices join those before the next ones.            *)
LEMMA VerdictTest == PlaceInv /\ VerdictInv /\ Test => VerdictInv'
<1> SUFFICES ASSUME PlaceInv, VerdictInv, Test PROVE VerdictInv'
  OBVIOUS
<1>1. /\ at \in Box(Widths) /\ terrors = 0 /\ tried = Cardinality(Before(at, Widths))
      /\ \A p \in Before(at, Widths) : Agree(p)
  BY DEF VerdictInv, Test
<1>2. /\ phase = "test" /\ tried' = tried + 1 /\ UNCHANGED <<i, vals, timeouts>>
      /\ ~Agree(at) => phase' = "return" /\ terrors' = 1 /\ at' = at
      /\ Agree(at) => /\ at' = Next3(at) /\ terrors' = terrors
                      /\ phase' = IF at' = at THEN "return" ELSE "test"
  BY DEF Test
<1>3. Widths' = Widths /\ \A p : Agree(p)' <=> Agree(p)
  BY <1>2, AgreeStays DEF Widths
<1>4. PICK w \in [1 .. 3 -> Nat \ {0}] :
        /\ w = Widths /\ IsFiniteSet(Box(w))
        /\ \A p \in Box(w) :
             {k \in DOMAIN vals : p[k] < Len(vals[k])} = {k \in 1 .. 3 : p[k] < w[k]}
  <2>1. WidthsOf(vals) \in [1 .. 3 -> Nat \ {0}]
    BY WidthFacts DEF PlaceInv, ValsFit
  <2>2. \A p \in Box(WidthsOf(vals)) :
          {k \in DOMAIN vals : p[k] < Len(vals[k])} = {k \in 1 .. 3 : p[k] < WidthsOf(vals)[k]}
    BY WidthFacts DEF PlaceInv, ValsFit
  <2>3. IsFiniteSet(Box(WidthsOf(vals)))
    BY <2>1, BoxElements
  <2> QED BY <2>1, <2>2, <2>3 DEF Widths
<1>5. CASE ~Agree(at)
  BY <1>1, <1>2, <1>3, <1>5 DEF VerdictInv
<1>6. CASE Agree(at)
  <2>1. PICK p \in Box(w) : p = at
    BY <1>1, <1>4
  <2>2. PICK open : open = {k \in 1 .. 3 : p[k] < w[k]}
    OBVIOUS
  <2>3. PICK q : q = [j \in 1 .. 3 |-> IF j < Max(open) THEN p[j]
                                       ELSE IF j = Max(open) THEN p[j] + 1 ELSE 1]
    OBVIOUS
  <2>4. {k \in DOMAIN vals : p[k] < Len(vals[k])} = open
    BY <1>4, <2>1, <2>2
  <2>5. Next3(p) = IF open = {} THEN p ELSE q
    BY <2>3, <2>4 DEF Next3
  <2>6. /\ p \notin Before(p, w)
        /\ open = {} => Box(w) = Before(p, w) \cup {p}
        /\ open # {} => /\ q \in Box(w) /\ q # p
                        /\ Before(q, w) = Before(p, w) \cup {p}
    BY <2>2, <2>3, LoopStep
  <2>7. tried + 1 = Cardinality(Before(p, w) \cup {p})
    <3>1. IsFiniteSet(Before(p, w))
      <4>1. Before(p, w) \subseteq Box(w)
        BY DEF Before
      <4> QED BY <4>1, <1>4, FS_Subset
    <3>2. Cardinality(Before(p, w) \cup {p}) = Cardinality(Before(p, w)) + 1
      BY <3>1, <2>6, FS_AddElement, ZenonT(60)
    <3> QED BY <3>2, <1>1, <1>4, <2>1
  <2>8. \A r \in Before(p, w) \cup {p} : Agree(r)
    BY <1>1, <1>4, <1>6, <2>1
  <2>9. terrors' = 0 /\ at' = Next3(p) /\ phase' = IF at' = p THEN "return" ELSE "test"
    BY <1>1, <1>2, <1>6, <2>1
  <2>10. CASE open = {}
    <3>1. at' = p /\ phase' = "return" /\ Box(w) = Before(p, w) \cup {p}
      BY <2>5, <2>6, <2>9, <2>10
    <3>2. tried' = Cardinality(Box(w)) /\ \A r \in Box(w) : Agree(r)
      BY <1>2, <2>7, <2>8, <3>1, SMTT(60)
    <3>3. at' \in Box(Widths') /\ terrors' = 0 /\ tried' = Cardinality(Box(Widths'))
      BY <3>1, <3>2, <2>1, <2>9, <1>3, <1>4
    <3>4. \A r \in Box(Widths') : Agree(r)'
      BY <3>2, <1>3, <1>4
    <3> QED BY <3>1, <3>3, <3>4 DEF VerdictInv
  <2>11. CASE open # {}
    <3>1. at' = q /\ phase' = "test" /\ q \in Box(w) /\ Before(q, w) = Before(p, w) \cup {p}
      BY <2>5, <2>6, <2>9, <2>11
    <3>2. tried' = Cardinality(Before(q, w)) /\ \A r \in Before(q, w) : Agree(r)
      BY <1>2, <2>7, <2>8, <3>1
    <3> QED BY <3>1, <3>2, <2>9, <1>3, <1>4 DEF VerdictInv
  <2> QED BY <2>10, <2>11
<1> QED BY <1>5, <1>6

(* An alarm that goes off in time is an error of the puzzle, and counted.  *)
LEMMA VerdictAlarm == PlaceInv /\ VerdictInv /\ Alarm => VerdictInv'
<1> SUFFICES ASSUME PlaceInv, VerdictInv, Alarm PROVE VerdictInv'
  OBVIOUS
<1>1. /\ UNCHANGED <<i, vals, at, tried>> /\ timeouts' = timeouts + 1
      /\ phase' \in {"return", "undefined"} /\ (phase' = "return" => terrors' = 1)
  BY DEF Alarm
<1>2. timeouts' # 0
  BY <1>1, PlaceFacts
<1>3. Widths' = Widths /\ at \in Box(Widths)
  BY <1>1 DEF Widths, VerdictInv
<1> QED BY <1>1, <1>2, <1>3 DEF VerdictInv

(* Every step keeps VerdictInv.                                            *)
LEMMA VerdictNext == PlaceInv /\ VerdictInv /\ [BtestNext]_btest_vars => VerdictInv'
<1> SUFFICES ASSUME PlaceInv, VerdictInv, [BtestNext]_btest_vars PROVE VerdictInv'
  OBVIOUS
<1>1. PlaceInv'
  BY PlaceNext
<1>2. CASE \/ \E name \in Names : OptionF(name)
           \/ \E n \in Ratings : OptionR(n)
           \/ OptionT
           \/ \E k \in 1 .. 3 : \E word \in Probes[k], isfloat \in BOOLEAN :
                OptionArg(k, word, isfloat)
  <2>1. /\ UNCHANGED <<i, vals, at, tried, terrors, timeouts>>
        /\ phase' \in {"options", "exit"}
    BY <1>2 DEF OptionF, OptionR, OptionT, OptionArg, Option
  <2> QED BY <2>1, VerdictStays
<1>3. CASE Start
  <2>1. phase' = "next" /\ UNCHANGED <<vals, at>>
    BY <1>3 DEF Start
  <2> QED BY <2>1 DEF VerdictInv, Widths
<1>4. CASE NextTest
  <2>1. phase' \in {"next", "generate"} /\ UNCHANGED <<vals, at>>
    BY <1>4 DEF NextTest
  <2> QED BY <2>1 DEF VerdictInv, Widths
<1>5. CASE Done
  <2>1. phase' = "done" /\ UNCHANGED <<vals, at>>
    BY <1>5 DEF Done
  <2> QED BY <2>1 DEF VerdictInv, Widths
<1>6. CASE Generate
  <2>1. at' = First /\ tried' = 0 /\ terrors' = 0 /\ phase' # "return"
    BY <1>6 DEF Generate
  <2> QED BY <2>1, <1>1, VerdictFresh DEF PlaceInv
<1>7. CASE SetJmp
  <2>1. /\ phase = "setjmp" /\ phase' = "alarm"
        /\ UNCHANGED <<i, vals, at, tried, terrors, timeouts>>
    BY <1>7 DEF SetJmp
  <2> QED BY <2>1, VerdictStays
<1>8. CASE SetAlarm
  <2>1. phase = "alarm" /\ phase' = "test" /\ UNCHANGED <<i, vals, at, tried, terrors, timeouts>>
    BY <1>8 DEF SetAlarm
  <2> QED BY <2>1, VerdictStays
<1>9. CASE Test
  BY <1>9, VerdictTest
<1>10. CASE Score
  <2>1. at' = First /\ tried' = 0 /\ terrors' = 0 /\ phase' # "return"
    BY <1>10 DEF Score
  <2> QED BY <2>1, <1>1, VerdictFresh DEF PlaceInv
<1>11. CASE Alarm /\ ~Over
  BY <1>11, VerdictAlarm
<1>12. CASE UNCHANGED btest_vars
  <2>1. UNCHANGED <<phase, i, vals, at, tried, terrors, timeouts>>
    BY <1>12 DEF btest_vars, vars
  <2> QED BY <2>1, VerdictStays
<1> QED BY <1>2, <1>3, <1>4, <1>5, <1>6, <1>7, <1>8, <1>9, <1>10, <1>11, <1>12 DEF BtestNext

(* No puzzle has been tested at the start.                                 *)
LEMMA VerdictInit == BtestInit => VerdictInv
<1> SUFFICES ASSUME BtestInit PROVE VerdictInv
  OBVIOUS
<1>1. WidthsOf(vals) \in [1 .. 3 -> Nat \ {0}]
  BY PlaceInit, WidthFacts DEF PlaceInv, ValsFit
<1>2. at = First /\ phase = "options"
  BY DEF BtestInit
<1> QED BY <1>1, <1>2, BoxElements DEF VerdictInv, Widths

(* The verdict and its reason, in the words of the specification.          *)
LEMMA VerdictIsReasoned == VerdictInv => VerdictHasReason
<1> SUFFICES ASSUME VerdictInv PROVE VerdictHasReason
  OBVIOUS
<1>1. Indices3 = Box(Widths)
  BY IndicesAreBox
<1>2. \A p : p \in Before(at, Widths) <=> p \in Box(Widths) /\ Earlier(p, at)
  BY DEF Before
<1> QED BY <1>1, <1>2 DEF VerdictInv, VerdictHasReason
-----------------------------------------------------------------------------
\* The totals.

Row(set) == {k \in 1 .. 13 : table[k] \in set}

(* The puzzles before i have been looked at, and tested when the option -f *)
(* lets them; the totals are the sums over those tested.                   *)
TotalsInv ==
  /\ \A k \in 1 .. 13 : k >= i => table[k] = -1
  /\ \A k \in 1 .. 13 : k < i => (table[k] # -1 <=> test_fname \in {NULL, test_set[k].name})
  /\ points = RatingSum(Row({0})) /\ max_points = RatingSum(Row({0, 1}))
  /\ errors = Cardinality(Row({1}))

(* The sum of the ratings of no puzzle, and of one more.                   *)
LEMMA RatingSumIs ==
  ASSUME PlaceInv
  PROVE  /\ RatingSum({}) = 0
         /\ \A k \in 1 .. 13 : Rating(k) \in Nat
         /\ \A S \in SUBSET (1 .. 13), k \in 1 .. 13 :
              /\ RatingSum(S) \in Nat
              /\ k \notin S => RatingSum(S \cup {k}) = RatingSum(S) + Rating(k)
<1>1. \A k \in 1 .. 13 : Rating(k) \in Nat
  <2>1. global_rating \in Nat
    BY RangeAssumption DEF PlaceInv, BtestTypeOK
  <2>2. \A k \in 1 .. 13 : test_set[k].rating \in Nat
    BY PuzzleFacts
  <2> QED BY <2>1, <2>2 DEF Rating
<1> DEFINE pairs(k) == {k} \X (1 .. Rating(k))
           all(S) == UNION {pairs(k) : k \in S}
<1>2. \A S : RatingSum(S) = Cardinality(all(S))
  BY DEF RatingSum
<1>3. all({}) = {}
  OBVIOUS
<1>4. ASSUME NEW k \in 1 .. 13
      PROVE  IsFiniteSet(pairs(k)) /\ Cardinality(pairs(k)) = Rating(k)
  <2>1. PICK n \in Nat : n = Rating(k)
    BY <1>1
  <2>2. PICK A : A = {k} /\ IsFiniteSet(A) /\ Cardinality(A) = 1
    <3>1. IsFiniteSet({k}) /\ Cardinality({k}) = 1
      BY FS_Singleton
    <3> QED BY <3>1
  <2>3. PICK B : B = 1 .. n /\ IsFiniteSet(B) /\ Cardinality(B) = n
    <3>1. IsFiniteSet(1 .. n) /\ Cardinality(1 .. n) = IF 1 > n THEN 0 ELSE n - 1 + 1
      <4>1. 1 \in Int /\ n \in Int
        OBVIOUS
      <4> QED BY <4>1, FS_Interval
    <3>2. (IF 1 > n THEN 0 ELSE n - 1 + 1) = n
      OBVIOUS
    <3> QED BY <3>1, <3>2
  <2>4. IsFiniteSet(A \X B) /\ Cardinality(A \X B) = 1 * n
    <3>1. /\ IsFiniteSet(A \X B)
          /\ Cardinality(A \X B) = Cardinality(A) * Cardinality(B)
      <4> HIDE DEF pairs, all
      <4>1. IsFiniteSet(A) /\ IsFiniteSet(B)
        BY <2>2, <2>3
      <4> QED BY <4>1, FS_Product
    <3> QED BY <3>1, <2>2, <2>3
  <2>5. pairs(k) = A \X B
    BY <2>1, <2>2, <2>3
  <2> HIDE DEF pairs
  <2>6. 1 * n = n
    OBVIOUS
  <2> QED BY <2>1, <2>4, <2>5, <2>6
<1>5. ASSUME NEW S, NEW k
      PROVE  all(S \cup {k}) = all(S) \cup pairs(k)
  OBVIOUS
<1>6. ASSUME NEW S, NEW k, k \notin S
      PROVE  all(S) \cap pairs(k) = {}
  <2>1. ASSUME NEW x \in all(S), x \in pairs(k)
        PROVE  FALSE
    <3>1. PICK j \in S : x \in pairs(j)
      BY <2>1
    <3>2. x[1] = j /\ x[1] = k
      BY <2>1, <3>1
    <3> QED BY <1>6, <3>1, <3>2
  <2> HIDE DEF all, pairs
  <2> QED BY <2>1
<1>7. ASSUME NEW S \in SUBSET (1 .. 13)
      PROVE  IsFiniteSet(all(S))
  <2>1. PICK r \in Nat : \A k \in 1 .. 13 : Rating(k) <= r
    <3>1. global_rating \in Nat
      BY RangeAssumption DEF PlaceInv, BtestTypeOK
    <3>2. \A k \in 1 .. 13 : Rating(k) = global_rating \/ Rating(k) \in 1 .. 4
      BY PuzzleFacts DEF Rating
    <3>3. global_rating + 4 \in Nat /\ \A k \in 1 .. 13 : Rating(k) <= global_rating + 4
      BY <3>1, <3>2
    <3> QED BY <3>3
  <2>2. PICK A, B : A = 1 .. 13 /\ B = 1 .. r /\ IsFiniteSet(A) /\ IsFiniteSet(B)
    <3>1. IsFiniteSet(1 .. 13)
      <4>1. PICK hi \in Nat : hi = 13
        OBVIOUS
      <4>2. IsFiniteSet(1 .. hi)
        BY FS_Interval
      <4> QED BY <4>1, <4>2
    <3>2. IsFiniteSet(1 .. r)
      BY <2>1, FS_Interval
    <3> QED BY <3>1, <3>2
  <2>3. IsFiniteSet(A \X B)
    BY <2>2, FS_Product
  <2>4. all(S) \subseteq A \X B
    <3>1. ASSUME NEW k \in 1 .. 13
          PROVE  pairs(k) \subseteq A \X B
      <4>1. {k} \subseteq A /\ 1 .. Rating(k) \subseteq B
        <5>1. PICK n \in Nat : n = Rating(k) /\ n <= r
          BY <1>1, <2>1
        <5>2. 1 .. n \subseteq 1 .. r
          BY <5>1
        <5> QED BY <5>1, <5>2, <2>2
      <4> QED BY <4>1
    <3> QED BY <3>1
  <2> QED BY <2>3, <2>4, FS_Subset
<1>8. ASSUME NEW S \in SUBSET (1 .. 13)
      PROVE  RatingSum(S) \in Nat
  BY <1>2, <1>7, <1>8, FS_CardinalityType
<1>9. ASSUME NEW S \in SUBSET (1 .. 13), NEW k \in 1 .. 13, k \notin S
      PROVE  RatingSum(S \cup {k}) = RatingSum(S) + Rating(k)
  <2> HIDE DEF all, pairs
  <2>1. PICK A, B : /\ A = all(S) /\ B = pairs(k) /\ IsFiniteSet(A) /\ IsFiniteSet(B)
                    /\ A \cap B = {} /\ Cardinality(B) = Rating(k)
    BY <1>4, <1>6, <1>7, <1>9
  <2>2. Cardinality(A \cup B) = Cardinality(A) + Cardinality(B) - Cardinality(A \cap B)
    BY <2>1, FS_Union
  <2>3. Cardinality(A \cap B) = 0
    BY <2>1, FS_EmptySet
  <2>4. Cardinality(A) \in Nat /\ Rating(k) \in Nat
    BY <1>1, <2>1, FS_CardinalityType
  <2>5. Cardinality(A \cup B) = Cardinality(A) + Rating(k)
    BY <2>1, <2>2, <2>3, <2>4
  <2>6. RatingSum(S \cup {k}) = Cardinality(A \cup B) /\ RatingSum(S) = Cardinality(A)
    BY <1>2, <1>5, <2>1
  <2> QED BY <2>5, <2>6
<1> HIDE DEF all, pairs
<1>10. RatingSum({}) = 0
  BY <1>2, <1>3, FS_EmptySet
<1> QED BY <1>1, <1>8, <1>9, <1>10

(* With the same ratings the sums are the same.                            *)
LEMMA SumStays == UNCHANGED global_rating => \A S : RatingSum(S)' = RatingSum(S)
BY DEF RatingSum, Rating

(* The totals stand as long as the table and the ratings do.               *)
LEMMA TotalsStay ==
  ASSUME TotalsInv, UNCHANGED <<i, test_fname, global_rating, table, points, max_points, errors>>
  PROVE  TotalsInv'
<1>1. \A S : RatingSum(S)' = RatingSum(S)
  BY SumStays
<1>2. \A S : Row(S)' = Row(S)
  BY DEF Row
<1> QED BY <1>1, <1>2 DEF TotalsInv

(* As long as nothing is tested the totals are zero, whatever -r says.     *)
LEMMA TotalsOptions ==
  ASSUME PlaceInv, PlaceInv', TotalsInv, i = 0, i' \in {0, 1}, UNCHANGED <<table, score_vars>>
  PROVE  TotalsInv'
<1>1. \A k \in 1 .. 13 : table[k] = -1
  BY DEF TotalsInv
<1>2. Row({0}) = {} /\ Row({0, 1}) = {} /\ Row({1}) = {}
  BY <1>1 DEF Row
<1>3. Row({0})' = {} /\ Row({0, 1})' = {} /\ Row({1})' = {}
  BY <1>1 DEF Row
<1>4. RatingSum({}) = 0 /\ RatingSum({})' = 0 /\ Cardinality({}) = 0
  <2>1. RatingSum({})' = Cardinality(UNION {{k} \X (1 .. Rating(k)') : k \in {}})
    BY DEF RatingSum
  <2>2. UNION {{k} \X (1 .. Rating(k)') : k \in {}} = {}
    OBVIOUS
  <2> QED BY <2>1, <2>2, RatingSumIs, FS_EmptySet
<1>5. points' = points /\ max_points' = max_points /\ errors' = errors /\ table' = table
  BY DEF score_vars
<1>6. points' = 0 /\ max_points' = 0 /\ errors' = 0
  BY <1>2, <1>4, <1>5 DEF TotalsInv
<1>7. \A k \in 1 .. 13 : table'[k] = -1 /\ ~ (k < i')
  BY <1>1, <1>5
<1> QED BY <1>3, <1>4, <1>6, <1>7 DEF TotalsInv

(* The score of the puzzle that is tested joins the totals.                *)
LEMMA TotalsScore == PlaceInv /\ TotalsInv /\ Score => TotalsInv'
<1> SUFFICES ASSUME PlaceInv, TotalsInv, Score PROVE TotalsInv'
  OBVIOUS
<1>1. /\ phase = "return" /\ i' = i + 1 /\ UNCHANGED option_vars
      /\ table' = [table EXCEPT ![i] = terrors] /\ errors' = errors + terrors
      /\ points' = points + (IF terrors = 0 THEN Rating(i) ELSE 0)
      /\ max_points' = max_points + Rating(i)
  BY DEF Score, Rating, puzzle
<1>2. Selected
  BY <1>1 DEF Selected, Testing
<1>3. PICK n \in 1 .. 13 : n = i /\ test_fname \in {NULL, test_set[n].name}
  BY <1>2, PlaceFacts DEF PlaceInv, puzzle
<1>4. table \in [1 .. 13 -> {-1, 0, 1}] /\ terrors \in {0, 1}
  BY PlaceFacts
<1>5. UNCHANGED <<test_fname, global_rating>>
  BY <1>1 DEF option_vars
<1>6. table' = [k \in 1 .. 13 |-> IF k = n THEN terrors ELSE table[k]] /\ i' = n + 1
  BY <1>1, <1>3, <1>4
<1>7. \A k \in 1 .. 13 : k >= i' => table'[k] = -1
  BY <1>3, <1>6 DEF TotalsInv
<1>8. ASSUME NEW k \in 1 .. 13, k < i'
      PROVE  table'[k] # -1 <=> test_fname' \in {NULL, test_set[k].name}
  <2>1. CASE k = n
    BY <1>3, <1>4, <1>5, <1>6, <2>1
  <2>2. CASE k # n
    <3>1. k < i /\ table'[k] = table[k]
      BY <1>3, <1>6, <1>8, <2>2
    <3> QED BY <3>1, <1>5 DEF TotalsInv
  <2> QED BY <2>1, <2>2
<1>9. table[n] = -1
  BY <1>3 DEF TotalsInv
<1>10. PICK P, Q, E : P = Row({0}) /\ Q = Row({0, 1}) /\ E = Row({1})
  OBVIOUS
<1>11. P \in SUBSET (1 .. 13) /\ Q \in SUBSET (1 .. 13) /\ E \in SUBSET (1 .. 13)
  BY <1>10 DEF Row
<1>12. n \notin P /\ n \notin Q /\ n \notin E
  BY <1>9, <1>10 DEF Row
<1>13. Row({0, 1})' = Q \cup {n}
  BY <1>4, <1>6, <1>9, <1>10 DEF Row
<1>14. /\ terrors = 0 => Row({0})' = P \cup {n} /\ Row({1})' = E
       /\ terrors = 1 => Row({0})' = P /\ Row({1})' = E \cup {n}
  BY <1>6, <1>9, <1>10 DEF Row
<1>15. \A S : RatingSum(S)' = RatingSum(S)
  BY <1>5, SumStays
<1>16. /\ points = RatingSum(P) /\ max_points = RatingSum(Q) /\ errors = Cardinality(E)
  BY <1>10 DEF TotalsInv
<1>17. /\ RatingSum(P \cup {n}) = RatingSum(P) + Rating(n)
       /\ RatingSum(Q \cup {n}) = RatingSum(Q) + Rating(n)
       /\ RatingSum(P) \in Nat
  BY <1>11, <1>12, RatingSumIs
<1>18. Cardinality(E \cup {n}) = Cardinality(E) + 1 /\ Cardinality(E) \in Nat
  <2>1. IsFiniteSet(E)
    <3>1. PICK hi \in Nat : hi = 13
      OBVIOUS
    <3>2. IsFiniteSet(1 .. hi)
      BY FS_Interval
    <3> QED BY <1>11, <3>1, <3>2, FS_Subset
  <2> QED BY <2>1, <1>12, FS_AddElement, FS_CardinalityType
<1>19. PICK P2, Q2, E2 : P2 = Row({0})' /\ Q2 = Row({0, 1})' /\ E2 = Row({1})'
  OBVIOUS
<1>20. max_points' = RatingSum(Q2)
  BY <1>1, <1>3, <1>13, <1>16, <1>17, <1>19
<1>21. points' = RatingSum(P2) /\ errors' = Cardinality(E2)
  <2>1. CASE terrors = 0
    <3>1. P2 = P \cup {n} /\ E2 = E
      BY <1>14, <1>19, <2>1
    <3>2. points' = points + Rating(n) /\ errors' = errors + 0
      BY <1>1, <1>3, <2>1
    <3> QED BY <3>1, <3>2, <1>16, <1>17, <1>18
  <2>2. CASE terrors = 1
    <3>1. P2 = P /\ E2 = E \cup {n}
      BY <1>14, <1>19, <2>2
    <3>2. points' = points + 0 /\ errors' = errors + 1
      BY <1>1, <2>2
    <3> QED BY <3>1, <3>2, <1>16, <1>17, <1>18
  <2> QED BY <1>4, <2>1, <2>2
<1> QED BY <1>7, <1>8, <1>15, <1>19, <1>20, <1>21 DEF TotalsInv

(* Every step keeps TotalsInv.                                             *)
LEMMA TotalsNext == PlaceInv /\ TotalsInv /\ [BtestNext]_btest_vars => TotalsInv'
<1> SUFFICES ASSUME PlaceInv, TotalsInv, [BtestNext]_btest_vars PROVE TotalsInv'
  OBVIOUS
<1>1. PlaceInv'
  BY PlaceNext
<1>2. CASE \/ \E name \in Names : OptionF(name)
           \/ \E n \in Ratings : OptionR(n)
           \/ OptionT
           \/ \E k \in 1 .. 3 : \E word \in Probes[k], isfloat \in BOOLEAN :
                OptionArg(k, word, isfloat)
  <2>1. phase = "options" /\ UNCHANGED <<i, table, score_vars>>
    BY <1>2 DEF OptionF, OptionR, OptionT, OptionArg, Option
  <2>2. i = 0
    BY <2>1 DEF PlaceInv
  <2> QED BY <1>1, <2>1, <2>2, TotalsOptions
<1>3. CASE Start
  <2>1. phase = "options" /\ i' = 1 /\ UNCHANGED <<table, score_vars>>
    BY <1>3 DEF Start
  <2>2. i = 0
    BY <2>1 DEF PlaceInv
  <2> QED BY <1>1, <2>1, <2>2, TotalsOptions
<1>4. CASE NextTest
  <2>1. /\ phase = "next" /\ i <= 13 /\ UNCHANGED <<option_vars, table, score_vars>>
        /\ \/ i' = i
           \/ i' = i + 1 /\ test_fname \notin {NULL, puzzle.name}
    BY <1>4, PuzzleFacts DEF NextTest
  <2>2. /\ UNCHANGED <<test_fname, global_rating, table, points, max_points, errors>>
    BY <2>1 DEF option_vars, score_vars
  <2>3. CASE i' = i
    BY <2>2, <2>3, TotalsStay
  <2>4. CASE i' = i + 1 /\ test_fname \notin {NULL, puzzle.name}
    <3>1. PICK n \in 1 .. 13 : n = i /\ test_fname \notin {NULL, test_set[n].name}
      BY <2>1, <2>4, PlaceFacts DEF PlaceInv, puzzle
    <3>2. table[n] = -1
      BY <3>1 DEF TotalsInv
    <3>3. \A k \in 1 .. 13 : k >= i' => table'[k] = -1
      BY <2>2, <2>4, <3>1 DEF TotalsInv
    <3>4. ASSUME NEW k \in 1 .. 13, k < i'
          PROVE  table'[k] # -1 <=> test_fname' \in {NULL, test_set[k].name}
      <4>1. CASE k = n
        BY <2>2, <3>1, <3>2, <4>1
      <4>2. CASE k # n
        <5>1. k < i
          BY <2>4, <3>1, <3>4, <4>2
        <5> QED BY <2>2, <5>1 DEF TotalsInv
      <4> QED BY <4>1, <4>2
    <3>5. \A S : RatingSum(S)' = RatingSum(S)
      BY <2>2, SumStays
    <3>6. \A S : Row(S)' = Row(S)
      BY <2>2 DEF Row
    <3> QED BY <2>2, <3>3, <3>4, <3>5, <3>6 DEF TotalsInv
  <2> QED BY <2>1, <2>3, <2>4
<1>5. CASE Score
  BY <1>5, TotalsScore
<1>6. CASE Done \/ Generate \/ SetJmp \/ SetAlarm \/ Test \/ (Alarm /\ ~Over)
  <2>1. UNCHANGED <<i, option_vars, table, score_vars>>
    BY <1>6 DEF Done, Generate, SetJmp, SetAlarm, Test, Alarm
  <2>2. UNCHANGED <<i, test_fname, global_rating, table, points, max_points, errors>>
    BY <2>1 DEF option_vars, score_vars
  <2> QED BY <2>2, TotalsStay
<1>7. CASE UNCHANGED btest_vars
  <2>1. UNCHANGED <<i, test_fname, global_rating, table, points, max_points, errors>>
    BY <1>7 DEF btest_vars, vars, score_vars
  <2> QED BY <2>1, TotalsStay
<1> QED BY <1>2, <1>3, <1>4, <1>5, <1>6, <1>7 DEF BtestNext

(* Nothing is tested and all totals are zero at the start.                 *)
LEMMA TotalsInit == BtestInit => TotalsInv
<1> SUFFICES ASSUME BtestInit PROVE TotalsInv
  OBVIOUS
<1>1. i = 0 /\ points = 0 /\ max_points = 0 /\ errors = 0
  BY DEF BtestInit
<1>2. table = [k \in 1 .. 13 |-> -1]
  BY PuzzleFacts DEF BtestInit
<1>3. \A k \in 1 .. 13 : table[k] = -1 /\ ~ (k < i)
  BY <1>1, <1>2
<1>4. Row({0}) = {} /\ Row({0, 1}) = {} /\ Row({1}) = {}
  BY <1>3 DEF Row
<1> QED BY <1>1, <1>3, <1>4, PlaceInit, RatingSumIs, FS_EmptySet DEF TotalsInv

(* The totals, in the words of the specification.                          *)
LEMMA TotalsAreTheSums == PlaceInv /\ TotalsInv => TotalsAddUp
<1> SUFFICES ASSUME PlaceInv, TotalsInv PROVE TotalsAddUp
  OBVIOUS
<1>1. DOMAIN test_set = 1 .. 13
  BY PuzzleFacts
<1>2. \A S : {k \in DOMAIN test_set : table[k] \in S} = Row(S)
  BY <1>1 DEF Row
<1>3. phase = "done" => \A k \in 1 .. 13 :
        table[k] # -1 <=> test_fname \in {NULL, test_set[k].name}
  <2>1. phase = "done" => \A k \in 1 .. 13 : k < i
    BY DEF PlaceInv
  <2> QED BY <2>1 DEF TotalsInv
<1> QED BY <1>1, <1>2, <1>3 DEF TotalsInv, TotalsAddUp

(* The harness keeps to PlaceInv, whatever options and alarms come.        *)
LEMMA PlaceAlways == BtestSpec => []PlaceInv
BY PlaceInit, PlaceNext, PTL DEF BtestSpec

(* gen_vals never writes beyond the array of MAX_TEST_VALS words, if there *)
(* are at least four values for a region of a word.                        *)
THEOREM ValuesAlwaysFit == BtestSpec => []ValuesFit
<1>1. PlaceInv => ValuesFit
  <2> SUFFICES ASSUME PlaceInv PROVE ValuesFit
    OBVIOUS
  <2>1. ASSUME NEW k \in DOMAIN vals
        PROVE  Len(vals[k]) <= MAX_TEST_VALS
    <3>1. Len(vals[k]) \in 1 .. MAX_TEST_VALS
      BY DEF PlaceInv, ValsFit
    <3> QED BY <3>1
  <2> QED BY <2>1 DEF PlaceInv, ValuesFit
<1> QED BY <1>1, PlaceAlways, PTL

(* A puzzle passes only when its test agreed with the reference on every   *)
(* combination of values, and fails on the one reported, as the first in   *)
(* the order of the loops, or because an alarm went off.                   *)
THEOREM VerdictsHaveReasons == BtestSpec => []VerdictHasReason
BY PlaceAlways, VerdictInit, VerdictNext, VerdictIsReasoned, PTL DEF BtestSpec

(* The totals printed are those of the puzzles that were tested, and when  *)
(* main returns these are the puzzles that -f lets be tested.              *)
THEOREM TotalsAlwaysAddUp == BtestSpec => []TotalsAddUp
BY PlaceAlways, TotalsInit, TotalsNext, TotalsAreTheSums, PTL DEF BtestSpec
=============================================================================
