----------------------------- MODULE CsimProofs -----------------------------
(***************************************************************************)
(* For every geometry and every trace: the lines of csim.c stay distinct   *)
(* in tag and stamp, its counters match its lines, and it implements the   *)
(* LRU cache of Lru.                                                       *)
(***************************************************************************)
EXTENDS Csim, DataLemmas, FiniteSetTheorems

(* An address has a set of the cache and a natural number as its tag.      *)
LEMMA AddressFacts ==
  ASSUME NEW a \in Nat
  PROVE  SetOf(a) \in Sets /\ TagOf(a) \in Nat
<1>1. 2^s \in Nat \ {0} /\ 2^b \in Nat \ {0} /\ 2^(s + b) \in Nat \ {0} /\ 2^AddrBits \in Nat \ {0}
  BY PowerAssumption
<1>2. \A x \in Nat, n \in Nat \ {0} : x % n \in 0 .. n - 1
  OBVIOUS
<1>3. \A x \in Nat, n \in Nat \ {0} : x \div n \in Nat
  OBVIOUS
<1> DEFINE x == Read(a)
<1>4. x \in Nat
  <2>1. a % 2^AddrBits \in 0 .. 2^AddrBits - 1
    BY <1>1, <1>2
  <2> QED BY <2>1, <1>1 DEF Read
<1>5. x \div 2^b \in Nat
  BY <1>1, <1>3, <1>4
<1>6. (x \div 2^b) % 2^s \in 0 .. 2^s - 1
  BY <1>1, <1>2, <1>5
<1>7. x \div 2^(s + b) \in Nat
  BY <1>1, <1>3, <1>4
<1> QED BY <1>6, <1>7 DEF SetOf, TagOf, Sets
-----------------------------------------------------------------------------
Line == [valid_bit : BOOLEAN, tag : Nat \cup {-1}, stamp : Nat \cup {-1}]
Caches == [Sets -> [Ways -> Line]]

(* A line is in use, with a tag and a stamp, or as it was at the start.    *)
UsedOrBlank(c) ==
  \A i \in Sets : \A j \in Ways :
    IF c[i][j].valid_bit THEN c[i][j].tag \in Nat /\ c[i][j].stamp \in Nat
    ELSE c[i][j].tag = -1 /\ c[i][j].stamp = -1

(* The used lines of a set differ in tag and in stamp.                     *)
Distinct(c) ==
  \A i \in Sets : \A j, k \in Ways :
    /\ c[i][j].valid_bit /\ c[i][k].valid_bit
    /\ c[i][j].tag = c[i][k].tag \/ c[i][j].stamp = c[i][k].stamp
    => j = k

(* Since time passed last, no line was used but that of tag t in set i.    *)
UsedSince(c, i, t) ==
  \A h \in Sets : \A j \in Ways :
    c[h][j].valid_bit /\ c[h][j].stamp = 0 => h = i /\ c[h][j].tag = t

Sound(c) == c \in Caches /\ UsedOrBlank(c) /\ Distinct(c)

Placed(c, i, w, t) == [c EXCEPT ![i][w] = Fresh(t)]

(* The three things update may find.                                       *)
HitAt(c, i, t, w) == c[i][w].valid_bit /\ c[i][w].tag = t
Missed(c, i, t) == \A j \in Ways : c[i][j].tag # t
FillAt(c, i, t, w) == Missed(c, i, t) /\ ~c[i][w].valid_bit
EvictAt(c, i, t, w) == /\ Missed(c, i, t)
                       /\ \A j \in Ways : c[i][j].valid_bit /\ c[i][j].stamp <= c[i][w].stamp

(* A full set has an oldest line.                                          *)
LEMMA OldestExists ==
  ASSUME NEW set \in [Ways -> Line], \A j \in Ways : set[j].stamp \in Nat
  PROVE  Oldest(set) # {}
<1> DEFINE f == [j \in 0 .. E - 1 |-> set[j].stamp]
           S == {set[j].stamp : j \in Ways}
<1>1. f \in [0 .. E - 1 -> Nat]
  BY DEF Ways
<1>2. E \in Nat /\ 0 \in Ways
  BY GeometryAssumption DEF Ways
<1>3. PICK bound \in Nat : \A j \in 0 .. E - 1 : f[j] <= bound
  <2> HIDE DEF f
  <2> QED BY <1>1, <1>2, BoundedValues
<1>4. \A x \in S : x <= bound
  BY <1>3 DEF Ways
<1>5. S \in SUBSET Nat /\ S # {}
  BY <1>2
<1>6. Max(S) \in S /\ \A x \in S : x <= Max(S)
  <2> HIDE DEF S
  <2> QED BY <1>4, <1>5, MaxOfNats
<1>7. PICK j \in Ways : \A k \in Ways : set[k].stamp <= set[j].stamp
  BY <1>6
<1> QED BY <1>7 DEF Oldest

(* On a used line, a new stamp is all that sets it apart from a fresh one. *)
LEMMA StampFacts ==
  ASSUME NEW l \in Line, l.valid_bit
  PROVE  [l EXCEPT !.stamp = 0] = Fresh(l.tag)
<1>1. l = [valid_bit |-> l.valid_bit, tag |-> l.tag, stamp |-> l.stamp]
  BY DEF Line
<1>2. ASSUME NEW v, NEW g, NEW x
      PROVE  [[valid_bit |-> v, tag |-> g, stamp |-> x] EXCEPT !.stamp = 0]
             = [valid_bit |-> v, tag |-> g, stamp |-> 0]
  OBVIOUS
<1>3. [l EXCEPT !.stamp = 0] = [valid_bit |-> l.valid_bit, tag |-> l.tag, stamp |-> 0]
  BY <1>1, <1>2, ZenonT(60)
<1>4. l.valid_bit = TRUE
  BY DEF Line
<1> QED BY <1>3, <1>4 DEF Fresh

(* update places the tag in one line of its set, found in one of three     *)
(* ways, and counts accordingly.                                           *)
LEMMA UpdateFacts ==
  ASSUME NEW c, Sound(c), NEW h, NEW m, NEW e, NEW a \in Nat,
         NEW i, i = SetOf(a), NEW t, t = TagOf(a)
  PROVE  \E w \in Ways :
           \/ /\ HitAt(c, i, t, w)
              /\ update(State(c, h, m, e), a) = State(Placed(c, i, w, t), h + 1, m, e)
           \/ /\ FillAt(c, i, t, w)
              /\ update(State(c, h, m, e), a) = State(Placed(c, i, w, t), h, m + 1, e)
           \/ /\ EvictAt(c, i, t, w)
              /\ update(State(c, h, m, e), a) = State(Placed(c, i, w, t), h, m + 1, e + 1)
<1>1. i \in Sets /\ t \in Nat
  BY AddressFacts
<1>2. c[i] \in [Ways -> Line] /\ Ways \in SUBSET Nat
  BY <1>1, GeometryAssumption DEF Sound, Caches, Ways
<1>3. /\ State(c, h, m, e).cache = c /\ State(c, h, m, e).hits = h
      /\ State(c, h, m, e).miss = m /\ State(c, h, m, e).eviction = e
  BY DEF State
<1>4. CASE Matching(c[i], t) # {}
  <2> DEFINE w == Min(Matching(c[i], t))
  <2>1. Matching(c[i], t) \in SUBSET Nat
    BY <1>2 DEF Matching
  <2>2. w \in Ways /\ c[i][w].tag = t
    BY <1>4, <2>1, MinOfNats DEF Matching
  <2> HIDE DEF w
  <2>3. c[i][w].valid_bit
    BY <1>1, <2>2 DEF Sound, UsedOrBlank
  <2>4. [c[i][w] EXCEPT !.stamp = 0] = Fresh(t)
    <3>1. c[i][w] \in Line
      BY <1>2, <2>2
    <3> QED BY <2>2, <2>3, <3>1, StampFacts
  <2>5. update(State(c, h, m, e), a) = State([c EXCEPT ![i][w].stamp = 0], h + 1, m, e)
    BY <1>3, <1>4 DEF update, w
  <2>6. [c EXCEPT ![i][w].stamp = 0] = Placed(c, i, w, t)
    <3>1. [c EXCEPT ![i][w].stamp = 0]
            = [c EXCEPT ![i] = [c[i] EXCEPT ![w] = [c[i][w] EXCEPT !.stamp = 0]]]
      OBVIOUS
    <3>2. Placed(c, i, w, t) = [c EXCEPT ![i] = [c[i] EXCEPT ![w] = Fresh(t)]]
      BY DEF Placed
    <3> QED BY <2>4, <3>1, <3>2
  <2> QED BY <2>2, <2>3, <2>5, <2>6 DEF HitAt
<1>5. CASE Matching(c[i], t) = {}
  <2>1. Missed(c, i, t)
    BY <1>5 DEF Matching, Missed
  <2>2. update(State(c, h, m, e), a) = Miss(State(c, h, m, e), i, t)
    BY <1>3, <1>5 DEF update
  <2>3. CASE Empty(c[i]) # {}
    <3> DEFINE w == Min(Empty(c[i]))
    <3>1. Empty(c[i]) \in SUBSET Nat
      BY <1>2 DEF Empty
    <3>2. w \in Ways /\ ~c[i][w].valid_bit
      BY <2>3, <3>1, MinOfNats DEF Empty
    <3> HIDE DEF w
    <3>3. Miss(State(c, h, m, e), i, t) = State(Placed(c, i, w, t), h, m + 1, e)
      BY <1>3, <2>3 DEF Miss, Placed, w
    <3> QED BY <2>1, <2>2, <3>2, <3>3 DEF FillAt
  <2>4. CASE Empty(c[i]) = {}
    <3> DEFINE w == Min(Oldest(c[i]))
    <3>1. Oldest(c[i]) \in SUBSET Nat
      BY <1>2 DEF Oldest
    <3>2. \A j \in Ways : c[i][j].valid_bit /\ c[i][j].stamp \in Nat
      BY <2>4, <1>1 DEF Empty, Sound, UsedOrBlank
    <3>3. Oldest(c[i]) # {}
      BY <1>2, <3>2, OldestExists
    <3>4. w \in Ways /\ \A j \in Ways : c[i][j].stamp <= c[i][w].stamp
      BY <3>1, <3>3, MinOfNats DEF Oldest
    <3> HIDE DEF w
    <3>5. Miss(State(c, h, m, e), i, t) = State(Placed(c, i, w, t), h, m + 1, e + 1)
      BY <1>3, <2>4 DEF Miss, Placed, w
    <3> QED BY <2>1, <2>2, <3>2, <3>4, <3>5 DEF EvictAt
  <2> QED BY <2>3, <2>4
<1> QED BY <1>4, <1>5
-----------------------------------------------------------------------------
(* A line that can only be the one with the tag.                           *)
Spot(c, i, t, w) == \A j \in Ways : c[i][j].tag = t => j = w

(* Wherever update puts a tag, no other line of the set has it.            *)
LEMMA SpotFacts ==
  ASSUME NEW c, Sound(c), NEW i \in Sets, NEW t \in Nat, NEW w \in Ways,
         HitAt(c, i, t, w) \/ FillAt(c, i, t, w) \/ EvictAt(c, i, t, w)
  PROVE  Spot(c, i, t, w)
<1>1. CASE HitAt(c, i, t, w)
  <2> SUFFICES ASSUME NEW j \in Ways, c[i][j].tag = t PROVE j = w
    BY DEF Spot
  <2>1. c[i][j].valid_bit
    BY DEF Sound, UsedOrBlank
  <2> QED BY <1>1, <2>1 DEF HitAt, Sound, Distinct
<1>2. CASE Missed(c, i, t)
  BY <1>2 DEF Missed, Spot
<1> QED BY <1>1, <1>2 DEF FillAt, EvictAt

(* The lines of a cache in which a tag has been placed.                    *)
LEMMA PlacedLines ==
  ASSUME NEW c \in Caches, NEW i \in Sets, NEW t \in Nat, NEW w \in Ways
  PROVE  /\ Placed(c, i, w, t) \in Caches
         /\ Placed(c, i, w, t)[i][w] = Fresh(t)
         /\ \A h \in Sets, j \in Ways :
              h # i \/ j # w => Placed(c, i, w, t)[h][j] = c[h][j]
<1>1. Fresh(t) \in Line
  BY DEF Fresh, Line
<1>2. c \in [Sets -> [Ways -> Line]]
  BY DEF Caches
<1>3. [c[i] EXCEPT ![w] = Fresh(t)] \in [Ways -> Line]
  BY <1>1, <1>2
<1>4. Placed(c, i, w, t) = [c EXCEPT ![i] = [c[i] EXCEPT ![w] = Fresh(t)]]
  BY DEF Placed
<1>5. Placed(c, i, w, t) \in [Sets -> [Ways -> Line]]
  BY <1>2, <1>3, <1>4
<1>6. Placed(c, i, w, t)[i] = [c[i] EXCEPT ![w] = Fresh(t)]
  BY <1>2, <1>4
<1>7. \A h \in Sets : h # i => Placed(c, i, w, t)[h] = c[h]
  BY <1>2, <1>4
<1>8. /\ Placed(c, i, w, t)[i][w] = Fresh(t)
      /\ \A j \in Ways : j # w => Placed(c, i, w, t)[i][j] = c[i][j]
  BY <1>2, <1>6
<1> QED BY <1>5, <1>7, <1>8 DEF Caches

(* A fresh line is used, has its tag and the stamp 0.                      *)
LEMMA FreshFields ==
  ASSUME NEW t
  PROVE  Fresh(t).valid_bit /\ Fresh(t).tag = t /\ Fresh(t).stamp = 0
BY DEF Fresh

(* Placing a tag keeps the cache sound and is the only use it records.     *)
LEMMA PlacedSound ==
  ASSUME NEW c, Sound(c), NEW i \in Sets, NEW t \in Nat, NEW w \in Ways,
         Spot(c, i, t, w), UsedSince(c, i, t)
  PROVE  Sound(Placed(c, i, w, t)) /\ UsedSince(Placed(c, i, w, t), i, t)
<1> DEFINE d == Placed(c, i, w, t)
<1>1. /\ d \in Caches /\ d[i][w] = Fresh(t)
      /\ \A h \in Sets, j \in Ways : h # i \/ j # w => d[h][j] = c[h][j]
  BY PlacedLines DEF Sound
<1> HIDE DEF d
<1>2. d[i][w].valid_bit /\ d[i][w].tag = t /\ d[i][w].stamp = 0
  BY <1>1, FreshFields
<1>3. UsedOrBlank(d)
  <2> SUFFICES ASSUME NEW h \in Sets, NEW j \in Ways
               PROVE  IF d[h][j].valid_bit THEN d[h][j].tag \in Nat /\ d[h][j].stamp \in Nat
                      ELSE d[h][j].tag = -1 /\ d[h][j].stamp = -1
    BY DEF UsedOrBlank
  <2>1. CASE h = i /\ j = w
    BY <2>1, <1>2
  <2>2. CASE h # i \/ j # w
    <3>1. d[h][j] = c[h][j]
      BY <2>2, <1>1
    <3> QED BY <3>1 DEF Sound, UsedOrBlank
  <2> QED BY <2>1, <2>2
<1>4. UsedSince(d, i, t)
  <2> SUFFICES ASSUME NEW h \in Sets, NEW j \in Ways, d[h][j].valid_bit, d[h][j].stamp = 0
               PROVE  h = i /\ d[h][j].tag = t
    BY DEF UsedSince
  <2>1. CASE h = i /\ j = w
    BY <2>1, <1>2
  <2>2. CASE h # i \/ j # w
    <3>1. d[h][j] = c[h][j]
      BY <2>2, <1>1
    <3> QED BY <3>1 DEF UsedSince
  <2> QED BY <2>1, <2>2
<1>5. Distinct(d)
  <2> SUFFICES ASSUME NEW h \in Sets, NEW j \in Ways, NEW k \in Ways,
                      d[h][j].valid_bit, d[h][k].valid_bit,
                      d[h][j].tag = d[h][k].tag \/ d[h][j].stamp = d[h][k].stamp
               PROVE  j = k
    BY DEF Distinct
  <2>1. ASSUME NEW x \in Ways, NEW y \in Ways, h = i, x = w, y # w, d[i][y].valid_bit
        PROVE  d[i][y].tag # t /\ d[i][y].stamp # 0
    <3>1. d[i][y] = c[i][y]
      BY <2>1, <1>1
    <3>2. c[i][y].tag # t
      BY <2>1 DEF Spot
    <3>3. c[i][y].stamp # 0
      BY <2>1, <3>1, <3>2 DEF UsedSince
    <3> QED BY <3>1, <3>2, <3>3
  <2>2. CASE h = i /\ (j = w \/ k = w)
    BY <2>1, <2>2, <1>2
  <2>3. CASE h # i \/ (j # w /\ k # w)
    <3>1. d[h][j] = c[h][j] /\ d[h][k] = c[h][k]
      BY <2>3, <1>1
    <3> QED BY <3>1 DEF Sound, Distinct
  <2> QED BY <2>2, <2>3
<1> QED BY <1>1, <1>3, <1>4, <1>5 DEF Sound, d

(* update_time adds one to the stamps of used lines and changes no other.  *)
LEMMA TimeLines ==
  ASSUME NEW c, Sound(c), NEW i \in Sets, NEW j \in Ways
  PROVE  /\ update_time(c) \in Caches
         /\ update_time(c)[i][j].valid_bit = c[i][j].valid_bit
         /\ update_time(c)[i][j].tag = c[i][j].tag
         /\ update_time(c)[i][j].stamp =
              IF c[i][j].valid_bit THEN c[i][j].stamp + 1 ELSE -1
<1> DEFINE aged(h, k) == IF c[h][k].valid_bit THEN [c[h][k] EXCEPT !.stamp = @ + 1] ELSE c[h][k]
<1>1. ASSUME NEW h \in Sets, NEW k \in Ways
      PROVE  /\ aged(h, k) \in Line
             /\ aged(h, k).valid_bit = c[h][k].valid_bit
             /\ aged(h, k).tag = c[h][k].tag
             /\ aged(h, k).stamp = IF c[h][k].valid_bit THEN c[h][k].stamp + 1 ELSE -1
  <2>1. c[h][k] \in Line
    BY DEF Sound, Caches
  <2>2. CASE c[h][k].valid_bit
    <3>1. c[h][k].stamp + 1 \in Nat
      BY <2>2 DEF Sound, UsedOrBlank
    <3>2. aged(h, k) = [c[h][k] EXCEPT !.stamp = c[h][k].stamp + 1]
      BY <2>2
    <3> HIDE DEF aged
    <3>3. /\ aged(h, k) \in Line
          /\ aged(h, k).valid_bit = c[h][k].valid_bit
          /\ aged(h, k).tag = c[h][k].tag
          /\ aged(h, k).stamp = c[h][k].stamp + 1
      BY <2>1, <3>1, <3>2 DEF Line
    <3> QED BY <2>2, <3>3
  <2>3. CASE ~c[h][k].valid_bit
    <3>1. aged(h, k) = c[h][k]
      BY <2>3
    <3>2. c[h][k].stamp = -1
      BY <2>3 DEF Sound, UsedOrBlank
    <3> HIDE DEF aged
    <3> QED BY <2>1, <2>3, <3>1, <3>2
  <2> QED BY <2>2, <2>3
<1>2. update_time(c) = [h \in Sets |-> [k \in Ways |-> aged(h, k)]]
  BY DEF update_time
<1> HIDE DEF aged
<1>3. update_time(c)[i][j] = aged(i, j)
  BY <1>2
<1>4. update_time(c) \in Caches
  BY <1>1, <1>2 DEF Caches
<1> QED BY <1>1, <1>3, <1>4

(* Time keeps a cache sound, and leaves no used line with the stamp 0.     *)
LEMMA TimeSound ==
  ASSUME NEW c, Sound(c)
  PROVE  /\ Sound(update_time(c))
         /\ \A i \in Sets, j \in Ways :
              update_time(c)[i][j].valid_bit => update_time(c)[i][j].stamp >= 1
<1> DEFINE d == update_time(c)
<1>1. \A i \in Sets, j \in Ways :
        /\ d[i][j].valid_bit = c[i][j].valid_bit
        /\ d[i][j].tag = c[i][j].tag
        /\ d[i][j].stamp = IF c[i][j].valid_bit THEN c[i][j].stamp + 1 ELSE -1
  BY TimeLines
<1>2. d \in Caches
  <2>1. 0 \in Sets /\ 0 \in Ways
    <3>1. 2^s \in Nat \ {0}
      BY PowerAssumption
    <3> QED BY <3>1, GeometryAssumption DEF Sets, Ways
  <2> QED BY <2>1, TimeLines
<1> HIDE DEF d
<1>3. \A i \in Sets, j \in Ways :
        c[i][j].valid_bit => c[i][j].tag \in Nat /\ c[i][j].stamp \in Nat
  BY DEF Sound, UsedOrBlank
<1>4. UsedOrBlank(d)
  <2> SUFFICES ASSUME NEW i \in Sets, NEW j \in Ways
               PROVE  IF d[i][j].valid_bit THEN d[i][j].tag \in Nat /\ d[i][j].stamp \in Nat
                      ELSE d[i][j].tag = -1 /\ d[i][j].stamp = -1
    BY DEF UsedOrBlank
  <2>1. CASE c[i][j].valid_bit
    BY <2>1, <1>1, <1>3
  <2>2. CASE ~c[i][j].valid_bit
    <3>1. c[i][j].tag = -1
      BY <2>2 DEF Sound, UsedOrBlank
    <3> QED BY <2>2, <3>1, <1>1
  <2> QED BY <2>1, <2>2
<1>5. Distinct(d)
  <2> SUFFICES ASSUME NEW i \in Sets, NEW j \in Ways, NEW k \in Ways,
                      d[i][j].valid_bit, d[i][k].valid_bit,
                      d[i][j].tag = d[i][k].tag \/ d[i][j].stamp = d[i][k].stamp
               PROVE  j = k
    BY DEF Distinct
  <2>1. c[i][j].valid_bit /\ c[i][k].valid_bit
    BY <1>1
  <2>2. c[i][j].tag = c[i][k].tag \/ c[i][j].stamp = c[i][k].stamp
    BY <1>1, <1>3, <2>1
  <2> QED BY <2>1, <2>2 DEF Sound, Distinct
<1>6. \A i \in Sets, j \in Ways : d[i][j].valid_bit => d[i][j].stamp >= 1
  BY <1>1, <1>3
<1> QED BY <1>2, <1>4, <1>5, <1>6 DEF Sound, d
-----------------------------------------------------------------------------
(* Every stamp was reached within the lines read.                          *)
StampBound == \A i \in Sets : \A j \in Ways : cache[i][j].stamp <= lines

Inv == TypeOK /\ UnusedNeverMatch /\ LinesDistinct /\ StampBound

(* The invariant, in terms of the cache alone.                             *)
LEMMA InvSound ==
  ASSUME Inv
  PROVE  /\ Sound(cache)
         /\ \A i, t : UsedSince(cache, i, t)
<1>1. cache \in Caches
  <2>1. cache \in [Sets -> [Ways -> cache_line]]
    BY DEF Inv, TypeOK
  <2>2. cache_line \subseteq Line
    <3>1. -1 .. MaxLines \subseteq Nat \cup {-1}
      BY TraceAssumption
    <3> QED BY <3>1 DEF cache_line, Line
  <2> QED BY <2>1, <2>2 DEF Caches
<1>2. ASSUME NEW i \in Sets, NEW j \in Ways
      PROVE  IF cache[i][j].valid_bit THEN cache[i][j].tag \in Nat /\ cache[i][j].stamp >= 1
             ELSE cache[i][j].tag = -1
  BY DEF Inv, UnusedNeverMatch, Valid
<1>3. ASSUME NEW i \in Sets, NEW j \in Ways
      PROVE  /\ cache[i][j].stamp \in Int
             /\ ~cache[i][j].valid_bit => cache[i][j].stamp = -1
  <2>1. cache[i][j] \in Line
    BY <1>1 DEF Caches
  <2>2. cache[i][j].stamp \in Int
    BY <2>1 DEF Line
  <2>3. ~cache[i][j].valid_bit => cache[i][j].stamp = -1
    BY DEF Inv, UnusedNeverMatch, Valid
  <2> QED BY <2>2, <2>3
<1>4. UsedOrBlank(cache)
  BY <1>2, <1>3 DEF UsedOrBlank
<1>5. Distinct(cache)
  BY DEF Inv, LinesDistinct, Valid, Distinct
<1>6. \A i, t : UsedSince(cache, i, t)
  <2>1. \A h \in Sets, j \in Ways : cache[h][j].valid_bit => cache[h][j].stamp # 0
    BY <1>2
  <2> QED BY <2>1 DEF UsedSince
<1> QED BY <1>1, <1>4, <1>5, <1>6 DEF Sound

(* The second update of a modify finds the line the first one left.        *)
LEMMA SecondHit ==
  ASSUME NEW c, Sound(c), NEW h, NEW m, NEW e, NEW a \in Nat,
         NEW i \in Sets, i = SetOf(a), NEW t \in Nat, t = TagOf(a), NEW w \in Ways,
         Spot(c, i, t, w), UsedSince(c, i, t)
  PROVE  update(State(Placed(c, i, w, t), h, m, e), a)
           = State(Placed(c, i, w, t), h + 1, m, e)
<1> DEFINE d == Placed(c, i, w, t)
<1>1. Sound(d)
  BY PlacedSound
<1>2. c \in Caches
  BY DEF Sound
<1>3. d[i][w] = Fresh(t)
  BY <1>2, PlacedLines
<1>4. PICK v \in Ways :
        \/ /\ HitAt(d, i, t, v)
           /\ update(State(d, h, m, e), a) = State(Placed(d, i, v, t), h + 1, m, e)
        \/ FillAt(d, i, t, v)
        \/ EvictAt(d, i, t, v)
  <2> HIDE DEF d
  <2> QED BY <1>1, UpdateFacts
<1>5. ~Missed(d, i, t)
  BY <1>3, FreshFields DEF Missed
<1>6. /\ HitAt(d, i, t, v)
      /\ update(State(d, h, m, e), a) = State(Placed(d, i, v, t), h + 1, m, e)
  BY <1>4, <1>5 DEF FillAt, EvictAt
<1>7. v = w
  <2>1. d[i][w].valid_bit /\ d[i][w].tag = t
    BY <1>3, FreshFields
  <2> HIDE DEF d
  <2> QED BY <1>1, <1>6, <2>1 DEF HitAt, Sound, Distinct
<1>8. Placed(d, i, w, t) = d
  <2>1. d \in [Sets -> [Ways -> Line]]
    BY <1>1 DEF Sound, Caches
  <2> HIDE DEF d
  <2>2. d[i] \in [Ways -> Line]
    BY <2>1
  <2>3. [d[i] EXCEPT ![w] = Fresh(t)] = d[i]
    BY <1>3, <2>2 DEF d
  <2>4. [d EXCEPT ![i] = d[i]] = d
    BY <2>1
  <2>5. Placed(d, i, w, t) = [d EXCEPT ![i] = [d[i] EXCEPT ![w] = Fresh(t)]]
    BY DEF Placed
  <2> QED BY <2>3, <2>4, <2>5
<1> HIDE DEF d
<1>9. update(State(d, h, m, e), a) = State(d, h + 1, m, e)
  BY <1>6, <1>7, <1>8
<1> QED BY <1>9 DEF d

(* What a line of the trace other than an instruction does.                *)
Access(a) == \/ LoadOrStore(a)
             \/ Modify(a)

AccessAs(i, t, w, times) ==
  /\ lines < MaxLines /\ lines' = lines + 1
  /\ used' = <<i, t, times>>
  /\ cache' = update_time(Placed(cache, i, w, t))
  /\ \/ /\ HitAt(cache, i, t, w)
        /\ number_hits' = number_hits + times
        /\ UNCHANGED <<number_miss, number_eviction>>
     \/ /\ FillAt(cache, i, t, w)
        /\ number_hits' = number_hits + times - 1
        /\ number_miss' = number_miss + 1
        /\ UNCHANGED number_eviction
     \/ /\ EvictAt(cache, i, t, w)
        /\ number_hits' = number_hits + times - 1
        /\ number_miss' = number_miss + 1
        /\ number_eviction' = number_eviction + 1

LEMMA AccessFacts ==
  ASSUME Inv, NEW a \in Addresses, Access(a),
         NEW i, i = SetOf(a), NEW t, t = TagOf(a)
  PROVE  /\ i \in Sets /\ t \in Nat
         /\ \E w \in Ways, times \in {1, 2} :
              Spot(cache, i, t, w) /\ AccessAs(i, t, w, times)
<1>1. a \in Nat /\ i \in Sets /\ t \in Nat
  BY AddressFacts, TraceAssumption
<1>2. Sound(cache) /\ UsedSince(cache, i, t)
  BY InvSound
<1>3. number_hits \in Nat /\ number_miss \in Nat /\ number_eviction \in Nat
  BY DEF Inv, TypeOK
<1> DEFINE up(n) == IF n = 1 THEN update(Now, a) ELSE update(update(Now, a), a)
<1>4. PICK times \in {1, 2} : ReadLine(up(times)) /\ used' = <<i, t, times>>
  BY DEF Access, LoadOrStore, Modify, Asks
<1>5. \A c, h, m, e : /\ State(c, h, m, e).cache = c /\ State(c, h, m, e).hits = h
                      /\ State(c, h, m, e).miss = m /\ State(c, h, m, e).eviction = e
  BY DEF State
<1>6. PICK w \in Ways, h \in Nat, m \in Nat, e \in Nat :
        /\ update(Now, a) = State(Placed(cache, i, w, t), h, m, e)
        /\ \/ /\ HitAt(cache, i, t, w)
              /\ h = number_hits + 1 /\ m = number_miss /\ e = number_eviction
           \/ /\ FillAt(cache, i, t, w)
              /\ h = number_hits /\ m = number_miss + 1 /\ e = number_eviction
           \/ /\ EvictAt(cache, i, t, w)
              /\ h = number_hits /\ m = number_miss + 1 /\ e = number_eviction + 1
  <2>1. PICK w \in Ways :
           \/ /\ HitAt(cache, i, t, w)
              /\ update(Now, a)
                   = State(Placed(cache, i, w, t), number_hits + 1, number_miss, number_eviction)
           \/ /\ FillAt(cache, i, t, w)
              /\ update(Now, a)
                   = State(Placed(cache, i, w, t), number_hits, number_miss + 1, number_eviction)
           \/ /\ EvictAt(cache, i, t, w)
              /\ update(Now, a) = State(Placed(cache, i, w, t), number_hits,
                                        number_miss + 1, number_eviction + 1)
    BY <1>1, <1>2, UpdateFacts DEF Now
  <2>2. number_hits + 1 \in Nat /\ number_miss + 1 \in Nat /\ number_eviction + 1 \in Nat
    BY <1>3
  <2> QED BY <2>1, <2>2, <1>3
<1>7. Spot(cache, i, t, w)
  BY <1>1, <1>2, <1>6, SpotFacts
<1>8. up(times) = State(Placed(cache, i, w, t), h + times - 1, m, e)
  <2>1. CASE times = 1
    <3>1. h + times - 1 = h
      BY <2>1
    <3> QED BY <2>1, <3>1, <1>6
  <2>2. CASE times = 2
    <3>1. h + times - 1 = h + 1
      BY <2>2
    <3>2. update(update(Now, a), a) = State(Placed(cache, i, w, t), h + 1, m, e)
      BY <1>1, <1>2, <1>6, <1>7, SecondHit
    <3> QED BY <2>2, <3>1, <3>2
  <2> QED BY <2>1, <2>2
<1> HIDE DEF up
<1>9. /\ lines < MaxLines /\ lines' = lines + 1
      /\ cache' = update_time(Placed(cache, i, w, t))
      /\ number_hits' = h + times - 1 /\ number_miss' = m /\ number_eviction' = e
  BY <1>4, <1>5, <1>8 DEF ReadLine
<1>10. AccessAs(i, t, w, times)
  <2>1. times \in Nat
    BY <1>4
  <2> QED BY <2>1, <1>3, <1>4, <1>6, <1>9 DEF AccessAs
<1> QED BY <1>1, <1>7, <1>10
-----------------------------------------------------------------------------
(* The end of every line of the trace: time passes for a cache d whose     *)
(* stamps were reached within the lines read before.                       *)
LEMMA TimePasses ==
  ASSUME NEW d, Sound(d), \A i \in Sets, j \in Ways : d[i][j].stamp <= lines,
         lines \in Nat, MaxLines \in Nat, lines < MaxLines, lines' = lines + 1,
         cache' = update_time(d)
  PROVE  /\ (cache \in [Sets -> [Ways -> cache_line]])'
         /\ UnusedNeverMatch' /\ LinesDistinct' /\ StampBound'
<1>1. /\ Sound(cache')
      /\ \A i \in Sets, j \in Ways : cache'[i][j].valid_bit => cache'[i][j].stamp >= 1
  BY TimeSound
<1>2. ASSUME NEW i \in Sets, NEW j \in Ways
      PROVE  cache'[i][j].stamp <= lines + 1 /\ cache'[i][j].stamp \in -1 .. MaxLines
  <2>1. cache'[i][j].stamp = IF d[i][j].valid_bit THEN d[i][j].stamp + 1 ELSE -1
    BY TimeLines
  <2>2. d[i][j].valid_bit => d[i][j].stamp \in Nat
    BY DEF Sound, UsedOrBlank
  <2>3. CASE d[i][j].valid_bit
    BY <2>1, <2>2, <2>3
  <2>4. CASE ~d[i][j].valid_bit
    BY <2>1, <2>4
  <2> QED BY <2>3, <2>4
<1>3. cache' \in [Sets -> [Ways -> cache_line]]
  <2>1. cache' \in [Sets -> [Ways -> Line]]
    BY <1>1 DEF Sound, Caches
  <2>2. \A l \in Line : l.stamp \in -1 .. MaxLines => l \in cache_line
    BY DEF Line, cache_line
  <2>3. \A i \in Sets, j \in Ways : cache'[i][j] \in cache_line
    BY <1>2, <2>1, <2>2
  <2> QED BY <2>1, <2>3
<1>4. UnusedNeverMatch'
  BY <1>1 DEF UnusedNeverMatch, Valid, Sound, UsedOrBlank
<1>5. LinesDistinct'
  BY <1>1 DEF LinesDistinct, Valid, Sound, Distinct
<1>6. StampBound'
  BY <1>2 DEF StampBound
<1> QED BY <1>3, <1>4, <1>5, <1>6 DEF Sets, Ways, cache_line

(* A load, a store or a modify keeps the invariant.                        *)
LEMMA AccessKeepsInv ==
  ASSUME Inv, NEW a \in Addresses, Access(a)
  PROVE  Inv'
<1> DEFINE i == SetOf(a)
           t == TagOf(a)
<1>1. i \in Sets /\ t \in Nat
  BY AccessFacts
<1>2. PICK w \in Ways, times \in {1, 2} :
        Spot(cache, i, t, w) /\ AccessAs(i, t, w, times)
  BY AccessFacts
<1> HIDE DEF i, t
<1> DEFINE d == Placed(cache, i, w, t)
<1>3. Sound(cache) /\ UsedSince(cache, i, t) /\ cache \in Caches
  BY InvSound DEF Sound
<1>4. Sound(d)
  BY <1>1, <1>2, <1>3, PlacedSound
<1>5. /\ lines \in 0 .. MaxLines /\ MaxLines \in Nat
      /\ number_hits \in Nat /\ number_miss \in Nat /\ number_eviction \in Nat
  BY TraceAssumption DEF Inv, TypeOK
<1>6. /\ d[i][w] = Fresh(t)
      /\ \A h \in Sets, j \in Ways : h # i \/ j # w => d[h][j] = cache[h][j]
  BY <1>1, <1>3, PlacedLines
<1>7. \A h \in Sets, j \in Ways : d[h][j].stamp <= lines
  <2>1. d[i][w].stamp = 0
    BY <1>6, FreshFields
  <2> HIDE DEF d
  <2>2. \A h \in Sets, j \in Ways : cache[h][j].stamp <= lines
    BY DEF Inv, StampBound
  <2> QED BY <1>5, <1>6, <2>1, <2>2
<1> HIDE DEF d
<1>8. lines < MaxLines /\ lines' = lines + 1 /\ cache' = update_time(d)
  BY <1>2 DEF AccessAs, d
<1>9. /\ (cache \in [Sets -> [Ways -> cache_line]])'
      /\ UnusedNeverMatch' /\ LinesDistinct' /\ StampBound'
  BY <1>4, <1>5, <1>7, <1>8, TimePasses
<1>10. number_hits' \in Nat /\ number_miss' \in Nat /\ number_eviction' \in Nat
  BY <1>2, <1>5 DEF AccessAs
<1>11. lines' \in 0 .. MaxLines /\ used' \in Sets \X Nat \X {1, 2}
  BY <1>1, <1>2, <1>5 DEF AccessAs
<1> QED BY <1>9, <1>10, <1>11 DEF Inv, TypeOK

LEMMA InvInductive == Inv /\ [Next]_vars => Inv'
<1> SUFFICES ASSUME Inv, [Next]_vars PROVE Inv'
  OBVIOUS
<1>1. ASSUME NEW a \in Addresses, LoadOrStore(a) \/ Modify(a)
      PROVE  Inv'
  BY <1>1, AccessKeepsInv DEF Access
<1>2. CASE Instruction
  <2>1. /\ lines < MaxLines /\ lines' = lines + 1 /\ cache' = update_time(cache)
        /\ UNCHANGED <<number_hits, number_miss, number_eviction>> /\ used' = <<>>
    BY <1>2 DEF Instruction, ReadLine, Now, State
  <2>2. lines \in 0 .. MaxLines /\ MaxLines \in Nat
    BY TraceAssumption DEF Inv, TypeOK
  <2>3. \A i \in Sets, j \in Ways : cache[i][j].stamp <= lines
    BY DEF Inv, StampBound
  <2>4. Sound(cache)
    BY InvSound
  <2>5. /\ (cache \in [Sets -> [Ways -> cache_line]])'
        /\ UnusedNeverMatch' /\ LinesDistinct' /\ StampBound'
    BY <2>1, <2>2, <2>3, <2>4, TimePasses
  <2> QED BY <2>1, <2>2, <2>5 DEF Inv, TypeOK
<1>3. CASE UNCHANGED vars
  BY <1>3 DEF vars, Inv, TypeOK, UnusedNeverMatch, LinesDistinct, StampBound, Valid
<1> QED BY <1>1, <1>2, <1>3 DEF Next

LEMMA InvInitial == Init => Inv
<1> SUFFICES ASSUME Init PROVE Inv
  OBVIOUS
<1>1. cache = [i \in Sets |-> [j \in Ways |-> [valid_bit |-> FALSE, tag |-> -1, stamp |-> -1]]]
  BY DEF Init
<1>2. \A i \in Sets, j \in Ways :
        cache[i][j] = [valid_bit |-> FALSE, tag |-> -1, stamp |-> -1]
  BY <1>1
<1>3. [valid_bit |-> FALSE, tag |-> -1, stamp |-> -1] \in cache_line
  BY TraceAssumption DEF cache_line
<1>4. TypeOK
  BY <1>1, <1>3, TraceAssumption DEF Init, TypeOK
<1>5. \A i \in Sets : Valid(i) = {}
  BY <1>2 DEF Valid
<1>6. UnusedNeverMatch /\ LinesDistinct
  BY <1>2, <1>5 DEF UnusedNeverMatch, LinesDistinct
<1>7. StampBound
  BY <1>2 DEF Init, StampBound
<1> QED BY <1>4, <1>6, <1>7 DEF Inv

LEMMA InvHolds == Spec => []Inv
  BY InvInitial, InvInductive, PTL DEF Spec

(* The cache, its counters and the last access have their types; no stamp  *)
(* exceeds the number of lines read.                                       *)
THEOREM TypeCorrect == Spec => []TypeOK
<1>1. Inv => TypeOK
  BY DEF Inv
<1> QED BY <1>1, InvHolds, PTL

(* For every geometry and trace: no tag has two lines of a set, and the    *)
(* line update evicts is the only oldest one.                              *)
THEOREM NoDoubles == Spec => []LinesDistinct
<1>1. Inv => LinesDistinct
  BY DEF Inv
<1> QED BY <1>1, InvHolds, PTL

(* For every geometry and trace: update may search by tag alone, as no     *)
(* unused line matches.                                                    *)
THEOREM SearchByTag == Spec => []UnusedNeverMatch
<1>1. Inv => UnusedNeverMatch
  BY DEF Inv
<1> QED BY <1>1, InvHolds, PTL
-----------------------------------------------------------------------------
(* The lines after an access: that of the tag is the newest, all others    *)
(* have grown older by one.                                                *)
LEMMA AccessLines ==
  ASSUME Inv, NEW i \in Sets, NEW t \in Nat, NEW w \in Ways,
         NEW times, Spot(cache, i, t, w), AccessAs(i, t, w, times)
  PROVE  /\ cache'[i][w].valid_bit /\ cache'[i][w].tag = t /\ cache'[i][w].stamp = 1
         /\ \A h \in Sets, j \in Ways : h # i \/ j # w =>
              /\ cache'[h][j].valid_bit = cache[h][j].valid_bit
              /\ cache'[h][j].tag = cache[h][j].tag
              /\ cache[h][j].valid_bit => cache'[h][j].stamp = cache[h][j].stamp + 1
         /\ \A h \in Sets, j \in Ways : cache[h][j].valid_bit =>
              cache[h][j].stamp \in Nat /\ cache[h][j].stamp >= 1
<1> DEFINE d == Placed(cache, i, w, t)
<1>1. Sound(cache) /\ UsedSince(cache, i, t) /\ cache \in Caches
  BY InvSound DEF Sound
<1>2. Sound(d)
  BY <1>1, PlacedSound
<1>3. /\ d[i][w] = Fresh(t)
      /\ \A h \in Sets, j \in Ways : h # i \/ j # w => d[h][j] = cache[h][j]
  BY <1>1, PlacedLines
<1> HIDE DEF d
<1>4. cache' = update_time(d)
  BY DEF AccessAs, d
<1>5. \A h \in Sets, j \in Ways :
        /\ cache'[h][j].valid_bit = d[h][j].valid_bit
        /\ cache'[h][j].tag = d[h][j].tag
        /\ cache'[h][j].stamp = IF d[h][j].valid_bit THEN d[h][j].stamp + 1 ELSE -1
  BY <1>2, <1>4, TimeLines
<1>6. d[i][w].valid_bit /\ d[i][w].tag = t /\ d[i][w].stamp = 0
  BY <1>3, FreshFields
<1>7. cache'[i][w].valid_bit /\ cache'[i][w].tag = t /\ cache'[i][w].stamp = 1
  BY <1>5, <1>6
<1>8. \A h \in Sets, j \in Ways : h # i \/ j # w =>
        /\ cache'[h][j].valid_bit = cache[h][j].valid_bit
        /\ cache'[h][j].tag = cache[h][j].tag
        /\ cache[h][j].valid_bit => cache'[h][j].stamp = cache[h][j].stamp + 1
  BY <1>3, <1>5
<1>9. \A h \in Sets, j \in Ways : cache[h][j].valid_bit =>
        cache[h][j].stamp \in Nat /\ cache[h][j].stamp >= 1
  BY <1>1 DEF Sound, UsedOrBlank, Inv, UnusedNeverMatch, Valid
<1> QED BY <1>7, <1>8, <1>9

(* A line of type I lets time pass for every line.                         *)
LEMMA InstructionLines ==
  ASSUME Inv, Instruction
  PROVE  /\ \A h \in Sets, j \in Ways :
              /\ cache'[h][j].valid_bit = cache[h][j].valid_bit
              /\ cache'[h][j].tag = cache[h][j].tag
              /\ cache[h][j].valid_bit => /\ cache'[h][j].stamp = cache[h][j].stamp + 1
                                          /\ cache[h][j].stamp \in Nat
         /\ lines' = lines + 1 /\ used' = <<>>
         /\ UNCHANGED <<number_hits, number_miss, number_eviction>>
<1>1. /\ cache' = update_time(cache) /\ lines' = lines + 1 /\ used' = <<>>
      /\ UNCHANGED <<number_hits, number_miss, number_eviction>>
  BY DEF Instruction, ReadLine, Now, State
<1>2. Sound(cache)
  BY InvSound
<1>3. \A h \in Sets, j \in Ways :
        /\ cache'[h][j].valid_bit = cache[h][j].valid_bit
        /\ cache'[h][j].tag = cache[h][j].tag
        /\ cache'[h][j].stamp = IF cache[h][j].valid_bit THEN cache[h][j].stamp + 1 ELSE -1
  BY <1>1, <1>2, TimeLines
<1>4. \A h \in Sets, j \in Ways : cache[h][j].valid_bit => cache[h][j].stamp \in Nat
  BY <1>2 DEF Sound, UsedOrBlank
<1> QED BY <1>1, <1>3, <1>4

(* The used lines are finitely many.                                       *)
LEMMA UsedLinesFinite == IsFiniteSet(UsedLines) /\ IsFiniteSet(Sets \X Ways)
<1>1. 2^s - 1 \in Int /\ E - 1 \in Int
  BY PowerAssumption, GeometryAssumption
<1>2. IsFiniteSet(Sets) /\ IsFiniteSet(Ways)
  BY <1>1, FS_Interval DEF Sets, Ways
<1>3. IsFiniteSet(Sets \X Ways)
  BY <1>2, FS_Product
<1>4. UsedLines \in SUBSET (Sets \X Ways)
  BY DEF UsedLines
<1> QED BY <1>3, <1>4, FS_Subset

(* Each step keeps misses, evictions and used lines in step.               *)
LEMMA MissesKept == Inv /\ MissesAccounted /\ [Next]_vars => MissesAccounted'
<1> SUFFICES ASSUME Inv, MissesAccounted, [Next]_vars PROVE MissesAccounted'
  OBVIOUS
<1>1. ASSUME NEW a \in Addresses, Access(a)
      PROVE  MissesAccounted'
  <2> DEFINE i == SetOf(a)
             t == TagOf(a)
  <2>1. i \in Sets /\ t \in Nat
    BY <1>1, AccessFacts
  <2>2. PICK w \in Ways, times \in {1, 2} :
          Spot(cache, i, t, w) /\ AccessAs(i, t, w, times)
    BY <1>1, AccessFacts
  <2> HIDE DEF i, t
  <2>3. /\ cache'[i][w].valid_bit
        /\ \A h \in Sets, j \in Ways :
             h # i \/ j # w => cache'[h][j].valid_bit = cache[h][j].valid_bit
    BY <2>1, <2>2, AccessLines
  <2>4. UsedLines' = UsedLines \cup {<<i, w>>}
    <3>1. \A p \in Sets \X Ways : p \in UsedLines' <=> p \in UsedLines \cup {<<i, w>>}
      BY <2>3 DEF UsedLines, Valid
    <3>2. UsedLines' \subseteq Sets \X Ways /\ UsedLines \cup {<<i, w>>} \subseteq Sets \X Ways
      BY <2>1 DEF UsedLines
    <3> QED BY <3>1, <3>2
  <2>5. <<i, w>> \in UsedLines <=> cache[i][w].valid_bit
    BY <2>1 DEF UsedLines, Valid
  <2>6. Cardinality(UsedLines') =
          IF cache[i][w].valid_bit THEN Cardinality(UsedLines) ELSE Cardinality(UsedLines) + 1
    BY <2>4, <2>5, UsedLinesFinite, FS_AddElement
  <2>7. Cardinality(UsedLines) \in Nat
    BY UsedLinesFinite, FS_CardinalityType
  <2>8. /\ number_miss \in Nat /\ number_eviction \in Nat
        /\ number_miss - number_eviction = Cardinality(UsedLines)
    BY DEF Inv, TypeOK, MissesAccounted
  <2>9. number_miss' - number_eviction' =
          IF cache[i][w].valid_bit THEN Cardinality(UsedLines) ELSE Cardinality(UsedLines) + 1
    BY <2>2, <2>7, <2>8 DEF AccessAs, HitAt, FillAt, EvictAt
  <2> QED BY <2>6, <2>9 DEF MissesAccounted
<1>2. CASE Instruction
  <2>1. /\ \A h \in Sets, j \in Ways : cache'[h][j].valid_bit = cache[h][j].valid_bit
        /\ UNCHANGED <<number_miss, number_eviction>>
    BY <1>2, InstructionLines
  <2>2. UsedLines' = UsedLines
    BY <2>1 DEF UsedLines, Valid
  <2> QED BY <2>1, <2>2 DEF MissesAccounted
<1>3. CASE UNCHANGED vars
  BY <1>3 DEF vars, MissesAccounted, UsedLines, Valid
<1> QED BY <1>1, <1>2, <1>3 DEF Next, Access

(* Misses less evictions are the lines in use.                             *)
THEOREM MissesBalance == Spec => []MissesAccounted
<1>1. Init => MissesAccounted
  <2> SUFFICES ASSUME Init PROVE MissesAccounted
    OBVIOUS
  <2>1. \A i \in Sets, j \in Ways : ~cache[i][j].valid_bit
    BY DEF Init
  <2>2. UsedLines = {}
    BY <2>1 DEF UsedLines, Valid
  <2>3. number_miss = 0 /\ number_eviction = 0
    BY DEF Init
  <2> QED BY <2>2, <2>3, FS_EmptySet DEF MissesAccounted
<1> QED BY <1>1, InvHolds, MissesKept, PTL DEF Spec
-----------------------------------------------------------------------------
(* A set has as many tags as used lines: fewer than E while a line is      *)
(* unused, and E when none is.                                             *)
LEMMA TagsCounted ==
  ASSUME Inv, NEW i \in Sets
  PROVE  /\ Valid(i) = Ways => Cardinality(CachedTags[i]) = E
         /\ Valid(i) # Ways => Cardinality(CachedTags[i]) < E
<1> DEFINE V == Valid(i)
           T == {cache[i][j].tag : j \in V}
           f == [j \in V |-> cache[i][j].tag]
<1>1. CachedTags[i] = T
  BY DEF CachedTags
<1>2. IsFiniteSet(Ways) /\ Cardinality(Ways) = E
  <2>1. 0 \in Int /\ E - 1 \in Int /\ ~(0 > E - 1)
    BY GeometryAssumption
  <2>2. IsFiniteSet(0 .. E - 1) /\ Cardinality(0 .. E - 1) = E - 1 - 0 + 1
    BY <2>1, FS_Interval
  <2> QED BY <2>2, GeometryAssumption DEF Ways
<1>3. V \in SUBSET Ways
  BY DEF Valid
<1>4. /\ IsFiniteSet(V)
      /\ Cardinality(V) <= E
      /\ Cardinality(V) = E => Ways = V
  BY <1>2, <1>3, FS_Subset
<1>5. \A j, k \in V : f[j] = f[k] => j = k
  BY DEF Inv, LinesDistinct
<1>6. f \in [V -> T] /\ \A x \in T : \E j \in V : f[j] = x
  OBVIOUS
<1> HIDE DEF f, T, V
<1>7. f \in Bijection(V, T)
  BY <1>5, <1>6 DEF Bijection, Injection, IsInjective, Surjection
<1>8. Cardinality(T) = Cardinality(V)
  BY <1>4, <1>7, FS_Bijection DEF ExistsBijection
<1>9. Cardinality(V) \in Nat
  BY <1>4, FS_CardinalityType
<1> QED BY <1>1, <1>2, <1>4, <1>8, <1>9, GeometryAssumption DEF V

(* The tags of a set but that of line w.                                   *)
Others(i, w) == {cache[i][j].tag : j \in Valid(i) \ {w}}

(* An access renews its tag, in front of those of the other lines.         *)
LEMMA AccessRenews ==
  ASSUME Inv, NEW i \in Sets, NEW t \in Nat, NEW w \in Ways,
         NEW times, Spot(cache, i, t, w), AccessAs(i, t, w, times)
  PROVE  Lru!Renew(i, Others(i, w), t)
<1>1. /\ cache'[i][w].valid_bit /\ cache'[i][w].tag = t /\ cache'[i][w].stamp = 1
      /\ \A h \in Sets, j \in Ways : h # i \/ j # w =>
           /\ cache'[h][j].valid_bit = cache[h][j].valid_bit
           /\ cache'[h][j].tag = cache[h][j].tag
           /\ cache[h][j].valid_bit => cache'[h][j].stamp = cache[h][j].stamp + 1
      /\ \A h \in Sets, j \in Ways : cache[h][j].valid_bit =>
           cache[h][j].stamp \in Nat /\ cache[h][j].stamp >= 1
  BY AccessLines
<1>2. Valid(i)' = (Valid(i) \ {w}) \cup {w}
  BY <1>1 DEF Valid
<1>3. \A h \in Sets : h # i => Valid(h)' = Valid(h)
  BY <1>1 DEF Valid
<1>4. \A h \in Sets, j \in Ways : j \in Valid(h) <=> cache[h][j].valid_bit
  BY DEF Valid
<1>5. \A h : Valid(h) \subseteq Ways
  BY DEF Valid
<1>6. CachedTags' = [CachedTags EXCEPT ![i] = Others(i, w) \cup {t}]
  <2>1. CachedTags'[i] = Others(i, w) \cup {t}
    <3>1. CachedTags'[i] = {cache'[i][j].tag : j \in Valid(i)'}
      BY DEF CachedTags
    <3>2. \A j \in Valid(i) \ {w} : cache'[i][j].tag = cache[i][j].tag
      BY <1>1, <1>5
    <3> QED BY <3>1, <3>2, <1>1, <1>2 DEF Others
  <2>2. \A h \in Sets : h # i => CachedTags'[h] = CachedTags[h]
    <3> SUFFICES ASSUME NEW h \in Sets, h # i PROVE CachedTags'[h] = CachedTags[h]
      OBVIOUS
    <3>1. \A j \in Valid(h) : cache'[h][j].tag = cache[h][j].tag
      BY <1>1, <1>5
    <3>2. CachedTags'[h] = {cache'[h][j].tag : j \in Valid(h)'}
      BY DEF CachedTags
    <3>3. CachedTags[h] = {cache[h][j].tag : j \in Valid(h)}
      BY DEF CachedTags
    <3> QED BY <3>1, <3>2, <3>3, <1>3
  <2>3. /\ CachedTags = [h \in Sets |-> CachedTags[h]]
        /\ CachedTags' = [h \in Sets |-> CachedTags'[h]]
    BY DEF CachedTags
  <2> QED BY <2>1, <2>2, <2>3
<1>7. NewerTags' = [NewerTags EXCEPT ![i] =
                      {p \in @ : {p[1], p[2]} \subseteq Others(i, w)} \cup ({t} \X Others(i, w))]
  <2>1. ASSUME NEW x, NEW y
        PROVE  <<x, y>> \in NewerTags'[i] <=>
                 \/ /\ <<x, y>> \in NewerTags[i]
                    /\ x \in Others(i, w) /\ y \in Others(i, w)
                 \/ x = t /\ y \in Others(i, w)
    <3>1. <<x, y>> \in NewerTags'[i] <=>
            \E j, k \in Valid(i)' : /\ x = cache'[i][j].tag /\ y = cache'[i][k].tag
                                    /\ cache'[i][j].stamp < cache'[i][k].stamp
      BY DEF NewerTags, CachedTags
    <3>2. <<x, y>> \in NewerTags[i] <=>
            \E j, k \in Valid(i) : /\ x = cache[i][j].tag /\ y = cache[i][k].tag
                                   /\ cache[i][j].stamp < cache[i][k].stamp
      BY DEF NewerTags, CachedTags
    <3>3. ASSUME <<x, y>> \in NewerTags'[i]
          PROVE  \/ /\ <<x, y>> \in NewerTags[i]
                    /\ x \in Others(i, w) /\ y \in Others(i, w)
                 \/ x = t /\ y \in Others(i, w)
      <4>1. PICK j, k \in Valid(i)' :
              /\ x = cache'[i][j].tag /\ y = cache'[i][k].tag
              /\ cache'[i][j].stamp < cache'[i][k].stamp
        BY <3>1, <3>3
      <4>2. k # w
        <5>1. SUFFICES ASSUME k = w PROVE FALSE
          OBVIOUS
        <5>2. j # w /\ j \in Valid(i) /\ j \in Ways
          BY <4>1, <5>1, <1>1, <1>2, <1>5
        <5>3. cache'[i][j].stamp = cache[i][j].stamp + 1 /\ cache[i][j].stamp \in Nat
          BY <5>2, <1>1, <1>4
        <5> QED BY <4>1, <5>1, <5>3, <1>1
      <4>3. k \in Valid(i) \ {w} /\ k \in Ways
        BY <4>2, <1>2, <1>5
      <4>4. /\ cache'[i][k].tag = cache[i][k].tag
            /\ cache'[i][k].stamp = cache[i][k].stamp + 1 /\ cache[i][k].stamp \in Nat
        BY <4>3, <1>1, <1>4
      <4>5. y \in Others(i, w)
        BY <4>1, <4>3, <4>4 DEF Others
      <4>6. CASE j = w
        BY <4>1, <4>5, <4>6, <1>1
      <4>7. CASE j # w
        <5>1. j \in Valid(i) \ {w} /\ j \in Ways
          BY <4>7, <1>2, <1>5
        <5>2. /\ cache'[i][j].tag = cache[i][j].tag
              /\ cache'[i][j].stamp = cache[i][j].stamp + 1 /\ cache[i][j].stamp \in Nat
          BY <5>1, <1>1, <1>4
        <5>3. cache[i][j].stamp < cache[i][k].stamp
          BY <4>1, <4>4, <5>2
        <5>4. x \in Others(i, w)
          BY <4>1, <5>1, <5>2 DEF Others
        <5> QED BY <3>2, <4>1, <4>3, <4>4, <4>5, <5>1, <5>2, <5>3, <5>4
      <4> QED BY <4>6, <4>7
    <3>4. ASSUME <<x, y>> \in NewerTags[i], x \in Others(i, w), y \in Others(i, w)
          PROVE  <<x, y>> \in NewerTags'[i]
      <4>1. PICK j, k \in Valid(i) :
              /\ x = cache[i][j].tag /\ y = cache[i][k].tag
              /\ cache[i][j].stamp < cache[i][k].stamp
        BY <3>2, <3>4
      <4>2. PICK l, m \in Valid(i) \ {w} : x = cache[i][l].tag /\ y = cache[i][m].tag
        BY <3>4 DEF Others
      <4>3. j = l /\ k = m
        BY <4>1, <4>2 DEF Inv, LinesDistinct
      <4>4. j \in Ways /\ k \in Ways /\ j # w /\ k # w /\ j \in Valid(i)' /\ k \in Valid(i)'
        BY <4>2, <4>3, <1>2, <1>5
      <4>5. /\ cache'[i][j].tag = x /\ cache'[i][k].tag = y
            /\ cache'[i][j].stamp = cache[i][j].stamp + 1 /\ cache[i][j].stamp \in Nat
            /\ cache'[i][k].stamp = cache[i][k].stamp + 1 /\ cache[i][k].stamp \in Nat
        BY <4>1, <4>4, <1>1, <1>4
      <4> QED BY <3>1, <4>1, <4>4, <4>5
    <3>5. ASSUME x = t, y \in Others(i, w)
          PROVE  <<x, y>> \in NewerTags'[i]
      <4>1. PICK k \in Valid(i) \ {w} : y = cache[i][k].tag
        BY <3>5 DEF Others
      <4>2. k \in Ways /\ k \in Valid(i)' /\ w \in Valid(i)'
        BY <4>1, <1>2, <1>5
      <4>3. /\ cache'[i][k].tag = y
            /\ cache'[i][k].stamp = cache[i][k].stamp + 1
            /\ cache[i][k].stamp \in Nat /\ cache[i][k].stamp >= 1
        BY <4>1, <4>2, <1>1, <1>4
      <4> QED BY <3>1, <3>5, <4>2, <4>3, <1>1
    <3> QED BY <3>3, <3>4, <3>5
  <2>2. NewerTags'[i] = {p \in NewerTags[i] : {p[1], p[2]} \subseteq Others(i, w)}
                          \cup ({t} \X Others(i, w))
    <3>1. /\ \A p \in NewerTags'[i] : p = <<p[1], p[2]>>
          /\ \A p \in NewerTags[i] : p = <<p[1], p[2]>>
      BY DEF NewerTags
    <3> QED BY <2>1, <3>1
  <2>3. \A h \in Sets : h # i => NewerTags'[h] = NewerTags[h]
    <3> SUFFICES ASSUME NEW h \in Sets, h # i PROVE NewerTags'[h] = NewerTags[h]
      OBVIOUS
    <3>1. ASSUME NEW j \in Valid(h)
          PROVE  /\ cache'[h][j].tag = cache[h][j].tag
                 /\ cache'[h][j].stamp = cache[h][j].stamp + 1
                 /\ cache[h][j].stamp \in Nat
      BY <1>1, <1>4, <1>5
    <3>2. \A j, k \in Valid(h) :
            cache'[h][j].stamp < cache'[h][k].stamp <=> cache[h][j].stamp < cache[h][k].stamp
      BY <3>1
    <3>3. CachedTags'[h] = CachedTags[h]
      BY <3>1, <1>3 DEF CachedTags
    <3>4. \A p : (\E j, k \in Valid(h)' : /\ p = <<cache'[h][j].tag, cache'[h][k].tag>>
                                          /\ cache'[h][j].stamp < cache'[h][k].stamp)
             <=> (\E j, k \in Valid(h) : /\ p = <<cache[h][j].tag, cache[h][k].tag>>
                                         /\ cache[h][j].stamp < cache[h][k].stamp)
      BY <3>1, <3>2, <1>3
    <3> QED BY <3>3, <3>4 DEF NewerTags
  <2>4. /\ NewerTags = [h \in Sets |-> NewerTags[h]]
        /\ NewerTags' = [h \in Sets |-> NewerTags'[h]]
    BY DEF NewerTags
  <2> QED BY <2>2, <2>3, <2>4
<1> QED BY <1>6, <1>7 DEF Lru!Renew

(* The instance of Lru brings a copy of Cardinality.                       *)
LEMMA SameCardinality == \A S : Lru!Cardinality(S) = Cardinality(S)
  BY DEF Lru!Cardinality, Cardinality

LruTags == {TagOf(a) : a \in Addresses}

(* A hit, a fill or an eviction of csim.c is one of the LRU cache.         *)
LEMMA AccessIsLru ==
  ASSUME Inv, NEW a \in Addresses, Access(a)
  PROVE  Lru!Next
<1> DEFINE i == SetOf(a)
           t == TagOf(a)
<1>1. i \in Sets /\ t \in Nat /\ t \in LruTags
  BY AccessFacts DEF LruTags
<1>2. PICK w \in Ways, times \in {1, 2} :
        Spot(cache, i, t, w) /\ AccessAs(i, t, w, times)
  BY AccessFacts
<1> HIDE DEF i, t
<1>3. Lru!Renew(i, Others(i, w), t)
  BY <1>1, <1>2, AccessRenews
<1>4. CachedTags[i] = {cache[i][j].tag : j \in Valid(i)}
  BY <1>1 DEF CachedTags
<1>5. \A j, k \in Valid(i) :
        cache[i][j].tag = cache[i][k].tag \/ cache[i][j].stamp = cache[i][k].stamp => j = k
  BY <1>1 DEF Inv, LinesDistinct
<1>6. w \in Valid(i) => Others(i, w) = CachedTags[i] \ {cache[i][w].tag}
  BY <1>4, <1>5 DEF Others
<1>7. ASSUME Missed(cache, i, t)
      PROVE  t \notin CachedTags[i]
  BY <1>4, <1>7 DEF Missed, Valid
<1>8. lines' = lines + 1 /\ used' = <<i, t, times>>
  BY <1>2 DEF AccessAs
<1> SUFFICES Lru!Use(i, t, times)
  BY <1>1, <1>8 DEF Lru!Next, LruTags
<1>9. CASE /\ HitAt(cache, i, t, w)
           /\ number_hits' = number_hits + times
           /\ UNCHANGED <<number_miss, number_eviction>>
  <2>1. w \in Valid(i) /\ cache[i][w].tag = t
    BY <1>9 DEF HitAt, Valid
  <2>2. t \in CachedTags[i] /\ Others(i, w) = CachedTags[i] \ {t}
    BY <2>1, <1>4, <1>6
  <2>3. Lru!Hit(i, t, times)
    BY <2>2, <1>3, <1>9 DEF Lru!Hit
  <2> QED BY <2>3, <1>8 DEF Lru!Use
<1>10. CASE /\ FillAt(cache, i, t, w)
           /\ number_hits' = number_hits + times - 1
           /\ number_miss' = number_miss + 1
           /\ UNCHANGED number_eviction
  <2>1. w \notin Valid(i) /\ Valid(i) # Ways /\ t \notin CachedTags[i]
    BY <1>7, <1>10 DEF FillAt, Valid
  <2>2. Others(i, w) = CachedTags[i]
    BY <2>1, <1>4 DEF Others
  <2>3. Cardinality(CachedTags[i]) < E
    BY <2>1, <1>1, TagsCounted
  <2>4. Lru!Fill(i, t, times)
    BY <2>1, <2>2, <2>3, <1>3, <1>10, SameCardinality DEF Lru!Fill
  <2> QED BY <2>4, <1>8 DEF Lru!Use
<1>11. CASE /\ EvictAt(cache, i, t, w)
            /\ number_hits' = number_hits + times - 1
            /\ number_miss' = number_miss + 1
            /\ number_eviction' = number_eviction + 1
  <2> DEFINE u == cache[i][w].tag
  <2>1. /\ Valid(i) = Ways /\ t \notin CachedTags[i]
        /\ \A j \in Ways : cache[i][j].stamp <= cache[i][w].stamp
    BY <1>7, <1>11 DEF EvictAt, Valid
  <2>2. u \in CachedTags[i] /\ Others(i, w) = CachedTags[i] \ {u}
    BY <2>1, <1>4, <1>6
  <2>3. Cardinality(CachedTags[i]) = E
    BY <2>1, <1>1, TagsCounted
  <2>4. \A v \in CachedTags[i] \ {u} : <<v, u>> \in NewerTags[i]
    <3> SUFFICES ASSUME NEW v \in CachedTags[i], v # u PROVE <<v, u>> \in NewerTags[i]
      OBVIOUS
    <3>1. PICK j \in Valid(i) : v = cache[i][j].tag
      BY <1>4
    <3>2. j # w /\ j \in Ways
      BY <3>1, <2>1
    <3>3. cache[i][j].stamp # cache[i][w].stamp
      BY <3>2, <2>1, <1>5
    <3>4. Sound(cache)
      BY InvSound
    <3>5. cache[i][j].stamp \in Nat /\ cache[i][w].stamp \in Nat
      BY <3>2, <3>4, <1>1, <1>11 DEF Sound, UsedOrBlank, EvictAt
    <3>6. cache[i][j].stamp < cache[i][w].stamp
      BY <3>2, <3>3, <3>5, <2>1
    <3>7. <<v, u>> \in CachedTags[i] \X CachedTags[i]
      BY <2>2
    <3> QED BY <3>1, <3>6, <3>7, <2>1, <1>1 DEF NewerTags
  <2> HIDE DEF u
  <2>5. Lru!Evict(i, t, u, times)
    BY <2>1, <2>2, <2>3, <2>4, <1>3, <1>11, SameCardinality DEF Lru!Evict
  <2> QED BY <2>2, <2>5, <1>8 DEF Lru!Use
<1> QED BY <1>2, <1>9, <1>10, <1>11 DEF AccessAs

(* A line of type I uses nothing: it changes the stamps, and neither the   *)
(* tags nor their order.                                                   *)
LEMMA InstructionSkips ==
  ASSUME Inv, Instruction
  PROVE  Lru!Next
<1>1. /\ \A h \in Sets, j \in Ways :
           /\ cache'[h][j].valid_bit = cache[h][j].valid_bit
           /\ cache'[h][j].tag = cache[h][j].tag
           /\ cache[h][j].valid_bit => /\ cache'[h][j].stamp = cache[h][j].stamp + 1
                                       /\ cache[h][j].stamp \in Nat
      /\ lines' = lines + 1 /\ used' = <<>>
      /\ UNCHANGED <<number_hits, number_miss, number_eviction>>
  BY InstructionLines
<1>2. \A h \in Sets : Valid(h)' = Valid(h)
  BY <1>1 DEF Valid
<1>3. ASSUME NEW h \in Sets, NEW j \in Valid(h)
      PROVE  /\ cache'[h][j].tag = cache[h][j].tag
             /\ cache'[h][j].stamp = cache[h][j].stamp + 1
             /\ cache[h][j].stamp \in Nat
  BY <1>1 DEF Valid
<1>4. CachedTags' = CachedTags
  BY <1>2, <1>3 DEF CachedTags
<1>5. NewerTags' = NewerTags
  <2>1. ASSUME NEW h \in Sets, NEW p
        PROVE  (\E j, k \in Valid(h)' : /\ p = <<cache'[h][j].tag, cache'[h][k].tag>>
                                        /\ cache'[h][j].stamp < cache'[h][k].stamp)
           <=> (\E j, k \in Valid(h) : /\ p = <<cache[h][j].tag, cache[h][k].tag>>
                                       /\ cache[h][j].stamp < cache[h][k].stamp)
    <3>1. \A j, k \in Valid(h) :
            cache'[h][j].stamp < cache'[h][k].stamp <=> cache[h][j].stamp < cache[h][k].stamp
      BY <1>3
    <3> QED BY <3>1, <1>2, <1>3
  <2> QED BY <2>1, <1>4 DEF NewerTags
<1> QED BY <1>1, <1>4, <1>5 DEF Lru!Next, Lru!Skip

(* For every geometry and trace, each line counts the hits, misses and     *)
(* evictions of an LRU cache that L and S use once, M twice and I never.   *)
THEOREM ImplementsLru == Spec => LruSpec
<1>1. Init => Lru!Init
  <2> SUFFICES ASSUME Init PROVE Lru!Init
    OBVIOUS
  <2>1. \A h \in Sets : Valid(h) = {}
    BY DEF Init, Valid
  <2>2. CachedTags = [h \in Sets |-> {}]
    BY <2>1 DEF CachedTags
  <2>3. NewerTags = [h \in Sets |-> {}]
    BY <2>1 DEF NewerTags
  <2> QED BY <2>2, <2>3 DEF Init, Lru!Init
<1>2. Inv /\ [Next]_vars => [Lru!Next]_(Lru!vars)
  <2> SUFFICES ASSUME Inv, [Next]_vars PROVE [Lru!Next]_(Lru!vars)
    OBVIOUS
  <2>1. ASSUME NEW a \in Addresses, LoadOrStore(a) \/ Modify(a)
        PROVE  Lru!Next
    BY <2>1, AccessIsLru DEF Access
  <2>2. CASE Instruction
    BY <2>2, InstructionSkips
  <2>3. CASE UNCHANGED vars
    <3>1. \A h \in Sets : Valid(h)' = Valid(h)
      BY <2>3 DEF vars, Valid
    <3>2. CachedTags' = CachedTags
      BY <2>3, <3>1 DEF vars, CachedTags
    <3>3. NewerTags' = NewerTags
      BY <2>3, <3>1, <3>2 DEF vars, NewerTags
    <3> QED BY <2>3, <3>2, <3>3 DEF vars, Lru!vars
  <2> QED BY <2>1, <2>2, <2>3 DEF Next
<1> QED BY <1>1, <1>2, InvHolds, PTL DEF Spec, LruSpec, Lru!Spec
=============================================================================
