----------------------------- MODULE DataLemmas -----------------------------
(***************************************************************************)
(* What the proofs about several components need of their data: the least  *)
(* and greatest elements of sets of naturals, Min and Max of FiniteSetsExt,*)
(* from the library's facts about well-founded orders; the entries that    *)
(* RemoveAt of SequencesExt leaves, and what FlattenSeq makes of           *)
(* sequences, their entries one after the other; the nodes a chain of      *)
(* links passes.                                                           *)
(***************************************************************************)
EXTENDS Integers, SequencesExt, SequenceTheorems, WellFoundedInduction, TLAPS

NatLess == OpToRel(<, Nat)

(* The order on Nat, as a set of pairs, is well founded.                   *)
LEMMA NatLessWF == IsWellFoundedOn(NatLess, Nat)
  BY NatLessThanWellFounded DEF NatLess

(* NatLess is the order below.                                             *)
LEMMA NatLessIff == \A i, j \in Nat : <<i, j>> \in NatLess <=> i < j
  BY DEF NatLess, OpToRel

(* The least-number principle for sets.  It stands in for induction, which *)
(* would need an operator parameter.                                       *)
LEMMA LeastNat ==
  ASSUME NEW S \in SUBSET Nat, S # {}
  PROVE  \E m \in S : \A k \in S : m <= k
<1>1. PICK m \in S : \A k \in S : <<k, m>> \notin NatLess
  BY NatLessWF, WFMin
<1>2. \A k \in S : ~ (k < m)
  BY <1>1, NatLessIff
<1> QED BY <1>2

(* Min of FiniteSetsExt on a set of naturals.                              *)
LEMMA MinOfNats ==
  ASSUME NEW S \in SUBSET Nat, S # {}
  PROVE  Min(S) \in S /\ \A k \in S : Min(S) <= k
  BY LeastNat DEF Min

(* Max of FiniteSetsExt on a bounded set of naturals: the least upper      *)
(* bound is in the set.                                                    *)
LEMMA MaxOfNats ==
  ASSUME NEW S \in SUBSET Nat, S # {}, NEW b \in Nat, \A k \in S : k <= b
  PROVE  Max(S) \in S /\ \A k \in S : k <= Max(S)
<1> DEFINE U == {u \in Nat : \A k \in S : k <= u}
<1>1. PICK m \in U : \A u \in U : m <= u
  <2>1. b \in U
    OBVIOUS
  <2> HIDE DEF U
  <2>2. U \in SUBSET Nat
    BY DEF U
  <2> QED BY <2>1, <2>2, LeastNat
<1>2. m \in S
  <2>1. SUFFICES ASSUME m \notin S PROVE FALSE
    OBVIOUS
  <2>2. \A k \in S : k <= m - 1
    BY <1>1, <2>1
  <2>3. PICK k \in S : k <= m - 1
    BY <2>2
  <2>4. m - 1 \in Nat
    BY <2>3
  <2>5. m - 1 \in U
    BY <2>2, <2>4
  <2>6. m <= m - 1
    BY <2>5, <1>1
  <2> QED BY <2>6, <2>4
<1>3. \E x \in S : \A y \in S : x >= y
  BY <1>1, <1>2
<1> QED BY <1>3 DEF Max

(* Finitely many naturals are bounded.                                     *)
LEMMA BoundedValues ==
  ASSUME NEW n \in Nat, NEW f \in [0 .. n-1 -> Nat]
  PROVE  \E b \in Nat : \A i \in 0 .. n-1 : f[i] <= b
<1> DEFINE Bad == {k \in 0 .. n : ~ \E b \in Nat : \A i \in 0 .. k-1 : f[i] <= b}
<1>1. SUFFICES ASSUME Bad # {} PROVE FALSE
  <2>1. n \in 0 .. n
    OBVIOUS
  <2> QED BY <2>1
<1>2. PICK m \in Bad : \A k \in Bad : m <= k
  <2>1. Bad \in SUBSET Nat
    OBVIOUS
  <2> HIDE DEF Bad
  <2> QED BY <1>1, <2>1, LeastNat
<1>3. m # 0
  <2>1. \A i \in 0 .. 0-1 : f[i] <= 0
    OBVIOUS
  <2> QED BY <2>1
<1>4. PICK b \in Nat : \A i \in 0 .. (m-1)-1 : f[i] <= b
  <2>1. m \in 0 .. n
    OBVIOUS
  <2>2. m - 1 \in 0 .. n /\ ~ (m <= m - 1)
    BY <2>1, <1>3
  <2>3. m - 1 \notin Bad
    BY <2>2, <1>2
  <2> QED BY <2>2, <2>3
<1>5. f[m-1] \in Nat
  BY <1>2, <1>3
<1>6. PICK c \in Nat : b <= c /\ f[m-1] <= c
  <2>1. CASE b <= f[m-1]
    BY <2>1, <1>5
  <2>2. CASE f[m-1] <= b
    BY <2>2
  <2> QED BY <2>1, <2>2, <1>5
<1>7. \A i \in 0 .. m-1 : f[i] <= c
  <2> SUFFICES ASSUME NEW i \in 0 .. m-1 PROVE f[i] <= c
    OBVIOUS
  <2>1. f[i] \in Nat
    BY <1>2
  <2>2. CASE i = m - 1
    BY <2>2, <1>6
  <2>3. CASE i # m - 1
    <3>1. i \in 0 .. (m-1)-1
      BY <2>3, <1>2
    <3> QED BY <3>1, <1>4, <1>6, <2>1
  <2> QED BY <2>2, <2>3
<1> QED BY <1>7, <1>2

(* RemoveAt takes out one entry: it keeps the entries before it where they *)
(* were and moves the others up by one place.                              *)
LEMMA RemoveAtFacts ==
  ASSUME NEW S, NEW q \in Seq(S), NEW n \in 1 .. Len(q)
  PROVE  /\ RemoveAt(q, n) \in Seq(S)
         /\ Len(RemoveAt(q, n)) = Len(q) - 1
         /\ \A k \in 1 .. Len(q) - 1 :
              RemoveAt(q, n)[k] = IF k < n THEN q[k] ELSE q[k + 1]
<1> DEFINE before == SubSeq(q, 1, n - 1)
           after  == SubSeq(q, n + 1, Len(q))
<1>1. Len(q) \in Nat /\ \A i \in 1 .. Len(q) : q[i] \in S
  BY LenProperties, ElementOfSeq
<1>2. /\ before \in Seq(S)
      /\ Len(before) = n - 1
      /\ \A i \in 1 .. n - 1 : before[i] = q[i]
  <2>1. /\ 1 \in Int /\ n - 1 \in Int
        /\ \A i \in 1 .. n - 1 : q[i] \in S
    BY <1>1
  <2>2. /\ before \in Seq(S)
        /\ Len(before) = IF 1 <= n - 1 THEN (n - 1) - 1 + 1 ELSE 0
        /\ \A i \in 1 .. (n - 1) - 1 + 1 : before[i] = q[1 + i - 1]
    BY <2>1, SubSeqProperties
  <2> HIDE DEF before
  <2> QED BY <2>2
<1>3. /\ after \in Seq(S)
      /\ Len(after) = Len(q) - n
      /\ \A i \in 1 .. Len(q) - n : after[i] = q[n + i]
  <2>1. /\ n + 1 \in Int /\ Len(q) \in Int
        /\ \A i \in n + 1 .. Len(q) : q[i] \in S
    BY <1>1
  <2>2. /\ after \in Seq(S)
        /\ Len(after) = IF n + 1 <= Len(q) THEN Len(q) - (n + 1) + 1 ELSE 0
        /\ \A i \in 1 .. Len(q) - (n + 1) + 1 : after[i] = q[(n + 1) + i - 1]
    BY <2>1, SubSeqProperties
  <2> HIDE DEF after
  <2> QED BY <2>2, <1>1
<1>4. RemoveAt(q, n) = before \o after
  BY DEF RemoveAt
<1> HIDE DEF before, after
<1>5. /\ before \o after \in Seq(S)
      /\ Len(before \o after) = Len(before) + Len(after)
      /\ \A i \in 1 .. Len(before) + Len(after) : (before \o after)[i] =
           IF i <= Len(before) THEN before[i] ELSE after[i - Len(before)]
  BY <1>2, <1>3, ConcatProperties
<1>6. ASSUME NEW k \in 1 .. Len(q) - 1
      PROVE  (before \o after)[k] = IF k < n THEN q[k] ELSE q[k + 1]
  <2>1. k \in 1 .. Len(before) + Len(after)
    BY <1>1, <1>2, <1>3
  <2>2. CASE k < n
    BY <2>1, <2>2, <1>2, <1>5
  <2>3. CASE ~ (k < n)
    <3>1. (before \o after)[k] = after[k - (n - 1)]
      BY <2>1, <2>3, <1>2, <1>5
    <3>2. k - (n - 1) \in 1 .. Len(q) - n
      BY <2>3, <1>1
    <3>3. n + (k - (n - 1)) = k + 1
      BY <1>1
    <3> QED BY <3>1, <3>2, <3>3, <2>3, <1>3
  <2> QED BY <2>2, <2>3
<1> QED BY <1>1, <1>2, <1>3, <1>4, <1>5, <1>6

(* Following links from a node of D until one is in T: what a recursive    *)
(* function over the nodes is built from.  R[p] are the nodes passed from  *)
(* p on, the least set with p that is closed under links, which exists     *)
(* whether the links end or go round in circles.                           *)
LEMMA ReachSets ==
  ASSUME NEW D, NEW T, NEW q \in [D -> D]
  PROVE  \E R \in [D -> SUBSET D] :
           \A p \in D : R[p] = IF p \in T THEN {p} ELSE {p} \cup R[q[p]]
<1> DEFINE Closed(S) == \A y \in S \ T : q[y] \in S
           R == [p \in D |-> {x \in D : \A S \in SUBSET D :
                                          p \in S /\ Closed(S) => x \in S}]
<1>1. ASSUME NEW p \in D
      PROVE  /\ R[p] \in SUBSET D /\ p \in R[p] /\ Closed(R[p])
             /\ \A S \in SUBSET D : p \in S /\ Closed(S) => R[p] \subseteq S
  OBVIOUS
<1>2. ASSUME NEW p \in D, p \in T
      PROVE  R[p] = {p}
  <2>1. Closed({p})
    BY <1>2
  <2> HIDE DEF R, Closed
  <2> QED BY <1>1, <2>1
<1>3. ASSUME NEW p \in D, p \notin T
      PROVE  R[p] = {p} \cup R[q[p]]
  <2>1. q[p] \in D
    OBVIOUS
  <2>2. Closed({p} \cup R[q[p]])
    <3> HIDE DEF R
    <3> QED BY <1>1, <2>1
  <2>3. q[p] \in R[p]
    <3> HIDE DEF R
    <3> QED BY <1>1, <1>3
  <2> HIDE DEF R, Closed
  <2> QED BY <1>1, <2>1, <2>2, <2>3
<1>4. R \in [D -> SUBSET D]
  OBVIOUS
<1> HIDE DEF R
<1> QED BY <1>2, <1>3, <1>4

(* What the recursive function inside FlattenSeq does.                     *)
Appends(f, n, seqs) == f[1] = seqs[1] /\ \A j \in 2 .. n : f[j] = f[j - 1] \o seqs[j]

(* The recursive function inside FlattenSeq exists.                        *)
LEMMA FlattenEquation ==
  ASSUME NEW n \in Nat \ {0}, NEW seqs, Len(seqs) = n
  PROVE  \E f : FlattenSeq(seqs) = f[n] /\ Appends(f, n, seqs)
<1> DEFINE Flat(f, m) == f = [j \in 1 .. m |-> IF j = 1 THEN seqs[j] ELSE f[j - 1] \o seqs[j]]
           Bad == {m \in Nat : m <= n /\ ~ \E f : Flat(f, m)}
<1>1. ASSUME NEW m \in Nat, m <= n
      PROVE  \E f : Flat(f, m)
  <2>1. SUFFICES ASSUME Bad # {} PROVE FALSE
    BY <1>1
  <2>2. PICK l \in Bad : \A k \in Bad : l <= k
    <3>1. Bad \in SUBSET Nat
      OBVIOUS
    <3> HIDE DEF Bad
    <3> QED BY <2>1, <3>1, LeastNat
  <2>3. l # 0
    <3>1. Flat([j \in 1 .. 0 |-> 0], 0)
      OBVIOUS
    <3> QED BY <3>1, <2>2
  <2>4. PICK f : Flat(f, l - 1)
    <3>1. l - 1 \in Nat /\ l - 1 <= n /\ ~ (l <= l - 1)
      BY <2>2, <2>3
    <3>2. l - 1 \notin Bad
      BY <2>2, <3>1
    <3> QED BY <3>1, <3>2
  <2> DEFINE g == [j \in 1 .. l |-> IF j = l
                                    THEN IF j = 1 THEN seqs[j] ELSE f[j - 1] \o seqs[j]
                                    ELSE f[j]]
  <2>5. ASSUME NEW j \in 1 .. l
        PROVE  g[j] = IF j = 1 THEN seqs[j] ELSE g[j - 1] \o seqs[j]
    <3>1. CASE j = 1
      <4>1. CASE l = 1
        BY <3>1, <4>1
      <4>2. CASE l # 1
        <5>1. j \in 1 .. l - 1 /\ g[j] = f[j]
          BY <3>1, <4>2
        <5>2. f[j] = seqs[j]
          BY <5>1, <3>1, <2>4
        <5> QED BY <5>1, <5>2, <3>1
      <4> QED BY <4>1, <4>2
    <3>2. CASE j # 1
      <4>1. j - 1 \in 1 .. l - 1 /\ j - 1 \in 1 .. l /\ j - 1 # l
        BY <3>2
      <4>2. g[j - 1] = f[j - 1]
        BY <4>1
      <4>3. CASE j = l
        <5>1. g[j] = f[j - 1] \o seqs[j]
          BY <4>3, <3>2
        <5> QED BY <5>1, <4>2, <3>2
      <4>4. CASE j # l
        <5>1. j \in 1 .. l - 1 /\ g[j] = f[j]
          BY <4>4
        <5>2. f[j] = f[j - 1] \o seqs[j]
          BY <5>1, <2>4, <3>2
        <5> QED BY <5>1, <5>2, <4>2, <3>2
      <4> QED BY <4>3, <4>4
    <3> QED BY <3>1, <3>2
  <2>6. Flat(g, l)
    <3>1. g = [j \in 1 .. l |-> g[j]]
      OBVIOUS
    <3> HIDE DEF g
    <3> QED BY <2>5, <3>1
  <2> QED BY <2>2, <2>6
<1>2. \E f : Flat(f, n)
  <2>1. n \in Nat /\ n <= n
    OBVIOUS
  <2> HIDE DEF Flat
  <2> QED BY <1>1, <2>1
<1> DEFINE flat == CHOOSE f : Flat(f, n)
<1>3. FlattenSeq(seqs) = flat[n]
  BY DEF FlattenSeq
<1>4. Flat(flat, n)
  <2> HIDE DEF Flat
  <2> QED BY <1>2
<1> HIDE DEF flat, Flat
<1>5. PICK f : f = flat /\ Flat(f, n)
  BY <1>4
<1>6. f[1] = seqs[1] /\ \A j \in 2 .. n : f[j] = f[j - 1] \o seqs[j]
  <2>1. f = [j \in 1 .. n |-> IF j = 1 THEN seqs[j] ELSE f[j - 1] \o seqs[j]]
    BY <1>5 DEF Flat
  <2>2. \A j \in 1 .. n : f[j] = IF j = 1 THEN seqs[j] ELSE f[j - 1] \o seqs[j]
    BY <2>1, Zenon
  <2>3. 1 \in 1 .. n /\ \A j \in 2 .. n : j \in 1 .. n /\ j # 1
    OBVIOUS
  <2> QED BY <2>2, <2>3
<1> QED BY <1>3, <1>5, <1>6 DEF Appends

(* FlattenSeq appends one sequence after the other.                        *)
LEMMA FlattenChain ==
  ASSUME NEW S, NEW seqs \in Seq(Seq(S))
  PROVE  \E f \in [0 .. Len(seqs) -> Seq(S)] :
           /\ f[0] = <<>> /\ f[Len(seqs)] = FlattenSeq(seqs)
           /\ \A j \in 1 .. Len(seqs) : f[j] = f[j - 1] \o seqs[j]
<1>1. PICK n \in Nat : n = Len(seqs)
  BY LenProperties
<1>2. \A j \in 1 .. n : seqs[j] \in Seq(S)
  BY <1>1, ElementOfSeq
<1>3. <<>> \in Seq(S) /\ \A q \in Seq(S) : <<>> \o q = q
  BY EmptySeq, ConcatEmptySeq
<1>4. CASE n = 0
  <2>1. seqs = <<>>
    BY <1>1, <1>4, EmptySeq
  <2>2. FlattenSeq(seqs) = seqs
    BY <1>1, <1>4 DEF FlattenSeq
  <2>3. PICK f : f = [j \in 0 .. 0 |-> <<>>]
    OBVIOUS
  <2>4. f \in [0 .. 0 -> Seq(S)] /\ f[0] = <<>> /\ 1 .. 0 = {}
    BY <1>3, <2>3
  <2> QED BY <1>1, <1>4, <2>1, <2>2, <2>4
<1>5. CASE n # 0
  <2>1. n \in Nat \ {0} /\ Len(seqs) = n
    BY <1>1, <1>5
  <2>2. PICK g : /\ FlattenSeq(seqs) = g[n] /\ g[1] = seqs[1]
                 /\ \A j \in 2 .. n : g[j] = g[j - 1] \o seqs[j]
    <3>1. PICK g : FlattenSeq(seqs) = g[n] /\ Appends(g, n, seqs)
      BY <2>1, FlattenEquation
    <3> QED BY <3>1 DEF Appends
  <2> DEFINE Wrong == {m \in Nat : m \in 1 .. n /\ g[m] \notin Seq(S)}
  <2>3. Wrong = {}
    <3>1. SUFFICES ASSUME Wrong # {} PROVE FALSE
      OBVIOUS
    <3>2. PICK m \in Wrong : \A k \in Wrong : m <= k
      <4>1. Wrong \in SUBSET Nat
        OBVIOUS
      <4> HIDE DEF Wrong
      <4> QED BY <3>1, <4>1, LeastNat
    <3>3. m \in 1 .. n /\ g[m] \notin Seq(S)
      OBVIOUS
    <3>4. m # 1
      BY <3>3, <2>1, <2>2, <1>2
    <3>5. m - 1 \in 1 .. n /\ m - 1 \in Nat /\ m \in 2 .. n /\ ~ (m <= m - 1)
      BY <3>3, <3>4
    <3>6. g[m - 1] \in Seq(S)
      BY <3>2, <3>5
    <3>7. g[m - 1] \o seqs[m] \in Seq(S)
      BY <3>3, <3>6, <1>2, ConcatProperties
    <3> QED BY <3>3, <3>5, <3>7, <2>2
  <2>4. \A m \in 1 .. n : g[m] \in Seq(S)
    BY <2>3
  <2>5. PICK f : f = [j \in 0 .. n |-> IF j = 0 THEN <<>> ELSE g[j]]
    OBVIOUS
  <2>6. f \in [0 .. n -> Seq(S)] /\ f[0] = <<>> /\ f[n] = g[n]
    BY <2>1, <2>4, <2>5, <1>3
  <2>7. ASSUME NEW j \in 1 .. n
        PROVE  f[j] = f[j - 1] \o seqs[j]
    <3>1. f[j] = g[j]
      BY <2>5
    <3>2. CASE j = 1
      <4>1. f[j - 1] = <<>> /\ seqs[1] \in Seq(S)
        BY <3>2, <2>6, <1>2
      <4>2. <<>> \o seqs[1] = seqs[1]
        BY <4>1, <1>3
      <4> QED BY <3>1, <3>2, <4>1, <4>2, <2>2
    <3>3. CASE j # 1
      <4>1. j \in 2 .. n /\ j - 1 \in 0 .. n /\ j - 1 # 0
        BY <3>3
      <4>2. f[j - 1] = g[j - 1]
        BY <4>1, <2>5
      <4> QED BY <3>1, <4>1, <4>2, <2>2
    <3> QED BY <3>2, <3>3
  <2> QED BY <1>1, <2>2, <2>6, <2>7
<1> QED BY <1>4, <1>5

(* Where the elements of a concatenation are, and which they are.          *)
LEMMA ConcatPlaces ==
  ASSUME NEW S, NEW q \in Seq(S), NEW r \in Seq(S), NEW c, c = q \o r
  PROVE  /\ c \in Seq(S) /\ Len(c) = Len(q) + Len(r)
         /\ \A m \in 1 .. Len(q) : m \in 1 .. Len(c) /\ c[m] = q[m]
         /\ \A m \in 1 .. Len(r) : Len(q) + m \in 1 .. Len(c) /\ c[Len(q) + m] = r[m]
         /\ \A m \in 1 .. Len(c) :
              m \notin 1 .. Len(q) => m - Len(q) \in 1 .. Len(r) /\ c[m] = r[m - Len(q)]
<1>1. /\ c \in Seq(S) /\ Len(c) = Len(q) + Len(r) /\ Len(q) \in Nat /\ Len(r) \in Nat
      /\ \A m \in 1 .. Len(q) + Len(r) :
           c[m] = IF m <= Len(q) THEN q[m] ELSE r[m - Len(q)]
  BY ConcatProperties, LenProperties
<1> QED BY <1>1

(* A concatenation has the elements of both.                               *)
LEMMA ConcatMembers ==
  ASSUME NEW S, NEW q \in Seq(S), NEW r \in Seq(S)
  PROVE  \A x : x \in ToSet(q \o r) <=> x \in ToSet(q) \/ x \in ToSet(r)
<1>1. PICK c : c = q \o r
  OBVIOUS
<1>2. /\ c \in Seq(S)
      /\ \A m \in 1 .. Len(q) : m \in 1 .. Len(c) /\ c[m] = q[m]
      /\ \A m \in 1 .. Len(r) : Len(q) + m \in 1 .. Len(c) /\ c[Len(q) + m] = r[m]
      /\ \A m \in 1 .. Len(c) :
           m \notin 1 .. Len(q) => m - Len(q) \in 1 .. Len(r) /\ c[m] = r[m - Len(q)]
  BY <1>1, ConcatPlaces
<1>3. DOMAIN q = 1 .. Len(q) /\ DOMAIN r = 1 .. Len(r) /\ DOMAIN c = 1 .. Len(c)
  BY <1>2, LenProperties
<1>4. SUFFICES ASSUME NEW x
               PROVE  x \in ToSet(c) <=> x \in ToSet(q) \/ x \in ToSet(r)
  BY <1>1
<1>5. /\ x \in ToSet(q) <=> \E m \in 1 .. Len(q) : q[m] = x
      /\ x \in ToSet(r) <=> \E m \in 1 .. Len(r) : r[m] = x
      /\ x \in ToSet(c) <=> \E m \in 1 .. Len(c) : c[m] = x
  BY <1>3 DEF ToSet
<1> QED BY <1>2, <1>5

(* The elements of the whole are those of the sequences; those of the      *)
(* first are where they were in it, and only the others follow.            *)
LEMMA FlattenMembers ==
  ASSUME NEW S, NEW seqs \in Seq(Seq(S))
  PROVE  /\ FlattenSeq(seqs) \in Seq(S)
         /\ \A x : x \in ToSet(FlattenSeq(seqs)) <=>
                     \E j \in 1 .. Len(seqs) : x \in ToSet(seqs[j])
         /\ seqs # <<>> => \A l \in 1 .. Len(FlattenSeq(seqs)) :
              IF l \in 1 .. Len(seqs[1]) THEN FlattenSeq(seqs)[l] = seqs[1][l]
              ELSE \E j \in 2 .. Len(seqs) : FlattenSeq(seqs)[l] \in ToSet(seqs[j])
         /\ seqs # <<>> => Len(seqs[1]) <= Len(FlattenSeq(seqs))
<1>1. PICK n \in Nat : n = Len(seqs)
  BY LenProperties
<1>2. \A j \in 1 .. n : seqs[j] \in Seq(S)
  BY <1>1, ElementOfSeq
<1>3. PICK f \in [0 .. n -> Seq(S)] :
        /\ f[0] = <<>> /\ f[n] = FlattenSeq(seqs)
        /\ \A j \in 1 .. n : f[j] = f[j - 1] \o seqs[j]
  BY <1>1, FlattenChain
<1> DEFINE Held(m) == \A x : x \in ToSet(f[m]) <=> \E j \in 1 .. m : x \in ToSet(seqs[j])
           First(m) == m # 0 => \A l \in 1 .. Len(f[m]) :
                         IF l \in 1 .. Len(seqs[1]) THEN f[m][l] = seqs[1][l]
                         ELSE \E j \in 2 .. m : f[m][l] \in ToSet(seqs[j])
           Within(m) == m # 0 => Len(seqs[1]) <= Len(f[m])
           Wrong == {m \in Nat : m \in 0 .. n /\ ~ (Held(m) /\ First(m) /\ Within(m))}
<1>4. Wrong = {}
  <2>1. SUFFICES ASSUME Wrong # {} PROVE FALSE
    OBVIOUS
  <2>2. PICK m \in Wrong : \A k \in Wrong : m <= k
    <3>1. Wrong \in SUBSET Nat
      OBVIOUS
    <3> HIDE DEF Wrong
    <3> QED BY <2>1, <3>1, LeastNat
  <2>3. m \in 0 .. n /\ ~ (Held(m) /\ First(m) /\ Within(m))
    <3> HIDE DEF Held, First, Within
    <3> QED OBVIOUS
  <2>4. m # 0
    <3>1. ToSet(<<>>) = {} /\ 1 .. 0 = {}
      BY DEF ToSet
    <3>2. Held(0) /\ First(0) /\ Within(0)
      BY <3>1, <1>3
    <3> HIDE DEF Held, First, Within
    <3> QED BY <2>3, <3>2
  <2>5. m - 1 \in 0 .. n /\ m - 1 \in Nat /\ m \in 1 .. n /\ ~ (m <= m - 1)
    BY <2>3, <2>4
  <2>6. Held(m - 1) /\ First(m - 1) /\ Within(m - 1)
    <3>1. m - 1 \notin Wrong
      BY <2>2, <2>5
    <3> HIDE DEF Held, First, Within
    <3> QED BY <2>5, <3>1
  <2>7. PICK q, r \in Seq(S) : q = f[m - 1] /\ r = seqs[m] /\ f[m] = q \o r
    BY <2>5, <1>2, <1>3
  <2>8. Held(m)
    <3>1. \A x : x \in ToSet(f[m]) <=> x \in ToSet(q) \/ x \in ToSet(r)
      BY <2>7, ConcatMembers
    <3>2. \A j : j \in 1 .. m <=> j \in 1 .. m - 1 \/ j = m
      BY <2>5
    <3> QED BY <2>6, <2>7, <3>1, <3>2
  <2>9. First(m) /\ Within(m)
    <3>1. CASE m = 1
      <4>1. m - 1 = 0
        BY <3>1
      <4>2. f[m] = seqs[1]
        BY <3>1, <4>1, <1>3, <2>7, ConcatEmptySeq
      <4>3. Len(seqs[1]) \in Nat
        BY <3>1, <2>7, LenProperties
      <4> QED BY <4>2, <4>3
    <3>2. CASE m # 1
      <4> PICK c : c = f[m] /\ c = q \o r
        BY <2>7
      <4>0. Len(c) = Len(q) + Len(r)
        BY ConcatPlaces
      <4>1. /\ \A l \in 1 .. Len(q) : l \in 1 .. Len(c) /\ c[l] = q[l]
            /\ \A l \in 1 .. Len(c) :
                l \notin 1 .. Len(q) => l - Len(q) \in 1 .. Len(r) /\ c[l] = r[l - Len(q)]
        BY ConcatPlaces
      <4>2. m - 1 # 0 /\ Len(seqs[1]) <= Len(q)
        BY <2>5, <2>6, <2>7, <3>2
      <4>3. Len(q) \in Nat /\ Len(r) \in Nat /\ Len(seqs[1]) \in Nat /\ DOMAIN r = 1 .. Len(r)
        BY <1>2, <2>5, LenProperties
      <4>4. Within(m)
        <5> HIDE DEF Wrong, Held, First
        <5> QED BY <4>0, <4>2, <4>3
      <4>5. ASSUME NEW l \in 1 .. Len(f[m])
            PROVE  IF l \in 1 .. Len(seqs[1]) THEN f[m][l] = seqs[1][l]
                   ELSE \E j \in 2 .. m : f[m][l] \in ToSet(seqs[j])
        <5>1. CASE l \in 1 .. Len(q)
          <6>1. f[m][l] = q[l]
            BY <2>7, <4>1, <5>1
          <6>2. IF l \in 1 .. Len(seqs[1]) THEN q[l] = seqs[1][l]
                ELSE \E j \in 2 .. m - 1 : q[l] \in ToSet(seqs[j])
            BY <2>6, <2>7, <4>2, <5>1
          <6>3. \A j \in 2 .. m - 1 : j \in 2 .. m
            BY <2>5
          <6> QED BY <6>1, <6>2, <6>3
        <5>2. CASE l \notin 1 .. Len(q)
          <6>1. f[m][l] = r[l - Len(q)] /\ l - Len(q) \in DOMAIN r
            BY <2>7, <4>1, <4>3, <5>2
          <6>2. f[m][l] \in ToSet(seqs[m])
            BY <6>1, <2>7 DEF ToSet
          <6>3. m \in 2 .. m /\ l \notin 1 .. Len(seqs[1])
            BY <2>5, <3>2, <4>2, <4>3, <5>2
          <6> QED BY <6>2, <6>3
        <5> QED BY <5>1, <5>2
      <4> QED BY <4>4, <4>5
    <3> QED BY <3>1, <3>2
  <2> HIDE DEF Held, First, Within
  <2> QED BY <2>3, <2>8, <2>9
<1>5. Held(n) /\ First(n) /\ Within(n)
  <2>1. n \in 0 .. n /\ n \notin Wrong
    <3> HIDE DEF Wrong
    <3> QED BY <1>4
  <2> HIDE DEF Held, First, Within
  <2> QED BY <2>1
<1>6. seqs # <<>> => n # 0
  BY <1>1, EmptySeq
<1>7. FlattenSeq(seqs) \in Seq(S)
  BY <1>3
<1> QED BY <1>1, <1>3, <1>5, <1>6, <1>7

(* FlattenSeq puts sequences one after the other: its elements are theirs, *)
(* and it is as long as they are together.                                 *)
LEMMA FlattenFacts ==
  ASSUME NEW S, NEW n \in Nat \ {0}, NEW hi \in Nat, NEW seqs, Len(seqs) = n,
         \A j \in 1 .. n : seqs[j] \in Seq(S) /\ Len(seqs[j]) \in 1 .. hi
  PROVE  /\ FlattenSeq(seqs) \in Seq(S)
         /\ Len(FlattenSeq(seqs)) \in 1 .. hi * n
<1>1. PICK f : FlattenSeq(seqs) = f[n] /\ Appends(f, n, seqs)
  BY FlattenEquation
<1>2. f[1] = seqs[1] /\ \A j \in 2 .. n : f[j] = f[j - 1] \o seqs[j]
  BY <1>1 DEF Appends
<1> DEFINE Wrong == {m \in Nat : m \in 1 .. n /\ ~ (f[m] \in Seq(S) /\ Len(f[m]) \in 1 .. hi * m)}
<1>3. ASSUME Wrong # {} PROVE FALSE
  <2>1. PICK l \in Wrong : \A k \in Wrong : l <= k
    <3>1. Wrong \in SUBSET Nat
      OBVIOUS
    <3> HIDE DEF Wrong
    <3> QED BY <1>3, <3>1, LeastNat
  <2>2. l \in 1 .. n /\ ~ (f[l] \in Seq(S) /\ Len(f[l]) \in 1 .. hi * l)
    OBVIOUS
  <2>3. CASE l = 1
    <3>1. hi * 1 = hi /\ 1 \in 1 .. n
      OBVIOUS
    <3> QED BY <2>2, <2>3, <3>1, <1>2
  <2>4. CASE l # 1
    <3>1. l - 1 \in Nat /\ l - 1 \in 1 .. n /\ l \in 2 .. n /\ ~ (l <= l - 1)
      BY <2>2, <2>4
    <3>2. l - 1 \notin Wrong
      BY <3>1, <2>1
    <3>3. f[l - 1] \in Seq(S) /\ Len(f[l - 1]) \in 1 .. hi * (l - 1)
      BY <3>1, <3>2
    <3>4. /\ f[l - 1] \o seqs[l] \in Seq(S)
          /\ Len(f[l - 1] \o seqs[l]) = Len(f[l - 1]) + Len(seqs[l])
      BY <3>1, <3>3, ConcatProperties
    <3>5. f[l] = f[l - 1] \o seqs[l] /\ Len(f[l]) = Len(f[l - 1]) + Len(seqs[l])
      <4>1. f[l] = f[l - 1] \o seqs[l]
        BY <3>1, <1>2
      <4> QED BY <4>1, <3>4
    <3>6. PICK a, b \in Int : a = hi * (l - 1) /\ b = hi * l /\ b = a + hi
      BY <3>1
    <3>7. Len(seqs[l]) \in 1 .. hi /\ Len(f[l - 1]) \in 1 .. a
      BY <3>1, <3>3, <3>6
    <3>8. PICK u, v \in Int : /\ u = Len(f[l - 1]) /\ v = Len(seqs[l])
                              /\ Len(f[l]) = u + v
      BY <3>7, <3>5
    <3>9. Len(f[l]) \in 1 .. b
      BY <3>6, <3>7, <3>8
    <3> QED BY <2>2, <3>4, <3>6, <3>9, <3>5
  <2> QED BY <2>3, <2>4
<1>4. n \in Nat /\ n \in 1 .. n /\ n \notin Wrong
  <2>1. n \in Nat /\ n \in 1 .. n
    OBVIOUS
  <2> HIDE DEF Wrong
  <2> QED BY <1>3, <2>1
<1> QED BY <1>1, <1>4
=============================================================================
