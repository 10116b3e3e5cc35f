------------------------------ MODULE MmProofs ------------------------------
(***************************************************************************)
(* Lemmas about the allocator of Mm for every arena and every CHUNKSIZE.   *)
(* A heap (Heap) is tiled by its blocks, its list holds exactly the free   *)
(* ones in address order, and no two of them touch; mm_init makes a heap,  *)
(* mm_malloc, mm_free and mm_realloc keep it and leave the words of the    *)
(* blocks they do not concern alone.  Two heaps with the same held blocks  *)
(* (Alike) answer every request alike, whatever their payloads and links.  *)
(***************************************************************************)
EXTENDS Mm, DataLemmas, FiniteSetTheorems

(* The words of the arena, and the memories that fill it.                  *)
Arena == 0 .. MAX_HEAP - 1
Memory == [Arena -> Nat]

-----------------------------------------------------------------------------
\* The recursive functions of Mm.

(* The recursive function in Before exists and obeys its own equation: the *)
(* chain of nodes outside stop is followed until its last one. The         *)
(* function is built from the sets of nodes ahead of each node, without    *)
(* induction.                                                              *)
LEMMA BeforeEquation ==
  ASSUME NEW m \in Memory, NEW stop
  PROVE  \E f : /\ \A p \in Nodes : f[p] = IF GET_SUCC(m, p) \in Nodes \ stop
                                           THEN f[GET_SUCC(m, p)] ELSE p
                /\ Before(m, stop) = f[starter]
<1> DEFINE IsFcn(f) == f = [p \in Nodes |-> IF GET_SUCC(m, p) \in Nodes \ stop
                                            THEN f[GET_SUCC(m, p)] ELSE p]
           from == CHOOSE f : IsFcn(f)
           ends == {p \in Nodes : GET_SUCC(m, p) \notin Nodes \ stop}
           q    == [p \in Nodes |-> IF p \in ends THEN p ELSE GET_SUCC(m, p)]
<1>1. Before(m, stop) = from[starter]
  BY DEF Before
<1>2. q \in [Nodes -> Nodes]
  OBVIOUS
<1>3. PICK R \in [Nodes -> SUBSET Nodes] :
        \A p \in Nodes : R[p] = IF p \in ends THEN {p} ELSE {p} \cup R[q[p]]
  <2> HIDE DEF q, ends
  <2>1. \A D, T : \A r \in [D -> D] : \E R \in [D -> SUBSET D] :
          \A p \in D : R[p] = IF p \in T THEN {p} ELSE {p} \cup R[r[p]]
    BY ReachSets
  <2>2. \A r \in [Nodes -> Nodes] : \E R \in [Nodes -> SUBSET Nodes] :
          \A p \in Nodes : R[p] = IF p \in ends THEN {p} ELSE {p} \cup R[r[p]]
    BY <2>1, ZenonT(40)
  <2> QED BY <1>2, <2>2
<1> DEFINE end(S) == CHOOSE x : x \in S \cap ends
           g      == [p \in Nodes |-> end(R[p])]
<1>4. ASSUME NEW p \in Nodes
      PROVE  g[p] = IF p \notin ends THEN g[q[p]] ELSE p
  <2>1. CASE p \in ends
    <3>1. R[p] \cap ends = {p}
      BY <2>1, <1>3
    <3>2. end(R[p]) = p
      <4> HIDE DEF ends
      <4> QED BY <3>1
    <3> HIDE DEF end
    <3> QED BY <3>2, <2>1
  <2>2. CASE p \notin ends
    <3>1. R[p] \cap ends = R[q[p]] \cap ends
      <4> HIDE DEF ends, q
      <4> QED BY <2>2, <1>3
    <3>2. end(R[p]) = end(R[q[p]])
      BY <3>1
    <3>3. q[p] \in Nodes
      BY <1>2
    <3> HIDE DEF end, q, ends
    <3> QED BY <3>2, <3>3, <2>2
  <2> QED BY <2>1, <2>2
<1>5. IsFcn(g)
  <2>1. \A p \in Nodes : g[p] = IF GET_SUCC(m, p) \in Nodes \ stop
                                THEN g[GET_SUCC(m, p)] ELSE p
    <3> HIDE DEF g
    <3> QED BY <1>4
  <2>2. g = [p \in Nodes |-> g[p]]
    OBVIOUS
  <2> HIDE DEF g
  <2> QED BY <2>1, <2>2
<1>6. IsFcn(from)
  <2> HIDE DEF IsFcn, g
  <2> QED BY <1>5
<1>7. \A p \in Nodes : from[p] = IF GET_SUCC(m, p) \in Nodes \ stop
                                THEN from[GET_SUCC(m, p)] ELSE p
  <2> HIDE DEF from
  <2> QED BY <1>6
<1> HIDE DEF from
<1> QED BY <1>1, <1>7

(* So does the one in Walk, which steps from header to header.             *)
LEMMA WalkEquation ==
  ASSUME NEW m
  PROVE  \E f : /\ \A p \in 1 .. MAX_HEAP :
                     f[p] = IF GET_SIZE(m, p - 1) = 0 THEN {}
                            ELSE {p} \cup IF NEXT_BLKP(m, p) \in 1 .. MAX_HEAP
                                          THEN f[NEXT_BLKP(m, p)] ELSE {}
                /\ Walk(m) = f[heap_listp]
<1> DEFINE D == 1 .. MAX_HEAP
           Eqn(f, p) == IF GET_SIZE(m, p - 1) = 0 THEN {}
                        ELSE {p} \cup IF NEXT_BLKP(m, p) \in D
                                      THEN f[NEXT_BLKP(m, p)] ELSE {}
           IsFcn(f) == f = [p \in D |-> Eqn(f, p)]
           from == CHOOSE f : IsFcn(f)
           ends == {p \in D : GET_SIZE(m, p - 1) = 0 \/ NEXT_BLKP(m, p) \notin D}
           q    == [p \in D |-> IF p \in ends THEN p ELSE NEXT_BLKP(m, p)]
<1>1. Walk(m) = from[heap_listp]
  BY DEF Walk, HDRP
<1>2. q \in [D -> D]
  OBVIOUS
<1>3. PICK R \in [D -> SUBSET D] :
        \A p \in D : R[p] = IF p \in ends THEN {p} ELSE {p} \cup R[q[p]]
  <2> HIDE DEF q, ends, D
  <2>1. \A C, T : \A r \in [C -> C] : \E R \in [C -> SUBSET C] :
          \A p \in C : R[p] = IF p \in T THEN {p} ELSE {p} \cup R[r[p]]
    BY ReachSets
  <2>2. \A r \in [D -> D] : \E R \in [D -> SUBSET D] :
          \A p \in D : R[p] = IF p \in ends THEN {p} ELSE {p} \cup R[r[p]]
    BY <2>1, ZenonT(40)
  <2> QED BY <1>2, <2>2
<1> DEFINE some == {x \in D : GET_SIZE(m, x - 1) # 0}
           g    == [p \in D |-> R[p] \cap some]
<1>4. ASSUME NEW p \in D
      PROVE  g[p] = Eqn(g, p)
  <2>1. CASE GET_SIZE(m, p - 1) = 0
    <3>1. R[p] = {p} /\ p \notin some
      BY <2>1, <1>3
    <3> HIDE DEF some, D
    <3> QED BY <3>1, <2>1
  <2>2. CASE GET_SIZE(m, p - 1) # 0 /\ NEXT_BLKP(m, p) \notin D
    <3>1. R[p] = {p} /\ p \in some
      BY <2>2, <1>3
    <3> HIDE DEF some, D
    <3> QED BY <3>1, <2>2
  <2>3. CASE GET_SIZE(m, p - 1) # 0 /\ NEXT_BLKP(m, p) \in D
    <3>1. R[p] = {p} \cup R[NEXT_BLKP(m, p)] /\ p \in some
      BY <2>3, <1>3
    <3> HIDE DEF some, D
    <3> QED BY <3>1, <2>3
  <2> QED BY <2>1, <2>2, <2>3
<1>5. IsFcn(g)
  <2>1. g = [p \in D |-> g[p]]
    OBVIOUS
  <2>2. [p \in D |-> g[p]] = [p \in D |-> Eqn(g, p)]
    <3> HIDE DEF g, Eqn, D
    <3> QED BY <1>4
  <2> HIDE DEF g, Eqn, D
  <2> QED BY <2>1, <2>2
<1>6. IsFcn(from)
  <2> HIDE DEF IsFcn, g
  <2> QED BY <1>5
<1>7. \A p \in D : from[p] = Eqn(from, p)
  <2> HIDE DEF from, Eqn, D
  <2> QED BY <1>6
<1> HIDE DEF from
<1> QED BY <1>1, <1>7

-----------------------------------------------------------------------------
\* The list of free blocks.

(* q follows p in F in address order, or ends the list at 0.               *)
IsNext(F, p, q) ==
  \/ q = 0 /\ \A x \in F : x <= p
  \/ q \in F /\ q > p /\ \A x \in F : x <= p \/ x >= q

(* The list that starts at starter passes exactly the nodes F, in address  *)
(* order, and every PREV link points back to the SUCC link that led to it. *)
Linked(m, F) ==
  \A p \in F \cup {starter} :
    /\ IsNext(F, p, GET_SUCC(m, p))
    /\ GET_SUCC(m, p) # 0 => GET_PREV(m, GET_SUCC(m, p)) = p

(* Nodes far enough apart for two links each.                              *)
Spaced(F) == /\ F \subseteq starter + 2 .. MAX_HEAP - 2
             /\ \A p, q \in F : p < q => p + 2 <= q

(* A search of a list that is linked ends at a member of it, has passed    *)
(* every node outside stop, and stands before one in stop or before the    *)
(* end.                                                                    *)
LEMMA BeforeFacts ==
  ASSUME NEW m \in Memory, NEW F, Spaced(F), Linked(m, F), NEW stop
  PROVE  /\ Before(m, stop) \in F \cup {starter}
         /\ \A x \in F \cap stop : x > Before(m, stop)
         /\ GET_SUCC(m, Before(m, stop)) \in stop \cup {0}
<1> DEFINE N == F \cup {starter}
<1>1. PICK f : /\ \A p \in Nodes : f[p] = IF GET_SUCC(m, p) \in Nodes \ stop
                                           THEN f[GET_SUCC(m, p)] ELSE p
               /\ Before(m, stop) = f[starter]
  BY BeforeEquation
<1>2. N \in SUBSET Nat /\ N \subseteq Nodes /\ 0 \notin Nodes /\ \A p \in N : p <= MAX_HEAP
  BY HeapAssumption DEF Spaced, Nodes, starter
<1> DEFINE Good(p) == /\ f[p] \in N
                      /\ \A x \in F \cap stop : x > p => x > f[p]
                      /\ GET_SUCC(m, f[p]) \in stop \cup {0}
           Bad == {p \in N : ~Good(p)}
<1>3. Bad = {}
  <2>1. SUFFICES ASSUME Bad # {} PROVE FALSE
    OBVIOUS
  <2>2. Max(Bad) \in Bad /\ \A p \in Bad : p <= Max(Bad)
    <3>1. Bad \in SUBSET Nat /\ \A p \in Bad : p <= MAX_HEAP
      BY <1>2
    <3>2. MAX_HEAP \in Nat
      BY HeapAssumption
    <3> HIDE DEF Bad
    <3> QED BY <2>1, <3>1, <3>2, MaxOfNats
  <2>3. PICK c \in N : ~Good(c) /\ \A p \in N : p > c => Good(p)
    <3>1. \A p \in N : p > Max(Bad) => p \notin Bad
      BY <1>2, <2>2
    <3> QED BY <2>2, <3>1
  <2> DEFINE q == GET_SUCC(m, c)
  <2>4. /\ c \in Nodes /\ IsNext(F, c, q)
    BY <2>3, <1>2 DEF Linked
  <2>5. CASE q \notin Nodes \ stop
    <3>1. f[c] = c
      BY <2>5, <2>4, <1>1
    <3>2. q \in stop \cup {0}
      BY <2>4, <2>5, <1>2 DEF IsNext
    <3> QED BY <3>1, <3>2, <2>3
  <2>6. CASE q \in Nodes \ stop
    <3>1. f[c] = f[q]
      BY <2>6, <2>4, <1>1
    <3>2. q \in F /\ q > c /\ \A x \in F : x <= c \/ x >= q
      BY <2>4, <2>6, <1>2 DEF IsNext
    <3>3. Good(q)
      BY <3>2, <2>3
    <3>4. \A x \in F \cap stop : x > c => x > q
      <4> HIDE DEF q, Good
      <4> QED BY <3>2, <2>6, <1>2
    <3>5. \A x \in F \cap stop : x > c => x > f[c]
      BY <3>1, <3>3, <3>4
    <3>6. f[c] \in N /\ GET_SUCC(m, f[c]) \in stop \cup {0}
      BY <3>1, <3>3
    <3> QED BY <3>5, <3>6, <2>3
  <2> QED BY <2>5, <2>6
<1>4. Good(starter)
  BY <1>3
<1>5. \A x \in F : x > starter
  BY HeapAssumption DEF Spaced, starter
<1> QED BY <1>1, <1>4, <1>5

(* What Link writes: the SUCC of one node and the PREV of the other.       *)
LEMMA LinkFacts ==
  ASSUME NEW m \in Memory, NEW p \in Nodes, NEW q \in Nodes \cup {0}, q # p + 1
  PROVE  /\ Link(m, p, q) \in Memory
         /\ Link(m, p, q)[p + 1] = q
         /\ q # 0 => Link(m, p, q)[q] = p
         /\ \A w \in Arena : w # p + 1 /\ (w # q \/ q = 0) => Link(m, p, q)[w] = m[w]
<1>1. p + 1 \in Arena /\ q \in Arena /\ p \in Nat /\ q \in Nat
  BY HeapAssumption DEF Nodes, Arena, starter
<1> QED BY <1>1 DEF Link, Memory

(* Two links put a node between its neighbours, whatever its own links     *)
(* held: the core of an insertion and of a replacement.                    *)
LEMMA ListPut ==
  ASSUME NEW m \in Memory, NEW G, Spaced(G), NEW n \in G,
         NEW p \in (G \ {n}) \cup {starter}, NEW q \in (G \ {n}) \cup {0},
         IsNext(G, p, n), IsNext(G, n, q),
         \A x \in (G \cup {starter}) \ {n, p} :
           /\ IsNext(G, x, GET_SUCC(m, x))
           /\ GET_SUCC(m, x) # 0 => GET_PREV(m, GET_SUCC(m, x)) = x
  PROVE  LET m2 == Link(Link(m, n, q), p, n)
         IN  /\ m2 \in Memory
             /\ Linked(m2, G)
             /\ \A w \in Arena : (\A x \in G \cup {starter} : w # x /\ w # x + 1)
                                 => m2[w] = m[w]
<1> DEFINE N == G \cup {starter}
           m1 == Link(m, n, q)
           m2 == Link(m1, p, n)
<1>1. /\ N \in SUBSET Nat /\ N \subseteq Nodes /\ 0 \notin N
      /\ \A x, y \in N : x < y => x + 2 <= y
      /\ \A x \in G : x > starter
  BY HeapAssumption DEF Spaced, Nodes, starter
<1>2. p \in Nodes /\ p \in N /\ n \in Nodes /\ q \in Nodes \cup {0} /\ q # n + 1 /\ n # p + 1 /\ n # 0
  <2>1. q # n + 1
    BY <1>1
  <2>2. n # p + 1
    BY <1>1
  <2> QED BY <1>1, <2>1, <2>2
<1>3. /\ m1 \in Memory
      /\ m1[n + 1] = q
      /\ q # 0 => m1[q] = n
      /\ \A w \in Arena : w # n + 1 /\ (w # q \/ q = 0) => m1[w] = m[w]
  BY <1>2, LinkFacts
<1> HIDE DEF m1
<1>4. /\ m2 \in Memory
      /\ m2[p + 1] = n
      /\ m2[n] = p
      /\ \A w \in Arena : w # p + 1 /\ w # n => m2[w] = m1[w]
  BY <1>2, <1>3, LinkFacts
<1> HIDE DEF m2
<1>5. \A x \in N : x \in Arena /\ x + 1 \in Arena
  BY <1>1, HeapAssumption DEF Nodes, Arena, starter
<1>6. \A w \in Arena : (\A x \in N : w # x /\ w # x + 1) => m2[w] = m[w]
  <2> SUFFICES ASSUME NEW w \in Arena, \A x \in N : w # x /\ w # x + 1
               PROVE  m2[w] = m[w]
    OBVIOUS
  <2>1. w # n /\ w # n + 1 /\ w # p + 1 /\ (w # q \/ q = 0)
    BY <1>2
  <2> QED BY <2>1, <1>3, <1>4
<1>7. ASSUME NEW x \in N
      PROVE  /\ IsNext(G, x, m2[x + 1])
             /\ m2[x + 1] # 0 => m2[m2[x + 1]] = x
  <2>1. CASE x = p
    BY <2>1, <1>4, <1>2
  <2>2. CASE x = n
    <3>1. n # p
      BY <1>1
    <3>2. n \in N /\ n \in Nat /\ p \in Nat
      BY <1>1, <1>2
    <3>5. n + 1 \in Arena
      BY <3>2, <1>5
    <3>6. n + 1 # p + 1 /\ n + 1 # n
      BY <3>2, <3>1
    <3>3. m2[n + 1] = q
      BY <3>5, <3>6, <1>3, <1>4
    <3>4. CASE q # 0
      <4>1. q \in Arena /\ q # p + 1 /\ q # n
        BY <1>1, <1>2, <1>5, <3>4
      <4> QED BY <4>1, <3>3, <1>3, <1>4, <2>2
    <3> QED BY <3>3, <3>4, <2>2
  <2>3. CASE x # p /\ x # n
    <3> DEFINE y == m[x + 1]
    <3>1. /\ IsNext(G, x, y)
          /\ y # 0 => m[y] = x
      BY <2>3 DEF GET_SUCC, GET_PREV
    <3>2. m2[x + 1] = y
      <4>1. x + 1 \in Arena /\ x + 1 # p + 1 /\ x + 1 # n /\ x + 1 # n + 1
        BY <1>1, <1>2, <1>5, <2>3
      <4>2. x + 1 # q
        BY <1>1, <1>2
      <4> QED BY <4>1, <4>2, <1>3, <1>4
    <3>3. ASSUME y # 0
          PROVE  m2[y] = x
      <4>1. y \in G /\ y > x /\ \A z \in G : z <= x \/ z >= y
        BY <3>1, <3>3 DEF IsNext
      <4> HIDE DEF y
      <4>2. n > p /\ \A z \in G : z <= p \/ z >= n
        BY <1>1, <1>2 DEF IsNext
      <4>3. q # 0 => q > n /\ \A z \in G : z <= n \/ z >= q
        BY <1>1, <1>2 DEF IsNext
      <4>4. y # n
        BY <4>1, <4>2, <2>3, <1>1, <1>2
      <4>5. y # q
        BY <4>1, <4>3, <2>3, <1>1, <1>2, <3>3
      <4>6. y \in Arena /\ y # n + 1 /\ y # p + 1
        BY <4>1, <1>1, <1>2, <1>5
      <4> QED BY <4>4, <4>5, <4>6, <1>3, <1>4, <3>1, <3>3
    <3> QED BY <3>1, <3>2, <3>3
  <2> QED BY <2>1, <2>2, <2>3
<1>8. Linked(m2, G)
  BY <1>7 DEF Linked, GET_SUCC, GET_PREV
<1> QED BY <1>4, <1>6, <1>8 DEF m1, m2

(* The PREV link of a member leads to the member before it.                *)
LEMMA ListPrev ==
  ASSUME NEW m \in Memory, NEW F, Spaced(F), Linked(m, F), NEW x \in F
  PROVE  /\ GET_PREV(m, x) \in F \cup {starter}
         /\ GET_PREV(m, x) < x
         /\ GET_SUCC(m, GET_PREV(m, x)) = x
         /\ IsNext(F, GET_PREV(m, x), x)
<1> DEFINE N == F \cup {starter}
           B == {y \in N : y < x}
<1>1. /\ N \in SUBSET Nat /\ 0 \notin N
      /\ \A y \in F : y > starter /\ y <= MAX_HEAP
  BY HeapAssumption DEF Spaced, starter
<1>2. Max(B) \in B /\ \A y \in B : y <= Max(B)
  <2>1. B \in SUBSET Nat /\ B # {} /\ \A y \in B : y <= x
    BY <1>1
  <2>2. x \in Nat
    BY <1>1
  <2> HIDE DEF B
  <2> QED BY <2>1, <2>2, MaxOfNats
<1>3. PICK p \in N : p < x /\ \A y \in N : y < x => y <= p
  BY <1>2
<1> DEFINE q == GET_SUCC(m, p)
<1>4. IsNext(F, p, q) /\ (q # 0 => GET_PREV(m, q) = p)
  BY DEF Linked
<1> HIDE DEF q
<1>5. q # 0
  BY <1>1, <1>3, <1>4 DEF IsNext
<1>6. q \in F /\ q > p /\ \A y \in F : y <= p \/ y >= q
  BY <1>4, <1>5 DEF IsNext
<1>7. q = x
  BY <1>1, <1>3, <1>6
<1> QED BY <1>3, <1>4, <1>5, <1>7 DEF q

(* Linking a node's neighbours to each other takes it out of the list.     *)
LEMMA ListRemove ==
  ASSUME NEW m \in Memory, NEW F, Spaced(F), Linked(m, F), NEW x \in F
  PROVE  LET m2 == Link(m, GET_PREV(m, x), GET_SUCC(m, x))
         IN  /\ m2 \in Memory
             /\ Linked(m2, F \ {x})
             /\ \A w \in Arena : (\A y \in (F \ {x}) \cup {starter} :
                                   w # y /\ w # y + 1)
                                 => m2[w] = m[w]
<1> DEFINE N == F \cup {starter}
           p == GET_PREV(m, x)
           q == GET_SUCC(m, x)
           m2 == Link(m, p, q)
<1>1. /\ N \in SUBSET Nat /\ N \subseteq Nodes /\ 0 \notin N
      /\ \A y, z \in N : y < z => y + 2 <= z
      /\ \A y \in F : y > starter
  BY HeapAssumption DEF Spaced, Nodes, starter
<1>2. p \in N /\ p < x /\ GET_SUCC(m, p) = x /\ IsNext(F, p, x)
  BY ListPrev
<1>3. IsNext(F, x, q) /\ (q # 0 => GET_PREV(m, q) = x)
  BY DEF Linked
<1> HIDE DEF p, q
<1>4. p \in Nodes /\ q \in Nodes \cup {0} /\ q # p + 1 /\ q # x /\ (q # 0 => q \in F)
  BY <1>1, <1>2, <1>3 DEF IsNext
<1>5. /\ m2 \in Memory
      /\ m2[p + 1] = q
      /\ q # 0 => m2[q] = p
      /\ \A w \in Arena : w # p + 1 /\ (w # q \/ q = 0) => m2[w] = m[w]
  BY <1>4, LinkFacts
<1> HIDE DEF m2
<1>6. \A y \in N : y \in Arena /\ y + 1 \in Arena
  BY <1>1, HeapAssumption DEF Nodes, Arena, starter
<1>7. ASSUME NEW w \in Arena, \A y \in (F \ {x}) \cup {starter} : w # y /\ w # y + 1
      PROVE  m2[w] = m[w]
  <2>1. p \in (F \ {x}) \cup {starter} /\ (q = 0 \/ q \in F \ {x})
    BY <1>1, <1>2, <1>4
  <2>2. w # p + 1 /\ (w # q \/ q = 0)
    BY <2>1, <1>7
  <2> QED BY <2>2, <1>5
<1>8. ASSUME NEW y \in (F \ {x}) \cup {starter}
      PROVE  /\ IsNext(F \ {x}, y, m2[y + 1])
             /\ m2[y + 1] # 0 => m2[m2[y + 1]] = y
  <2>1. CASE y = p
    <3>1. IsNext(F \ {x}, p, q)
      BY <1>1, <1>2, <1>3, <1>4 DEF IsNext
    <3> QED BY <3>1, <2>1, <1>5
  <2>2. CASE y # p
    <3> DEFINE z == m[y + 1]
    <3>1. IsNext(F, y, z) /\ (z # 0 => m[z] = y)
      BY DEF Linked, GET_SUCC, GET_PREV
    <3> HIDE DEF z
    <3>2. z # x
      <4>1. SUFFICES ASSUME z = x PROVE FALSE
        OBVIOUS
      <4>2. y < x /\ \A v \in F : v <= y \/ v >= x
        BY <4>1, <3>1, <1>1 DEF IsNext
      <4>3. \A v \in F : v <= p \/ v >= x
        BY <1>2, <1>1 DEF IsNext
      <4> QED BY <4>2, <4>3, <1>1, <1>2, <2>2
    <3>3. IsNext(F \ {x}, y, z)
      BY <3>1, <3>2 DEF IsNext
    <3>4. y + 1 \in Arena /\ y + 1 # p + 1 /\ (y + 1 # q \/ q = 0)
      BY <1>1, <1>2, <1>4, <1>6, <2>2
    <3>5. m2[y + 1] = z
      BY <3>4, <1>5 DEF z
    <3>6. ASSUME z # 0
          PROVE  m2[z] = y
      <4>1. z \in F /\ z > y /\ \A v \in F : v <= y \/ v >= z
        BY <3>1, <3>6 DEF IsNext
      <4>2. q # 0 => q > x /\ \A v \in F : v <= x \/ v >= q
        BY <1>1, <1>3 DEF IsNext
      <4>3. z # q
        BY <4>1, <4>2, <3>6, <1>1
      <4>4. z \in Arena /\ z # p + 1
        BY <4>1, <1>1, <1>2, <1>6
      <4> QED BY <4>3, <4>4, <1>5, <3>1, <3>6
    <3> QED BY <3>3, <3>5, <3>6
  <2> QED BY <2>1, <2>2
<1>9. Linked(m2, F \ {x})
  BY <1>8 DEF Linked, GET_SUCC, GET_PREV
<1> QED BY <1>5, <1>7, <1>9 DEF m2, p, q

(* A node may take the place of another where the order allows it.         *)
LEMMA ListReplace ==
  ASSUME NEW m \in Memory, NEW F, Spaced(F), Linked(m, F), NEW x \in F,
         NEW n, n \notin F \ {x}, Spaced((F \ {x}) \cup {n}),
         \A y \in F \ {x} : y < x <=> y < n
  PROVE  LET m2 == Link(Link(m, n, GET_SUCC(m, x)), GET_PREV(m, x), n)
             G  == (F \ {x}) \cup {n}
         IN  /\ m2 \in Memory
             /\ Linked(m2, G)
             /\ \A w \in Arena : (\A y \in G \cup {starter} : w # y /\ w # y + 1)
                                 => m2[w] = m[w]
<1> DEFINE p == GET_PREV(m, x)
           q == GET_SUCC(m, x)
           G == (F \ {x}) \cup {n}
<1>1. /\ F \in SUBSET Nat /\ n \in Nat /\ 0 \notin F
      /\ n > starter /\ \A y \in F : y > starter
      /\ starter \in Nat
  BY HeapAssumption DEF Spaced, starter
<1>2. p \in F \cup {starter} /\ p < x /\ GET_SUCC(m, p) = x /\ IsNext(F, p, x)
  BY ListPrev
<1>3. IsNext(F, x, q) /\ (q # 0 => GET_PREV(m, q) = x)
  BY DEF Linked
<1> HIDE DEF p, q
<1>4. p \in (G \ {n}) \cup {starter} /\ IsNext(G, p, n)
  BY <1>1, <1>2 DEF IsNext
<1>5. q \in (G \ {n}) \cup {0} /\ IsNext(G, n, q)
  <2>1. CASE q = 0
    <3>1. \A y \in F : y <= x
      BY <2>1, <1>1, <1>3 DEF IsNext
    <3> QED BY <3>1, <2>1, <1>1 DEF IsNext
  <2>2. CASE q # 0
    <3>1. q \in F /\ q > x /\ \A y \in F : y <= x \/ y >= q
      BY <2>2, <1>3 DEF IsNext
    <3> QED BY <3>1, <1>1 DEF IsNext
  <2> QED BY <2>1, <2>2
<1>6. ASSUME NEW y \in (G \cup {starter}) \ {n, p}
      PROVE  /\ IsNext(G, y, GET_SUCC(m, y))
             /\ GET_SUCC(m, y) # 0 => GET_PREV(m, GET_SUCC(m, y)) = y
  <2> DEFINE z == GET_SUCC(m, y)
  <2>1. y \in F \cup {starter} /\ y # x /\ y \in Nat
    BY <1>1
  <2>2. IsNext(F, y, z) /\ (z # 0 => GET_PREV(m, z) = y)
    BY <2>1 DEF Linked
  <2> HIDE DEF z
  <2>3. z # x
    <3>1. SUFFICES ASSUME z = x PROVE FALSE
      OBVIOUS
    <3>2. y < x /\ \A v \in F : v <= y \/ v >= x
      BY <3>1, <2>2, <1>1 DEF IsNext
    <3>3. \A v \in F : v <= p \/ v >= x
      BY <1>2, <1>1 DEF IsNext
    <3> QED BY <3>2, <3>3, <1>1, <1>2, <2>1
  <2>4. IsNext(G, y, z)
    <3>1. CASE z = 0
      <4>1. \A v \in F : v <= y
        BY <3>1, <2>2, <1>1 DEF IsNext
      <4>2. n <= y
        BY <4>1, <2>1, <1>1
      <4> QED BY <4>1, <4>2, <3>1 DEF IsNext
    <3>2. CASE z # 0
      <4>1. z \in F /\ z > y /\ \A v \in F : v <= y \/ v >= z
        BY <3>2, <2>2 DEF IsNext
      <4>2. n <= y \/ n >= z
        BY <4>1, <2>1, <2>3, <1>1
      <4> QED BY <4>1, <4>2, <2>3 DEF IsNext
    <3> QED BY <3>1, <3>2
  <2> QED BY <2>2, <2>4 DEF z
<1>7. n \in G
  OBVIOUS
<1> HIDE DEF G
<1>8. Spaced(G)
  BY DEF G
<1> DEFINE m2 == Link(Link(m, n, q), p, n)
<1>9. /\ m2 \in Memory
      /\ Linked(m2, G)
      /\ \A w \in Arena : (\A y \in G \cup {starter} : w # y /\ w # y + 1)
                          => m2[w] = m[w]
  BY <1>4, <1>5, <1>6, <1>7, <1>8, ListPut
<1> QED BY <1>9 DEF p, q, G

(* Insert, the first case of coalesce, finds the place by address and      *)
(* keeps the list linked.                                                  *)
LEMMA ListInsert ==
  ASSUME NEW m \in Memory, NEW F, Spaced(F), Linked(m, F),
         NEW n, n \notin F, Spaced(F \cup {n})
  PROVE  /\ Insert(m, n) \in Memory
         /\ Linked(Insert(m, n), F \cup {n})
         /\ \A w \in Arena :
              (\A y \in F \cup {n, starter} : w # y /\ w # y + 1)
              => Insert(m, n)[w] = m[w]
<1> DEFINE G    == F \cup {n}
           stop == n + 1 .. MAX_HEAP
           p    == Before(m, stop)
           q    == GET_SUCC(m, p)
<1>1. /\ F \in SUBSET Nat /\ n \in Nat /\ 0 \notin F
      /\ n > starter /\ \A y \in F : y > starter /\ y <= MAX_HEAP
      /\ starter \in Nat /\ MAX_HEAP \in Nat
  BY HeapAssumption DEF Spaced, starter
<1>2. /\ p \in F \cup {starter}
      /\ \A v \in F \cap stop : v > p
      /\ q \in stop \cup {0}
  BY BeforeFacts, ZenonT(40)
<1>3. IsNext(F, p, q)
  BY <1>2 DEF Linked
<1> HIDE DEF p, q
<1>4. p < n
  BY <1>1, <1>2
<1>5. q = 0 \/ (q \in F /\ q > n)
  BY <1>1, <1>2, <1>3 DEF IsNext
<1>6. \A v \in F : v <= p \/ (q # 0 /\ v >= q)
  BY <1>1, <1>3 DEF IsNext
<1>7. p \in (G \ {n}) \cup {starter} /\ IsNext(G, p, n)
  BY <1>1, <1>2, <1>4, <1>5, <1>6 DEF IsNext
<1>8. q \in (G \ {n}) \cup {0} /\ IsNext(G, n, q)
  BY <1>1, <1>2, <1>4, <1>5, <1>6 DEF IsNext
<1>9. ASSUME NEW y \in (G \cup {starter}) \ {n, p}
      PROVE  /\ IsNext(G, y, GET_SUCC(m, y))
             /\ GET_SUCC(m, y) # 0 => GET_PREV(m, GET_SUCC(m, y)) = y
  <2> DEFINE z == GET_SUCC(m, y)
  <2>1. y \in F \cup {starter} /\ y \in Nat
    BY <1>1
  <2>2. IsNext(F, y, z) /\ (z # 0 => GET_PREV(m, z) = y)
    BY <2>1 DEF Linked
  <2> HIDE DEF z
  <2>3. y < n => p \in F /\ y < p
    BY <1>1, <1>2, <1>5, <1>6, <2>1
  <2>4. IsNext(G, y, z)
    <3>1. CASE z = 0
      <4>1. \A v \in F : v <= y
        BY <3>1, <2>2, <1>1 DEF IsNext
      <4>2. n <= y
        <5>1. CASE y < n
          <6>1. p \in F /\ y < p /\ p \in Nat
            BY <5>1, <2>3, <1>1
          <6>2. p <= y
            BY <6>1, <4>1
          <6> QED BY <6>1, <6>2, <2>1
        <5>2. CASE ~(y < n)
          BY <5>2, <2>1, <1>1
        <5> QED BY <5>1, <5>2
      <4> QED BY <4>1, <4>2, <3>1 DEF IsNext
    <3>2. CASE z # 0
      <4>1. z \in F /\ z > y /\ \A v \in F : v <= y \/ v >= z
        BY <3>2, <2>2 DEF IsNext
      <4>2. n <= y \/ n >= z
        <5>1. CASE y < n
          <6>1. p \in F /\ y < p /\ p \in Nat
            BY <5>1, <2>3, <1>1
          <6>2. z \in Nat
            BY <4>1, <1>1
          <6>3. p >= z
            BY <6>1, <6>2, <4>1, <2>1
          <6> QED BY <6>1, <6>2, <6>3, <1>1, <1>4
        <5>2. CASE ~(y < n)
          BY <5>2, <2>1, <1>1
        <5> QED BY <5>1, <5>2
      <4> QED BY <4>1, <4>2 DEF IsNext
    <3> QED BY <3>1, <3>2
  <2> QED BY <2>2, <2>4 DEF z
<1>10. n \in G /\ Insert(m, n) = Link(Link(m, n, q), p, n)
  BY DEF Insert, p, q
<1>11. G \cup {starter} = F \cup {n, starter}
  OBVIOUS
<1> HIDE DEF G
<1>12. Spaced(G)
  BY DEF G
<1> DEFINE m2 == Link(Link(m, n, q), p, n)
<1>13. /\ m2 \in Memory
       /\ Linked(m2, G)
       /\ \A w \in Arena : (\A y \in G \cup {starter} : w # y /\ w # y + 1)
                           => m2[w] = m[w]
  BY <1>7, <1>8, <1>9, <1>10, <1>12, ListPut
<1> HIDE DEF m2
<1>14. Insert(m, n) = m2
  BY <1>10 DEF m2
<1> QED BY <1>11, <1>13, <1>14 DEF G

(* A memory with the same links holds the same list.                       *)
LEMMA LinkedFrame ==
  ASSUME NEW m, NEW m2, NEW F, Spaced(F), Linked(m, F),
         \A p \in F \cup {starter} : m2[p + 1] = m[p + 1] /\ (p # starter => m2[p] = m[p])
  PROVE  Linked(m2, F)
<1> SUFFICES ASSUME NEW p \in F \cup {starter}
             PROVE  /\ IsNext(F, p, m2[p + 1])
                    /\ m2[p + 1] # 0 => m2[m2[p + 1]] = p
  BY DEF Linked, GET_SUCC, GET_PREV
<1>1. IsNext(F, p, m[p + 1]) /\ (m[p + 1] # 0 => m[m[p + 1]] = p)
  BY DEF Linked, GET_SUCC, GET_PREV
<1>2. \A x \in F : x # starter
  BY HeapAssumption DEF Spaced, starter
<1>3. m[p + 1] # 0 => m[p + 1] \in F
  BY <1>1 DEF IsNext
<1> QED BY <1>1, <1>2, <1>3

-----------------------------------------------------------------------------
\* Blocks, their tags and how they tile the heap.

(* A header is an even size and one bit.                                   *)
LEMMA WordFacts ==
  ASSUME NEW w \in Nat
  PROVE  w % 2 \in {0, 1} /\ w - (w % 2) \in Nat /\ (w - (w % 2)) % 2 = 0
  OBVIOUS

(* GET_SIZE and GET_ALLOC give back what PACK has put into a word.         *)
LEMMA PackFacts ==
  ASSUME NEW s \in Nat, s % 2 = 0, NEW a \in {0, 1}
  PROVE  s + a \in Nat /\ (s + a) % 2 = a /\ (s + a) - ((s + a) % 2) = s
  OBVIOUS

(* Sums and differences of even sizes.                                     *)
LEMMA EvenFacts ==
  ASSUME NEW x \in Nat, NEW y \in Nat, x % 2 = 0, y % 2 = 0
  PROVE  /\ (x + y) % 2 = 0
         /\ x >= y => x - y \in Nat /\ (x - y) % 2 = 0
         /\ x > y => x >= y + 2
  OBVIOUS

(* The size and the allocated bit in the header of the block at x.         *)
SizeOf(m, x) == GET_SIZE(m, x - 1)
AllocOf(m, x) == GET_ALLOC(m, x - 1)

(* The blocks W fill the heap from the prologue to the epilogue at b: each *)
(* has equal tags and an even size, ends where another begins, and         *)
(* overlaps none.                                                          *)
Tiled(m, b, W) ==
  /\ m \in Memory
  /\ b \in 6 .. MAX_HEAP /\ b % 2 = 0 /\ m[b - 1] = 1
  /\ W \subseteq heap_listp .. b - 2
  /\ heap_listp \in W /\ m[heap_listp - 1] = 3
  /\ \A x \in W : /\ x % 2 = 0
                  /\ SizeOf(m, x) >= 2 /\ (x # heap_listp => SizeOf(m, x) >= 4)
                  /\ m[x + SizeOf(m, x) - 2] = m[x - 1]
                  /\ x + SizeOf(m, x) \in W \cup {b}
  /\ \A x, y \in W : x < y => x + SizeOf(m, x) <= y

(* What Tiled says of addresses and sizes, for the arithmetic of the       *)
(* lemmas below.                                                           *)
LEMMA TiledFacts ==
  ASSUME NEW m, NEW b, NEW W, Tiled(m, b, W)
  PROVE  /\ b \in Nat /\ b >= 6 /\ b <= MAX_HEAP /\ MAX_HEAP \in Nat /\ W \in SUBSET Nat
         /\ \A x \in W : x \in Nat /\ x >= 4 /\ x < b /\ x % 2 = 0 /\ x - 1 \in Arena
         /\ \A x \in W : /\ SizeOf(m, x) \in Nat /\ SizeOf(m, x) % 2 = 0
                         /\ SizeOf(m, x) >= 2 /\ (x # heap_listp => SizeOf(m, x) >= 4)
         /\ \A x \in W : AllocOf(m, x) \in {0, 1} /\ m[x - 1] = SizeOf(m, x) + AllocOf(m, x)
         /\ \A x \in W : /\ x + SizeOf(m, x) \in W \cup {b}
                         /\ x + SizeOf(m, x) <= b
                         /\ x + SizeOf(m, x) - 2 \in Arena
                         /\ m[x + SizeOf(m, x) - 2] = m[x - 1]
         /\ \A x, y \in W : x < y => x + SizeOf(m, x) <= y
         /\ heap_listp \in W /\ \A x \in W : x >= heap_listp
         /\ SizeOf(m, heap_listp) = 2 /\ AllocOf(m, heap_listp) = 1
         /\ SizeOf(m, b) = 0 /\ AllocOf(m, b) = 1
<1>1. b \in Nat /\ b >= 6 /\ b <= MAX_HEAP /\ MAX_HEAP \in Nat
  BY HeapAssumption DEF Tiled
<1>2. /\ W \in SUBSET Nat
      /\ \A x \in W : x \in Nat /\ x >= 4 /\ x < b /\ x - 1 \in Arena
  BY <1>1 DEF Tiled, heap_listp, Arena
<1>3. /\ heap_listp \in W
      /\ \A x \in W : /\ x % 2 = 0
                      /\ SizeOf(m, x) >= 2 /\ (x # heap_listp => SizeOf(m, x) >= 4)
                      /\ m[x + SizeOf(m, x) - 2] = m[x - 1]
                      /\ x + SizeOf(m, x) \in W \cup {b}
      /\ \A x, y \in W : x < y => x + SizeOf(m, x) <= y
  BY DEF Tiled
<1>4. ASSUME NEW x \in W
      PROVE  /\ SizeOf(m, x) \in Nat /\ SizeOf(m, x) % 2 = 0
             /\ AllocOf(m, x) \in {0, 1}
             /\ m[x - 1] = SizeOf(m, x) + AllocOf(m, x)
  <2>1. m[x - 1] \in Nat
    BY <1>2 DEF Tiled, Memory
  <2> QED BY <2>1, WordFacts DEF SizeOf, AllocOf, GET_SIZE, GET_ALLOC
<1>5. ASSUME NEW x \in W
      PROVE  x + SizeOf(m, x) - 2 \in Arena /\ x + SizeOf(m, x) <= b
  <2>1. x + SizeOf(m, x) <= b /\ SizeOf(m, x) >= 2
    BY <1>1, <1>2, <1>3, <1>4
  <2> QED BY <2>1, <1>1, <1>2, <1>4 DEF Arena
<1>6. m[heap_listp - 1] = 3 /\ m[b - 1] = 1
  BY DEF Tiled
<1>7. SizeOf(m, heap_listp) = 2 /\ AllocOf(m, heap_listp) = 1 /\ SizeOf(m, b) = 0 /\ AllocOf(m, b) = 1
  BY <1>6 DEF SizeOf, AllocOf, GET_SIZE, GET_ALLOC
<1>8. \A x \in W : x >= heap_listp
  BY <1>2 DEF heap_listp
<1> QED BY <1>1, <1>2, <1>3, <1>4, <1>5, <1>7, <1>8

(* A block other than the prologue begins where another one ends, and the  *)
(* footer before it is that one's: PREV_BLKP finds it.                     *)
LEMMA TiledBefore ==
  ASSUME NEW m, NEW b, NEW W, Tiled(m, b, W), NEW x \in W \cup {b}, x # heap_listp
  PROVE  \E y \in W : y < x /\ y + SizeOf(m, y) = x /\ m[x - 2] = m[y - 1]
<1> DEFINE B == {y \in W : y < x}
<1>1. /\ W \in SUBSET Nat /\ b \in Nat /\ heap_listp \in W
      /\ \A y \in W : /\ y >= heap_listp /\ y < b /\ y \in Nat
                      /\ SizeOf(m, y) \in Nat /\ SizeOf(m, y) >= 2
                      /\ m[y + SizeOf(m, y) - 2] = m[y - 1]
                      /\ y + SizeOf(m, y) \in W \cup {b}
      /\ \A y, z \in W : y < z => y + SizeOf(m, y) <= z
  <2>1. /\ W \in SUBSET Nat /\ b \in Nat /\ heap_listp \in W
        /\ \A y, z \in W : y < z => y + SizeOf(m, y) <= z
    BY TiledFacts
  <2>2. \A y \in W : y >= heap_listp /\ y < b /\ y \in Nat
    BY TiledFacts
  <2>3. \A y \in W : SizeOf(m, y) \in Nat /\ SizeOf(m, y) >= 2
    BY TiledFacts
  <2>4. \A y \in W : /\ m[y + SizeOf(m, y) - 2] = m[y - 1]
                     /\ y + SizeOf(m, y) \in W \cup {b}
    BY TiledFacts
  <2> QED BY <2>1, <2>2, <2>3, <2>4
<1>2. heap_listp \in B /\ x \in Nat
  BY <1>1 DEF heap_listp
<1>3. Max(B) \in B /\ \A y \in B : y <= Max(B)
  <2>1. B \in SUBSET Nat
    BY <1>1
  <2>2. \A y \in B : y <= x
    BY <1>1, <1>2
  <2> HIDE DEF B
  <2> QED BY <2>1, <2>2, <1>2, MaxOfNats
<1>4. PICK y \in W : y < x /\ \A z \in W : z < x => z <= y
  BY <1>3
<1> DEFINE e == y + SizeOf(m, y)
<1>5. /\ e \in W \cup {b} /\ e > y /\ e \in Nat /\ y \in Nat
      /\ m[e - 2] = m[y - 1]
  BY <1>1
<1>6. e <= x
  BY <1>1, <1>4, <1>5
<1> HIDE DEF e
<1>7. e = x
  BY <1>1, <1>2, <1>4, <1>5, <1>6
<1> QED BY <1>4, <1>5, <1>7 DEF e

(* Walk visits exactly the blocks that tile the heap.                      *)
LEMMA WalkTiled ==
  ASSUME NEW m, NEW b, NEW W, Tiled(m, b, W)
  PROVE  Walk(m) = W
<1>1. PICK f : /\ \A p \in 1 .. MAX_HEAP :
                    f[p] = IF GET_SIZE(m, p - 1) = 0 THEN {}
                           ELSE {p} \cup IF NEXT_BLKP(m, p) \in 1 .. MAX_HEAP
                                         THEN f[NEXT_BLKP(m, p)] ELSE {}
               /\ Walk(m) = f[heap_listp]
  BY WalkEquation
<1> DEFINE V == W \cup {b}
           Good(p) == f[p] = {x \in W : x >= p}
           Bad == {p \in V : ~Good(p)}
<1>2. /\ V \in SUBSET Nat /\ b \in Nat /\ W \subseteq V
      /\ \A x \in V : x <= b /\ x \in 1 .. MAX_HEAP
      /\ \A x \in W : SizeOf(m, x) \in Nat /\ SizeOf(m, x) >= 2 /\ x + SizeOf(m, x) \in V
      /\ SizeOf(m, b) = 0
  <2>1. /\ b \in Nat /\ b <= MAX_HEAP /\ MAX_HEAP \in Nat /\ W \in SUBSET Nat
        /\ b >= 6
    BY TiledFacts
  <2>2. \A x \in W : /\ x \in Nat /\ x >= 4 /\ x < b
                     /\ SizeOf(m, x) \in Nat /\ SizeOf(m, x) >= 2 /\ x + SizeOf(m, x) \in V
    BY TiledFacts
  <2>3. SizeOf(m, b) = 0
    BY TiledFacts
  <2> QED BY <2>1, <2>2, <2>3
<1>3. Bad = {}
  <2>1. SUFFICES ASSUME Bad # {} PROVE FALSE
    OBVIOUS
  <2>2. Max(Bad) \in Bad /\ \A p \in Bad : p <= Max(Bad)
    <3>1. Bad \in SUBSET Nat /\ \A p \in Bad : p <= b
      BY <1>2
    <3> HIDE DEF Bad
    <3> QED BY <2>1, <3>1, <1>2, MaxOfNats
  <2>3. PICK c \in V : ~Good(c) /\ \A p \in V : p > c => Good(p)
    <3> DEFINE top == Max(Bad)
    <3>1. top \in Bad /\ top \in Nat /\ \A p \in Bad : p <= top
      BY <1>2, <2>2
    <3> HIDE DEF top
    <3>2. \A p \in V : p > top => p \notin Bad
      <4> HIDE DEF Bad
      <4> QED BY <1>2, <3>1
    <3> QED BY <3>1, <3>2
  <2>4. CASE c = b
    <3>1. f[c] = {}
      BY <2>4, <1>1, <1>2 DEF SizeOf
    <3>2. {x \in W : x >= c} = {}
      <4>1. \A x \in W : x < c /\ x \in Nat /\ c \in Nat
        BY <2>4, TiledFacts
      <4> QED BY <4>1
    <3> QED BY <3>1, <3>2, <2>3
  <2>5. CASE c # b
    <3> DEFINE n == c + SizeOf(m, c)
    <3>1. c \in W /\ n \in V /\ n > c /\ n = NEXT_BLKP(m, c) /\ SizeOf(m, c) # 0
      BY <2>5, <1>2 DEF NEXT_BLKP, SizeOf
    <3>2. n \in 1 .. MAX_HEAP /\ c \in 1 .. MAX_HEAP
      BY <3>1, <1>2
    <3>3. f[c] = {c} \cup f[n]
      BY <3>1, <3>2, <1>1 DEF SizeOf
    <3>4. f[n] = {x \in W : x >= n}
      BY <3>1, <2>3
    <3>5. \A x \in W : x > c => x >= n
      BY <3>1, TiledFacts
    <3> HIDE DEF n
    <3>6. \A x \in W : x >= c <=> (x = c \/ x >= n)
      BY <3>1, <3>5, <1>2
    <3>7. f[c] = {x \in W : x >= c}
      BY <3>1, <3>3, <3>4, <3>6
    <3> QED BY <3>7, <2>3
  <2> QED BY <2>4, <2>5
<1>4. heap_listp \in V
  BY DEF Tiled
<1>5. f[heap_listp] = {x \in W : x >= heap_listp}
  BY <1>3, <1>4
<1>6. \A x \in W : x >= heap_listp
  BY TiledFacts DEF heap_listp
<1>7. {x \in W : x >= heap_listp} = W
  BY <1>6
<1> QED BY <1>1, <1>5, <1>7

(* What Tag writes: a header and the footer that goes with it.             *)
LEMMA TagFacts ==
  ASSUME NEW m \in Memory, NEW x \in Nat, NEW s \in Nat, s % 2 = 0, NEW a \in {0, 1},
         x - 1 \in Arena, x + s - 2 \in Arena
  PROVE  /\ Tag(m, x, s, a) \in Memory
         /\ Tag(m, x, s, a)[x - 1] = s + a
         /\ Tag(m, x, s, a)[x + s - 2] = s + a
         /\ \A p \in Arena : p # x - 1 /\ p # x + s - 2 => Tag(m, x, s, a)[p] = m[p]
         /\ SizeOf(Tag(m, x, s, a), x) = s /\ AllocOf(Tag(m, x, s, a), x) = a
<1> DEFINE m2 == Tag(m, x, s, a)
<1>1. s + a \in Nat
  BY PackFacts
<1>2. /\ m2 \in Memory
      /\ m2[x - 1] = s + a
      /\ m2[x + s - 2] = s + a
      /\ \A p \in Arena : p # x - 1 /\ p # x + s - 2 => m2[p] = m[p]
  BY <1>1 DEF Tag, HDRP, Memory
<1> HIDE DEF m2
<1>3. SizeOf(m2, x) = s /\ AllocOf(m2, x) = a
  BY <1>2, PackFacts DEF SizeOf, AllocOf, GET_SIZE, GET_ALLOC
<1> QED BY <1>2, <1>3 DEF m2

(* A block whose header stays keeps its size and its bit.                  *)
LEMMA SameHeader ==
  ASSUME NEW m, NEW m2, NEW x, m2[x - 1] = m[x - 1]
  PROVE  SizeOf(m2, x) = SizeOf(m, x) /\ AllocOf(m2, x) = AllocOf(m, x)
  BY DEF SizeOf, AllocOf, GET_SIZE, GET_ALLOC

(* The block at x is made to reach to e.                                   *)
Retag(m, x, e, a) == Tag(m, x, e - x, a)

(* Nothing but the tags of that block changes.                             *)
TagsOnly(m, m2, x, e) == \A p \in Arena : p # x - 1 /\ p # e - 2 => m2[p] = m[p]

(* The blocks left when x swallows those up to e.                          *)
Merged(W, x, e) == {w \in W : w <= x \/ w >= e}

(* A block that swallows its successors, none of them in part, leaves the  *)
(* heap tiled.                                                             *)
LEMMA TileMerge ==
  ASSUME NEW m, NEW b, NEW W, Tiled(m, b, W), NEW x \in W, x # heap_listp,
         NEW e \in W \cup {b}, e > x, NEW a \in {0, 1}
  PROVE  LET m2 == Retag(m, x, e, a)
             W2 == Merged(W, x, e)
         IN  /\ Tiled(m2, b, W2)
             /\ SizeOf(m2, x) = e - x /\ AllocOf(m2, x) = a
             /\ \A w \in W2 \ {x} : m2[w - 1] = m[w - 1]
             /\ TagsOnly(m, m2, x, e)
<1> DEFINE s  == e - x
           m2 == Tag(m, x, s, a)
           W2 == {w \in W : w <= x \/ w >= e}
<1>1. /\ b \in Nat /\ b >= 6 /\ b <= MAX_HEAP /\ MAX_HEAP \in Nat
      /\ W \in SUBSET Nat /\ x \in Nat /\ e \in Nat /\ b % 2 = 0
      /\ e <= b /\ x < b /\ m \in Memory /\ m[b - 1] = 1
  <2>1. m \in Memory /\ m[b - 1] = 1 /\ b % 2 = 0
    BY DEF Tiled
  <2>2. /\ b \in Nat /\ b >= 6 /\ b <= MAX_HEAP /\ MAX_HEAP \in Nat /\ W \in SUBSET Nat
        /\ \A w \in W : w < b
    BY TiledFacts
  <2> QED BY <2>1, <2>2
<1>2. \A w \in W : w \in Nat /\ w >= 4 /\ w < b /\ w % 2 = 0 /\ w - 1 \in Arena
  BY TiledFacts
<1>3. \A w \in W : /\ SizeOf(m, w) \in Nat
                   /\ SizeOf(m, w) >= 2 /\ (w # heap_listp => SizeOf(m, w) >= 4)
  BY TiledFacts
<1>4. \A w \in W : /\ w + SizeOf(m, w) \in W \cup {b}
                   /\ w + SizeOf(m, w) <= b
                   /\ w + SizeOf(m, w) - 2 \in Arena
                   /\ m[w + SizeOf(m, w) - 2] = m[w - 1]
  BY TiledFacts
<1>5. \A w, v \in W : w < v => w + SizeOf(m, w) <= v
  BY TiledFacts
<1>6. heap_listp \in W /\ heap_listp = 4 /\ SizeOf(m, heap_listp) = 2
  BY TiledFacts DEF heap_listp
<1>7. x >= 6
  BY <1>1, <1>2, <1>5, <1>6
<1>8. e >= x + SizeOf(m, x) /\ s >= 4 /\ s \in Nat /\ x + s = e
  BY <1>1, <1>3, <1>4, <1>5
<1>9. s % 2 = 0
  <2>1. x % 2 = 0 /\ e % 2 = 0
    BY <1>1, <1>2
  <2> QED BY <2>1, <1>1, EvenFacts
<1>10. x - 1 \in Arena /\ x + s - 2 \in Arena
  BY <1>1, <1>7, <1>8 DEF Arena
<1> HIDE DEF s
<1>11. /\ m2 \in Memory
       /\ m2[x - 1] = s + a
       /\ m2[x + s - 2] = s + a
       /\ \A p \in Arena : p # x - 1 /\ p # x + s - 2 => m2[p] = m[p]
       /\ SizeOf(m2, x) = s /\ AllocOf(m2, x) = a
  <2>1. m \in Memory /\ x \in Nat /\ s \in Nat
    BY <1>1, <1>8
  <2> QED BY <2>1, <1>9, <1>10, TagFacts, ZenonT(40)
<1> HIDE DEF m2
<1>12. ASSUME NEW w \in W2 \ {x}
       PROVE  /\ m2[w - 1] = m[w - 1]
              /\ m2[w + SizeOf(m, w) - 2] = m[w + SizeOf(m, w) - 2]
  <2>1. w \in W /\ (w < x \/ w >= e)
    BY <1>1, <1>2
  <2>2. w < x => w + SizeOf(m, w) <= x
    BY <2>1, <1>5
  <2>3. w - 1 # x - 1 /\ w - 1 # x + s - 2
    BY <2>1, <1>1, <1>2, <1>8
  <2>4. w + SizeOf(m, w) - 2 # x - 1 /\ w + SizeOf(m, w) - 2 # x + s - 2
    BY <2>1, <2>2, <1>1, <1>2, <1>3, <1>8
  <2> QED BY <2>1, <2>3, <2>4, <1>2, <1>4, <1>11
<1>13. \A w \in W2 \ {x} : SizeOf(m2, w) = SizeOf(m, w)
  BY <1>12, SameHeader
<1>14. \A w \in W2 : w + SizeOf(m2, w) \in W2 \cup {b}
  <2> SUFFICES ASSUME NEW w \in W2 PROVE w + SizeOf(m2, w) \in W2 \cup {b}
    OBVIOUS
  <2>1. CASE w = x
    BY <2>1, <1>1, <1>8, <1>11
  <2>2. CASE w # x
    <3>1. w \in W /\ (w < x \/ w >= e) /\ SizeOf(m2, w) = SizeOf(m, w)
      BY <2>2, <1>1, <1>2, <1>13
    <3> DEFINE z == w + SizeOf(m, w)
    <3>2. z \in W \cup {b} /\ (w < x => z <= x) /\ z > w /\ z \in Nat
      BY <3>1, <1>2, <1>3, <1>4, <1>5
    <3> HIDE DEF z
    <3>3. z \in W2 \cup {b}
      BY <3>1, <3>2, <1>1, <1>2
    <3> QED BY <3>1, <3>3 DEF z
  <2> QED BY <2>1, <2>2
<1>15. \A w, v \in W2 : w < v => w + SizeOf(m2, w) <= v
  <2> SUFFICES ASSUME NEW w \in W2, NEW v \in W2, w < v PROVE w + SizeOf(m2, w) <= v
    OBVIOUS
  <2>1. CASE w = x
    BY <2>1, <1>1, <1>2, <1>8, <1>11
  <2>2. CASE w # x
    BY <2>2, <1>5, <1>13
  <2> QED BY <2>1, <2>2
<1>16. \A w \in W2 : /\ w % 2 = 0
                     /\ SizeOf(m2, w) >= 2 /\ (w # heap_listp => SizeOf(m2, w) >= 4)
                     /\ m2[w + SizeOf(m2, w) - 2] = m2[w - 1]
  <2> SUFFICES ASSUME NEW w \in W2
               PROVE  /\ w % 2 = 0
                      /\ SizeOf(m2, w) >= 2 /\ (w # heap_listp => SizeOf(m2, w) >= 4)
                      /\ m2[w + SizeOf(m2, w) - 2] = m2[w - 1]
    OBVIOUS
  <2>1. CASE w = x
    BY <2>1, <1>2, <1>8, <1>11
  <2>2. CASE w # x
    <3>1. w \in W /\ SizeOf(m2, w) = SizeOf(m, w)
      BY <2>2, <1>13
    <3> QED BY <3>1, <2>2, <1>2, <1>3, <1>4, <1>12
  <2> QED BY <2>1, <2>2
<1>17. heap_listp \in W2 /\ m2[heap_listp - 1] = 3
  <2>1. heap_listp \in W2 \ {x}
    BY <1>1, <1>6, <1>7
  <2>2. m[heap_listp - 1] = 3
    BY DEF Tiled
  <2> QED BY <2>1, <2>2, <1>12
<1>18. m2[b - 1] = 1
  <2>1. b - 1 \in Arena /\ b - 1 # x - 1 /\ b - 1 # x + s - 2
    BY <1>1, <1>8 DEF Arena
  <2> QED BY <2>1, <1>1, <1>11
<1>19. W2 \subseteq heap_listp .. b - 2 /\ b \in 6 .. MAX_HEAP
  BY DEF Tiled
<1> HIDE DEF W2
<1>20. Tiled(m2, b, W2)
  BY <1>1, <1>11, <1>14, <1>15, <1>16, <1>17, <1>18, <1>19 DEF Tiled
<1>21. \A p \in Arena : p # x - 1 /\ p # e - 2 => m2[p] = m[p]
  <2>1. x + s - 2 = e - 2
    BY <1>1, <1>8
  <2> QED BY <2>1, <1>11
<1> QED BY <1>11, <1>12, <1>20, <1>21 DEF s, m2, W2, Merged, TagsOnly, Retag

(* Small sets of blocks, named to keep the provers off their definitions.  *)
With(F, x) == F \cup {x}
After(x, s) == x + s

(* place cuts a block in two: s words are allocated, the rest is free.     *)
Split(m, x, s) == Tag(Tag(m, x, s, 1), After(x, s), SizeOf(m, x) - s, 0)

(* Nothing but the tags of the two parts changes.                          *)
SplitOnly(m, m2, x, s) ==
  \A p \in Arena : (/\ p # x - 1 /\ p # x + s - 2
                    /\ p # x + s - 1 /\ p # x + SizeOf(m, x) - 2) => m2[p] = m[p]

(* The two parts tile what the block covered.                              *)
LEMMA TileSplit ==
  ASSUME NEW m, NEW b, NEW W, Tiled(m, b, W), NEW x \in W, x # heap_listp,
         NEW s \in Nat, s % 2 = 0, s >= 4, SizeOf(m, x) - s >= 4
  PROVE  LET y  == After(x, s)
             m2 == Split(m, x, s)
         IN  /\ Tiled(m2, b, With(W, y))
             /\ y \notin W /\ y \in Nat
             /\ SizeOf(m2, x) = s /\ AllocOf(m2, x) = 1
             /\ AllocOf(m2, y) = 0 /\ NEXT_BLKP(m2, y) = NEXT_BLKP(m, x)
             /\ \A w \in W \ {x} : m2[w - 1] = m[w - 1]
             /\ SplitOnly(m, m2, x, s)
             /\ m2[x] = m[x] /\ m2[x + 1] = m[x + 1]
             /\ \A w \in W : w < x <=> w < y /\ w # x
<1> DEFINE z  == SizeOf(m, x)
           r  == z - s
           y  == x + s
           m1 == Tag(m, x, s, 1)
           m2 == Tag(m1, y, r, 0)
           W2 == W \cup {y}
<1>1. /\ b \in Nat /\ b >= 6 /\ b <= MAX_HEAP /\ MAX_HEAP \in Nat
      /\ W \in SUBSET Nat /\ x \in Nat /\ b % 2 = 0
      /\ x < b /\ m \in Memory /\ m[b - 1] = 1
  <2>1. m \in Memory /\ m[b - 1] = 1 /\ b % 2 = 0
    BY DEF Tiled
  <2>2. /\ b \in Nat /\ b >= 6 /\ b <= MAX_HEAP /\ MAX_HEAP \in Nat /\ W \in SUBSET Nat
        /\ \A w \in W : w < b
    BY TiledFacts
  <2> QED BY <2>1, <2>2
<1>2. \A w \in W : w \in Nat /\ w >= 4 /\ w < b /\ w % 2 = 0 /\ w - 1 \in Arena
  BY TiledFacts
<1>3. \A w \in W : /\ SizeOf(m, w) \in Nat /\ SizeOf(m, w) % 2 = 0
                   /\ SizeOf(m, w) >= 2 /\ (w # heap_listp => SizeOf(m, w) >= 4)
  BY TiledFacts
<1>4. \A w \in W : /\ w + SizeOf(m, w) \in W \cup {b}
                   /\ w + SizeOf(m, w) <= b
                   /\ w + SizeOf(m, w) - 2 \in Arena
                   /\ m[w + SizeOf(m, w) - 2] = m[w - 1]
  BY TiledFacts
<1>5. \A w, v \in W : w < v => w + SizeOf(m, w) <= v
  BY TiledFacts
<1>6. heap_listp \in W /\ heap_listp = 4 /\ SizeOf(m, heap_listp) = 2
  BY TiledFacts DEF heap_listp
<1>7. x >= 6
  BY <1>1, <1>2, <1>5, <1>6
<1>8. /\ z \in Nat /\ x + z <= b /\ r \in Nat /\ r >= 4 /\ y \in Nat /\ y > x
      /\ y + r = x + z /\ y < b /\ x + z \in W \cup {b} /\ y + 4 <= b
  BY <1>1, <1>3, <1>4
<1>9. r % 2 = 0 /\ y % 2 = 0
  <2>1. z % 2 = 0 /\ x % 2 = 0 /\ z >= s
    BY <1>2, <1>3, <1>8
  <2> HIDE DEF z
  <2> QED BY <2>1, <1>1, <1>8, EvenFacts
<1> HIDE DEF z, r
<1>10. /\ x - 1 \in Arena /\ x + s - 2 \in Arena
       /\ y - 1 \in Arena /\ y + r - 2 \in Arena
  BY <1>1, <1>7, <1>8 DEF Arena
<1>11. /\ m1 \in Memory
       /\ m1[x - 1] = s + 1
       /\ m1[x + s - 2] = s + 1
       /\ \A p \in Arena : p # x - 1 /\ p # x + s - 2 => m1[p] = m[p]
       /\ SizeOf(m1, x) = s /\ AllocOf(m1, x) = 1
  BY <1>1, <1>10, TagFacts, ZenonT(40)
<1> HIDE DEF m1
<1>12. /\ m2 \in Memory
       /\ m2[y - 1] = r + 0
       /\ m2[y + r - 2] = r + 0
       /\ \A p \in Arena : p # y - 1 /\ p # y + r - 2 => m2[p] = m1[p]
       /\ SizeOf(m2, y) = r /\ AllocOf(m2, y) = 0
  <2> HIDE DEF y
  <2>1. r \in Nat /\ y \in Nat /\ r % 2 = 0 /\ m1 \in Memory /\ 0 \in {0, 1}
    BY <1>8, <1>9, <1>11
  <2>2. y - 1 \in Arena /\ y + r - 2 \in Arena
    BY <1>10
  <2> QED BY <2>1, <2>2, TagFacts, ZenonT(60)
<1> HIDE DEF m2
<1>13. m2[x - 1] = s + 1 /\ m2[x + s - 2] = s + 1 /\ SizeOf(m2, x) = s /\ AllocOf(m2, x) = 1
  <2>1. /\ x - 1 # y - 1 /\ x - 1 # y + r - 2
        /\ x + s - 2 # y - 1 /\ x + s - 2 # y + r - 2
    BY <1>1, <1>8
  <2>2. m2[x - 1] = m1[x - 1] /\ m2[x + s - 2] = m1[x + s - 2]
    BY <2>1, <1>10, <1>12
  <2> QED BY <2>2, <1>11, SameHeader
<1>14. ASSUME NEW w \in W \ {x}
       PROVE  /\ m2[w - 1] = m[w - 1]
              /\ m2[w + SizeOf(m, w) - 2] = m[w + SizeOf(m, w) - 2]
              /\ w < x \/ w > y
  <2>1. w < x => w + SizeOf(m, w) <= x
    BY <1>5
  <2>2. w > x => w >= x + z
    BY <1>5 DEF z
  <2>3. /\ w \in Nat /\ SizeOf(m, w) \in Nat /\ SizeOf(m, w) >= 2
        /\ w - 1 \in Arena /\ w + SizeOf(m, w) - 2 \in Arena
    BY <1>2, <1>3, <1>4
  <2>4. w < x \/ w > x
    BY <1>1, <2>3
  <2>5. /\ w - 1 # x - 1 /\ w - 1 # x + s - 2
        /\ w - 1 # y - 1 /\ w - 1 # y + r - 2
    BY <2>1, <2>2, <2>3, <2>4, <1>1, <1>8
  <2>6. /\ w + SizeOf(m, w) - 2 # x - 1 /\ w + SizeOf(m, w) - 2 # x + s - 2
        /\ w + SizeOf(m, w) - 2 # y - 1 /\ w + SizeOf(m, w) - 2 # y + r - 2
    BY <2>1, <2>2, <2>3, <2>4, <1>1, <1>8
  <2>7. w < x \/ w > y
    BY <2>2, <2>3, <2>4, <1>1, <1>8
  <2> QED BY <2>3, <2>5, <2>6, <2>7, <1>11, <1>12
<1>15. \A w \in W \ {x} : SizeOf(m2, w) = SizeOf(m, w)
  BY <1>14, SameHeader
<1>16. y \notin W
  BY <1>1, <1>8, <1>14
<1>17. x + SizeOf(m2, x) = y /\ y + SizeOf(m2, y) = x + z
  BY <1>8, <1>12, <1>13
<1>18. \A w \in W2 : w + SizeOf(m2, w) \in W2 \cup {b}
  BY <1>4, <1>8, <1>15, <1>17
<1>19. \A w, v \in W2 : w < v => w + SizeOf(m2, w) <= v
  <2> SUFFICES ASSUME NEW w \in W2, NEW v \in W2, w < v PROVE w + SizeOf(m2, w) <= v
    OBVIOUS
  <2>1. w # x /\ v # y /\ w # y => w + SizeOf(m2, w) <= v
    BY <1>5, <1>15
  <2>2. CASE w = x
    <3>1. v # y => v > y
      BY <2>2, <1>1, <1>14
    <3>2. w + SizeOf(m2, w) = y /\ y \in Nat /\ v \in Nat
      BY <2>2, <1>1, <1>8, <1>17
    <3> HIDE DEF y
    <3> QED BY <3>1, <3>2
  <2>3. CASE w = y
    <3>1. v \in W /\ v > x /\ v \in Nat
      BY <2>3, <1>1, <1>8
    <3>2. v >= x + z
      BY <3>1, <1>5 DEF z
    <3> QED BY <3>2, <2>3, <1>17
  <2>4. CASE v = y /\ w # x
    <3>1. w \in W \ {x} /\ w < x
      BY <2>4, <1>2, <1>8, <1>14
    <3>2. w + SizeOf(m, w) <= x /\ SizeOf(m2, w) = SizeOf(m, w)
      BY <3>1, <1>5, <1>15
    <3> QED BY <3>1, <3>2, <2>4, <1>1, <1>2, <1>3, <1>8
  <2> QED BY <2>1, <2>2, <2>3, <2>4
<1>20. \A w \in W2 : /\ w % 2 = 0
                     /\ SizeOf(m2, w) >= 2 /\ (w # heap_listp => SizeOf(m2, w) >= 4)
                     /\ m2[w + SizeOf(m2, w) - 2] = m2[w - 1]
  <2> SUFFICES ASSUME NEW w \in W2
               PROVE  /\ w % 2 = 0
                      /\ SizeOf(m2, w) >= 2 /\ (w # heap_listp => SizeOf(m2, w) >= 4)
                      /\ m2[w + SizeOf(m2, w) - 2] = m2[w - 1]
    OBVIOUS
  <2>1. CASE w = x
    BY <2>1, <1>2, <1>13
  <2>2. CASE w = y
    <3> HIDE DEF y
    <3> QED BY <2>2, <1>8, <1>9, <1>12
  <2>3. CASE w \in W \ {x}
    <3>1. SizeOf(m2, w) = SizeOf(m, w)
      BY <2>3, <1>15
    <3> QED BY <3>1, <2>3, <1>2, <1>3, <1>4, <1>14
  <2> QED BY <2>1, <2>2, <2>3
<1>21. heap_listp \in W2 /\ m2[heap_listp - 1] = 3
  <2>1. m[heap_listp - 1] = 3
    BY DEF Tiled
  <2> QED BY <2>1, <1>6, <1>14
<1>22. m2[b - 1] = 1
  <2>1. /\ b - 1 \in Arena /\ b - 1 # x - 1 /\ b - 1 # x + s - 2
        /\ b - 1 # y - 1 /\ b - 1 # y + r - 2
    BY <1>1, <1>8 DEF Arena
  <2> QED BY <2>1, <1>1, <1>11, <1>12
<1>23. W2 \subseteq heap_listp .. b - 2 /\ b \in 6 .. MAX_HEAP
  <2>1. W \subseteq heap_listp .. b - 2 /\ b \in 6 .. MAX_HEAP
    BY DEF Tiled
  <2>2. y \in heap_listp .. b - 2
    BY <1>1, <1>6, <1>7, <1>8
  <2> QED BY <2>1, <2>2
<1> HIDE DEF W2
<1>24. Tiled(m2, b, W2)
  BY <1>1, <1>12, <1>18, <1>19, <1>20, <1>21, <1>22, <1>23 DEF Tiled
<1>25. \A p \in Arena : (/\ p # x - 1 /\ p # y - 2
                        /\ p # y - 1 /\ p # x + z - 2) => m2[p] = m[p]
  <2>1. x + s - 2 = y - 2 /\ y + r - 2 = x + z - 2
    BY <1>1, <1>8
  <2> QED BY <2>1, <1>11, <1>12
<1>26. m2[x] = m[x] /\ m2[x + 1] = m[x + 1]
  <2>1. x \in Arena /\ x + 1 \in Arena
    BY <1>1, <1>8 DEF Arena
  <2>2. /\ x # x - 1 /\ x # y - 2 /\ x # y - 1 /\ x # x + z - 2
        /\ x + 1 # x - 1 /\ x + 1 # y - 2 /\ x + 1 # y - 1 /\ x + 1 # x + z - 2
    BY <1>1, <1>8
  <2> QED BY <2>1, <2>2, <1>25
<1>27. NEXT_BLKP(m2, y) = NEXT_BLKP(m, x)
  <2>1. y + SizeOf(m2, y) = x + SizeOf(m, x)
    BY <1>17 DEF z
  <2> HIDE DEF y
  <2> QED BY <2>1 DEF NEXT_BLKP, SizeOf
<1>28. \A w \in W : w < x <=> w < y /\ w # x
  <2>1. ASSUME NEW w \in W, w # x PROVE w < x <=> w < y
    BY <2>1, <1>1, <1>2, <1>8, <1>14
  <2> QED BY <2>1, <1>1
<1>29. After(x, s) = y /\ Split(m, x, s) = m2 /\ With(W, y) = W2
  BY DEF z, r, m1, m2, W2, With, After, Split
<1>30. SplitOnly(m, m2, x, s)
  <2>1. x + s - 2 = y - 2 /\ x + s - 1 = y - 1
    BY <1>1
  <2> HIDE DEF y
  <2>2. \A p \in Arena : (/\ p # x - 1 /\ p # x + s - 2
                          /\ p # x + s - 1 /\ p # x + z - 2) => m2[p] = m[p]
    BY <2>1, <1>25
  <2> QED BY <2>2 DEF SplitOnly, z
<1>31. /\ y \notin W /\ y \in Nat
       /\ \A w \in W \ {x} : m2[w - 1] = m[w - 1]
  BY <1>8, <1>14, <1>16
<1> HIDE DEF y
<1>32. /\ Tiled(m2, b, W2)
       /\ SizeOf(m2, x) = s /\ AllocOf(m2, x) = 1
       /\ AllocOf(m2, y) = 0 /\ NEXT_BLKP(m2, y) = NEXT_BLKP(m, x)
       /\ SplitOnly(m, m2, x, s)
       /\ m2[x] = m[x] /\ m2[x + 1] = m[x + 1]
  BY <1>12, <1>13, <1>24, <1>26, <1>27, <1>30
<1> QED BY <1>28, <1>29, <1>31, <1>32

(* extend_heap makes the new words a block and moves the epilogue.         *)
Grow(m, b, s) == [Tag(m, b, s, 0) EXCEPT ![b + s - 1] = 1]

(* The heap with the new block is tiled up to the new break.               *)
LEMMA TileExtend ==
  ASSUME NEW m, NEW b, NEW W, Tiled(m, b, W),
         NEW s \in Nat, s % 2 = 0, s >= 4, b + s <= MAX_HEAP
  PROVE  LET m2 == Grow(m, b, s)
         IN  /\ Tiled(m2, b + s, With(W, b))
             /\ b \notin W
             /\ SizeOf(m2, b) = s /\ AllocOf(m2, b) = 0
             /\ \A w \in W : m2[w - 1] = m[w - 1]
             /\ \A p \in Arena : p < b - 1 => m2[p] = m[p]
<1> DEFINE m1 == Tag(m, b, s, 0)
           m2 == [m1 EXCEPT ![b + s - 1] = 1]
           c  == b + s
           W2 == W \cup {b}
<1>1. /\ b \in Nat /\ b >= 6 /\ b <= MAX_HEAP /\ MAX_HEAP \in Nat
      /\ W \in SUBSET Nat /\ b % 2 = 0 /\ m \in Memory
  <2>1. m \in Memory /\ b % 2 = 0
    BY DEF Tiled
  <2>2. /\ b \in Nat /\ b >= 6 /\ b <= MAX_HEAP /\ MAX_HEAP \in Nat /\ W \in SUBSET Nat
    BY TiledFacts
  <2> QED BY <2>1, <2>2
<1>2. \A w \in W : w \in Nat /\ w >= 4 /\ w < b /\ w % 2 = 0 /\ w - 1 \in Arena
  BY TiledFacts
<1>3. \A w \in W : /\ SizeOf(m, w) \in Nat
                   /\ SizeOf(m, w) >= 2 /\ (w # heap_listp => SizeOf(m, w) >= 4)
  BY TiledFacts
<1>4. \A w \in W : /\ w + SizeOf(m, w) \in W \cup {b}
                   /\ w + SizeOf(m, w) <= b
                   /\ w + SizeOf(m, w) - 2 \in Arena
                   /\ m[w + SizeOf(m, w) - 2] = m[w - 1]
  BY TiledFacts
<1>5. \A w, v \in W : w < v => w + SizeOf(m, w) <= v
  BY TiledFacts
<1>6. heap_listp \in W /\ heap_listp = 4
  BY TiledFacts DEF heap_listp
<1>7. /\ b - 1 \in Arena /\ b + s - 2 \in Arena /\ b + s - 1 \in Arena
      /\ c \in Nat /\ c >= 6 /\ c > b /\ b + 2 <= c /\ b + 4 <= c
  BY <1>1 DEF Arena
<1>8. c % 2 = 0
  BY <1>1, EvenFacts
<1>9. /\ m1 \in Memory
      /\ m1[b - 1] = s + 0
      /\ m1[b + s - 2] = s + 0
      /\ \A p \in Arena : p # b - 1 /\ p # b + s - 2 => m1[p] = m[p]
      /\ SizeOf(m1, b) = s /\ AllocOf(m1, b) = 0
  <2>1. 0 \in {0, 1}
    OBVIOUS
  <2> QED BY <2>1, <1>1, <1>7, TagFacts, ZenonT(40)
<1> HIDE DEF m1
<1>10. /\ m2 \in Memory
       /\ m2[b + s - 1] = 1
       /\ \A p \in Arena : p # b + s - 1 => m2[p] = m1[p]
  BY <1>7, <1>9 DEF Memory
<1> HIDE DEF m2
<1>11. m2[b - 1] = s + 0 /\ m2[b + s - 2] = s + 0 /\ SizeOf(m2, b) = s /\ AllocOf(m2, b) = 0
  <2>1. b - 1 # b + s - 1 /\ b + s - 2 # b + s - 1
    BY <1>1
  <2>2. m2[b - 1] = m1[b - 1] /\ m2[b + s - 2] = m1[b + s - 2]
    BY <2>1, <1>7, <1>10
  <2> QED BY <2>2, <1>9, SameHeader
<1>12. \A p \in Arena : p < b - 1 => m2[p] = m[p]
  <2> SUFFICES ASSUME NEW p \in Arena, p < b - 1 PROVE m2[p] = m[p]
    OBVIOUS
  <2>1. p # b - 1 /\ p # b + s - 2 /\ p # b + s - 1
    BY <1>1 DEF Arena
  <2> QED BY <2>1, <1>9, <1>10
<1>13. \A w \in W : /\ m2[w - 1] = m[w - 1]
                    /\ m2[w + SizeOf(m, w) - 2] = m[w + SizeOf(m, w) - 2]
  <2> SUFFICES ASSUME NEW w \in W
               PROVE  /\ m2[w - 1] = m[w - 1]
                      /\ m2[w + SizeOf(m, w) - 2] = m[w + SizeOf(m, w) - 2]
    OBVIOUS
  <2>1. w - 1 < b - 1 /\ w + SizeOf(m, w) - 2 < b - 1
    BY <1>1, <1>2, <1>3, <1>4
  <2> QED BY <2>1, <1>2, <1>4, <1>12
<1>14. \A w \in W : SizeOf(m2, w) = SizeOf(m, w)
  BY <1>13, SameHeader
<1>15. b \notin W
  BY <1>1, <1>2
<1>16. \A w \in W2 : w + SizeOf(m2, w) \in W2 \cup {c}
  BY <1>4, <1>11, <1>14
<1>17. \A w, v \in W2 : w < v => w + SizeOf(m2, w) <= v
  <2> SUFFICES ASSUME NEW w \in W2, NEW v \in W2, w < v PROVE w + SizeOf(m2, w) <= v
    OBVIOUS
  <2>1. w \in W
    BY <1>1, <1>2
  <2>2. CASE v \in W
    BY <2>1, <2>2, <1>5, <1>14
  <2>3. CASE v = b
    BY <2>1, <2>3, <1>4, <1>14
  <2> QED BY <2>2, <2>3
<1>18. \A w \in W2 : /\ w % 2 = 0
                     /\ SizeOf(m2, w) >= 2 /\ (w # heap_listp => SizeOf(m2, w) >= 4)
                     /\ m2[w + SizeOf(m2, w) - 2] = m2[w - 1]
  <2> SUFFICES ASSUME NEW w \in W2
               PROVE  /\ w % 2 = 0
                      /\ SizeOf(m2, w) >= 2 /\ (w # heap_listp => SizeOf(m2, w) >= 4)
                      /\ m2[w + SizeOf(m2, w) - 2] = m2[w - 1]
    OBVIOUS
  <2>1. CASE w = b
    BY <2>1, <1>1, <1>11
  <2>2. CASE w \in W
    BY <2>2, <1>2, <1>3, <1>4, <1>13, <1>14
  <2> QED BY <2>1, <2>2
<1>19. heap_listp \in W2 /\ m2[heap_listp - 1] = 3
  <2>1. m[heap_listp - 1] = 3
    BY DEF Tiled
  <2> QED BY <2>1, <1>6, <1>13
<1>20. W2 \subseteq heap_listp .. c - 2 /\ c \in 6 .. MAX_HEAP
  <2>1. \A w \in W2 : w \in Nat /\ w >= 4 /\ w <= b
    BY <1>1, <1>2
  <2> QED BY <2>1, <1>1, <1>6, <1>7
<1> HIDE DEF W2
<1>21. Tiled(m2, c, W2)
  BY <1>8, <1>10, <1>16, <1>17, <1>18, <1>19, <1>20 DEF Tiled
<1> QED BY <1>11, <1>12, <1>13, <1>15, <1>21 DEF m1, m2, W2, Grow, With

-----------------------------------------------------------------------------
\* Blocks and the list together.

(* The words of a block with its tags; the free and the allocated blocks;  *)
(* no two free blocks side by side; the words of some blocks are left      *)
(* alone.                                                                  *)
BlockWords(m, x) == x - 1 .. x + SizeOf(m, x) - 2
FreeIn(m, W) == {x \in W : AllocOf(m, x) = 0}
HeldIn(m, W) == {x \in W : AllocOf(m, x) = 1}
Apart(m, F) == \A x \in F : NEXT_BLKP(m, x) \notin F
Keeps(m, m2, H) == \A x \in H : \A p \in BlockWords(m, x) : m2[p] = m[p]
Blocks(W) == SUBSET (W \ {heap_listp})
Without(F, n) == F \ {n}
Outside(W, G) == W \ G

(* Nothing but the links of L and of starter changes.                      *)
LinksOnly(m, m2, L) ==
  \A p \in Arena : (\A x \in L \cup {starter} : p # x /\ p # x + 1) => m2[p] = m[p]

(* The words of two blocks have none in common, and hold the tags and the  *)
(* links of their own block.                                               *)
LEMMA DisjointWords ==
  ASSUME NEW m, NEW b, NEW W, Tiled(m, b, W)
  PROVE  /\ \A x \in W : \A p \in BlockWords(m, x) : p \in Arena /\ p >= 3 /\ p < b - 1
         /\ \A x \in W : x - 1 \in BlockWords(m, x) /\ x + SizeOf(m, x) - 2 \in BlockWords(m, x)
         /\ \A x \in W \ {heap_listp} : x \in BlockWords(m, x) /\ x + 1 \in BlockWords(m, x)
         /\ \A x, y \in W : x # y => BlockWords(m, x) \cap BlockWords(m, y) = {}
<1>1. /\ b \in Nat /\ b <= MAX_HEAP /\ MAX_HEAP \in Nat
      /\ \A x \in W : x \in Nat /\ x >= 4 /\ x < b
  BY TiledFacts
<1>2. \A x \in W : /\ SizeOf(m, x) \in Nat
                   /\ SizeOf(m, x) >= 2 /\ (x # heap_listp => SizeOf(m, x) >= 4)
  BY TiledFacts
<1>3. \A x \in W : x + SizeOf(m, x) <= b
  BY TiledFacts
<1>4. \A x, y \in W : x < y => x + SizeOf(m, x) <= y
  BY TiledFacts
<1>5. \A x \in W : \A p \in BlockWords(m, x) : p \in Arena /\ p >= 3 /\ p < b - 1
  BY <1>1, <1>2, <1>3 DEF BlockWords, Arena
<1>6. \A x \in W : x - 1 \in BlockWords(m, x) /\ x + SizeOf(m, x) - 2 \in BlockWords(m, x)
  BY <1>1, <1>2 DEF BlockWords
<1>7. \A x \in W \ {heap_listp} : x \in BlockWords(m, x) /\ x + 1 \in BlockWords(m, x)
  BY <1>1, <1>2 DEF BlockWords
<1>8. ASSUME NEW x \in W, NEW y \in W, x # y
      PROVE  BlockWords(m, x) \cap BlockWords(m, y) = {}
  <2>1. x < y \/ y < x
    BY <1>1, <1>8
  <2>2. /\ x \in Nat /\ y \in Nat /\ SizeOf(m, x) \in Nat /\ SizeOf(m, y) \in Nat
        /\ x + SizeOf(m, x) <= y \/ y + SizeOf(m, y) <= x
    BY <2>1, <1>1, <1>2, <1>4
  <2> QED BY <2>2 DEF BlockWords
<1> QED BY <1>5, <1>6, <1>7, <1>8

(* Blocks are far enough apart to be nodes of a list.                      *)
LEMMA FreeSpaced ==
  ASSUME NEW m, NEW b, NEW W, Tiled(m, b, W), NEW F \in Blocks(W)
  PROVE  Spaced(F)
<1>1. /\ b \in Nat /\ b <= MAX_HEAP /\ MAX_HEAP \in Nat /\ b % 2 = 0
      /\ \A x \in W : x \in Nat /\ x >= 4 /\ x < b /\ x % 2 = 0
  <2>1. b % 2 = 0
    BY DEF Tiled
  <2> QED BY <2>1, TiledFacts
<1>2. \A x \in W : x + 2 <= b
  BY <1>1, EvenFacts
<1>3. \A x \in W : SizeOf(m, x) \in Nat /\ SizeOf(m, x) >= 2
  BY TiledFacts
<1>4. \A x, y \in W : x < y => x + SizeOf(m, x) <= y
  BY TiledFacts
<1>5. \A x, y \in F : x < y => x + 2 <= y
  BY <1>1, <1>3, <1>4 DEF Blocks
<1>6. F \subseteq starter + 2 .. MAX_HEAP - 2
  BY <1>1, <1>2 DEF starter, Blocks
<1> QED BY <1>5, <1>6 DEF Spaced

(* Writing links into free blocks leaves the tiles and the other blocks    *)
(* alone.                                                                  *)
LEMMA ListFrame ==
  ASSUME NEW m, NEW b, NEW W, Tiled(m, b, W), NEW L \in Blocks(W),
         NEW m2 \in Memory,
         LinksOnly(m, m2, L)
  PROVE  /\ Tiled(m2, b, W)
         /\ \A x \in W : m2[x - 1] = m[x - 1]
         /\ Keeps(m, m2, Outside(W, L))
<1>0. L \subseteq W \ {heap_listp}
  BY DEF Blocks
<1>1. /\ \A x \in W : \A p \in BlockWords(m, x) : p \in Arena /\ p >= 3 /\ p < b - 1
      /\ \A x \in W : x - 1 \in BlockWords(m, x) /\ x + SizeOf(m, x) - 2 \in BlockWords(m, x)
      /\ \A x \in W \ {heap_listp} : x \in BlockWords(m, x) /\ x + 1 \in BlockWords(m, x)
      /\ \A x, y \in W : x # y => BlockWords(m, x) \cap BlockWords(m, y) = {}
  BY DisjointWords
<1>2. /\ b \in Nat /\ b >= 6 /\ b <= MAX_HEAP /\ MAX_HEAP \in Nat
      /\ \A x \in W : x \in Nat /\ x >= 4 /\ x < b
  BY TiledFacts
<1>3. \A x \in W \ L : \A p \in BlockWords(m, x) : m2[p] = m[p]
  <2> SUFFICES ASSUME NEW x \in W \ L, NEW p \in BlockWords(m, x) PROVE m2[p] = m[p]
    OBVIOUS
  <2>1. \A y \in L : p # y /\ p # y + 1
    <3> SUFFICES ASSUME NEW y \in L PROVE p # y /\ p # y + 1
      OBVIOUS
    <3>1. y \in W \ {heap_listp} /\ x # y
      BY DEF Blocks
    <3> QED BY <3>1, <1>1
  <2>2. p \in Arena /\ p # starter /\ p # starter + 1
    BY <1>1 DEF starter, Arena
  <2> QED BY <2>1, <2>2 DEF LinksOnly
<1>4. \A x \in W : SizeOf(m, x) \in Nat /\ SizeOf(m, x) >= 2 /\ (x # heap_listp => SizeOf(m, x) >= 4)
  BY TiledFacts
<1>5. \A x \in W : m2[x - 1] = m[x - 1] /\ m2[x + SizeOf(m, x) - 2] = m[x + SizeOf(m, x) - 2]
  <2> SUFFICES ASSUME NEW x \in W
               PROVE  /\ m2[x - 1] = m[x - 1]
                      /\ m2[x + SizeOf(m, x) - 2] = m[x + SizeOf(m, x) - 2]
    OBVIOUS
  <2>1. CASE x \notin L
    BY <2>1, <1>1, <1>3
  <2>2. CASE x \in L
    <3>1. /\ x # heap_listp /\ x \in Nat /\ SizeOf(m, x) \in Nat /\ SizeOf(m, x) >= 4
          /\ x - 1 \in Arena /\ x + SizeOf(m, x) - 2 \in Arena
          /\ x - 1 >= 3 /\ x + SizeOf(m, x) - 2 >= 3
      BY <2>2, <1>0, <1>1, <1>2, <1>4
    <3>2. /\ x - 1 # x /\ x - 1 # x + 1
          /\ x + SizeOf(m, x) - 2 # x /\ x + SizeOf(m, x) - 2 # x + 1
          /\ x - 1 # starter /\ x - 1 # starter + 1
          /\ x + SizeOf(m, x) - 2 # starter /\ x + SizeOf(m, x) - 2 # starter + 1
      BY <3>1 DEF starter
    <3>3. \A y \in L \ {x} : /\ x - 1 # y /\ x - 1 # y + 1
                            /\ x + SizeOf(m, x) - 2 # y /\ x + SizeOf(m, x) - 2 # y + 1
      <4> SUFFICES ASSUME NEW y \in L \ {x}
                   PROVE  /\ x - 1 # y /\ x - 1 # y + 1
                          /\ x + SizeOf(m, x) - 2 # y /\ x + SizeOf(m, x) - 2 # y + 1
        OBVIOUS
      <4>1. /\ y \in BlockWords(m, y) /\ y + 1 \in BlockWords(m, y)
            /\ x - 1 \in BlockWords(m, x) /\ x + SizeOf(m, x) - 2 \in BlockWords(m, x)
            /\ BlockWords(m, x) \cap BlockWords(m, y) = {}
        BY <1>0, <1>1
      <4> QED BY <4>1
    <3> QED BY <3>1, <3>2, <3>3 DEF LinksOnly
  <2> QED BY <2>1, <2>2
<1>6. \A x \in W : SizeOf(m2, x) = SizeOf(m, x)
  BY <1>5, SameHeader
<1>7. m2[b - 1] = 1
  <2>1. m[b - 1] = 1
    BY DEF Tiled
  <2>2. b - 1 \in Arena /\ b - 1 # starter /\ b - 1 # starter + 1
    BY <1>2 DEF Arena, starter
  <2>3. \A x \in L : b - 1 # x /\ b - 1 # x + 1
    <3> SUFFICES ASSUME NEW x \in L PROVE b - 1 # x /\ b - 1 # x + 1
      OBVIOUS
    <3>1. x < b - 1 /\ x + 1 < b - 1 /\ x \in Nat
      BY <1>0, <1>1, <1>2
    <3> QED BY <3>1, <1>2
  <2> QED BY <2>1, <2>2, <2>3 DEF LinksOnly
<1>8. m2[heap_listp - 1] = 3
  BY <1>5 DEF Tiled
<1>9. \A x \in W : /\ x % 2 = 0
                   /\ SizeOf(m2, x) >= 2 /\ (x # heap_listp => SizeOf(m2, x) >= 4)
                   /\ m2[x + SizeOf(m2, x) - 2] = m2[x - 1]
                   /\ x + SizeOf(m2, x) \in W \cup {b}
  BY <1>5, <1>6 DEF Tiled
<1>10. \A x, y \in W : x < y => x + SizeOf(m2, x) <= y
  BY <1>6 DEF Tiled
<1>11. Tiled(m2, b, W)
  BY <1>7, <1>8, <1>9, <1>10 DEF Tiled
<1> QED BY <1>3, <1>5, <1>11 DEF Keeps, Outside

(* Merging blocks leaves the links of the other free blocks alone.         *)
LEMMA MergeFrame ==
  ASSUME NEW m, NEW b, NEW W, Tiled(m, b, W), NEW x \in W, x # heap_listp,
         NEW e \in W \cup {b}, e > x, NEW m2,
         TagsOnly(m, m2, x, e),
         NEW F \in Blocks(W), Linked(m, F)
  PROVE  /\ \A f \in F : m2[f] = m[f] /\ m2[f + 1] = m[f + 1]
         /\ Linked(m2, F)
         /\ \A w \in W : w < x \/ w >= e => \A p \in BlockWords(m, w) : m2[p] = m[p]
<1>0. F \subseteq W \ {heap_listp}
  BY DEF Blocks
<1>1. /\ \A w \in W : \A p \in BlockWords(m, w) : p \in Arena /\ p >= 3 /\ p < b - 1
      /\ \A w \in W : w - 1 \in BlockWords(m, w) /\ w + SizeOf(m, w) - 2 \in BlockWords(m, w)
      /\ \A w \in W \ {heap_listp} : w \in BlockWords(m, w) /\ w + 1 \in BlockWords(m, w)
      /\ \A w, y \in W : w # y => BlockWords(m, w) \cap BlockWords(m, y) = {}
  BY DisjointWords
<1>2. /\ b \in Nat /\ b >= 6 /\ b <= MAX_HEAP /\ MAX_HEAP \in Nat
      /\ \A w \in W : w \in Nat /\ w >= 4 /\ w < b
  BY TiledFacts
<1>3. \A w \in W : SizeOf(m, w) \in Nat /\ SizeOf(m, w) >= 2 /\ (w # heap_listp => SizeOf(m, w) >= 4)
  BY TiledFacts
<1>4. \A w, y \in W : w < y => w + SizeOf(m, w) <= y
  BY TiledFacts
<1>5. PICK z \in W : z < e /\ z + SizeOf(m, z) = e
  <2>1. e # heap_listp
    BY <1>2 DEF heap_listp
  <2> QED BY <2>1, TiledBefore
<1>6. /\ x \in Nat /\ e \in Nat /\ z \in Nat /\ x >= 4 /\ z >= x
      /\ x - 1 \in BlockWords(m, x) /\ e - 2 \in BlockWords(m, z)
      /\ x - 1 >= 3 /\ e - 2 >= 3
  <2>1. x \in Nat /\ e \in Nat /\ z \in Nat /\ x >= 4 /\ SizeOf(m, x) \in Nat /\ SizeOf(m, z) \in Nat
    BY <1>2, <1>3
  <2>2. z < x => z + SizeOf(m, z) <= x
    BY <1>4
  <2>3. z >= x
    BY <2>1, <2>2, <1>5
  <2>4. x - 1 \in BlockWords(m, x) /\ z + SizeOf(m, z) - 2 \in BlockWords(m, z)
    BY <1>1
  <2>5. e - 2 \in BlockWords(m, z)
    BY <2>1, <2>4, <1>5
  <2> QED BY <2>1, <2>3, <2>4, <2>5, <1>1
<1>7. ASSUME NEW w \in W, w < x \/ w >= e, NEW p \in BlockWords(m, w)
      PROVE  m2[p] = m[p]
  <2>1. w # x /\ w # z
    BY <1>2, <1>5, <1>6, <1>7
  <2>2. p # x - 1 /\ p # e - 2 /\ p \in Arena
    BY <2>1, <1>1, <1>6
  <2> QED BY <2>2 DEF TagsOnly
<1>8. ASSUME NEW f \in F
      PROVE  m2[f] = m[f] /\ m2[f + 1] = m[f + 1]
  <2>1. /\ f \in W /\ f # heap_listp /\ f \in Nat /\ SizeOf(m, f) \in Nat /\ SizeOf(m, f) >= 4
        /\ f \in BlockWords(m, f) /\ f + 1 \in BlockWords(m, f)
        /\ f \in Arena /\ f + 1 \in Arena
    BY <1>0, <1>1, <1>2, <1>3
  <2>2. f # x - 1 /\ f + 1 # x - 1
    <3>1. CASE f = x
      BY <3>1, <2>1
    <3>2. CASE f # x
      BY <3>2, <2>1, <1>1, <1>6
    <3> QED BY <3>1, <3>2
  <2>3. f # e - 2 /\ f + 1 # e - 2
    <3>1. CASE f = z
      BY <3>1, <2>1, <1>5
    <3>2. CASE f # z
      BY <3>2, <2>1, <1>1, <1>6
    <3> QED BY <3>1, <3>2
  <2> QED BY <2>1, <2>2, <2>3 DEF TagsOnly
<1>9. m2[starter + 1] = m[starter + 1]
  <2>1. starter + 1 \in Arena /\ starter + 1 # x - 1 /\ starter + 1 # e - 2
    BY <1>2, <1>6 DEF starter, Arena
  <2> QED BY <2>1 DEF TagsOnly
<1>10. Spaced(F)
  BY FreeSpaced
<1>11. Linked(m2, F)
  BY <1>8, <1>9, <1>10, LinkedFrame
<1> QED BY <1>7, <1>8, <1>11

(* The four cases of coalesce, one for each state of its neighbours.       *)
LEMMA CoalesceShape ==
  ASSUME NEW m, NEW b, NEW W, Tiled(m, b, W), NEW x \in W, NEW y \in W,
         NEXT_BLKP(m, y) = x, m[x - 2] = m[y - 1]
  PROVE  LET n == NEXT_BLKP(m, x)
             e == NEXT_BLKP(m, n)
             c == coalesce(m, x)
         IN  /\ AllocOf(m, y) = 1 /\ AllocOf(m, n) = 1 =>
                   c = [bp |-> x, mem |-> Insert(m, x)]
             /\ AllocOf(m, y) = 1 /\ AllocOf(m, n) # 1 =>
                   c = [bp  |-> x,
                        mem |-> Link(Link(Retag(m, x, e, 0), x, GET_SUCC(m, n)),
                                     GET_PREV(m, n), x)]
             /\ AllocOf(m, y) # 1 /\ AllocOf(m, n) = 1 =>
                   c = [bp |-> y, mem |-> Retag(m, y, n, 0)]
             /\ AllocOf(m, y) # 1 /\ AllocOf(m, n) # 1 =>
                   c = [bp  |-> y,
                        mem |-> Link(Retag(m, y, e, 0), y, GET_SUCC(m, n))]
<1> DEFINE n  == NEXT_BLKP(m, x)
           e  == NEXT_BLKP(m, n)
           sx == SizeOf(m, x)
           sy == SizeOf(m, y)
           sn == SizeOf(m, n)
<1>1. n = x + sx /\ e = n + sn /\ x = y + sy
  BY DEF NEXT_BLKP, SizeOf
<1> HIDE DEF n
<1>2. sx \in Nat /\ sy \in Nat /\ sn \in Nat /\ x \in Nat /\ y \in Nat /\ n \in Nat
  <2>1. \A w \in W : w \in Nat /\ SizeOf(m, w) \in Nat
    BY TiledFacts
  <2>2. n \in W \cup {b} /\ SizeOf(m, b) = 0 /\ b \in Nat
    <3>1. x + sx \in W \cup {b} /\ SizeOf(m, b) = 0 /\ b \in Nat
      BY TiledFacts
    <3> QED BY <3>1, <1>1
  <2> QED BY <2>1, <2>2
<1>3. PREV_BLKP(m, x) = y /\ NEXT_BLKP(m, x) = n
  <2>1. GET_SIZE(m, x - 2) = sy
    BY DEF GET_SIZE, SizeOf
  <2> HIDE DEF sx, sy, sn, e
  <2>2. x - sy = y
    BY <1>1, <1>2
  <2> QED BY <2>1, <2>2 DEF PREV_BLKP, n
<1>4. FTRP(m, y) = x - 2 /\ GET_ALLOC(m, x - 2) = AllocOf(m, y)
  <2>1. GET_ALLOC(m, x - 2) = AllocOf(m, y)
    BY DEF GET_ALLOC, AllocOf
  <2>2. FTRP(m, y) = y + sy - 2
    BY DEF FTRP, HDRP, SizeOf
  <2> HIDE DEF sx, sy, sn, e
  <2>3. y + sy - 2 = x - 2
    BY <1>1, <1>2
  <2> QED BY <2>1, <2>2, <2>3
<1>5. /\ GET_SIZE(m, HDRP(x)) = sx /\ GET_SIZE(m, HDRP(y)) = sy
      /\ GET_SIZE(m, HDRP(n)) = sn /\ GET_ALLOC(m, HDRP(n)) = AllocOf(m, n)
  BY DEF SizeOf, AllocOf, HDRP
<1> HIDE DEF sx, sy, sn, e
<1>6. /\ x - 0 = x /\ x - sy = y
      /\ 0 + sx + 0 = n - x /\ 0 + sx + sn = e - x
      /\ sy + sx + 0 = n - y /\ sy + sx + sn = e - y
  BY <1>1, <1>2
<1>7. CASE AllocOf(m, y) = 1 /\ AllocOf(m, n) = 1
  <2>1. coalesce(m, x) = [bp |-> x, mem |-> Insert(m, x)]
    BY <1>3, <1>4, <1>5, <1>6, <1>7 DEF coalesce
  <2> QED BY <1>7, <2>1 DEF n
<1>8. CASE AllocOf(m, y) = 1 /\ AllocOf(m, n) # 1
  <2>1. coalesce(m, x) = [bp  |-> x,
                          mem |-> Link(Link(Tag(m, x, e - x, 0), x, GET_SUCC(m, n)),
                                       GET_PREV(m, n), x)]
    BY <1>3, <1>4, <1>5, <1>6, <1>8 DEF coalesce
  <2> QED BY <1>8, <2>1 DEF n, e, Retag
<1>9. CASE AllocOf(m, y) # 1 /\ AllocOf(m, n) = 1
  <2>1. coalesce(m, x) = [bp |-> y, mem |-> Tag(m, y, n - y, 0)]
    BY <1>3, <1>4, <1>5, <1>6, <1>9 DEF coalesce
  <2> QED BY <1>9, <2>1 DEF n, Retag
<1>10. CASE AllocOf(m, y) # 1 /\ AllocOf(m, n) # 1
  <2>1. coalesce(m, x) = [bp  |-> y,
                          mem |-> Link(Tag(m, y, e - y, 0), y, GET_SUCC(m, n))]
    BY <1>3, <1>4, <1>5, <1>6, <1>10 DEF coalesce, Skip
  <2> QED BY <1>10, <2>1 DEF n, e, Retag
<1> QED BY <1>7, <1>8, <1>9, <1>10 DEF n

-----------------------------------------------------------------------------
\* coalesce.

(* What the allocator keeps between two calls: the blocks tile the heap,   *)
(* the list holds exactly the free ones in address order, and no two of    *)
(* them touch.                                                             *)
Heap(m, b, W) == /\ Tiled(m, b, W)
                 /\ Linked(m, FreeIn(m, W))
                 /\ Apart(m, FreeIn(m, W))

(* The same but for one free block x, which is not in the list yet and may *)
(* touch others: what coalesce is given.                                   *)
Unlisted(m, b, W, x) == /\ Tiled(m, b, W)
                        /\ x \in W /\ AllocOf(m, x) = 0
                        /\ Linked(m, Without(FreeIn(m, W), x))
                        /\ Apart(m, Without(FreeIn(m, W), x))

(* What coalesce returns: a heap, in which the free block bp covers x and  *)
(* every allocated block is as it was.                                     *)
Listed(m, b, W, x, bp, m2) ==
  \E V : /\ Heap(m2, b, V)
         /\ bp \in FreeIn(m2, V) /\ SizeOf(m2, bp) >= SizeOf(m, x)
         /\ After(bp, SizeOf(m2, bp)) >= After(x, SizeOf(m, x))
         /\ HeldIn(m2, V) = HeldIn(m, W)
         /\ Keeps(m, m2, HeldIn(m, W))

(* A block is free or held, and the prologue is held.                      *)
LEMMA FreeFacts ==
  ASSUME NEW m, NEW b, NEW W, Tiled(m, b, W)
  PROVE  /\ FreeIn(m, W) \in Blocks(W)
         /\ HeldIn(m, W) = W \ FreeIn(m, W)
         /\ heap_listp \in HeldIn(m, W)
<1>1. heap_listp \in W /\ AllocOf(m, heap_listp) = 1 /\ \A x \in W : AllocOf(m, x) \in {0, 1}
  BY TiledFacts
<1> QED BY <1>1 DEF FreeIn, HeldIn, Blocks

(* Insert on a tiled heap.                                                 *)
LEMMA InsertBlock ==
  ASSUME NEW m, NEW b, NEW W, Tiled(m, b, W), NEW F \in Blocks(W), Linked(m, F),
         NEW x, x \notin F, With(F, x) \in Blocks(W)
  PROVE  /\ Tiled(Insert(m, x), b, W)
         /\ Linked(Insert(m, x), With(F, x))
         /\ \A w \in W : Insert(m, x)[w - 1] = m[w - 1]
         /\ Keeps(m, Insert(m, x), Outside(W, With(F, x)))
<1>1. m \in Memory
  BY DEF Tiled
<1>2. Spaced(F)
  BY FreeSpaced
<1>3. Spaced(F \cup {x})
  BY FreeSpaced DEF With
<1>4. /\ Insert(m, x) \in Memory
      /\ Linked(Insert(m, x), F \cup {x})
      /\ \A w \in Arena : (\A y \in F \cup {x, starter} : w # y /\ w # y + 1)
                          => Insert(m, x)[w] = m[w]
  BY <1>1, <1>2, <1>3, ListInsert
<1>5. F \cup {x, starter} = With(F, x) \cup {starter}
  BY DEF With
<1>6. LinksOnly(m, Insert(m, x), With(F, x))
  BY <1>4, <1>5 DEF LinksOnly
<1>7. Insert(m, x) \in Memory
  BY <1>4
<1>8. Linked(Insert(m, x), With(F, x))
  BY <1>4 DEF With
<1>9. /\ Tiled(Insert(m, x), b, W)
      /\ \A w \in W : Insert(m, x)[w - 1] = m[w - 1]
      /\ Keeps(m, Insert(m, x), Outside(W, With(F, x)))
  BY <1>6, <1>7, ListFrame
<1> QED BY <1>8, <1>9

(* The second case of coalesce: x takes the place of the block behind it.  *)
LEMMA ReplaceBlock ==
  ASSUME NEW m, NEW b, NEW W, Tiled(m, b, W), NEW F, Spaced(F), Linked(m, F),
         NEW n \in F, NEW x, x \notin Without(F, n),
         \A v \in Without(F, n) : v < n <=> v < x,
         With(Without(F, n), x) \in Blocks(W),
         NEW m2, m2 = Link(Link(m, x, GET_SUCC(m, n)), GET_PREV(m, n), x)
  PROVE  /\ Tiled(m2, b, W)
         /\ Linked(m2, With(Without(F, n), x))
         /\ \A w \in W : m2[w - 1] = m[w - 1]
         /\ Keeps(m, m2, Outside(W, With(Without(F, n), x)))
<1>1. m \in Memory
  BY DEF Tiled
<1>2. PICK G : G = With(Without(F, n), x)
  OBVIOUS
<1>3. G \in Blocks(W)
  BY <1>2
<1>4. Spaced((F \ {n}) \cup {x})
  <2>1. Spaced(G)
    BY <1>3, FreeSpaced
  <2> QED BY <2>1, <1>2 DEF With, Without
<1>5. x \notin F \ {n} /\ \A v \in F \ {n} : v < n <=> v < x
  BY DEF Without
<1>6. /\ m2 \in Memory
      /\ Linked(m2, (F \ {n}) \cup {x})
      /\ \A w \in Arena : (\A y \in ((F \ {n}) \cup {x}) \cup {starter} : w # y /\ w # y + 1)
                          => m2[w] = m[w]
  BY <1>1, <1>4, <1>5, ListReplace
<1>7. m2 \in Memory
  BY <1>6
<1>8. Linked(m2, G)
  BY <1>2, <1>6 DEF With, Without
<1>9. LinksOnly(m, m2, G)
  BY <1>2, <1>6 DEF With, Without, LinksOnly
<1>10. /\ Tiled(m2, b, W)
       /\ \A w \in W : m2[w - 1] = m[w - 1]
       /\ Keeps(m, m2, Outside(W, G))
  BY <1>3, <1>7, <1>9, ListFrame
<1> QED BY <1>2, <1>8, <1>10

(* place takes a whole block out of the list.                              *)
LEMMA RemoveBlock ==
  ASSUME NEW m, NEW b, NEW W, Tiled(m, b, W), NEW F, Spaced(F), Linked(m, F),
         NEW n \in F, Without(F, n) \in Blocks(W),
         NEW m2, m2 = Link(m, GET_PREV(m, n), GET_SUCC(m, n))
  PROVE  /\ Tiled(m2, b, W)
         /\ Linked(m2, Without(F, n))
         /\ \A w \in W : m2[w - 1] = m[w - 1]
         /\ Keeps(m, m2, Outside(W, Without(F, n)))
<1>1. m \in Memory
  BY DEF Tiled
<1>2. /\ m2 \in Memory
      /\ Linked(m2, F \ {n})
      /\ \A w \in Arena : (\A y \in (F \ {n}) \cup {starter} : w # y /\ w # y + 1)
                          => m2[w] = m[w]
  BY <1>1, ListRemove
<1>3. m2 \in Memory
  BY <1>2
<1>4. Linked(m2, Without(F, n)) /\ LinksOnly(m, m2, Without(F, n))
  BY <1>2 DEF LinksOnly, Without
<1>5. /\ Tiled(m2, b, W)
      /\ \A w \in W : m2[w - 1] = m[w - 1]
      /\ Keeps(m, m2, Outside(W, Without(F, n)))
  BY <1>3, <1>4, ListFrame
<1> QED BY <1>4, <1>5

(* A merge keeps the list of the free blocks outside of it.                *)
LEMMA MergeBlock ==
  ASSUME NEW m, NEW b, NEW W, Tiled(m, b, W), NEW x \in W, x # heap_listp,
         NEW e \in W \cup {b}, e > x, NEW a \in {0, 1},
         NEW F \in Blocks(W), Linked(m, F),
         NEW m2, m2 = Retag(m, x, e, a)
  PROVE  /\ Tiled(m2, b, Merged(W, x, e))
         /\ Linked(m2, F)
         /\ SizeOf(m2, x) = e - x /\ AllocOf(m2, x) = a
         /\ \A w \in Merged(W, x, e) \ {x} : SizeOf(m2, w) = SizeOf(m, w) /\ AllocOf(m2, w) = AllocOf(m, w)
         /\ \A f \in F : m2[f] = m[f] /\ m2[f + 1] = m[f + 1]
         /\ Keeps(m, m2, Without(Merged(W, x, e), x))
<1>1. /\ Tiled(m2, b, Merged(W, x, e))
      /\ SizeOf(m2, x) = e - x /\ AllocOf(m2, x) = a
      /\ \A w \in Merged(W, x, e) \ {x} : m2[w - 1] = m[w - 1]
      /\ TagsOnly(m, m2, x, e)
  BY TileMerge
<1>4. /\ \A f \in F : m2[f] = m[f] /\ m2[f + 1] = m[f + 1]
      /\ Linked(m2, F)
      /\ \A w \in W : w < x \/ w >= e => \A p \in BlockWords(m, w) : m2[p] = m[p]
  BY <1>1, MergeFrame
<1>5. \A w \in Merged(W, x, e) \ {x} : SizeOf(m2, w) = SizeOf(m, w) /\ AllocOf(m2, w) = AllocOf(m, w)
  BY <1>1, SameHeader
<1>6. \A w \in Merged(W, x, e) \ {x} : w \in W /\ (w < x \/ w >= e)
  <2>1. \A w \in W : w \in Nat
    BY TiledFacts
  <2> QED BY <2>1 DEF Merged
<1>7. Keeps(m, m2, Without(Merged(W, x, e), x))
  BY <1>4, <1>6 DEF Keeps, Without
<1> QED BY <1>1, <1>4, <1>5, <1>7

(* Two blocks do not end at the same place.                                *)
LEMMA OnePredecessor ==
  ASSUME NEW m, NEW b, NEW W, Tiled(m, b, W), NEW x \in W, NEW y \in W,
         NEXT_BLKP(m, x) = NEXT_BLKP(m, y)
  PROVE  x = y
<1>1. /\ x \in Nat /\ y \in Nat /\ SizeOf(m, x) \in Nat /\ SizeOf(m, x) >= 2
      /\ SizeOf(m, y) \in Nat /\ SizeOf(m, y) >= 2
  BY TiledFacts
<1>2. (x < y => x + SizeOf(m, x) <= y) /\ (y < x => y + SizeOf(m, y) <= x)
  BY TiledFacts
<1> QED BY <1>1, <1>2 DEF NEXT_BLKP, SizeOf

(* Case 1 of coalesce: both neighbours are allocated.                      *)
LEMMA CoalesceNone ==
  ASSUME NEW m, NEW b, NEW W, NEW x, Unlisted(m, b, W, x),
         NEW y \in W, NEXT_BLKP(m, y) = x, AllocOf(m, y) = 1, AllocOf(m, NEXT_BLKP(m, x)) = 1
  PROVE  Listed(m, b, W, x, x, Insert(m, x))
<1>1. PICK F : F = Without(FreeIn(m, W), x)
  OBVIOUS
<1>2. PICK m2 : m2 = Insert(m, x)
  OBVIOUS
<1>3. PICK G : G = With(F, x)
  OBVIOUS
<1>4. /\ Tiled(m, b, W) /\ x \in W /\ AllocOf(m, x) = 0
      /\ Linked(m, F) /\ Apart(m, F)
  BY <1>1 DEF Unlisted
<1>5. FreeIn(m, W) \in Blocks(W) /\ x \in FreeIn(m, W)
  BY <1>4, FreeFacts DEF FreeIn
<1>6. G = FreeIn(m, W) /\ x \notin F /\ x \in G
  BY <1>1, <1>3, <1>5 DEF With, Without
<1>7. F \in Blocks(W) /\ G \in Blocks(W)
  BY <1>1, <1>5, <1>6 DEF Without, Blocks
<1>8. /\ Tiled(m2, b, W)
      /\ Linked(m2, G)
      /\ \A w \in W : m2[w - 1] = m[w - 1]
      /\ Keeps(m, m2, Outside(W, G))
  <2>1. Tiled(m, b, W) /\ Linked(m, F) /\ x \notin F
    BY <1>4, <1>6
  <2> QED BY <2>1, <1>2, <1>3, <1>7, InsertBlock
<1>9. \A w \in W : SizeOf(m2, w) = SizeOf(m, w) /\ AllocOf(m2, w) = AllocOf(m, w)
  BY <1>8, SameHeader
<1>10. FreeIn(m2, W) = G /\ HeldIn(m2, W) = HeldIn(m, W)
  BY <1>6, <1>9 DEF FreeIn, HeldIn
<1>11. \A w \in G : NEXT_BLKP(m, w) \notin G
  <2> SUFFICES ASSUME NEW w \in G, NEXT_BLKP(m, w) \in G PROVE FALSE
    OBVIOUS
  <2>1. w \in W /\ AllocOf(m, w) = 0 /\ AllocOf(m, NEXT_BLKP(m, w)) = 0
    BY <1>6 DEF FreeIn
  <2>2. w # x
    BY <2>1
  <2>3. NEXT_BLKP(m, w) = x
    BY <2>2, <1>3, <1>4 DEF Apart, With
  <2>4. w = y
    BY <2>1, <2>3, <1>4, OnePredecessor
  <2> QED BY <2>1, <2>4
<1>12. Apart(m2, FreeIn(m2, W))
  <2>1. \A w \in W : NEXT_BLKP(m2, w) = NEXT_BLKP(m, w)
    BY <1>9 DEF NEXT_BLKP, SizeOf
  <2> QED BY <2>1, <1>6, <1>10, <1>11 DEF Apart, FreeIn
<1>13. Heap(m2, b, W)
  BY <1>8, <1>10, <1>12 DEF Heap
<1>14. /\ x \in FreeIn(m2, W) /\ SizeOf(m2, x) >= SizeOf(m, x)
       /\ After(x, SizeOf(m2, x)) >= After(x, SizeOf(m, x))
  <2>1. SizeOf(m, x) \in Nat /\ x \in Nat
    BY <1>4, TiledFacts
  <2> QED BY <2>1, <1>4, <1>6, <1>9, <1>10 DEF After
<1>15. Keeps(m, m2, HeldIn(m, W))
  <2>1. HeldIn(m, W) = Outside(W, G)
    BY <1>4, <1>6, FreeFacts DEF Outside
  <2> QED BY <2>1, <1>8 DEF Keeps
<1> QED BY <1>2, <1>10, <1>13, <1>14, <1>15 DEF Listed

(* Case 2: the block behind is free.                                       *)
LEMMA CoalesceNext ==
  ASSUME NEW m, NEW b, NEW W, NEW x, Unlisted(m, b, W, x),
         NEW y \in W, NEXT_BLKP(m, y) = x, AllocOf(m, y) = 1,
         NEW n, n = NEXT_BLKP(m, x), AllocOf(m, n) # 1,
         NEW e, e = NEXT_BLKP(m, n),
         NEW m2, m2 = Link(Link(Retag(m, x, e, 0), x, GET_SUCC(m, n)), GET_PREV(m, n), x)
  PROVE  Listed(m, b, W, x, x, m2)
<1>1. PICK F : F = Without(FreeIn(m, W), x)
  OBVIOUS
<1>2. PICK m1 : m1 = Retag(m, x, e, 0)
  OBVIOUS
<1>3. PICK W2 : W2 = Merged(W, x, e)
  OBVIOUS
<1>4. PICK G : G = With(Without(F, n), x)
  OBVIOUS
<1>5. /\ Tiled(m, b, W) /\ x \in W /\ AllocOf(m, x) = 0
      /\ Linked(m, F) /\ Apart(m, F)
  BY <1>1 DEF Unlisted
<1>23. n = x + SizeOf(m, x) /\ e = n + SizeOf(m, n)
  BY DEF NEXT_BLKP, SizeOf
<1>6. FreeIn(m, W) \in Blocks(W) /\ x \in FreeIn(m, W)
  BY <1>5, FreeFacts DEF FreeIn
<1>7. n \in W /\ AllocOf(m, n) = 0
  <2>1. n \in W \cup {b} /\ AllocOf(m, b) = 1
    BY <1>5, <1>23, TiledFacts
  <2>2. \A w \in W : AllocOf(m, w) \in {0, 1}
    BY <1>5, TiledFacts
  <2> QED BY <2>1, <2>2
<1>8. /\ x \in Nat /\ n \in Nat /\ e \in Nat /\ x < n /\ n < e
      /\ SizeOf(m, x) \in Nat /\ SizeOf(m, n) \in Nat
  <2>1. x \in Nat /\ n \in Nat
    BY <1>5, <1>7, TiledFacts
  <2>2. SizeOf(m, x) \in Nat /\ SizeOf(m, x) >= 2 /\ SizeOf(m, n) \in Nat /\ SizeOf(m, n) >= 2
    BY <1>5, <1>7, TiledFacts
  <2> QED BY <2>1, <2>2, <1>23
<1>9. /\ F \subseteq W \ {heap_listp} /\ n \in F /\ x # heap_listp /\ x \notin F
      /\ F \in Blocks(W)
  BY <1>1, <1>6, <1>7, <1>8 DEF FreeIn, Blocks, Without
<1>10. e \in W \cup {b}
  BY <1>5, <1>7, <1>23, TiledFacts
<1>11. \A w \in W : w \in Nat /\ (w > x => w >= n) /\ (w > n => w >= e)
  <2>1. \A v, w \in W : v < w => v + SizeOf(m, v) <= w
    BY <1>5, TiledFacts
  <2>2. \A w \in W : w \in Nat
    BY <1>5, TiledFacts
  <2> QED BY <2>1, <2>2, <1>5, <1>7, <1>23
<1>12. W2 = W \ {n}
  <2>1. \A w \in W : w <= x \/ w >= e <=> w # n
    BY <1>8, <1>11
  <2> QED BY <2>1, <1>3 DEF Merged
<1>13. /\ Tiled(m1, b, W2) /\ Linked(m1, F)
       /\ SizeOf(m1, x) = e - x /\ AllocOf(m1, x) = 0
       /\ \A w \in W2 \ {x} : SizeOf(m1, w) = SizeOf(m, w) /\ AllocOf(m1, w) = AllocOf(m, w)
       /\ \A f \in F : m1[f] = m[f] /\ m1[f + 1] = m[f + 1]
       /\ Keeps(m, m1, Without(W2, x))
  <2>1. e > x /\ 0 \in {0, 1}
    BY <1>8
  <2>2. F \in Blocks(W) /\ x # heap_listp
    BY <1>9
  <2> QED BY <2>1, <2>2, <1>2, <1>3, <1>5, <1>10, MergeBlock
<1>14. /\ Tiled(m2, b, W2) /\ Linked(m2, G)
       /\ \A w \in W2 : m2[w - 1] = m1[w - 1]
       /\ Keeps(m1, m2, Outside(W2, G))
  <2>1. Spaced(F)
    BY <1>5, <1>9, FreeSpaced
  <2>2. GET_SUCC(m1, n) = GET_SUCC(m, n) /\ GET_PREV(m1, n) = GET_PREV(m, n)
    BY <1>9, <1>13 DEF GET_SUCC, GET_PREV
  <2>3. m2 = Link(Link(m1, x, GET_SUCC(m1, n)), GET_PREV(m1, n), x)
    BY <1>2, <2>2
  <2>4. G \in Blocks(W2)
    BY <1>4, <1>5, <1>8, <1>9, <1>12 DEF With, Without, Blocks
  <2>5. x \notin Without(F, n) /\ \A v \in Without(F, n) : v < n <=> v < x
    BY <1>8, <1>9, <1>11 DEF Without
  <2>6. Tiled(m1, b, W2) /\ Linked(m1, F) /\ n \in F
    BY <1>9, <1>13
  <2> QED BY <2>1, <2>3, <2>4, <2>5, <2>6, <1>4, ReplaceBlock
<1>15. \A w \in W2 : SizeOf(m2, w) = SizeOf(m1, w) /\ AllocOf(m2, w) = AllocOf(m1, w)
  BY <1>14, SameHeader
<1>16. x \in W2 /\ AllocOf(m2, x) = 0 /\ SizeOf(m2, x) = e - x
  BY <1>5, <1>8, <1>12, <1>13, <1>15
<1>17. \A w \in W2 \ {x} : SizeOf(m2, w) = SizeOf(m, w) /\ AllocOf(m2, w) = AllocOf(m, w)
  BY <1>13, <1>15
<1>18. FreeIn(m2, W2) = G /\ HeldIn(m2, W2) = HeldIn(m, W)
  <2>1. \A w \in W2 : AllocOf(m2, w) = AllocOf(m, w)
    BY <1>5, <1>16, <1>17
  <2>2. G = FreeIn(m, W) \ {n}
    BY <1>1, <1>4, <1>6, <1>8 DEF With, Without
  <2>3. FreeIn(m2, W2) = G
    BY <2>1, <2>2, <1>12 DEF FreeIn
  <2>4. \A w \in W : AllocOf(m, w) = 1 => w \in W2
    BY <1>7, <1>12
  <2>5. HeldIn(m2, W2) = HeldIn(m, W)
    BY <2>1, <2>4, <1>12 DEF HeldIn
  <2> QED BY <2>3, <2>5
<1>19. Apart(m2, G)
  <2> SUFFICES ASSUME NEW w \in G, NEXT_BLKP(m2, w) \in G PROVE FALSE
    BY DEF Apart
  <2>1. CASE w = x
    <3>1. NEXT_BLKP(m2, w) = e
      BY <2>1, <1>8, <1>16 DEF NEXT_BLKP, SizeOf
    <3>2. e \in F
      BY <3>1, <1>4, <1>8 DEF With, Without
    <3> QED BY <3>2, <1>5, <1>9 DEF Apart
  <2>2. CASE w # x
    <3>1. w \in F /\ w \in W2 \ {x} /\ w \in W
      BY <2>2, <1>4, <1>9, <1>12 DEF With, Without
    <3>2. NEXT_BLKP(m, w) \in G
      BY <3>1, <1>17 DEF NEXT_BLKP, SizeOf
    <3>3. NEXT_BLKP(m, w) = x
      BY <3>1, <3>2, <1>4, <1>5 DEF Apart, With, Without
    <3>4. w = y
      BY <3>1, <3>3, <1>5, OnePredecessor
    <3> QED BY <3>1, <3>4, <1>1 DEF FreeIn, Without
  <2> QED BY <2>1, <2>2
<1>20. Heap(m2, b, W2)
  BY <1>14, <1>18, <1>19 DEF Heap
<1>21. /\ x \in FreeIn(m2, W2) /\ SizeOf(m2, x) >= SizeOf(m, x)
       /\ After(x, SizeOf(m2, x)) >= After(x, SizeOf(m, x))
  <2>1. e - x >= SizeOf(m, x) /\ x + (e - x) >= x + SizeOf(m, x)
    BY <1>8, <1>23
  <2> QED BY <2>1, <1>4, <1>16, <1>18 DEF With, After
<1>22. Keeps(m, m2, HeldIn(m, W))
  <2> SUFFICES ASSUME NEW w \in HeldIn(m, W), NEW p \in BlockWords(m, w)
               PROVE  m2[p] = m[p]
    BY DEF Keeps
  <2>1. w \in W2 \ {x} /\ w \in W2 \ G
    BY <1>1, <1>4, <1>5, <1>7, <1>12 DEF HeldIn, FreeIn, With, Without
  <2>2. p \in BlockWords(m1, w)
    BY <2>1, <1>13 DEF BlockWords
  <2> QED BY <2>1, <2>2, <1>13, <1>14 DEF Keeps, Outside, Without
<1> QED BY <1>18, <1>20, <1>21, <1>22 DEF Listed

(* Case 3: the block before is free.                                       *)
LEMMA CoalescePrev ==
  ASSUME NEW m, NEW b, NEW W, NEW x, Unlisted(m, b, W, x),
         NEW y \in W, NEXT_BLKP(m, y) = x, AllocOf(m, y) # 1,
         NEW n, n = NEXT_BLKP(m, x), AllocOf(m, n) = 1,
         NEW m2, m2 = Retag(m, y, n, 0)
  PROVE  Listed(m, b, W, x, y, m2)
<1>1. PICK F : F = Without(FreeIn(m, W), x)
  OBVIOUS
<1>2. PICK W2 : W2 = Merged(W, y, n)
  OBVIOUS
<1>3. /\ Tiled(m, b, W) /\ x \in W /\ AllocOf(m, x) = 0
      /\ Linked(m, F) /\ Apart(m, F)
  BY <1>1 DEF Unlisted
<1>4. FreeIn(m, W) \in Blocks(W) /\ x \in FreeIn(m, W)
  BY <1>3, FreeFacts DEF FreeIn
<1>5. AllocOf(m, y) = 0
  BY <1>3, TiledFacts
<1>6. x = y + SizeOf(m, y) /\ n = x + SizeOf(m, x)
  BY DEF NEXT_BLKP, SizeOf
<1>7. /\ x \in Nat /\ y \in Nat /\ n \in Nat /\ y < x /\ x < n
      /\ SizeOf(m, x) \in Nat /\ SizeOf(m, y) \in Nat
  <2>1. x \in Nat /\ y \in Nat
    BY <1>3, TiledFacts
  <2>2. SizeOf(m, x) \in Nat /\ SizeOf(m, x) >= 2 /\ SizeOf(m, y) \in Nat /\ SizeOf(m, y) >= 2
    BY <1>3, TiledFacts
  <2> QED BY <2>1, <2>2, <1>6
<1>8. F \in Blocks(W) /\ y \in F /\ y # heap_listp
  BY <1>1, <1>4, <1>5, <1>7 DEF FreeIn, Blocks, Without
<1>9. n \in W \cup {b}
  BY <1>3, <1>6, TiledFacts
<1>10. W2 = W \ {x}
  <2>1. \A v, w \in W : v < w => v + SizeOf(m, v) <= w
    BY <1>3, TiledFacts
  <2>2. \A w \in W : w \in Nat
    BY <1>3, TiledFacts
  <2>3. \A w \in W : w <= y \/ w >= n <=> w # x
    BY <2>1, <2>2, <1>3, <1>6, <1>7
  <2> QED BY <2>3, <1>2 DEF Merged
<1>11. /\ Tiled(m2, b, W2) /\ Linked(m2, F)
       /\ SizeOf(m2, y) = n - y /\ AllocOf(m2, y) = 0
       /\ \A w \in W2 \ {y} : SizeOf(m2, w) = SizeOf(m, w) /\ AllocOf(m2, w) = AllocOf(m, w)
       /\ Keeps(m, m2, Without(W2, y))
  <2>1. n > y /\ 0 \in {0, 1}
    BY <1>7
  <2>2. Tiled(m, b, W) /\ Linked(m, F)
    BY <1>3
  <2> QED BY <2>1, <2>2, <1>2, <1>8, <1>9, MergeBlock
<1>12. FreeIn(m2, W2) = F /\ HeldIn(m2, W2) = HeldIn(m, W)
  <2>1. \A w \in W2 : AllocOf(m2, w) = AllocOf(m, w)
    BY <1>5, <1>11
  <2>2. F = FreeIn(m, W) \ {x}
    BY <1>1 DEF Without
  <2>3. FreeIn(m2, W2) = F
    BY <2>1, <2>2, <1>10 DEF FreeIn
  <2>4. \A w \in W : AllocOf(m, w) = 1 => w \in W2
    BY <1>3, <1>10
  <2>5. HeldIn(m2, W2) = HeldIn(m, W)
    BY <2>1, <2>4, <1>10 DEF HeldIn
  <2> QED BY <2>3, <2>5
<1>13. Apart(m2, F)
  <2> SUFFICES ASSUME NEW w \in F, NEXT_BLKP(m2, w) \in F PROVE FALSE
    BY DEF Apart
  <2>1. CASE w = y
    <3>1. NEXT_BLKP(m2, w) = n
      BY <2>1, <1>7, <1>11 DEF NEXT_BLKP, SizeOf
    <3> QED BY <3>1, <1>1 DEF FreeIn, Without
  <2>2. CASE w # y
    <3>1. w \in W2 \ {y}
      BY <2>2, <1>1, <1>10 DEF FreeIn, Without
    <3>2. NEXT_BLKP(m, w) \in F
      BY <3>1, <1>11 DEF NEXT_BLKP, SizeOf
    <3> QED BY <3>2, <1>3 DEF Apart
  <2> QED BY <2>1, <2>2
<1>14. Heap(m2, b, W2)
  BY <1>11, <1>12, <1>13 DEF Heap
<1>15. /\ y \in FreeIn(m2, W2) /\ SizeOf(m2, y) >= SizeOf(m, x)
       /\ After(y, SizeOf(m2, y)) >= After(x, SizeOf(m, x))
  <2>1. n - y >= SizeOf(m, x) /\ y + (n - y) >= x + SizeOf(m, x)
    BY <1>6, <1>7
  <2> QED BY <2>1, <1>8, <1>11, <1>12 DEF After
<1>16. Keeps(m, m2, HeldIn(m, W))
  <2>1. \A w \in HeldIn(m, W) : w \in Without(W2, y)
    BY <1>3, <1>5, <1>10 DEF HeldIn, Without
  <2> QED BY <2>1, <1>11 DEF Keeps
<1> QED BY <1>12, <1>14, <1>15, <1>16 DEF Listed

(* Case 4: both are free.                                                  *)
LEMMA CoalesceBoth ==
  ASSUME NEW m, NEW b, NEW W, NEW x, Unlisted(m, b, W, x),
         NEW y \in W, NEXT_BLKP(m, y) = x, AllocOf(m, y) # 1,
         NEW n, n = NEXT_BLKP(m, x), AllocOf(m, n) # 1,
         NEW e, e = NEXT_BLKP(m, n),
         NEW m2, m2 = Link(Retag(m, y, e, 0), y, GET_SUCC(m, n))
  PROVE  Listed(m, b, W, x, y, m2)
<1>1. PICK F : F = Without(FreeIn(m, W), x)
  OBVIOUS
<1>2. PICK m1 : m1 = Retag(m, y, e, 0)
  OBVIOUS
<1>3. PICK W2 : W2 = Merged(W, y, e)
  OBVIOUS
<1>4. PICK G : G = Without(F, n)
  OBVIOUS
<1>5. /\ Tiled(m, b, W) /\ x \in W /\ AllocOf(m, x) = 0
      /\ Linked(m, F) /\ Apart(m, F)
  BY <1>1 DEF Unlisted
<1>6. FreeIn(m, W) \in Blocks(W) /\ x \in FreeIn(m, W)
  BY <1>5, FreeFacts DEF FreeIn
<1>7. x = y + SizeOf(m, y) /\ n = x + SizeOf(m, x) /\ e = n + SizeOf(m, n)
  BY DEF NEXT_BLKP, SizeOf
<1>8. n \in W /\ AllocOf(m, n) = 0 /\ AllocOf(m, y) = 0
  <2>1. n \in W \cup {b} /\ AllocOf(m, b) = 1
    BY <1>5, <1>7, TiledFacts
  <2>2. \A w \in W : AllocOf(m, w) \in {0, 1}
    BY <1>5, TiledFacts
  <2> QED BY <2>1, <2>2
<1>9. /\ x \in Nat /\ y \in Nat /\ n \in Nat /\ e \in Nat /\ y < x /\ x < n /\ n < e
      /\ SizeOf(m, x) \in Nat /\ SizeOf(m, y) \in Nat /\ SizeOf(m, n) \in Nat
  <2>1. x \in Nat /\ y \in Nat /\ n \in Nat
    BY <1>5, <1>8, TiledFacts
  <2>2. /\ SizeOf(m, x) \in Nat /\ SizeOf(m, x) >= 2 /\ SizeOf(m, n) \in Nat /\ SizeOf(m, n) >= 2
        /\ SizeOf(m, y) \in Nat /\ SizeOf(m, y) >= 2
    BY <1>5, <1>8, TiledFacts
  <2> QED BY <2>1, <2>2, <1>7
<1>10. /\ F \subseteq W \ {heap_listp} /\ n \in F /\ y \in F /\ x \notin F
       /\ F \in Blocks(W) /\ y # heap_listp
  BY <1>1, <1>6, <1>8, <1>9 DEF FreeIn, Blocks, Without
<1>11. e \in W \cup {b}
  BY <1>5, <1>7, <1>8, TiledFacts
<1>12. \A w \in W : w \in Nat /\ (w > y => w >= x) /\ (w > x => w >= n) /\ (w > n => w >= e)
  <2>1. \A v, w \in W : v < w => v + SizeOf(m, v) <= w
    BY <1>5, TiledFacts
  <2>2. \A w \in W : w \in Nat
    BY <1>5, TiledFacts
  <2> QED BY <2>1, <2>2, <1>5, <1>7, <1>8
<1>13. W2 = W \ {x, n}
  <2>1. \A w \in W : w <= y \/ w >= e <=> w # x /\ w # n
    BY <1>9, <1>12
  <2> QED BY <2>1, <1>3 DEF Merged
<1>14. /\ Tiled(m1, b, W2) /\ Linked(m1, F)
       /\ SizeOf(m1, y) = e - y /\ AllocOf(m1, y) = 0
       /\ \A w \in W2 \ {y} : SizeOf(m1, w) = SizeOf(m, w) /\ AllocOf(m1, w) = AllocOf(m, w)
       /\ \A f \in F : m1[f] = m[f] /\ m1[f + 1] = m[f + 1]
       /\ Keeps(m, m1, Without(W2, y))
  <2>1. e > y /\ 0 \in {0, 1}
    BY <1>9
  <2>2. F \in Blocks(W) /\ y # heap_listp
    BY <1>10
  <2>3. Tiled(m, b, W) /\ Linked(m, F)
    BY <1>5
  <2> QED BY <2>1, <2>2, <2>3, <1>2, <1>3, <1>11, MergeBlock
<1>15. Spaced(F)
  BY <1>5, <1>10, FreeSpaced
<1>16. GET_PREV(m1, n) = y
  <2>1. PICK p : p = GET_PREV(m1, n)
    OBVIOUS
  <2>2. p \in F \cup {starter} /\ p < n /\ IsNext(F, p, n)
    <3>1. m1 \in Memory /\ Linked(m1, F) /\ n \in F
      BY <1>10, <1>14 DEF Tiled
    <3> QED BY <3>1, <2>1, <1>15, ListPrev
  <2>3. y <= p
    BY <2>2, <1>9, <1>10 DEF IsNext
  <2>4. p \in F
    <3>1. y > starter
      BY <1>10, <1>15, HeapAssumption DEF Spaced, starter
    <3> QED BY <3>1, <2>2, <2>3, <1>9 DEF starter
  <2>5. p = y
    BY <2>2, <2>3, <2>4, <1>9, <1>10, <1>12
  <2> QED BY <2>1, <2>5
<1>17. /\ Tiled(m2, b, W2) /\ Linked(m2, G)
       /\ \A w \in W2 : m2[w - 1] = m1[w - 1]
       /\ Keeps(m1, m2, Outside(W2, G))
  <2>1. GET_SUCC(m1, n) = GET_SUCC(m, n)
    BY <1>10, <1>14 DEF GET_SUCC
  <2>2. m2 = Link(m1, GET_PREV(m1, n), GET_SUCC(m1, n))
    BY <1>2, <1>16, <2>1
  <2>3. G \in Blocks(W2)
    BY <1>4, <1>10, <1>13 DEF Without, Blocks
  <2>4. Tiled(m1, b, W2) /\ Linked(m1, F) /\ n \in F
    BY <1>10, <1>14
  <2> QED BY <2>2, <2>3, <2>4, <1>4, <1>15, RemoveBlock
<1>18. \A w \in W2 : SizeOf(m2, w) = SizeOf(m1, w) /\ AllocOf(m2, w) = AllocOf(m1, w)
  BY <1>17, SameHeader
<1>19. y \in W2 /\ AllocOf(m2, y) = 0 /\ SizeOf(m2, y) = e - y
  BY <1>9, <1>13, <1>14, <1>18
<1>20. \A w \in W2 \ {y} : SizeOf(m2, w) = SizeOf(m, w) /\ AllocOf(m2, w) = AllocOf(m, w)
  BY <1>14, <1>18
<1>21. FreeIn(m2, W2) = G /\ HeldIn(m2, W2) = HeldIn(m, W)
  <2>1. \A w \in W2 : AllocOf(m2, w) = AllocOf(m, w)
    BY <1>8, <1>19, <1>20
  <2>2. G = FreeIn(m, W) \ {x, n}
    BY <1>1, <1>4 DEF Without
  <2>3. FreeIn(m2, W2) = G
    BY <2>1, <2>2, <1>13 DEF FreeIn
  <2>4. \A w \in W : AllocOf(m, w) = 1 => w \in W2
    BY <1>5, <1>8, <1>13
  <2>5. HeldIn(m2, W2) = HeldIn(m, W)
    BY <2>1, <2>4, <1>13 DEF HeldIn
  <2> QED BY <2>3, <2>5
<1>22. Apart(m2, G)
  <2> SUFFICES ASSUME NEW w \in G, NEXT_BLKP(m2, w) \in G PROVE FALSE
    BY DEF Apart
  <2>1. CASE w = y
    <3>1. NEXT_BLKP(m2, w) = e
      BY <2>1, <1>9, <1>19 DEF NEXT_BLKP, SizeOf
    <3>2. e \in F
      BY <3>1, <1>4 DEF Without
    <3> QED BY <3>2, <1>5, <1>10 DEF Apart
  <2>2. CASE w # y
    <3>1. w \in F /\ w \in W2 \ {y}
      BY <2>2, <1>4, <1>10, <1>13 DEF Without
    <3>2. NEXT_BLKP(m, w) \in F
      BY <3>1, <1>4, <1>20 DEF NEXT_BLKP, SizeOf, Without
    <3> QED BY <3>1, <3>2, <1>5 DEF Apart
  <2> QED BY <2>1, <2>2
<1>23. Heap(m2, b, W2)
  BY <1>17, <1>21, <1>22 DEF Heap
<1>24. /\ y \in FreeIn(m2, W2) /\ SizeOf(m2, y) >= SizeOf(m, x)
       /\ After(y, SizeOf(m2, y)) >= After(x, SizeOf(m, x))
  <2>1. e - y >= SizeOf(m, x) /\ y + (e - y) >= x + SizeOf(m, x)
    BY <1>7, <1>9
  <2>2. y \in G
    BY <1>4, <1>9, <1>10 DEF Without
  <2> QED BY <2>1, <2>2, <1>19, <1>21 DEF After
<1>25. Keeps(m, m2, HeldIn(m, W))
  <2> SUFFICES ASSUME NEW w \in HeldIn(m, W), NEW p \in BlockWords(m, w)
               PROVE  m2[p] = m[p]
    BY DEF Keeps
  <2>1. w \in W2 \ {y} /\ w \in W2 \ G
    BY <1>1, <1>4, <1>5, <1>8, <1>13 DEF HeldIn, FreeIn, Without
  <2>2. p \in BlockWords(m1, w)
    BY <2>1, <1>14 DEF BlockWords
  <2> QED BY <2>1, <2>2, <1>14, <1>17 DEF Keeps, Outside, Without
<1> QED BY <1>21, <1>23, <1>24, <1>25 DEF Listed

(* coalesce makes a heap of one with a block that is not listed.           *)
LEMMA Coalesce ==
  ASSUME NEW m, NEW b, NEW W, NEW x, Unlisted(m, b, W, x)
  PROVE  Listed(m, b, W, x, coalesce(m, x).bp, coalesce(m, x).mem)
<1>1. Tiled(m, b, W) /\ x \in W /\ AllocOf(m, x) = 0
  BY DEF Unlisted
<1>2. x \in W \cup {b} /\ x # heap_listp
  BY <1>1, TiledFacts
<1>3. PICK y \in W : y + SizeOf(m, y) = x /\ m[x - 2] = m[y - 1]
  BY <1>1, <1>2, TiledBefore
<1>4. NEXT_BLKP(m, y) = x /\ m[x - 2] = m[y - 1]
  BY <1>3 DEF NEXT_BLKP, SizeOf
<1>5. PICK n : n = NEXT_BLKP(m, x)
  OBVIOUS
<1>6. PICK e : e = NEXT_BLKP(m, n)
  OBVIOUS
<1>7. /\ AllocOf(m, y) = 1 /\ AllocOf(m, n) = 1 =>
           coalesce(m, x) = [bp |-> x, mem |-> Insert(m, x)]
      /\ AllocOf(m, y) = 1 /\ AllocOf(m, n) # 1 =>
           coalesce(m, x) =
             [bp |-> x, mem |-> Link(Link(Retag(m, x, e, 0), x, GET_SUCC(m, n)),
                                     GET_PREV(m, n), x)]
      /\ AllocOf(m, y) # 1 /\ AllocOf(m, n) = 1 =>
           coalesce(m, x) = [bp |-> y, mem |-> Retag(m, y, n, 0)]
      /\ AllocOf(m, y) # 1 /\ AllocOf(m, n) # 1 =>
           coalesce(m, x) = [bp |-> y, mem |-> Link(Retag(m, y, e, 0), y, GET_SUCC(m, n))]
  BY <1>1, <1>4, <1>5, <1>6, CoalesceShape
<1>8. CASE AllocOf(m, y) = 1 /\ AllocOf(m, n) = 1
  <2>1. Listed(m, b, W, x, x, Insert(m, x))
    BY <1>4, <1>5, <1>8, CoalesceNone
  <2> QED BY <2>1, <1>7, <1>8
<1>9. CASE AllocOf(m, y) = 1 /\ AllocOf(m, n) # 1
  <2>1. Listed(m, b, W, x, x, Link(Link(Retag(m, x, e, 0), x, GET_SUCC(m, n)),
                                   GET_PREV(m, n), x))
    BY <1>4, <1>5, <1>6, <1>9, CoalesceNext
  <2> QED BY <2>1, <1>7, <1>9
<1>10. CASE AllocOf(m, y) # 1 /\ AllocOf(m, n) = 1
  <2>1. Listed(m, b, W, x, y, Retag(m, y, n, 0))
    BY <1>4, <1>5, <1>10, CoalescePrev
  <2> QED BY <2>1, <1>7, <1>10
<1>11. CASE AllocOf(m, y) # 1 /\ AllocOf(m, n) # 1
  <2>1. Listed(m, b, W, x, y, Link(Retag(m, y, e, 0), y, GET_SUCC(m, n)))
    BY <1>4, <1>5, <1>6, <1>11, CoalesceBoth
  <2> QED BY <2>1, <1>7, <1>11
<1> QED BY <1>8, <1>9, <1>10, <1>11

-----------------------------------------------------------------------------
\* extend_heap and mm_init.

(* Words kept by one step and by the next are kept by both.                *)
LEMMA KeepsTrans ==
  ASSUME NEW m, NEW b, NEW W, Tiled(m, b, W), NEW H \in SUBSET W, NEW m1, NEW m2,
         Keeps(m, m1, H), Keeps(m1, m2, H)
  PROVE  /\ Keeps(m, m2, H)
         /\ \A x \in H : m1[x - 1] = m[x - 1] /\ SizeOf(m1, x) = SizeOf(m, x)
<1>1. \A x \in W : x - 1 \in BlockWords(m, x)
  BY DisjointWords
<1>2. \A x \in H : m1[x - 1] = m[x - 1]
  BY <1>1 DEF Keeps
<1>3. \A x \in H : SizeOf(m1, x) = SizeOf(m, x)
  BY <1>2, SameHeader
<1>4. \A x \in H : BlockWords(m1, x) = BlockWords(m, x)
  BY <1>3 DEF BlockWords
<1>5. Keeps(m, m2, H)
  BY <1>4 DEF Keeps
<1> QED BY <1>2, <1>3, <1>5

(* A heap with a block appended is what coalesce expects.                  *)
LEMMA ExtendTiles ==
  ASSUME NEW m, NEW b, NEW W, Heap(m, b, W),
         NEW s \in Nat, s % 2 = 0, s >= 4, b + s <= MAX_HEAP,
         NEW m2, m2 = Grow(m, b, s)
  PROVE  /\ Unlisted(m2, b + s, With(W, b), b)
         /\ SizeOf(m2, b) = s
         /\ HeldIn(m2, With(W, b)) = HeldIn(m, W)
         /\ Keeps(m, m2, HeldIn(m, W))
<1>1. PICK F : F = FreeIn(m, W)
  OBVIOUS
<1>2. PICK V : V = With(W, b)
  OBVIOUS
<1>3. Tiled(m, b, W) /\ Linked(m, F) /\ Apart(m, F)
  BY <1>1 DEF Heap
<1>4. /\ Tiled(m2, b + s, V) /\ b \notin W
      /\ SizeOf(m2, b) = s /\ AllocOf(m2, b) = 0
      /\ \A w \in W : m2[w - 1] = m[w - 1]
      /\ \A p \in Arena : p < b - 1 => m2[p] = m[p]
  BY <1>2, <1>3, TileExtend
<1>5. \A w \in W : SizeOf(m2, w) = SizeOf(m, w) /\ AllocOf(m2, w) = AllocOf(m, w)
  BY <1>4, SameHeader
<1>6. /\ \A x \in W : \A p \in BlockWords(m, x) : p \in Arena /\ p < b - 1
      /\ \A x \in W \ {heap_listp} : x \in BlockWords(m, x) /\ x + 1 \in BlockWords(m, x)
  BY <1>3, DisjointWords
<1>7. F \in Blocks(W)
  BY <1>1, <1>3, FreeFacts
<1>8. F \subseteq W \ {heap_listp}
  BY <1>7 DEF Blocks
<1>9. starter + 1 \in Arena /\ starter + 1 < b - 1
  <2>1. b \in Nat /\ b >= 6 /\ b <= MAX_HEAP /\ MAX_HEAP \in Nat
    BY <1>3, TiledFacts
  <2> QED BY <2>1 DEF starter, Arena
<1>10. Linked(m2, F)
  <2>1. Spaced(F)
    BY <1>3, <1>7, FreeSpaced
  <2>2. \A p \in F \cup {starter} : m2[p + 1] = m[p + 1] /\ (p # starter => m2[p] = m[p])
    BY <1>4, <1>6, <1>8, <1>9
  <2> QED BY <2>1, <2>2, <1>3, LinkedFrame
<1>11. Apart(m2, F)
  <2>1. \A w \in W : NEXT_BLKP(m2, w) = NEXT_BLKP(m, w)
    BY <1>5 DEF NEXT_BLKP, SizeOf
  <2> QED BY <2>1, <1>3, <1>8 DEF Apart
<1>12. Without(FreeIn(m2, V), b) = F
  <2>1. \A w : w \in Without(FreeIn(m2, V), b) <=> w \in F
    BY <1>1, <1>2, <1>4, <1>5 DEF Without, FreeIn, With
  <2> QED BY <2>1
<1>13. HeldIn(m2, V) = HeldIn(m, W)
  <2>1. \A w : w \in HeldIn(m2, V) <=> w \in HeldIn(m, W)
    BY <1>2, <1>4, <1>5 DEF HeldIn, With
  <2> QED BY <2>1
<1>14. Keeps(m, m2, HeldIn(m, W))
  BY <1>4, <1>6 DEF Keeps, HeldIn
<1>15. Unlisted(m2, b + s, V, b)
  <2>1. b \in V
    BY <1>2 DEF With
  <2> QED BY <2>1, <1>4, <1>10, <1>11, <1>12 DEF Unlisted
<1> QED BY <1>2, <1>4, <1>13, <1>14, <1>15

(* A heap whose last block bp is free and has s words.                     *)
Offers(m, W, s, bp, m2, b2) ==
  \E V : /\ Heap(m2, b2, V)
         /\ bp \in FreeIn(m2, V) /\ SizeOf(m2, bp) >= s
         /\ After(bp, SizeOf(m2, bp)) = b2
         /\ HeldIn(m2, V) = HeldIn(m, W)
         /\ Keeps(m, m2, HeldIn(m, W))

(* extend_heap returns 0 and changes nothing when the arena is exhausted;  *)
(* otherwise it offers a block that ends at the new break.                 *)
LEMMA ExtendHeap ==
  ASSUME NEW m, NEW b, NEW W, Heap(m, b, W),
         NEW s \in Nat, s % 2 = 0, s >= 4,
         NEW e, e = extend_heap([mem |-> m, brk |-> b], s)
  PROVE  /\ b + s > MAX_HEAP => e = [bp |-> 0, heap |-> [mem |-> m, brk |-> b]]
         /\ b + s <= MAX_HEAP =>
              /\ e = [bp |-> e.bp, heap |-> [mem |-> e.heap.mem, brk |-> b + s]]
              /\ Offers(m, W, s, e.bp, e.heap.mem, b + s)
<1>1. Tiled(m, b, W)
  BY DEF Heap
<1>2. b \in Nat /\ b >= 6 /\ MAX_HEAP \in Nat /\ W \in SUBSET Nat
  BY <1>1, TiledFacts
<1>3. s + (s % 2) = s /\ HDRP(b + s) = b + s - 1
  BY <1>2 DEF HDRP
<1>4. CASE b + s > MAX_HEAP
  <2>1. mem_sbrk(b, s) = -1
    BY <1>4 DEF mem_sbrk
  <2>2. e = [bp |-> 0, heap |-> [mem |-> m, brk |-> b]]
    BY <1>3, <2>1 DEF extend_heap
  <2> QED BY <2>2, <1>4, <1>2
<1>5. CASE b + s <= MAX_HEAP
  <2>1. mem_sbrk(b, s) = b /\ b # -1
    BY <1>2, <1>5 DEF mem_sbrk
  <2>2. PICK m1 : m1 = Grow(m, b, s)
    OBVIOUS
  <2>3. PICK c : c = coalesce(m1, b)
    OBVIOUS
  <2>4. e = [bp |-> c.bp, heap |-> [mem |-> c.mem, brk |-> b + s]]
    BY <1>3, <2>1, <2>2, <2>3 DEF extend_heap, Grow
  <2>5. /\ Unlisted(m1, b + s, With(W, b), b)
        /\ SizeOf(m1, b) = s
        /\ HeldIn(m1, With(W, b)) = HeldIn(m, W)
        /\ Keeps(m, m1, HeldIn(m, W))
    BY <1>5, <2>2, ExtendTiles
  <2>6. Listed(m1, b + s, With(W, b), b, c.bp, c.mem)
    BY <2>3, <2>5, Coalesce
  <2>7. PICK V : /\ Heap(c.mem, b + s, V)
                 /\ c.bp \in FreeIn(c.mem, V) /\ SizeOf(c.mem, c.bp) >= s
                 /\ After(c.bp, SizeOf(c.mem, c.bp)) >= After(b, s)
                 /\ HeldIn(c.mem, V) = HeldIn(m, W)
                 /\ Keeps(m1, c.mem, HeldIn(m, W))
    BY <2>5, <2>6 DEF Listed
  <2>12. After(c.bp, SizeOf(c.mem, c.bp)) = b + s
    <3>1. PICK x : x = c.bp
      OBVIOUS
    <3>2. PICK z : z = SizeOf(c.mem, x)
      OBVIOUS
    <3>3. Tiled(c.mem, b + s, V) /\ x \in V
      BY <2>7, <3>1 DEF Heap, FreeIn
    <3>4. x \in Nat /\ z \in Nat /\ x + z <= b + s
      BY <3>2, <3>3, TiledFacts
    <3>5. x + z >= b + s
      BY <2>7, <3>1, <3>2 DEF After
    <3>6. x + z = b + s
      BY <3>4, <3>5, <1>2
    <3> QED BY <3>1, <3>2, <3>6 DEF After
  <2>8. HeldIn(m, W) \in SUBSET W
    BY DEF HeldIn
  <2>9. Keeps(m, c.mem, HeldIn(m, W))
    BY <1>1, <2>5, <2>7, <2>8, KeepsTrans
  <2>10. Offers(m, W, s, c.bp, c.mem, b + s)
    BY <2>7, <2>9, <2>12 DEF Offers
  <2>11. e.bp = c.bp /\ e.heap.mem = c.mem
    BY <2>4
  <2> QED BY <2>4, <2>10, <2>11, <1>2, <1>5
<1> QED BY <1>2, <1>4, <1>5

(* mm_init's first words are a heap with a prologue and no block.          *)
LEMMA FreshHeap ==
  ASSUME NEW m \in Memory,
         m[starter + 1] = 0, m[3] = 3, m[4] = 3, m[5] = 1
  PROVE  Heap(m, 6, {heap_listp}) /\ HeldIn(m, {heap_listp}) = {heap_listp}
<1>1. SizeOf(m, 4) = 2 /\ AllocOf(m, 4) = 1
  <2>1. m[4 - 1] = 3
    OBVIOUS
  <2>2. 3 % 2 = 1
    OBVIOUS
  <2> QED BY <2>1, <2>2 DEF SizeOf, AllocOf, GET_SIZE, GET_ALLOC
<1>2. 6 <= MAX_HEAP /\ MAX_HEAP \in Nat
  BY HeapAssumption
<1>3. Tiled(m, 6, {4})
  <2>1. \A x \in {4} : /\ x % 2 = 0
                       /\ SizeOf(m, x) >= 2 /\ (x # heap_listp => SizeOf(m, x) >= 4)
                       /\ m[x + SizeOf(m, x) - 2] = m[x - 1]
                       /\ x + SizeOf(m, x) \in {4} \cup {6}
    BY <1>1 DEF heap_listp
  <2>2. \A x, y \in {4} : x < y => x + SizeOf(m, x) <= y
    OBVIOUS
  <2>3. 6 \in 6 .. MAX_HEAP /\ 6 % 2 = 0 /\ m[6 - 1] = 1
    BY <1>2
  <2>4. {4} \subseteq heap_listp .. 6 - 2 /\ heap_listp \in {4} /\ m[heap_listp - 1] = 3
    BY DEF heap_listp
  <2> QED BY <2>1, <2>2, <2>3, <2>4 DEF Tiled
<1>4. FreeIn(m, {4}) = {} /\ HeldIn(m, {4}) = {4}
  BY <1>1 DEF FreeIn, HeldIn
<1>5. Linked(m, {})
  BY DEF Linked, IsNext, GET_SUCC, GET_PREV, starter
<1>6. Heap(m, 6, {4})
  BY <1>3, <1>4, <1>5 DEF Heap, Apart
<1> QED BY <1>4, <1>6 DEF heap_listp

(* mm_init makes a heap, whatever the arena held before.                   *)
LEMMA InitHeap ==
  ASSUME NEW m \in Memory, NEW h, h = mm_init(m)
  PROVE  /\ h = [mem |-> h.mem, brk |-> 6 + CHUNKSIZE]
         /\ \E V : Heap(h.mem, 6 + CHUNKSIZE, V) /\ HeldIn(h.mem, V) = {heap_listp}
<1>1. PICK f : f = [m EXCEPT ![0] = 0, ![starter] = 0, ![starter + 1] = 0,
                             ![3] = 2 + 1, ![4] = 2 + 1, ![5] = 0 + 1]
  OBVIOUS
<1>2. PICK e : e = extend_heap([mem |-> f, brk |-> 6], CHUNKSIZE)
  OBVIOUS
<1>3. h = e.heap
  BY <1>1, <1>2 DEF mm_init
<1>4. f \in Memory /\ f[starter + 1] = 0 /\ f[3] = 3 /\ f[4] = 3 /\ f[5] = 1
  <2>1. 0 .. 5 \subseteq Arena
    BY HeapAssumption DEF Arena
  <2> QED BY <1>1, <2>1 DEF starter, Memory
<1>5. Heap(f, 6, {heap_listp}) /\ HeldIn(f, {heap_listp}) = {heap_listp}
  BY <1>4, FreshHeap
<1>6. CHUNKSIZE \in Nat /\ CHUNKSIZE % 2 = 0 /\ CHUNKSIZE >= 4 /\ 6 + CHUNKSIZE <= MAX_HEAP
  BY HeapAssumption
<1>7. /\ e = [bp |-> e.bp, heap |-> [mem |-> e.heap.mem, brk |-> 6 + CHUNKSIZE]]
      /\ Offers(f, {heap_listp}, CHUNKSIZE, e.bp, e.heap.mem, 6 + CHUNKSIZE)
  BY <1>2, <1>5, <1>6, ExtendHeap
<1>8. h = [mem |-> e.heap.mem, brk |-> 6 + CHUNKSIZE]
  BY <1>3, <1>7
<1>9. \E V : Heap(e.heap.mem, 6 + CHUNKSIZE, V) /\ HeldIn(e.heap.mem, V) = {heap_listp}
  BY <1>5, <1>7 DEF Offers
<1> QED BY <1>8, <1>9

-----------------------------------------------------------------------------
\* place, find_fit and mm_malloc.

(* The block x, of s words or more, has been allocated and nothing else    *)
(* changed hands.                                                          *)
Took(m, b, W, x, s, m2) ==
  \E V : /\ Heap(m2, b, V)
         /\ x \notin HeldIn(m, W) /\ HeldIn(m2, V) = With(HeldIn(m, W), x)
         /\ SizeOf(m2, x) >= s
         /\ Keeps(m, m2, HeldIn(m, W))

(* A block up to its own end is merged with nothing.                       *)
LEMMA MergedSelf ==
  ASSUME NEW m, NEW b, NEW W, Tiled(m, b, W), NEW x \in W
  PROVE  /\ Merged(W, x, NEXT_BLKP(m, x)) = W
         /\ NEXT_BLKP(m, x) \in W \cup {b} /\ NEXT_BLKP(m, x) > x
         /\ NEXT_BLKP(m, x) - x = SizeOf(m, x)
<1>1. \A w \in W : w \in Nat /\ SizeOf(m, w) \in Nat /\ SizeOf(m, w) >= 2
  BY TiledFacts
<1>2. \A w \in W : x < w => x + SizeOf(m, x) <= w
  BY TiledFacts
<1>3. x + SizeOf(m, x) \in W \cup {b}
  BY TiledFacts
<1>4. NEXT_BLKP(m, x) = x + SizeOf(m, x)
  BY DEF NEXT_BLKP, SizeOf
<1>5. \A w \in W : w <= x \/ w >= NEXT_BLKP(m, x)
  BY <1>1, <1>2, <1>4
<1> QED BY <1>1, <1>3, <1>4, <1>5 DEF Merged

(* place gives the whole block when the rest is too small for one.         *)
LEMMA PlaceWhole ==
  ASSUME NEW m, NEW b, NEW W, Heap(m, b, W), NEW x \in FreeIn(m, W),
         NEW m2, m2 = Link(Retag(m, x, NEXT_BLKP(m, x), 1), GET_PREV(m, x), GET_SUCC(m, x))
  PROVE  Took(m, b, W, x, SizeOf(m, x), m2) /\ SizeOf(m2, x) = SizeOf(m, x)
<1>1. PICK F : F = FreeIn(m, W)
  OBVIOUS
<1>2. PICK e : e = NEXT_BLKP(m, x)
  OBVIOUS
<1>3. PICK m1 : m1 = Retag(m, x, e, 1)
  OBVIOUS
<1>4. Tiled(m, b, W) /\ Linked(m, F) /\ Apart(m, F) /\ x \in F
  BY <1>1 DEF Heap
<1>5. F \in Blocks(W) /\ HeldIn(m, W) = W \ F
  BY <1>1, <1>4, FreeFacts
<1>6. x \in W /\ x # heap_listp /\ AllocOf(m, x) = 0 /\ Spaced(F)
  <2>1. Spaced(F)
    BY <1>4, <1>5, FreeSpaced
  <2> QED BY <2>1, <1>1, <1>4, <1>5 DEF Blocks, FreeIn
<1>7. Merged(W, x, e) = W /\ e \in W \cup {b} /\ e > x /\ e - x = SizeOf(m, x)
  BY <1>2, <1>4, <1>6, MergedSelf
<1>8. /\ Tiled(m1, b, Merged(W, x, e))
      /\ Linked(m1, F)
      /\ SizeOf(m1, x) = e - x /\ AllocOf(m1, x) = 1
      /\ \A w \in Merged(W, x, e) \ {x} : SizeOf(m1, w) = SizeOf(m, w) /\ AllocOf(m1, w) = AllocOf(m, w)
      /\ \A f \in F : m1[f] = m[f] /\ m1[f + 1] = m[f + 1]
      /\ Keeps(m, m1, Without(Merged(W, x, e), x))
  <2>1. 1 \in {0, 1}
    OBVIOUS
  <2> QED BY <2>1, <1>3, <1>4, <1>5, <1>6, <1>7, MergeBlock
<1>9. /\ Tiled(m1, b, W)
      /\ SizeOf(m1, x) = SizeOf(m, x) /\ AllocOf(m1, x) = 1
      /\ \A w \in W \ {x} : SizeOf(m1, w) = SizeOf(m, w) /\ AllocOf(m1, w) = AllocOf(m, w)
      /\ Keeps(m, m1, Without(W, x))
  BY <1>7, <1>8
<1>10. m2 = Link(m1, GET_PREV(m1, x), GET_SUCC(m1, x))
  BY <1>2, <1>3, <1>4, <1>8 DEF GET_PREV, GET_SUCC
<1>11. Without(F, x) \in Blocks(W)
  BY <1>5 DEF Blocks, Without
<1>12. /\ Tiled(m2, b, W)
       /\ Linked(m2, Without(F, x))
       /\ \A w \in W : m2[w - 1] = m1[w - 1]
       /\ Keeps(m1, m2, Outside(W, Without(F, x)))
  BY <1>4, <1>6, <1>8, <1>9, <1>10, <1>11, RemoveBlock
<1>13. \A w \in W : SizeOf(m2, w) = SizeOf(m, w) /\ AllocOf(m2, w) = IF w = x THEN 1 ELSE AllocOf(m, w)
  <2>1. \A w \in W : SizeOf(m2, w) = SizeOf(m1, w) /\ AllocOf(m2, w) = AllocOf(m1, w)
    BY <1>12, SameHeader
  <2> QED BY <2>1, <1>9
<1>14. FreeIn(m2, W) = Without(F, x) /\ HeldIn(m2, W) = With(HeldIn(m, W), x)
  <2>1. \A w : w \in FreeIn(m2, W) <=> w \in Without(F, x)
    BY <1>1, <1>13 DEF FreeIn, Without
  <2>2. \A w : w \in HeldIn(m2, W) <=> w \in With(HeldIn(m, W), x)
    BY <1>6, <1>13 DEF HeldIn, With
  <2> QED BY <2>1, <2>2
<1>15. Apart(m2, Without(F, x))
  <2>1. \A w \in W : NEXT_BLKP(m2, w) = NEXT_BLKP(m, w)
    BY <1>13 DEF NEXT_BLKP, SizeOf
  <2>2. F \subseteq W
    BY <1>5 DEF Blocks
  <2> QED BY <2>1, <2>2, <1>4 DEF Apart, Without
<1>16. Heap(m2, b, W)
  BY <1>12, <1>14, <1>15 DEF Heap
<1>17. x \notin HeldIn(m, W) /\ HeldIn(m, W) \in SUBSET W
  BY <1>6 DEF HeldIn
<1>18. Keeps(m, m2, HeldIn(m, W))
  <2>1. HeldIn(m, W) \subseteq Without(W, x) /\ HeldIn(m, W) \subseteq Outside(W, Without(F, x))
    BY <1>5, <1>17 DEF Without, Outside
  <2>2. Keeps(m, m1, HeldIn(m, W))
    BY <2>1, <1>9 DEF Keeps
  <2>3. Keeps(m1, m2, HeldIn(m, W))
    BY <2>1, <1>12 DEF Keeps
  <2> QED BY <2>2, <2>3, <1>4, <1>17, KeepsTrans
<1>19. SizeOf(m2, x) >= SizeOf(m, x)
  <2>1. SizeOf(m, x) \in Nat
    BY <1>4, <1>6, TiledFacts
  <2> QED BY <2>1, <1>6, <1>13
<1> QED BY <1>6, <1>13, <1>14, <1>16, <1>17, <1>18, <1>19 DEF Took

(* A split leaves the links and the other blocks alone.                    *)
LEMMA SplitFrame ==
  ASSUME NEW m, NEW b, NEW W, Tiled(m, b, W), NEW x \in W, x # heap_listp,
         NEW s \in Nat, s >= 4, SizeOf(m, x) - s >= 4, NEW m2,
         SplitOnly(m, m2, x, s), m2[x] = m[x], m2[x + 1] = m[x + 1],
         NEW F \in Blocks(W), Linked(m, F)
  PROVE  /\ Linked(m2, F)
         /\ Keeps(m, m2, Without(W, x))
<1>1. /\ \A w \in W : \A p \in BlockWords(m, w) : p \in Arena /\ p >= 3
      /\ \A w \in W \ {heap_listp} : w \in BlockWords(m, w) /\ w + 1 \in BlockWords(m, w)
      /\ \A w, y \in W : w # y => BlockWords(m, w) \cap BlockWords(m, y) = {}
  BY DisjointWords
<1>2. x \in Nat /\ SizeOf(m, x) \in Nat /\ MAX_HEAP \in Nat /\ MAX_HEAP >= 6
  BY TiledFacts
<1>3. {x - 1, x + s - 2, x + s - 1, x + SizeOf(m, x) - 2} \subseteq BlockWords(m, x)
  BY <1>2 DEF BlockWords
<1>4. ASSUME NEW w \in W \ {x}, NEW p \in BlockWords(m, w)
      PROVE  m2[p] = m[p]
  <2>1. p \in Arena /\ p \notin BlockWords(m, x)
    BY <1>1
  <2>2. p # x - 1 /\ p # x + s - 2 /\ p # x + s - 1 /\ p # x + SizeOf(m, x) - 2
    BY <2>1, <1>3
  <2> QED BY <2>1, <2>2 DEF SplitOnly
<1>5. F \subseteq W \ {heap_listp} /\ Spaced(F)
  BY FreeSpaced DEF Blocks
<1>6. \A f \in F : m2[f] = m[f] /\ m2[f + 1] = m[f + 1]
  BY <1>1, <1>4, <1>5
<1>7. m2[starter + 1] = m[starter + 1]
  <2>1. starter + 1 \in Arena /\ starter + 1 \notin BlockWords(m, x)
    BY <1>1, <1>2 DEF starter, Arena
  <2>2. /\ starter + 1 # x - 1 /\ starter + 1 # x + s - 2
        /\ starter + 1 # x + s - 1 /\ starter + 1 # x + SizeOf(m, x) - 2
    BY <2>1, <1>3
  <2> QED BY <2>1, <2>2 DEF SplitOnly
<1>8. Linked(m2, F)
  BY <1>5, <1>6, <1>7, LinkedFrame
<1> QED BY <1>4, <1>8 DEF Keeps, Without

(* place gives the first words of a block and leaves the rest in the list. *)
LEMMA PlaceSplit ==
  ASSUME NEW m, NEW b, NEW W, Heap(m, b, W), NEW x \in FreeIn(m, W),
         NEW s \in Nat, s % 2 = 0, s >= 4, SizeOf(m, x) - s >= 4,
         NEW m2, m2 = Link(Link(Split(m, x, s), After(x, s), GET_SUCC(m, x)),
                           GET_PREV(m, x), After(x, s))
  PROVE  Took(m, b, W, x, s, m2) /\ SizeOf(m2, x) = s
<1>1. PICK F : F = FreeIn(m, W)
  OBVIOUS
<1>2. PICK y : y = After(x, s)
  OBVIOUS
<1>3. PICK m1 : m1 = Split(m, x, s)
  OBVIOUS
<1>4. PICK G : G = With(Without(F, x), y)
  OBVIOUS
<1>5. PICK V : V = With(W, y)
  OBVIOUS
<1>6. Tiled(m, b, W) /\ Linked(m, F) /\ Apart(m, F) /\ x \in F
  BY <1>1 DEF Heap
<1>7. F \in Blocks(W) /\ HeldIn(m, W) = W \ F
  BY <1>1, <1>6, FreeFacts
<1>8. /\ x \in W /\ x # heap_listp /\ AllocOf(m, x) = 0 /\ F \subseteq W
      /\ heap_listp \notin F
  BY <1>1, <1>6, <1>7 DEF Blocks, FreeIn
<1>9. /\ Tiled(m1, b, V)
      /\ y \notin W /\ y \in Nat
      /\ SizeOf(m1, x) = s /\ AllocOf(m1, x) = 1
      /\ AllocOf(m1, y) = 0 /\ NEXT_BLKP(m1, y) = NEXT_BLKP(m, x)
      /\ \A w \in W \ {x} : m1[w - 1] = m[w - 1]
      /\ SplitOnly(m, m1, x, s)
      /\ m1[x] = m[x] /\ m1[x + 1] = m[x + 1]
      /\ \A w \in W : w < x <=> w < y /\ w # x
  BY <1>2, <1>3, <1>5, <1>6, <1>8, TileSplit
<1>10. Linked(m1, F) /\ Keeps(m, m1, Without(W, x))
  BY <1>6, <1>7, <1>8, <1>9, SplitFrame
<1>11. heap_listp \in W /\ y # heap_listp
  BY <1>6, <1>9, TiledFacts
<1>12. G \in Blocks(V) /\ F \in Blocks(V)
  BY <1>4, <1>5, <1>8, <1>11 DEF Blocks, With, Without
<1>13. Spaced(F)
  BY <1>6, <1>7, FreeSpaced
<1>14. y \notin Without(F, x) /\ \A v \in Without(F, x) : v < x <=> v < y
  BY <1>8, <1>9 DEF Without
<1>15. m2 = Link(Link(m1, y, GET_SUCC(m1, x)), GET_PREV(m1, x), y)
  BY <1>2, <1>3, <1>9 DEF GET_SUCC, GET_PREV
<1>16. /\ Tiled(m2, b, V)
       /\ Linked(m2, G)
       /\ \A w \in V : m2[w - 1] = m1[w - 1]
       /\ Keeps(m1, m2, Outside(V, G))
  BY <1>4, <1>6, <1>9, <1>10, <1>12, <1>13, <1>14, <1>15, ReplaceBlock
<1>17. \A w \in W \ {x} : SizeOf(m1, w) = SizeOf(m, w) /\ AllocOf(m1, w) = AllocOf(m, w)
  BY <1>9, SameHeader
<1>18. \A w \in V : SizeOf(m2, w) = SizeOf(m1, w) /\ AllocOf(m2, w) = AllocOf(m1, w)
  BY <1>16, SameHeader
<1>19. \A w : w \in V <=> w = y \/ w \in W
  BY <1>5 DEF With
<1>20. FreeIn(m2, V) = G
  <2>1. \A w : w \in FreeIn(m2, V) <=> w \in G
    BY <1>1, <1>4, <1>8, <1>9, <1>17, <1>18, <1>19 DEF FreeIn, Without, With
  <2> QED BY <2>1
<1>21. HeldIn(m2, V) = With(HeldIn(m, W), x)
  <2>1. \A w : w \in HeldIn(m2, V) <=> w \in With(HeldIn(m, W), x)
    BY <1>8, <1>9, <1>17, <1>18, <1>19 DEF HeldIn, With
  <2> QED BY <2>1
<1>22. Apart(m2, G)
  <2>1. \A w \in W \ {x} : NEXT_BLKP(m2, w) = NEXT_BLKP(m, w)
    BY <1>17, <1>18, <1>19 DEF NEXT_BLKP, SizeOf
  <2>2. NEXT_BLKP(m2, y) = NEXT_BLKP(m, x)
    BY <1>9, <1>18, <1>19 DEF NEXT_BLKP, SizeOf
  <2>3. \A w \in W : NEXT_BLKP(m, w) \in W \cup {b}
    BY <1>6, MergedSelf
  <2>4. y # b
    <3>1. y \in V /\ \A w \in V : w < b /\ w \in Nat
      BY <1>9, <1>19, TiledFacts
    <3> QED BY <3>1
  <2>5. \A w \in W : NEXT_BLKP(m, w) # y
    BY <2>3, <2>4, <1>9
  <2>6. \A w \in F : NEXT_BLKP(m, w) \notin G
    BY <2>5, <1>4, <1>6, <1>8 DEF Apart, With, Without
  <2> QED BY <2>1, <2>2, <2>6, <1>4, <1>6, <1>8 DEF Apart, With, Without
<1>23. Heap(m2, b, V)
  BY <1>16, <1>20, <1>22 DEF Heap
<1>24. x \notin HeldIn(m, W) /\ HeldIn(m, W) \in SUBSET W
  BY <1>8 DEF HeldIn
<1>25. Keeps(m, m2, HeldIn(m, W))
  <2>1. HeldIn(m, W) \subseteq Without(W, x) /\ HeldIn(m, W) \subseteq Outside(V, G)
    BY <1>4, <1>7, <1>9, <1>19, <1>24 DEF Without, Outside, With
  <2>2. Keeps(m, m1, HeldIn(m, W))
    BY <2>1, <1>10 DEF Keeps
  <2>3. Keeps(m1, m2, HeldIn(m, W))
    BY <2>1, <1>16 DEF Keeps
  <2> QED BY <2>2, <2>3, <1>6, <1>24, KeepsTrans
<1>26. SizeOf(m2, x) >= s /\ SizeOf(m2, x) = s
  BY <1>8, <1>9, <1>18, <1>19
<1> QED BY <1>21, <1>23, <1>24, <1>25, <1>26 DEF Took

(* The size place leaves a block of z words with.                          *)
Cut(z, s) == IF z - s >= 4 THEN s ELSE z

(* place allocates a free block that is large enough.                      *)
LEMMA Place ==
  ASSUME NEW m, NEW b, NEW W, Heap(m, b, W), NEW x \in FreeIn(m, W),
         NEW s \in Nat, s % 2 = 0, s >= 4, SizeOf(m, x) >= s
  PROVE  Took(m, b, W, x, s, place(m, x, s)) /\ SizeOf(place(m, x, s), x) = Cut(SizeOf(m, x), s)
<1>1. PICK z : z = SizeOf(m, x)
  OBVIOUS
<1>2. Tiled(m, b, W) /\ x \in W
  BY DEF Heap, FreeIn
<1>3. z \in Nat
  BY <1>1, <1>2, TiledFacts
<1>4. GET_SIZE(m, HDRP(x)) = z
  BY <1>1 DEF SizeOf, HDRP
<1>5. CASE z - s >= 4
  <2>1. place(m, x, s) = Link(Link(Tag(Tag(m, x, s, 1), x + s, z - s, 0),
                                   x + s, GET_SUCC(m, x)), GET_PREV(m, x), x + s)
    BY <1>3, <1>4, <1>5 DEF place
  <2>2. place(m, x, s) = Link(Link(Split(m, x, s), After(x, s), GET_SUCC(m, x)),
                              GET_PREV(m, x), After(x, s))
    BY <2>1, <1>1 DEF Split, After
  <2>3. Took(m, b, W, x, s, place(m, x, s)) /\ SizeOf(place(m, x, s), x) = s
    BY <2>2, <1>1, <1>5, PlaceSplit
  <2> QED BY <2>3, <1>1, <1>5 DEF Cut
<1>6. CASE ~(z - s >= 4)
  <2>1. place(m, x, s) = Link(Tag(m, x, z, 1), GET_PREV(m, x), GET_SUCC(m, x))
    BY <1>3, <1>4, <1>6 DEF place
  <2>2. NEXT_BLKP(m, x) - x = z
    BY <1>1, <1>2, MergedSelf
  <2>3. place(m, x, s) = Link(Retag(m, x, NEXT_BLKP(m, x), 1), GET_PREV(m, x), GET_SUCC(m, x))
    BY <2>1, <2>2 DEF Retag
  <2>4. Took(m, b, W, x, z, place(m, x, s)) /\ SizeOf(place(m, x, s), x) = z
    BY <1>1, <2>3, PlaceWhole
  <2>5. \A v \in Int : v >= z => v >= s
    BY <1>1, <1>3
  <2>6. PICK V : /\ Heap(place(m, x, s), b, V)
                 /\ x \notin HeldIn(m, W) /\ HeldIn(place(m, x, s), V) = With(HeldIn(m, W), x)
                 /\ SizeOf(place(m, x, s), x) >= z
                 /\ Keeps(m, place(m, x, s), HeldIn(m, W))
    BY <2>4 DEF Took
  <2>7. x \in V /\ Tiled(place(m, x, s), b, V)
    <3>1. x \in HeldIn(place(m, x, s), V)
      BY <2>6 DEF With
    <3> QED BY <3>1, <2>6 DEF HeldIn, Heap
  <2>8. SizeOf(place(m, x, s), x) \in Nat
    BY <2>7, TiledFacts
  <2>9. SizeOf(place(m, x, s), x) >= s
    BY <2>5, <2>6, <2>8
  <2>10. Took(m, b, W, x, s, place(m, x, s))
    BY <2>6, <2>9 DEF Took
  <2> QED BY <2>4, <2>10, <1>1, <1>6 DEF Cut
<1> QED BY <1>5, <1>6

(* find_fit returns the first free block in address order that is large    *)
(* enough, and 0 only when there is none.                                  *)
LEMMA FindFit ==
  ASSUME NEW m, NEW b, NEW W, Heap(m, b, W), NEW s \in Nat,
         NEW q, q = find_fit(m, s)
  PROVE  \/ q = 0 /\ \A x \in FreeIn(m, W) : ~(SizeOf(m, x) >= s)
         \/ /\ q \in FreeIn(m, W) /\ q # 0 /\ SizeOf(m, q) >= s
            /\ \A x \in FreeIn(m, W) : SizeOf(m, x) >= s => q <= x
<1>1. PICK F : F = FreeIn(m, W)
  OBVIOUS
<1>2. PICK fits : fits = {q_1 \in 1 .. MAX_HEAP : s <= GET_SIZE(m, HDRP(q_1))}
  OBVIOUS
<1>3. PICK p : p = Before(m, fits)
  OBVIOUS
<1>4. Tiled(m, b, W) /\ Linked(m, F)
  BY <1>1 DEF Heap
<1>5. m \in Memory /\ Spaced(F) /\ F \subseteq W
  <2>1. F \in Blocks(W)
    BY <1>1, <1>4, FreeFacts
  <2> QED BY <2>1, <1>4, FreeSpaced DEF Tiled, Blocks
<1>6. /\ b \in Nat /\ b <= MAX_HEAP /\ MAX_HEAP \in Nat
      /\ \A x \in W : x \in Nat /\ x >= 4 /\ x < b /\ SizeOf(m, x) \in Nat
  <2>1. \A x \in W : SizeOf(m, x) \in Nat
    BY <1>4, TiledFacts
  <2> QED BY <2>1, <1>4, TiledFacts
<1>7. \A x \in F : x \in fits <=> SizeOf(m, x) >= s
  <2>1. \A x \in F : x \in 1 .. MAX_HEAP /\ SizeOf(m, x) \in Nat
    BY <1>5, <1>6
  <2>2. \A x \in F : GET_SIZE(m, HDRP(x)) = SizeOf(m, x)
    BY DEF SizeOf, HDRP
  <2> QED BY <2>1, <2>2, <1>2
<1>8. q = GET_SUCC(m, p)
  BY <1>2, <1>3 DEF find_fit
<1>9. /\ p \in F \cup {starter}
      /\ \A x \in F \cap fits : x > p
      /\ q \in fits \cup {0}
  <2>1. /\ p \in F \cup {starter}
        /\ \A x \in F \cap fits : x > p
        /\ GET_SUCC(m, p) \in fits \cup {0}
    BY <1>3, <1>4, <1>5, BeforeFacts
  <2> QED BY <2>1, <1>8
<1>10. p \in Nat
  BY <1>5, <1>6, <1>9 DEF starter
<1>11. \/ q = 0 /\ \A x \in F : x <= p
       \/ q \in F /\ q > p /\ \A x \in F : x <= p \/ x >= q
  <2>1. IsNext(F, p, GET_SUCC(m, p))
    BY <1>4, <1>9 DEF Linked
  <2> QED BY <2>1, <1>8 DEF IsNext
<1>12. CASE q = 0 /\ \A x \in F : x <= p
  <2>1. \A x \in F : x \notin fits
    BY <1>5, <1>6, <1>9, <1>10, <1>12
  <2> QED BY <2>1, <1>1, <1>7, <1>12
<1>13. CASE q \in F /\ q > p /\ \A x \in F : x <= p \/ x >= q
  <2>1. q \in Nat /\ q # 0
    BY <1>5, <1>6, <1>13
  <2>2. q \in fits
    BY <2>1, <1>9
  <2>3. \A x \in F : x \in fits => q <= x
    BY <2>1, <1>5, <1>6, <1>9, <1>10, <1>13
  <2> QED BY <2>1, <2>2, <2>3, <1>1, <1>7, <1>13
<1> QED BY <1>11, <1>12, <1>13

(* The block for a request is even, has room for the links, and holds the  *)
(* bytes asked for besides its tags.                                       *)
LEMMA AdjustedFacts ==
  ASSUME NEW size \in Nat
  PROVE  /\ Adjusted(size) \in Nat /\ Adjusted(size) % 2 = 0 /\ Adjusted(size) >= 4
         /\ size <= 4 * (Adjusted(size) - 2)
<1>1. CASE size <= 8
  BY <1>1 DEF Adjusted
<1>2. CASE ~(size <= 8)
  <2>1. PICK d : d = (size + 8 + 7) \div 8
    OBVIOUS
  <2>2. d \in Nat /\ 8 * d <= size + 15 /\ size + 15 < 8 * d + 8
    BY <2>1
  <2>3. Adjusted(size) = 2 * d
    BY <2>1, <1>2 DEF Adjusted
  <2>4. d >= 2 /\ size <= 8 * d - 8
    BY <2>2, <1>2
  <2>5. (2 * d) % 2 = 0
    BY <2>2
  <2>6. 4 * (2 * d - 2) = 8 * d - 8
    BY <2>2
  <2> QED BY <2>2, <2>3, <2>4, <2>5, <2>6
<1> QED BY <1>1, <1>2

(* The larger of two numbers.                                              *)
LEMMA MaxOfTwo ==
  ASSUME NEW a \in Nat, NEW c \in Nat
  PROVE  Max({a, c}) \in {a, c} /\ Max({a, c}) >= a /\ Max({a, c}) >= c
<1>1. PICK S : S = {a, c}
  OBVIOUS
<1>2. S \in SUBSET Nat /\ S # {} /\ a + c \in Nat /\ \A k \in S : k <= a + c
  BY <1>1
<1>3. Max(S) \in S /\ \A k \in S : k <= Max(S)
  BY <1>2, MaxOfNats
<1>4. Max(S) \in Nat
  BY <1>2, <1>3
<1> QED BY <1>1, <1>3, <1>4

(* x is the last block of a heap that has been extended, cut to size.      *)
Grew(m, W, b2, x, s, m2) ==
  \E m1, V : /\ Heap(m1, b2, V)
             /\ x \in FreeIn(m1, V) /\ After(x, SizeOf(m1, x)) = b2
             /\ HeldIn(m1, V) = HeldIn(m, W)
             /\ Keeps(m, m1, HeldIn(m, W))
             /\ SizeOf(m2, x) = Cut(SizeOf(m1, x), s)

(* The block extend_heap offers can be placed.                             *)
LEMMA GrowAndPlace ==
  ASSUME NEW m, NEW b, NEW W, Heap(m, b, W), NEW b2, NEW x, NEW m1,
         NEW z \in Nat, NEW s \in Nat, s % 2 = 0, s >= 4, z >= s,
         Offers(m, W, z, x, m1, b2)
  PROVE  /\ Took(m, b2, W, x, s, place(m1, x, s)) /\ x # 0
         /\ Grew(m, W, b2, x, s, place(m1, x, s))
<1>1. PICK V : /\ Heap(m1, b2, V)
               /\ x \in FreeIn(m1, V) /\ SizeOf(m1, x) >= z
               /\ After(x, SizeOf(m1, x)) = b2
               /\ HeldIn(m1, V) = HeldIn(m, W)
               /\ Keeps(m, m1, HeldIn(m, W))
  BY DEF Offers
<1>2. Tiled(m, b, W) /\ Tiled(m1, b2, V) /\ x \in V
  BY <1>1 DEF Heap, FreeIn
<1>3. x \in Nat /\ x >= 4 /\ SizeOf(m1, x) \in Nat
  BY <1>2, TiledFacts
<1>4. SizeOf(m1, x) >= s
  BY <1>1, <1>3
<1>5. PICK m2 : m2 = place(m1, x, s)
  OBVIOUS
<1>6. Took(m1, b2, V, x, s, m2) /\ SizeOf(m2, x) = Cut(SizeOf(m1, x), s)
  BY <1>1, <1>4, <1>5, Place
<1>7. PICK U : /\ Heap(m2, b2, U)
               /\ x \notin HeldIn(m, W) /\ HeldIn(m2, U) = With(HeldIn(m, W), x)
               /\ SizeOf(m2, x) >= s
               /\ Keeps(m1, m2, HeldIn(m, W))
  BY <1>1, <1>6 DEF Took
<1>8. HeldIn(m, W) \in SUBSET W
  BY DEF HeldIn
<1>9. Keeps(m, m2, HeldIn(m, W))
  BY <1>1, <1>2, <1>7, <1>8, KeepsTrans
<1>10. Took(m, b2, W, x, s, m2)
  BY <1>7, <1>9 DEF Took
<1>11. Grew(m, W, b2, x, s, m2)
  BY <1>1, <1>6 DEF Grew
<1> QED BY <1>3, <1>5, <1>10, <1>11

(* What the search finds: no free block large enough, or the first one.    *)
NoneFits(m, W, s) == \A x \in FreeIn(m, W) : ~(SizeOf(m, x) >= s)
Fits(m, W, s, x) == /\ x \in FreeIn(m, W) /\ SizeOf(m, x) >= s
                    /\ \A y \in FreeIn(m, W) : SizeOf(m, y) >= s => x <= y

(* By how much mm_malloc extends the heap.                                 *)
Growth(s) == Max({s, CHUNKSIZE})

(* The three ways mm_malloc ends, and which of them the sizes of the free  *)
(* blocks choose.                                                          *)
LEMMA MallocCases ==
  ASSUME NEW m, NEW b, NEW W, Heap(m, b, W), NEW size \in Nat \ {0},
         NEW s, s = Adjusted(size),
         NEW r, r = mm_malloc([mem |-> m, brk |-> b], size)
  PROVE  \/ /\ NoneFits(m, W, s) /\ b + Growth(s) > MAX_HEAP
            /\ r = [bp |-> 0, heap |-> [mem |-> m, brk |-> b]]
         \/ /\ NoneFits(m, W, s) /\ ~(b + Growth(s) > MAX_HEAP)
            /\ r = [bp |-> r.bp, heap |-> [mem |-> r.heap.mem, brk |-> b + Growth(s)]]
            /\ b + Growth(s) > b /\ r.bp # 0
            /\ Took(m, b + Growth(s), W, r.bp, s, r.heap.mem)
            /\ Grew(m, W, b + Growth(s), r.bp, s, r.heap.mem)
         \/ /\ Fits(m, W, s, r.bp)
            /\ r = [bp |-> r.bp, heap |-> [mem |-> r.heap.mem, brk |-> b]]
            /\ r.bp # 0
            /\ Took(m, b, W, r.bp, s, r.heap.mem)
            /\ SizeOf(r.heap.mem, r.bp) = Cut(SizeOf(m, r.bp), s)
<1>1. PICK q : q = find_fit(m, s)
  OBVIOUS
<1>2. PICK h : h = [mem |-> m, brk |-> b]
  OBVIOUS
<1>3. s \in Nat /\ s % 2 = 0 /\ s >= 4
  BY AdjustedFacts
<1>4. \/ q = 0 /\ NoneFits(m, W, s)
      \/ q # 0 /\ Fits(m, W, s, q)
  BY <1>1, <1>3, FindFit DEF NoneFits, Fits
<1>5. CASE q # 0
  <2>1. q \in FreeIn(m, W) /\ SizeOf(m, q) >= s /\ Fits(m, W, s, q)
    BY <1>4, <1>5 DEF Fits
  <2>2. r = [bp |-> q, heap |-> [mem |-> place(m, q, s), brk |-> b]]
    BY <1>1, <1>5 DEF mm_malloc
  <2>3. /\ Took(m, b, W, q, s, place(m, q, s))
        /\ SizeOf(place(m, q, s), q) = Cut(SizeOf(m, q), s)
    BY <1>3, <2>1, Place
  <2>4. r.bp = q /\ r.heap.mem = place(m, q, s) /\ r.heap.brk = b
    BY <2>2
  <2> QED BY <1>5, <2>1, <2>2, <2>3, <2>4
<1>6. CASE q = 0
  <2>1. PICK z : z = Growth(s)
    OBVIOUS
  <2>2. PICK e : e = extend_heap(h, z)
    OBVIOUS
  <2>3. z \in Nat /\ z % 2 = 0 /\ z >= s /\ z >= 4
    <3>1. CHUNKSIZE \in Nat /\ CHUNKSIZE % 2 = 0 /\ CHUNKSIZE >= 4
      BY HeapAssumption
    <3>2. z \in {s, CHUNKSIZE} /\ z >= s
      BY <1>3, <2>1, <3>1, MaxOfTwo DEF Growth
    <3> QED BY <1>3, <3>1, <3>2
  <2>4. r = IF e.bp = 0 THEN e
            ELSE [bp |-> e.bp, heap |-> [e.heap EXCEPT !.mem = place(@, e.bp, s)]]
    BY <1>1, <1>2, <1>6, <2>1, <2>2 DEF mm_malloc, Growth
  <2>5. /\ b + z > MAX_HEAP => e = [bp |-> 0, heap |-> [mem |-> m, brk |-> b]]
        /\ b + z <= MAX_HEAP =>
             /\ e = [bp |-> e.bp, heap |-> [mem |-> e.heap.mem, brk |-> b + z]]
             /\ Offers(m, W, z, e.bp, e.heap.mem, b + z)
    BY <1>2, <2>2, <2>3, ExtendHeap
  <2>6. b \in Nat /\ MAX_HEAP \in Nat
    BY TiledFacts DEF Heap
  <2>7. NoneFits(m, W, s)
    BY <1>4, <1>6
  <2>8. CASE b + z > MAX_HEAP
    BY <1>2, <2>1, <2>4, <2>5, <2>7, <2>8
  <2>9. CASE b + z <= MAX_HEAP
    <3>1. PICK x : x = e.bp
      OBVIOUS
    <3>2. PICK m1 : m1 = e.heap.mem
      OBVIOUS
    <3>3. PICK b2 : b2 = b + z
      OBVIOUS
    <3>4. e = [bp |-> x, heap |-> [mem |-> m1, brk |-> b2]] /\ Offers(m, W, z, x, m1, b2)
      BY <2>5, <2>9, <3>1, <3>2, <3>3
    <3>5. /\ Took(m, b2, W, x, s, place(m1, x, s)) /\ x # 0
          /\ Grew(m, W, b2, x, s, place(m1, x, s))
      BY <1>3, <2>3, <3>4, GrowAndPlace
    <3>6. r = [bp |-> x, heap |-> [mem |-> place(m1, x, s), brk |-> b2]]
      BY <2>4, <3>4, <3>5
    <3>7. b2 > b /\ ~(b2 > MAX_HEAP)
      BY <2>3, <2>6, <2>9, <3>3
    <3>8. r.bp = x /\ r.heap.mem = place(m1, x, s) /\ b2 = b + Growth(s)
      BY <2>1, <3>3, <3>6
    <3> QED BY <2>7, <3>5, <3>6, <3>7, <3>8
  <2> QED BY <2>3, <2>6, <2>8, <2>9
<1> QED BY <1>5, <1>6

(* mm_malloc returns 0 and the heap it was given, or a block that was not  *)
(* held; it extends the heap only when no free block is large enough.      *)
LEMMA Malloc ==
  ASSUME NEW m, NEW b, NEW W, Heap(m, b, W), NEW size \in Nat \ {0},
         NEW s, s = Adjusted(size),
         NEW r, r = mm_malloc([mem |-> m, brk |-> b], size)
  PROVE  \/ r = [bp |-> 0, heap |-> [mem |-> m, brk |-> b]]
         \/ /\ r = [bp |-> r.bp, heap |-> [mem |-> r.heap.mem, brk |-> r.heap.brk]]
            /\ Took(m, r.heap.brk, W, r.bp, s, r.heap.mem) /\ r.bp # 0
            /\ \/ /\ \A x \in FreeIn(m, W) : ~(SizeOf(m, x) >= s)
                  /\ r.heap.brk > b
               \/ /\ r.bp \in FreeIn(m, W) /\ SizeOf(m, r.bp) >= s
                  /\ \A x \in FreeIn(m, W) : SizeOf(m, x) >= s => r.bp <= x
                  /\ r.heap.brk = b
<1>1. PICK x : x = r.bp
  OBVIOUS
<1>2. PICK m2 : m2 = r.heap.mem
  OBVIOUS
<1>3. PICK b2 : b2 = b + Growth(s)
  OBVIOUS
<1>4. \/ r = [bp |-> 0, heap |-> [mem |-> m, brk |-> b]]
      \/ /\ NoneFits(m, W, s)
         /\ r = [bp |-> x, heap |-> [mem |-> m2, brk |-> b2]]
         /\ b2 > b /\ x # 0 /\ Took(m, b2, W, x, s, m2)
      \/ /\ Fits(m, W, s, x)
         /\ r = [bp |-> x, heap |-> [mem |-> m2, brk |-> b]]
         /\ x # 0 /\ Took(m, b, W, x, s, m2)
  BY <1>1, <1>2, <1>3, MallocCases
<1>5. CASE /\ NoneFits(m, W, s)
           /\ r = [bp |-> x, heap |-> [mem |-> m2, brk |-> b2]]
           /\ b2 > b /\ x # 0 /\ Took(m, b2, W, x, s, m2)
  <2>1. r.bp = x /\ r.heap.mem = m2 /\ r.heap.brk = b2
    BY <1>5
  <2> QED BY <1>5, <2>1 DEF NoneFits
<1>6. CASE /\ Fits(m, W, s, x)
           /\ r = [bp |-> x, heap |-> [mem |-> m2, brk |-> b]]
           /\ x # 0 /\ Took(m, b, W, x, s, m2)
  <2>1. r.bp = x /\ r.heap.mem = m2 /\ r.heap.brk = b
    BY <1>6
  <2> QED BY <1>6, <2>1 DEF Fits
<1> QED BY <1>4, <1>5, <1>6

-----------------------------------------------------------------------------
\* mm_free and mm_realloc.

(* The block x has been freed and nothing else changed hands.              *)
Released(m, b, W, x, m2) ==
  \E V : /\ Heap(m2, b, V)
         /\ HeldIn(m2, V) = Without(HeldIn(m, W), x)
         /\ Keeps(m, m2, Without(HeldIn(m, W), x))

(* mm_free releases a held block.                                          *)
LEMMA FreeBlock ==
  ASSUME NEW m, NEW b, NEW W, Heap(m, b, W), NEW x \in HeldIn(m, W), x # heap_listp,
         NEW h, h = mm_free([mem |-> m, brk |-> b], x)
  PROVE  h = [mem |-> h.mem, brk |-> b] /\ Released(m, b, W, x, h.mem)
<1>1. PICK F : F = FreeIn(m, W)
  OBVIOUS
<1>2. PICK e : e = NEXT_BLKP(m, x)
  OBVIOUS
<1>3. PICK m1 : m1 = Retag(m, x, e, 0)
  OBVIOUS
<1>4. PICK m2 : m2 = coalesce(m1, x).mem
  OBVIOUS
<1>5. PICK H : H = Without(HeldIn(m, W), x)
  OBVIOUS
<1>6. Tiled(m, b, W) /\ Linked(m, F) /\ Apart(m, F)
  BY <1>1 DEF Heap
<1>7. F \in Blocks(W) /\ HeldIn(m, W) = W \ F
  BY <1>1, <1>6, FreeFacts
<1>8. x \in W /\ x \notin F /\ AllocOf(m, x) = 1
  BY <1>7 DEF HeldIn
<1>9. Merged(W, x, e) = W /\ e \in W \cup {b} /\ e > x /\ e - x = SizeOf(m, x)
  BY <1>2, <1>6, <1>8, MergedSelf
<1>10. /\ Tiled(m1, b, Merged(W, x, e))
       /\ Linked(m1, F)
       /\ SizeOf(m1, x) = e - x /\ AllocOf(m1, x) = 0
       /\ \A w \in Merged(W, x, e) \ {x} : SizeOf(m1, w) = SizeOf(m, w) /\ AllocOf(m1, w) = AllocOf(m, w)
       /\ Keeps(m, m1, Without(Merged(W, x, e), x))
  <2>1. 0 \in {0, 1}
    OBVIOUS
  <2> QED BY <2>1, <1>3, <1>6, <1>7, <1>8, <1>9, MergeBlock
<1>11. /\ Tiled(m1, b, W)
       /\ SizeOf(m1, x) = SizeOf(m, x) /\ AllocOf(m1, x) = 0
       /\ \A w \in W \ {x} : SizeOf(m1, w) = SizeOf(m, w) /\ AllocOf(m1, w) = AllocOf(m, w)
       /\ Keeps(m, m1, Without(W, x))
  BY <1>9, <1>10
<1>12. Without(FreeIn(m1, W), x) = F
  <2>1. \A w : w \in Without(FreeIn(m1, W), x) <=> w \in F
    BY <1>1, <1>8, <1>11 DEF Without, FreeIn
  <2> QED BY <2>1
<1>13. HeldIn(m1, W) = H
  <2>1. \A w : w \in HeldIn(m1, W) <=> w \in H
    BY <1>5, <1>11 DEF Without, HeldIn
  <2> QED BY <2>1
<1>14. Apart(m1, F)
  <2>1. \A w \in W : NEXT_BLKP(m1, w) = NEXT_BLKP(m, w)
    BY <1>11 DEF NEXT_BLKP, SizeOf
  <2>2. F \subseteq W
    BY <1>7 DEF Blocks
  <2> QED BY <2>1, <2>2, <1>6 DEF Apart
<1>15. Unlisted(m1, b, W, x)
  BY <1>8, <1>10, <1>11, <1>12, <1>14 DEF Unlisted
<1>16. Listed(m1, b, W, x, coalesce(m1, x).bp, m2)
  BY <1>4, <1>15, Coalesce
<1>17. PICK V : /\ Heap(m2, b, V)
                /\ HeldIn(m2, V) = H
                /\ Keeps(m1, m2, H)
  BY <1>13, <1>16 DEF Listed
<1>18. H \in SUBSET W /\ H \subseteq Without(W, x)
  BY <1>5 DEF HeldIn, Without
<1>19. Keeps(m, m2, H)
  <2>1. Keeps(m, m1, H)
    BY <1>11, <1>18 DEF Keeps
  <2> QED BY <2>1, <1>6, <1>17, <1>18, KeepsTrans
<1>20. h = [mem |-> m2, brk |-> b]
  <2>1. x # 0
    BY <1>6, <1>8, TiledFacts
  <2>2. GET_SIZE(m, HDRP(x)) = e - x
    BY <1>9 DEF SizeOf, HDRP
  <2> QED BY <2>1, <2>2, <1>3, <1>4 DEF mm_free, Retag
<1>21. h.mem = m2
  BY <1>20
<1> QED BY <1>5, <1>17, <1>19, <1>20, <1>21 DEF Released

(* Writing into the payload of a held block keeps the heap.                *)
LEMMA PayloadFrame ==
  ASSUME NEW m, NEW b, NEW W, Heap(m, b, W), NEW x \in HeldIn(m, W), x # heap_listp,
         NEW n \in Nat, n <= SizeOf(m, x) - 2,
         NEW m2 \in Memory, \A p \in Arena : p \notin x .. x + n - 1 => m2[p] = m[p]
  PROVE  /\ Heap(m2, b, W)
         /\ HeldIn(m2, W) = HeldIn(m, W) /\ SizeOf(m2, x) = SizeOf(m, x)
         /\ Keeps(m, m2, Without(HeldIn(m, W), x))
<1>1. PICK F : F = FreeIn(m, W)
  OBVIOUS
<1>2. Tiled(m, b, W) /\ Linked(m, F) /\ Apart(m, F)
  BY <1>1 DEF Heap
<1>3. F \in Blocks(W) /\ HeldIn(m, W) = W \ F /\ Spaced(F)
  BY <1>1, <1>2, FreeFacts, FreeSpaced
<1>4. x \in W /\ x \notin F /\ F \subseteq W \ {heap_listp}
  BY <1>3 DEF Blocks
<1>5. /\ \A w \in W : \A p \in BlockWords(m, w) : p \in Arena /\ p >= 3
      /\ \A w \in W : w - 1 \in BlockWords(m, w) /\ w + SizeOf(m, w) - 2 \in BlockWords(m, w)
      /\ \A w \in W \ {heap_listp} : w \in BlockWords(m, w) /\ w + 1 \in BlockWords(m, w)
      /\ \A w, y \in W : w # y => BlockWords(m, w) \cap BlockWords(m, y) = {}
  BY <1>2, DisjointWords
<1>6. x \in Nat /\ x >= 4 /\ SizeOf(m, x) \in Nat /\ b \in Nat /\ b <= MAX_HEAP /\ MAX_HEAP \in Nat /\ b >= 6
  <2>1. x \in Nat /\ x >= 4 /\ SizeOf(m, x) \in Nat
    BY <1>2, <1>4, TiledFacts
  <2> QED BY <2>1, <1>2, TiledFacts
<1>7. x .. x + n - 1 \subseteq BlockWords(m, x) \ {x - 1, x + SizeOf(m, x) - 2}
  BY <1>6 DEF BlockWords
<1>8. \A w \in W \ {x} : \A p \in BlockWords(m, w) : m2[p] = m[p]
  BY <1>4, <1>5, <1>7
<1>9. m2[x - 1] = m[x - 1] /\ m2[x + SizeOf(m, x) - 2] = m[x + SizeOf(m, x) - 2]
  BY <1>4, <1>5, <1>7
<1>10. \A w \in W : /\ m2[w - 1] = m[w - 1]
                    /\ m2[w + SizeOf(m, w) - 2] = m[w + SizeOf(m, w) - 2]
  BY <1>5, <1>8, <1>9
<1>11. \A w \in W : SizeOf(m2, w) = SizeOf(m, w) /\ AllocOf(m2, w) = AllocOf(m, w)
  BY <1>10, SameHeader
<1>12. m2[b - 1] = m[b - 1]
  <2>1. b - 1 \in Arena
    BY <1>6 DEF Arena
  <2>2. \A w \in W : \A p \in BlockWords(m, w) : p < b - 1
    BY <1>2, DisjointWords
  <2>3. b - 1 \notin BlockWords(m, x)
    BY <2>2, <1>4, <1>6
  <2> QED BY <2>1, <2>3, <1>7
<1>13. m2[starter + 1] = m[starter + 1]
  <2>1. starter + 1 \in Arena /\ starter + 1 \notin BlockWords(m, x)
    BY <1>4, <1>5, <1>6 DEF starter, Arena
  <2> QED BY <2>1, <1>7
<1>14. Tiled(m2, b, W)
  BY <1>2, <1>10, <1>11, <1>12 DEF Tiled
<1>15. Linked(m2, F)
  <2>1. \A f \in F : m2[f] = m[f] /\ m2[f + 1] = m[f + 1]
    BY <1>4, <1>5, <1>8
  <2> QED BY <2>1, <1>2, <1>3, <1>13, LinkedFrame
<1>16. FreeIn(m2, W) = F /\ HeldIn(m2, W) = HeldIn(m, W)
  BY <1>1, <1>11 DEF FreeIn, HeldIn
<1>17. Apart(m2, F)
  <2>1. \A w \in W : NEXT_BLKP(m2, w) = NEXT_BLKP(m, w)
    BY <1>11 DEF NEXT_BLKP, SizeOf
  <2> QED BY <2>1, <1>2, <1>4 DEF Apart
<1>18. Heap(m2, b, W)
  BY <1>14, <1>15, <1>16, <1>17 DEF Heap
<1>19. Keeps(m, m2, Without(HeldIn(m, W), x))
  BY <1>3, <1>8 DEF Keeps, Without
<1> QED BY <1>4, <1>11, <1>16, <1>18, <1>19

(* x has been freed for y, of s words or more.                             *)
Moved(m, b, W, x, y, s, m2) ==
  \E V : /\ Heap(m2, b, V)
         /\ y \notin HeldIn(m, W)
         /\ HeldIn(m2, V) = With(Without(HeldIn(m, W), x), y)
         /\ SizeOf(m2, y) >= s
         /\ Keeps(m, m2, Without(HeldIn(m, W), x))

(* How many words memcpy takes, and what it does with them.                *)
CopyLen(m, old, size) == Min({size \div 4, SizeOf(m, old)})
Copies(m, m2, new, old, w) ==
  /\ m2 \in Memory
  /\ \A p \in Arena : p \notin new .. new + w - 1 => m2[p] = m[p]
  /\ \A k \in 0 .. w - 1 : m2[new + k] = m[old + k]

(* The smaller of two numbers.                                             *)
LEMMA MinOfTwo ==
  ASSUME NEW a \in Nat, NEW c \in Nat
  PROVE  Min({a, c}) \in Nat /\ Min({a, c}) <= a /\ Min({a, c}) <= c /\ Min({a, c}) \in {a, c}
<1>1. PICK S : S = {a, c}
  OBVIOUS
<1>2. S \in SUBSET Nat /\ S # {}
  BY <1>1
<1>3. Min(S) \in S /\ \A k \in S : Min(S) <= k
  BY <1>2, MinOfNats
<1> QED BY <1>1, <1>3

(* Copied copies CopyLen words, also when they overlap.                    *)
LEMMA CopiedFacts ==
  ASSUME NEW m \in Memory, NEW new \in Nat, NEW old \in Nat, NEW size,
         CopyLen(m, old, size) \in Nat,
         old + CopyLen(m, old, size) <= MAX_HEAP, new + CopyLen(m, old, size) <= MAX_HEAP
  PROVE  Copies(m, Copied(m, new, old, size), new, old, CopyLen(m, old, size))
<1>0. PICK w : w = CopyLen(m, old, size)
  OBVIOUS
<1> PICK m2 : m2 = Copied(m, new, old, size)
  OBVIOUS
<1>1. DOMAIN m = Arena /\ MAX_HEAP \in Nat
  BY HeapAssumption DEF Memory
<1>2. m2 = [p \in Arena |-> IF p \in new .. new + w - 1 THEN m[old + p - new] ELSE m[p]]
  BY <1>0, <1>1 DEF Copied, CopyLen, SizeOf, HDRP
<1>3. \A p \in new .. new + w - 1 : old + p - new \in Arena
  BY <1>0, <1>1 DEF Arena
<1>4. m2 \in Memory
  <2>1. \A p \in Arena : m2[p] \in Nat
    BY <1>2, <1>3 DEF Memory
  <2> QED BY <2>1, <1>2 DEF Memory
<1>5. \A p \in Arena : p \notin new .. new + w - 1 => m2[p] = m[p]
  BY <1>2
<1>6. ASSUME NEW k \in 0 .. w - 1
      PROVE  m2[new + k] = m[old + k]
  <2>1. new + k \in Arena /\ new + k \in new .. new + w - 1 /\ old + (new + k) - new = old + k
    BY <1>0, <1>1 DEF Arena
  <2> QED BY <2>1, <1>2
<1> QED BY <1>0, <1>4, <1>5, <1>6 DEF Copies

(* mm_realloc's memcpy stays in the payload of the new block, though it    *)
(* may take the footer of the old block and the header after it along.     *)
LEMMA CopyFrame ==
  ASSUME NEW m, NEW b, NEW W, Heap(m, b, W), NEW x \in HeldIn(m, W), x # heap_listp,
         NEW y \in HeldIn(m, W), y # heap_listp,
         NEW size \in Nat, size <= 4 * (SizeOf(m, y) - 2),
         NEW m2, m2 = Copied(m, y, x, size)
  PROVE  /\ CopyLen(m, x, size) \in Nat
         /\ CopyLen(m, x, size) \in {size \div 4, SizeOf(m, x)}
         /\ CopyLen(m, x, size) <= size \div 4 /\ CopyLen(m, x, size) <= SizeOf(m, x)
         /\ CopyLen(m, x, size) <= SizeOf(m, y) - 2
         /\ Copies(m, m2, y, x, CopyLen(m, x, size))
         /\ Heap(m2, b, W)
         /\ HeldIn(m2, W) = HeldIn(m, W) /\ SizeOf(m2, y) = SizeOf(m, y)
         /\ Keeps(m, m2, Without(HeldIn(m, W), y))
<1>1. Tiled(m, b, W) /\ x \in W /\ y \in W /\ m \in Memory
  BY DEF Heap, HeldIn, Tiled
<1>2. /\ x \in Nat /\ y \in Nat /\ SizeOf(m, x) \in Nat /\ SizeOf(m, y) \in Nat
      /\ x + SizeOf(m, x) <= MAX_HEAP /\ y + SizeOf(m, y) <= MAX_HEAP
      /\ SizeOf(m, y) >= 4 /\ SizeOf(m, x) >= 4
  <2>1. b \in Nat /\ b <= MAX_HEAP /\ MAX_HEAP \in Nat
    BY <1>1, TiledFacts
  <2>2. /\ x \in Nat /\ y \in Nat /\ SizeOf(m, x) \in Nat /\ SizeOf(m, y) \in Nat
        /\ SizeOf(m, y) >= 4 /\ SizeOf(m, x) >= 4
    BY <1>1, TiledFacts
  <2>3. x + SizeOf(m, x) <= b /\ y + SizeOf(m, y) <= b
    BY <1>1, TiledFacts
  <2> QED BY <2>1, <2>2, <2>3
<1>3. PICK w : w = CopyLen(m, x, size)
  OBVIOUS
<1>4. size \div 4 \in Nat
  OBVIOUS
<1>5. /\ w \in Nat /\ w <= size \div 4 /\ w <= SizeOf(m, x)
      /\ w \in {size \div 4, SizeOf(m, x)}
  BY <1>2, <1>3, <1>4, MinOfTwo DEF CopyLen
<1>6. w <= SizeOf(m, y) - 2
  <2>1. size \div 4 <= SizeOf(m, y) - 2
    BY <1>2
  <2> QED BY <2>1, <1>2, <1>4, <1>5
<1>7. x + w <= MAX_HEAP /\ y + w <= MAX_HEAP
  BY <1>2, <1>5, <1>6, HeapAssumption
<1>8. Copies(m, m2, y, x, w)
  <2>1. Copies(m, Copied(m, y, x, size), y, x, CopyLen(m, x, size))
    BY <1>1, <1>2, <1>3, <1>5, <1>7, CopiedFacts
  <2> QED BY <2>1, <1>3
<1>9. m2 \in Memory /\ \A p \in Arena : p \notin y .. y + w - 1 => m2[p] = m[p]
  BY <1>8 DEF Copies
<1>10. /\ Heap(m2, b, W)
       /\ HeldIn(m2, W) = HeldIn(m, W) /\ SizeOf(m2, y) = SizeOf(m, y)
       /\ Keeps(m, m2, Without(HeldIn(m, W), y))
  BY <1>5, <1>6, <1>9, PayloadFrame
<1> QED BY <1>3, <1>5, <1>6, <1>8, <1>10

(* mm_realloc changes nothing, or moves the payload to another block and   *)
(* frees the old one.                                                      *)
LEMMA Reallocate ==
  ASSUME NEW m, NEW b, NEW W, Heap(m, b, W), NEW x \in HeldIn(m, W), x # heap_listp,
         NEW size \in Nat \ {0}, NEW s, s = Adjusted(size),
         NEW r, r = mm_realloc([mem |-> m, brk |-> b], x, size)
  PROVE  \/ r = [bp |-> 0, heap |-> [mem |-> m, brk |-> b]]
         \/ /\ r = [bp |-> r.bp, heap |-> [mem |-> r.heap.mem, brk |-> r.heap.brk]]
            /\ Moved(m, r.heap.brk, W, x, r.bp, s, r.heap.mem) /\ r.bp # 0 /\ r.heap.brk >= b
            /\ \A k \in 0 .. (size \div 4) - 1 :
                 k < SizeOf(m, x) - 2 => r.heap.mem[r.bp + k] = m[x + k]
<1>1. PICK n : n = mm_malloc([mem |-> m, brk |-> b], size)
  OBVIOUS
<1>2. Tiled(m, b, W) /\ x \in W
  BY DEF Heap, HeldIn
<1>3. x \in Nat /\ x >= 4 /\ x # 0
  <2>1. x \in Nat /\ x >= 4
    BY <1>2, TiledFacts
  <2> QED BY <2>1
<1>4. r = IF n.bp = 0 THEN n
          ELSE [bp   |-> n.bp,
                heap |-> mm_free([n.heap EXCEPT !.mem = Copied(@, n.bp, x, size)], x)]
  BY <1>1, <1>3 DEF mm_realloc
<1>5. CASE n = [bp |-> 0, heap |-> [mem |-> m, brk |-> b]]
  BY <1>4, <1>5
<1>6. CASE n # [bp |-> 0, heap |-> [mem |-> m, brk |-> b]]
  <2>1. PICK y : y = n.bp
    OBVIOUS
  <2>2. PICK m1 : m1 = n.heap.mem
    OBVIOUS
  <2>3. PICK b1 : b1 = n.heap.brk
    OBVIOUS
  <2>4. /\ n = [bp |-> y, heap |-> [mem |-> m1, brk |-> b1]]
        /\ Took(m, b1, W, y, s, m1) /\ y # 0 /\ (b1 > b \/ b1 = b)
    BY <1>1, <1>6, <2>1, <2>2, <2>3, Malloc
  <2>5. PICK m2 : m2 = Copied(m1, y, x, size)
    OBVIOUS
  <2>6. PICK h : h = mm_free([mem |-> m2, brk |-> b1], x)
    OBVIOUS
  <2>7. r = [bp |-> y, heap |-> h]
    BY <1>4, <2>4, <2>5, <2>6
  <2>8. PICK H : H = HeldIn(m, W)
    OBVIOUS
  <2>9. PICK V : /\ Heap(m1, b1, V)
                 /\ y \notin H /\ HeldIn(m1, V) = With(H, y)
                 /\ SizeOf(m1, y) >= s
                 /\ Keeps(m, m1, H)
    BY <2>4, <2>8 DEF Took
  <2>10. /\ Tiled(m1, b1, V) /\ y \in V /\ x \in V /\ y \in HeldIn(m1, V) /\ x \in HeldIn(m1, V)
         /\ m1 \in Memory /\ x # y
    BY <2>8, <2>9 DEF Heap, HeldIn, With, Tiled
  <2>11. y # heap_listp
    <3>1. heap_listp \in H
      BY <1>2, <2>8, FreeFacts
    <3> QED BY <2>9, <3>1
  <2>12. /\ SizeOf(m1, x) = SizeOf(m, x) /\ \A w \in H : SizeOf(m1, w) = SizeOf(m, w)
         /\ H \in SUBSET W /\ x \in H
    <3>1. H \in SUBSET W /\ x \in H
      BY <2>8 DEF HeldIn
    <3>2. \A w \in W : w - 1 \in BlockWords(m, w)
      BY <1>2, DisjointWords
    <3>3. \A w \in H : m1[w - 1] = m[w - 1]
      BY <2>9, <3>1, <3>2 DEF Keeps
    <3>4. \A w \in H : SizeOf(m1, w) = SizeOf(m, w)
      BY <3>3, SameHeader
    <3> QED BY <3>1, <3>4
  <2>13. /\ x \in Nat /\ y \in Nat /\ SizeOf(m1, x) \in Nat /\ SizeOf(m1, y) \in Nat
         /\ SizeOf(m1, y) >= 4 /\ SizeOf(m1, x) >= 4
    BY <2>10, <2>11, TiledFacts
  <2>14. PICK w : w = CopyLen(m1, x, size)
    OBVIOUS
  <2>15. size \div 4 \in Nat /\ size \in Nat
    OBVIOUS
  <2>16. size <= 4 * (SizeOf(m1, y) - 2)
    <3>1. s \in Nat /\ size <= 4 * (s - 2)
      BY AdjustedFacts
    <3> QED BY <3>1, <2>9, <2>13, <2>15
  <2>17. /\ w \in Nat /\ w \in {size \div 4, SizeOf(m1, x)}
         /\ w <= size \div 4 /\ w <= SizeOf(m1, x) /\ w <= SizeOf(m1, y) - 2
         /\ Copies(m1, m2, y, x, w)
         /\ Heap(m2, b1, V)
         /\ HeldIn(m2, V) = HeldIn(m1, V) /\ SizeOf(m2, y) = SizeOf(m1, y)
         /\ Keeps(m1, m2, Without(HeldIn(m1, V), y))
    BY <2>5, <2>9, <2>10, <2>11, <2>14, <2>15, <2>16, CopyFrame
  <2>19. \A k \in 0 .. w - 1 : m2[y + k] = m1[x + k]
    BY <2>17 DEF Copies
  <2>20. /\ Heap(m2, b1, V)
         /\ HeldIn(m2, V) = HeldIn(m1, V) /\ SizeOf(m2, y) = SizeOf(m1, y)
         /\ Keeps(m1, m2, Without(HeldIn(m1, V), y))
    BY <2>17
  <2>21. h = [mem |-> h.mem, brk |-> b1] /\ Released(m2, b1, V, x, h.mem)
    <3>1. x \in HeldIn(m2, V)
      BY <2>10, <2>20
    <3> QED BY <3>1, <2>6, <2>20, FreeBlock
  <2>22. PICK m3 : m3 = h.mem
    OBVIOUS
  <2>23. PICK U : /\ Heap(m3, b1, U)
                  /\ HeldIn(m3, U) = Without(With(H, y), x)
                  /\ Keeps(m2, m3, Without(With(H, y), x))
    BY <2>9, <2>20, <2>21, <2>22 DEF Released
  <2>24. HeldIn(m3, U) = With(Without(H, x), y)
    BY <2>10, <2>23 DEF With, Without
  <2>25. PICK K : K = Without(H, x)
    OBVIOUS
  <2>26. K \in SUBSET W /\ K \in SUBSET V /\ K \subseteq H /\ y \notin K /\ K \subseteq With(H, y) /\ x \notin K
    <3>1. H \in SUBSET V
      BY <2>9 DEF With, HeldIn
    <3> QED BY <3>1, <2>9, <2>12, <2>25 DEF Without, With
  <2>27. Keeps(m, m3, K)
    <3>1. Keeps(m, m1, K)
      BY <2>9, <2>26 DEF Keeps
    <3>2. Keeps(m1, m2, K)
      BY <2>9, <2>20, <2>26 DEF Keeps, Without
    <3>3. Keeps(m2, m3, K)
      BY <2>23, <2>26 DEF Keeps, Without
    <3>4. Tiled(m1, b1, V)
      BY <2>10
    <3>5. Keeps(m1, m3, K)
      BY <3>2, <3>3, <3>4, <2>26, KeepsTrans
    <3> QED BY <3>1, <3>5, <1>2, <2>26, KeepsTrans
  <2>28. \A p \in BlockWords(m2, y) : m3[p] = m2[p]
    BY <2>10, <2>23 DEF Keeps, With, Without
  <2>29. SizeOf(m3, y) = SizeOf(m1, y)
    <3>1. y - 1 \in BlockWords(m2, y)
      BY <2>13, <2>20 DEF BlockWords
    <3>2. SizeOf(m3, y) = SizeOf(m2, y)
      BY <3>1, <2>28, SameHeader
    <3> QED BY <3>2, <2>20
  <2>30. Moved(m, b1, W, x, y, s, m3)
    BY <2>8, <2>9, <2>23, <2>24, <2>25, <2>27, <2>29 DEF Moved
  <2>31. ASSUME NEW k \in 0 .. (size \div 4) - 1, k < SizeOf(m, x) - 2
         PROVE  m3[y + k] = m[x + k]
    <3>1. k \in 0 .. w - 1
      BY <2>12, <2>13, <2>15, <2>17, <2>31
    <3>2. m2[y + k] = m1[x + k]
      BY <3>1, <2>19
    <3>3. m3[y + k] = m2[y + k]
      <4>1. y + k \in BlockWords(m2, y)
        BY <3>1, <2>13, <2>17 DEF BlockWords
      <4> QED BY <4>1, <2>28
    <3>4. m1[x + k] = m[x + k]
      <4>1. x + k \in BlockWords(m, x)
        BY <3>1, <2>12, <2>13, <2>17, <2>31 DEF BlockWords
      <4> QED BY <4>1, <2>9, <2>12 DEF Keeps
    <3> QED BY <3>2, <3>3, <3>4
  <2>32. r = [bp |-> y, heap |-> [mem |-> m3, brk |-> b1]]
    BY <2>7, <2>21, <2>22
  <2>33. r.bp = y /\ r.heap.mem = m3 /\ r.heap.brk = b1
    BY <2>32
  <2>34. b1 >= b
    <3>1. b \in Nat /\ b1 \in Nat
      BY <1>2, <2>10, HeapAssumption DEF Tiled
    <3> QED BY <3>1, <2>4
  <2> QED BY <2>4, <2>30, <2>31, <2>32, <2>33, <2>34
<1> QED BY <1>5, <1>6

-----------------------------------------------------------------------------
\* Heaps that are alike.

(* Heaps that agree in their held blocks agree in their free ones: no two  *)
(* free blocks touch, so a free block fills a gap between held blocks.     *)
LEMMA BlocksWithin ==
  ASSUME NEW m, NEW n, NEW b, NEW W, NEW V, Heap(m, b, W), Heap(n, b, V),
         HeldIn(m, W) = HeldIn(n, V), \A x \in HeldIn(m, W) : SizeOf(m, x) = SizeOf(n, x)
  PROVE  W \subseteq V
<1>1. Tiled(m, b, W) /\ Tiled(n, b, V) /\ Apart(m, FreeIn(m, W))
  BY DEF Heap
<1>2. SUFFICES ASSUME W \ V # {} PROVE FALSE
  OBVIOUS
<1>3. W \in SUBSET Nat
  BY <1>1, TiledFacts
<1>4. PICK x \in W \ V : \A y \in W \ V : x <= y
  BY <1>2, <1>3, LeastNat
<1>5. x # heap_listp
  BY <1>1, <1>4, TiledFacts
<1>6. PICK y \in W : y < x /\ y + SizeOf(m, y) = x
  BY <1>1, <1>4, <1>5, TiledBefore
<1>7. y \in V
  BY <1>3, <1>4, <1>6
<1>8. y \in HeldIn(m, W)
  <2> SUFFICES ASSUME y \notin HeldIn(m, W) PROVE FALSE
    OBVIOUS
  <2>1. y \in FreeIn(m, W)
    BY <1>1, <1>6, FreeFacts
  <2>2. NEXT_BLKP(m, y) = x
    BY <1>6 DEF NEXT_BLKP, SizeOf
  <2>3. x \notin FreeIn(m, W)
    BY <1>1, <2>1, <2>2 DEF Apart
  <2>4. x \in HeldIn(m, W)
    BY <1>1, <1>4, <2>3, FreeFacts
  <2> QED BY <1>4, <2>4 DEF HeldIn
<1>9. y + SizeOf(n, y) = x
  BY <1>6, <1>8
<1>10. y + SizeOf(n, y) \in V \cup {b}
  BY <1>1, <1>7, TiledFacts
<1>11. x < b
  BY <1>1, <1>4, TiledFacts
<1>12. b \in Nat
  BY <1>1, TiledFacts
<1> QED BY <1>3, <1>4, <1>9, <1>10, <1>11, <1>12

(* Two heaps alike in all but the payloads and the links: they hold the    *)
(* same blocks, of the same sizes, up to the same break.                   *)
Alike(m, n, b) ==
  /\ Heap(m, b, Walk(m)) /\ Heap(n, b, Walk(n))
  /\ HeldIn(m, Walk(m)) = HeldIn(n, Walk(n))
  /\ \A x \in HeldIn(m, Walk(m)) : SizeOf(m, x) = SizeOf(n, x)

(* The blocks of a heap are those Walk visits.                             *)
LEMMA HeapWalk ==
  ASSUME NEW m, NEW b, NEW W, Heap(m, b, W)
  PROVE  Walk(m) = W
<1>1. Tiled(m, b, W)
  BY DEF Heap
<1> QED BY <1>1, WalkTiled

(* Heaps with the same held blocks are alike.                              *)
LEMMA MakeAlike ==
  ASSUME NEW m, NEW n, NEW b, NEW W, NEW V, Heap(m, b, W), Heap(n, b, V),
         HeldIn(m, W) = HeldIn(n, V), \A x \in HeldIn(m, W) : SizeOf(m, x) = SizeOf(n, x)
  PROVE  Alike(m, n, b)
<1>1. Walk(m) = W /\ Walk(n) = V
  BY HeapWalk
<1> QED BY <1>1 DEF Alike

(* Heaps that are alike have the same blocks, free ones included.          *)
LEMMA AlikeBlocks ==
  ASSUME NEW m, NEW n, NEW b, Alike(m, n, b)
  PROVE  /\ Walk(m) = Walk(n)
         /\ FreeIn(m, Walk(m)) = FreeIn(n, Walk(n))
         /\ \A x \in Walk(m) : SizeOf(m, x) = SizeOf(n, x)
<1>1. PICK W : W = Walk(m)
  OBVIOUS
<1>2. PICK V : V = Walk(n)
  OBVIOUS
<1>3. /\ Heap(m, b, W) /\ Heap(n, b, V)
      /\ HeldIn(m, W) = HeldIn(n, V) /\ \A x \in HeldIn(m, W) : SizeOf(m, x) = SizeOf(n, x)
  BY <1>1, <1>2 DEF Alike
<1>4. Tiled(m, b, W) /\ Tiled(n, b, V)
  BY <1>3 DEF Heap
<1>5. W \subseteq V
  BY <1>3, BlocksWithin
<1>6. V \subseteq W
  <2>1. HeldIn(n, V) = HeldIn(m, W) /\ \A x \in HeldIn(n, V) : SizeOf(n, x) = SizeOf(m, x)
    BY <1>3
  <2> QED BY <2>1, <1>3, BlocksWithin
<1>7. V = W
  BY <1>5, <1>6
<1>8. FreeIn(m, W) = FreeIn(n, V)
  <2>1. /\ HeldIn(m, W) = W \ FreeIn(m, W) /\ HeldIn(n, V) = V \ FreeIn(n, V)
    BY <1>4, FreeFacts
  <2>2. FreeIn(m, W) \subseteq W /\ FreeIn(n, V) \subseteq V
    BY DEF FreeIn
  <2> QED BY <2>1, <2>2, <1>3, <1>7
<1>9. \A x \in W : NEXT_BLKP(m, x) \in W \cup {b} /\ NEXT_BLKP(m, x) > x
  BY <1>4, MergedSelf
<1>10. \A x \in W : NEXT_BLKP(n, x) \in W \cup {b} /\ NEXT_BLKP(n, x) > x
  BY <1>4, <1>7, MergedSelf
<1>11. ASSUME NEW x \in W
       PROVE  SizeOf(m, x) = SizeOf(n, x)
  <2>1. PICK y : y = NEXT_BLKP(m, x)
    OBVIOUS
  <2>2. PICK z : z = NEXT_BLKP(n, x)
    OBVIOUS
  <2>3. y \in W \cup {b} /\ z \in W \cup {b} /\ y > x /\ z > x
    BY <1>9, <1>10, <2>1, <2>2
  <2>4. y - x = SizeOf(m, x) /\ z - x = SizeOf(n, x)
    BY <1>4, <1>7, <2>1, <2>2, MergedSelf
  <2>5. \A w \in W : x < w => x + SizeOf(m, x) <= w
    BY <1>4, TiledFacts
  <2>6. \A w \in W : x < w => x + SizeOf(n, x) <= w
    BY <1>4, <1>7, TiledFacts
  <2>7. /\ x \in Nat /\ b \in Nat /\ SizeOf(m, x) \in Nat /\ SizeOf(n, x) \in Nat
        /\ W \in SUBSET Nat
    BY <1>4, <1>7, TiledFacts
  <2>8. x + SizeOf(m, x) <= b
    BY <1>4, TiledFacts
  <2>9. x + SizeOf(n, x) <= b
    BY <1>4, <1>7, TiledFacts
  <2>10. PICK c \in Nat : c = SizeOf(m, x)
    BY <2>7
  <2>11. PICK d \in Nat : d = SizeOf(n, x)
    BY <2>7
  <2>12. y = x + c /\ z = x + d
    BY <2>3, <2>4, <2>7, <2>10, <2>11
  <2>13. y <= z /\ z <= y
    BY <2>3, <2>5, <2>6, <2>7, <2>8, <2>9, <2>10, <2>11, <2>12
  <2>14. c = d
    BY <2>7, <2>12, <2>13
  <2> QED BY <2>10, <2>11, <2>14
<1> QED BY <1>1, <1>2, <1>7, <1>8, <1>11

(* Being alike is symmetric,                                               *)
LEMMA AlikeSymmetric ==
  ASSUME NEW m, NEW n, NEW b, Alike(m, n, b)
  PROVE  Alike(n, m, b)
BY DEF Alike

(* and transitive.                                                         *)
LEMMA AlikeTransitive ==
  ASSUME NEW m, NEW n, NEW o, NEW b, Alike(m, n, b), Alike(n, o, b)
  PROVE  Alike(m, o, b)
BY DEF Alike

(* Blocks whose words are kept keep their sizes.                           *)
LEMMA KeptSizes ==
  ASSUME NEW m, NEW b, NEW W, Tiled(m, b, W), NEW H \in SUBSET W, NEW m2, Keeps(m, m2, H)
  PROVE  \A x \in H : SizeOf(m2, x) = SizeOf(m, x)
<1>1. \A x \in W : x - 1 \in BlockWords(m, x)
  BY DisjointWords
<1>2. \A x \in H : m2[x - 1] = m[x - 1]
  BY <1>1 DEF Keeps
<1> QED BY <1>2, SameHeader

(* The allocator does not look at payloads: on heaps that are alike,       *)
(* mm_free leaves heaps that are alike.                                    *)
LEMMA FreeAlike ==
  ASSUME NEW m, NEW n, NEW b, Alike(m, n, b),
         NEW x \in HeldIn(m, Walk(m)), x # heap_listp,
         NEW h, h = mm_free([mem |-> m, brk |-> b], x),
         NEW g, g = mm_free([mem |-> n, brk |-> b], x)
  PROVE  /\ h = [mem |-> h.mem, brk |-> b] /\ g = [mem |-> g.mem, brk |-> b]
         /\ Alike(h.mem, g.mem, b)
<1>1. PICK m2 : m2 = h.mem
  OBVIOUS
<1>2. PICK n2 : n2 = g.mem
  OBVIOUS
<1>3. PICK H : H = HeldIn(m, Walk(m))
  OBVIOUS
<1>4. /\ Heap(m, b, Walk(m)) /\ Heap(n, b, Walk(n)) /\ H = HeldIn(n, Walk(n))
      /\ \A y \in H : SizeOf(m, y) = SizeOf(n, y)
      /\ x \in H /\ x \in HeldIn(n, Walk(n)) /\ Walk(n) = Walk(m)
  BY <1>3, AlikeBlocks DEF Alike
<1>5. h = [mem |-> m2, brk |-> b] /\ Released(m, b, Walk(m), x, m2)
  <2>1. Heap(m, b, Walk(m))
    BY <1>4
  <2> QED BY <2>1, <1>1, FreeBlock
<1>6. g = [mem |-> n2, brk |-> b] /\ Released(n, b, Walk(n), x, n2)
  BY <1>2, <1>4, FreeBlock
<1>7. PICK V : /\ Heap(m2, b, V) /\ HeldIn(m2, V) = Without(H, x)
               /\ Keeps(m, m2, Without(H, x))
  BY <1>3, <1>5 DEF Released
<1>8. PICK U : /\ Heap(n2, b, U) /\ HeldIn(n2, U) = Without(H, x)
               /\ Keeps(n, n2, Without(H, x))
  BY <1>4, <1>6 DEF Released
<1>9. Tiled(m, b, Walk(m)) /\ Tiled(n, b, Walk(m)) /\ Without(H, x) \in SUBSET Walk(m)
  BY <1>3, <1>4 DEF Heap, HeldIn, Without
<1>10. \A y \in Without(H, x) : SizeOf(m2, y) = SizeOf(m, y)
  BY <1>7, <1>9, KeptSizes
<1>11. \A y \in Without(H, x) : SizeOf(n2, y) = SizeOf(n, y)
  BY <1>8, <1>9, KeptSizes
<1>12. \A y \in Without(H, x) : SizeOf(m2, y) = SizeOf(n2, y)
  BY <1>4, <1>10, <1>11 DEF Without
<1>13. Alike(m2, n2, b)
  BY <1>7, <1>8, <1>12, MakeAlike
<1> QED BY <1>1, <1>2, <1>5, <1>6, <1>13

(* Allocating the same block on both leaves them alike.                    *)
LEMMA TookAlike ==
  ASSUME NEW m, NEW n, NEW b, NEW c, Alike(m, n, b), NEW x, NEW s, NEW m2, NEW n2,
         Took(m, c, Walk(m), x, s, m2), Took(n, c, Walk(n), x, s, n2),
         SizeOf(m2, x) = SizeOf(n2, x)
  PROVE  Alike(m2, n2, c) /\ x \in HeldIn(m2, Walk(m2))
<1>1. PICK H : H = HeldIn(m, Walk(m))
  OBVIOUS
<1>2. /\ Heap(m, b, Walk(m)) /\ Heap(n, b, Walk(n)) /\ H = HeldIn(n, Walk(n))
      /\ \A y \in H : SizeOf(m, y) = SizeOf(n, y)
      /\ Walk(n) = Walk(m)
  BY <1>1, AlikeBlocks DEF Alike
<1>3. PICK V : /\ Heap(m2, c, V) /\ HeldIn(m2, V) = With(H, x)
               /\ Keeps(m, m2, H)
  BY <1>1 DEF Took
<1>4. PICK U : /\ Heap(n2, c, U) /\ HeldIn(n2, U) = With(H, x)
               /\ Keeps(n, n2, H)
  BY <1>2 DEF Took
<1>5. Tiled(m, b, Walk(m)) /\ Tiled(n, b, Walk(m)) /\ H \in SUBSET Walk(m)
  BY <1>1, <1>2 DEF Heap, HeldIn
<1>6. \A y \in H : SizeOf(m2, y) = SizeOf(m, y)
  BY <1>3, <1>5, KeptSizes
<1>7. \A y \in H : SizeOf(n2, y) = SizeOf(n, y)
  BY <1>4, <1>5, KeptSizes
<1>8. \A y \in With(H, x) : SizeOf(m2, y) = SizeOf(n2, y)
  BY <1>2, <1>6, <1>7 DEF With
<1>9. Alike(m2, n2, c)
  BY <1>3, <1>4, <1>8, MakeAlike
<1>10. Walk(m2) = V
  BY <1>3, HeapWalk
<1> QED BY <1>3, <1>9, <1>10 DEF With

(* Extending heaps that are alike offers the same block on both.           *)
LEMMA GrewAlike ==
  ASSUME NEW m, NEW n, NEW b, Alike(m, n, b), NEW c, NEW x, NEW y, NEW s, NEW m2, NEW n2,
         Grew(m, Walk(m), c, x, s, m2), Grew(n, Walk(n), c, y, s, n2)
  PROVE  x = y /\ SizeOf(m2, x) = SizeOf(n2, y)
<1>1. PICK H : H = HeldIn(m, Walk(m))
  OBVIOUS
<1>2. /\ Heap(m, b, Walk(m)) /\ Heap(n, b, Walk(n)) /\ H = HeldIn(n, Walk(n))
      /\ \A z \in H : SizeOf(m, z) = SizeOf(n, z)
      /\ Walk(n) = Walk(m)
  BY <1>1, AlikeBlocks DEF Alike
<1>3. PICK m1, V : /\ Heap(m1, c, V)
                   /\ x \in FreeIn(m1, V) /\ After(x, SizeOf(m1, x)) = c
                   /\ HeldIn(m1, V) = H /\ Keeps(m, m1, H)
                   /\ SizeOf(m2, x) = Cut(SizeOf(m1, x), s)
  BY <1>1 DEF Grew
<1>4. PICK n1, U : /\ Heap(n1, c, U)
                   /\ y \in FreeIn(n1, U) /\ After(y, SizeOf(n1, y)) = c
                   /\ HeldIn(n1, U) = H /\ Keeps(n, n1, H)
                   /\ SizeOf(n2, y) = Cut(SizeOf(n1, y), s)
  BY <1>2 DEF Grew
<1>5. Tiled(m, b, Walk(m)) /\ Tiled(n, b, Walk(m)) /\ H \in SUBSET Walk(m)
  BY <1>1, <1>2 DEF Heap, HeldIn
<1>6. \A z \in H : SizeOf(m1, z) = SizeOf(m, z)
  BY <1>3, <1>5, KeptSizes
<1>7. \A z \in H : SizeOf(n1, z) = SizeOf(n, z)
  BY <1>4, <1>5, KeptSizes
<1>8. \A z \in H : SizeOf(m1, z) = SizeOf(n1, z)
  BY <1>2, <1>6, <1>7
<1>9. Alike(m1, n1, c)
  BY <1>3, <1>4, <1>8, MakeAlike
<1>10. Walk(m1) = V /\ Walk(n1) = U
  BY <1>3, <1>4, HeapWalk
<1>11. U = V /\ FreeIn(n1, U) = FreeIn(m1, V) /\ \A z \in V : SizeOf(m1, z) = SizeOf(n1, z)
  BY <1>9, <1>10, AlikeBlocks
<1>12. Tiled(m1, c, V) /\ x \in V /\ y \in V
  BY <1>3, <1>4, <1>11 DEF Heap, FreeIn
<1>13. NEXT_BLKP(m1, x) = c /\ NEXT_BLKP(m1, y) = c
  BY <1>3, <1>4, <1>11, <1>12 DEF NEXT_BLKP, SizeOf, After
<1>14. x = y
  BY <1>12, <1>13, OnePredecessor
<1> QED BY <1>3, <1>4, <1>11, <1>12, <1>14

(* The search finds the same block on heaps that are alike.                *)
LEMMA FitsAlike ==
  ASSUME NEW m, NEW n, NEW b, Alike(m, n, b), NEW s
  PROVE  /\ NoneFits(m, Walk(m), s) <=> NoneFits(n, Walk(n), s)
         /\ \A x : Fits(m, Walk(m), s, x) <=> Fits(n, Walk(n), s, x)
         /\ \A x, y : Fits(m, Walk(m), s, x) /\ Fits(m, Walk(m), s, y) => x = y
         /\ \A x : Fits(m, Walk(m), s, x) => ~NoneFits(m, Walk(m), s)
         /\ \A x : Fits(m, Walk(m), s, x) => SizeOf(m, x) = SizeOf(n, x)
<1>1. PICK W : W = Walk(m)
  OBVIOUS
<1>2. PICK F : F = FreeIn(m, W)
  OBVIOUS
<1>3. /\ Walk(n) = W /\ FreeIn(n, Walk(n)) = F
      /\ \A x \in W : SizeOf(m, x) = SizeOf(n, x)
  BY <1>1, <1>2, AlikeBlocks
<1>4. F \subseteq W /\ W \in SUBSET Nat
  <2>1. Tiled(m, b, W)
    BY <1>1 DEF Alike, Heap
  <2> QED BY <2>1, <1>2, TiledFacts DEF FreeIn
<1>5. \A x \in F : SizeOf(m, x) = SizeOf(n, x) /\ x \in Nat
  BY <1>3, <1>4
<1>6. NoneFits(m, Walk(m), s) <=> NoneFits(n, Walk(n), s)
  BY <1>1, <1>2, <1>3, <1>5 DEF NoneFits
<1>7. \A x : Fits(m, Walk(m), s, x) <=> Fits(n, Walk(n), s, x)
  BY <1>1, <1>2, <1>3, <1>5 DEF Fits
<1>8. \A x, y : Fits(m, Walk(m), s, x) /\ Fits(m, Walk(m), s, y) => x = y
  BY <1>1, <1>2, <1>5 DEF Fits
<1>9. \A x : Fits(m, Walk(m), s, x) => ~NoneFits(m, Walk(m), s)
  BY DEF Fits, NoneFits
<1>10. \A x : Fits(m, Walk(m), s, x) => SizeOf(m, x) = SizeOf(n, x)
  BY <1>1, <1>2, <1>5 DEF Fits
<1> QED BY <1>6, <1>7, <1>8, <1>9, <1>10

(* mm_malloc returns the same address on heaps that are alike, and leaves  *)
(* them alike.                                                             *)
LEMMA MallocAlike ==
  ASSUME NEW m, NEW n, NEW b, Alike(m, n, b), NEW size \in Nat \ {0},
         NEW r, r = mm_malloc([mem |-> m, brk |-> b], size),
         NEW q, q = mm_malloc([mem |-> n, brk |-> b], size)
  PROVE  \/ /\ r = [bp |-> 0, heap |-> [mem |-> m, brk |-> b]]
            /\ q = [bp |-> 0, heap |-> [mem |-> n, brk |-> b]]
         \/ \E x, c, m2, n2 :
              /\ r = [bp |-> x, heap |-> [mem |-> m2, brk |-> c]]
              /\ q = [bp |-> x, heap |-> [mem |-> n2, brk |-> c]]
              /\ x # 0 /\ Took(m, c, Walk(m), x, Adjusted(size), m2) /\ Alike(m2, n2, c)
<1>1. PICK x : x = r.bp
  OBVIOUS
<1>2. PICK m2 : m2 = r.heap.mem
  OBVIOUS
<1>3. PICK y : y = q.bp
  OBVIOUS
<1>4. PICK n2 : n2 = q.heap.mem
  OBVIOUS
<1>5. PICK c : c = b + Growth(Adjusted(size))
  OBVIOUS
<1>6. PICK s : s = Adjusted(size)
  OBVIOUS
<1>7. Heap(m, b, Walk(m)) /\ Heap(n, b, Walk(n))
  BY DEF Alike
<1>8. \/ /\ NoneFits(m, Walk(m), s) /\ c > MAX_HEAP
         /\ r = [bp |-> 0, heap |-> [mem |-> m, brk |-> b]]
      \/ /\ NoneFits(m, Walk(m), s) /\ ~(c > MAX_HEAP)
         /\ r = [bp |-> x, heap |-> [mem |-> m2, brk |-> c]]
         /\ x # 0 /\ Took(m, c, Walk(m), x, s, m2) /\ Grew(m, Walk(m), c, x, s, m2)
      \/ /\ Fits(m, Walk(m), s, x)
         /\ r = [bp |-> x, heap |-> [mem |-> m2, brk |-> b]]
         /\ x # 0 /\ Took(m, b, Walk(m), x, s, m2)
         /\ SizeOf(m2, x) = Cut(SizeOf(m, x), s)
  BY <1>1, <1>2, <1>5, <1>6, <1>7, MallocCases
<1>9. \/ /\ NoneFits(n, Walk(n), s) /\ c > MAX_HEAP
         /\ q = [bp |-> 0, heap |-> [mem |-> n, brk |-> b]]
      \/ /\ NoneFits(n, Walk(n), s) /\ ~(c > MAX_HEAP)
         /\ q = [bp |-> y, heap |-> [mem |-> n2, brk |-> c]]
         /\ y # 0 /\ Took(n, c, Walk(n), y, s, n2) /\ Grew(n, Walk(n), c, y, s, n2)
      \/ /\ Fits(n, Walk(n), s, y)
         /\ q = [bp |-> y, heap |-> [mem |-> n2, brk |-> b]]
         /\ y # 0 /\ Took(n, b, Walk(n), y, s, n2)
         /\ SizeOf(n2, y) = Cut(SizeOf(n, y), s)
  BY <1>3, <1>4, <1>5, <1>6, <1>7, MallocCases
<1>10. /\ NoneFits(m, Walk(m), s) <=> NoneFits(n, Walk(n), s)
       /\ Fits(n, Walk(n), s, y) => Fits(m, Walk(m), s, y)
       /\ Fits(m, Walk(m), s, x) /\ Fits(m, Walk(m), s, y) => x = y
       /\ Fits(m, Walk(m), s, x) => ~NoneFits(m, Walk(m), s)
       /\ Fits(m, Walk(m), s, y) => ~NoneFits(m, Walk(m), s)
       /\ Fits(m, Walk(m), s, x) => SizeOf(m, x) = SizeOf(n, x)
  BY FitsAlike
<1>11. CASE /\ Took(m, c, Walk(m), x, s, m2) /\ Grew(m, Walk(m), c, x, s, m2) /\ x # 0
            /\ Took(n, c, Walk(n), y, s, n2) /\ Grew(n, Walk(n), c, y, s, n2)
            /\ r = [bp |-> x, heap |-> [mem |-> m2, brk |-> c]]
            /\ q = [bp |-> y, heap |-> [mem |-> n2, brk |-> c]]
  <2>1. x = y /\ SizeOf(m2, x) = SizeOf(n2, y)
    BY <1>11, GrewAlike
  <2>2. Took(n, c, Walk(n), x, s, n2) /\ SizeOf(m2, x) = SizeOf(n2, x)
    BY <2>1, <1>11
  <2>3. Alike(m2, n2, c)
    BY <2>2, <1>11, TookAlike
  <2> QED BY <2>1, <2>3, <1>6, <1>11
<1>12. CASE /\ Took(m, b, Walk(m), x, s, m2) /\ x # 0 /\ Fits(m, Walk(m), s, x)
            /\ Took(n, b, Walk(n), y, s, n2) /\ x = y
            /\ SizeOf(m2, x) = Cut(SizeOf(m, x), s)
            /\ SizeOf(n2, y) = Cut(SizeOf(n, y), s)
            /\ r = [bp |-> x, heap |-> [mem |-> m2, brk |-> b]]
            /\ q = [bp |-> y, heap |-> [mem |-> n2, brk |-> b]]
  <2>1. Took(n, b, Walk(n), x, s, n2) /\ SizeOf(m2, x) = SizeOf(n2, x)
    BY <1>10, <1>12
  <2>2. Alike(m2, n2, b)
    BY <2>1, <1>12, TookAlike
  <2> QED BY <2>2, <1>6, <1>12
<1>13. CASE /\ r = [bp |-> 0, heap |-> [mem |-> m, brk |-> b]]
            /\ q = [bp |-> 0, heap |-> [mem |-> n, brk |-> b]]
  BY <1>13
<1>14. CASE NoneFits(m, Walk(m), s)
  BY <1>8, <1>9, <1>10, <1>11, <1>13, <1>14
<1>15. CASE ~NoneFits(m, Walk(m), s)
  BY <1>8, <1>9, <1>10, <1>12, <1>15
<1> QED BY <1>14, <1>15

(* A heap whose payloads are written is alike to what it was.              *)
LEMMA PayloadAlike ==
  ASSUME NEW m, NEW b, NEW W, Heap(m, b, W), NEW x \in HeldIn(m, W), x # heap_listp,
         NEW n \in Nat, n <= SizeOf(m, x) - 2,
         NEW m2 \in Memory, \A p \in Arena : p \notin x .. x + n - 1 => m2[p] = m[p]
  PROVE  Alike(m, m2, b)
<1>1. /\ Heap(m2, b, W)
      /\ HeldIn(m2, W) = HeldIn(m, W) /\ SizeOf(m2, x) = SizeOf(m, x)
      /\ Keeps(m, m2, Without(HeldIn(m, W), x))
  BY PayloadFrame
<1>2. PICK H : H = HeldIn(m, W)
  OBVIOUS
<1>3. Tiled(m, b, W) /\ Without(H, x) \in SUBSET W /\ Keeps(m, m2, Without(H, x))
  BY <1>1, <1>2 DEF Heap, HeldIn, Without
<1>4. \A y \in Without(H, x) : SizeOf(m2, y) = SizeOf(m, y)
  BY <1>3, KeptSizes
<1>5. \A y \in H : SizeOf(m, y) = SizeOf(m2, y)
  BY <1>1, <1>4 DEF Without
<1> QED BY <1>1, <1>2, <1>5, MakeAlike

(* memcpy takes the same number of words on heaps that are alike.          *)
LEMMA CopyAlike ==
  ASSUME NEW m, NEW n, NEW b, Alike(m, n, b),
         NEW x \in HeldIn(m, Walk(m)), x # heap_listp,
         NEW y \in HeldIn(m, Walk(m)), y # heap_listp,
         NEW size \in Nat, size <= 4 * (SizeOf(m, y) - 2),
         NEW m2, m2 = Copied(m, y, x, size), NEW n2, n2 = Copied(n, y, x, size)
  PROVE  Alike(m2, n2, b) /\ HeldIn(m2, Walk(m2)) = HeldIn(m, Walk(m))
<1>1. PICK H : H = HeldIn(m, Walk(m))
  OBVIOUS
<1>2. PICK W : W = Walk(m)
  OBVIOUS
<1>3. PICK V : V = Walk(n)
  OBVIOUS
<1>4. /\ Heap(m, b, W) /\ Heap(n, b, V) /\ H = HeldIn(n, V) /\ H = HeldIn(m, W)
      /\ \A z \in H : SizeOf(m, z) = SizeOf(n, z)
      /\ x \in H /\ y \in H
  BY <1>1, <1>2, <1>3 DEF Alike
<1>5. x \in HeldIn(n, V) /\ y \in HeldIn(n, V) /\ size <= 4 * (SizeOf(n, y) - 2)
  BY <1>4
<1>6. /\ Heap(m2, b, W) /\ HeldIn(m2, W) = HeldIn(m, W) /\ SizeOf(m2, y) = SizeOf(m, y)
      /\ Keeps(m, m2, Without(HeldIn(m, W), y))
  <2>1. x \in HeldIn(m, W) /\ y \in HeldIn(m, W)
    BY <1>4
  <2> QED BY <2>1, <1>4, CopyFrame
<1>7. /\ Heap(n2, b, V) /\ HeldIn(n2, V) = HeldIn(n, V) /\ SizeOf(n2, y) = SizeOf(n, y)
      /\ Keeps(n, n2, Without(HeldIn(n, V), y))
  <2>1. Heap(n, b, V)
    BY <1>4
  <2>2. x \in HeldIn(n, V) /\ y \in HeldIn(n, V)
    BY <1>5
  <2>3. size <= 4 * (SizeOf(n, y) - 2)
    BY <1>5
  <2> QED BY <2>1, <2>2, <2>3, CopyFrame
<1>8. /\ Tiled(m, b, W) /\ Tiled(n, b, V)
      /\ Without(H, y) \in SUBSET W /\ Without(H, y) \in SUBSET V
      /\ Keeps(m, m2, Without(H, y)) /\ Keeps(n, n2, Without(H, y))
  <2>1. H \in SUBSET W /\ H \in SUBSET V
    BY <1>4 DEF HeldIn
  <2>2. Keeps(m, m2, Without(H, y)) /\ Keeps(n, n2, Without(H, y))
    BY <1>4, <1>6, <1>7
  <2> QED BY <2>1, <2>2, <1>4 DEF Heap, Without
<1>9. \A z \in Without(H, y) : SizeOf(m2, z) = SizeOf(m, z)
  BY <1>8, KeptSizes
<1>10. \A z \in Without(H, y) : SizeOf(n2, z) = SizeOf(n, z)
  BY <1>8, KeptSizes
<1>11. \A z \in H : SizeOf(m2, z) = SizeOf(n2, z)
  BY <1>4, <1>6, <1>7, <1>9, <1>10 DEF Without
<1>12. HeldIn(m2, W) = H /\ HeldIn(n2, V) = H
  BY <1>4, <1>6, <1>7
<1>13. Alike(m2, n2, b)
  BY <1>6, <1>7, <1>11, <1>12, MakeAlike
<1>14. Walk(m2) = W
  BY <1>6, HeapWalk
<1> QED BY <1>1, <1>12, <1>13, <1>14

(* mm_realloc returns the same address on heaps that are alike, and leaves *)
(* them alike.                                                             *)
LEMMA ReallocAlike ==
  ASSUME NEW m, NEW n, NEW b, Alike(m, n, b),
         NEW x \in HeldIn(m, Walk(m)), x # heap_listp, NEW size \in Nat \ {0},
         NEW r, r = mm_realloc([mem |-> m, brk |-> b], x, size),
         NEW q, q = mm_realloc([mem |-> n, brk |-> b], x, size)
  PROVE  \/ /\ r = [bp |-> 0, heap |-> [mem |-> m, brk |-> b]]
            /\ q = [bp |-> 0, heap |-> [mem |-> n, brk |-> b]]
         \/ \E c, m2, n2 :
              /\ r = [bp |-> r.bp, heap |-> [mem |-> m2, brk |-> c]]
              /\ q = [bp |-> r.bp, heap |-> [mem |-> n2, brk |-> c]]
              /\ r.bp # 0 /\ Alike(m2, n2, c)
<1>1. PICK f : f = mm_malloc([mem |-> m, brk |-> b], size)
  OBVIOUS
<1>2. PICK g : g = mm_malloc([mem |-> n, brk |-> b], size)
  OBVIOUS
<1>3. x # 0
  <2>1. Tiled(m, b, Walk(m)) /\ x \in Walk(m)
    BY DEF Alike, Heap, HeldIn
  <2>2. x \in Nat /\ x >= 4
    BY <2>1, TiledFacts
  <2> QED BY <2>2
<1>4. r = IF f.bp = 0 THEN f
          ELSE [bp   |-> f.bp,
                heap |-> mm_free([f.heap EXCEPT !.mem = Copied(@, f.bp, x, size)], x)]
  BY <1>1, <1>3 DEF mm_realloc
<1>5. q = IF g.bp = 0 THEN g
          ELSE [bp   |-> g.bp,
                heap |-> mm_free([g.heap EXCEPT !.mem = Copied(@, g.bp, x, size)], x)]
  BY <1>2, <1>3 DEF mm_realloc
<1>6. CASE /\ f = [bp |-> 0, heap |-> [mem |-> m, brk |-> b]]
           /\ g = [bp |-> 0, heap |-> [mem |-> n, brk |-> b]]
  BY <1>4, <1>5, <1>6
<1>7. ASSUME NEW y, NEW c, NEW m1, NEW n1,
             f = [bp |-> y, heap |-> [mem |-> m1, brk |-> c]],
             g = [bp |-> y, heap |-> [mem |-> n1, brk |-> c]],
             y # 0, Took(m, c, Walk(m), y, Adjusted(size), m1), Alike(m1, n1, c)
      PROVE  \E m2, n2 :
              /\ r = [bp |-> r.bp, heap |-> [mem |-> m2, brk |-> c]]
              /\ q = [bp |-> r.bp, heap |-> [mem |-> n2, brk |-> c]]
              /\ r.bp # 0 /\ Alike(m2, n2, c)
  <2>1. PICK W : W = Walk(m)
    OBVIOUS
  <2>2. PICK V : /\ Heap(m1, c, V)
                 /\ y \notin HeldIn(m, W) /\ HeldIn(m1, V) = With(HeldIn(m, W), y)
                 /\ SizeOf(m1, y) >= Adjusted(size)
    BY <1>7, <2>1 DEF Took
  <2>3. Walk(m1) = V
    BY <2>2, HeapWalk
  <2>4. x \in HeldIn(m1, Walk(m1)) /\ y \in HeldIn(m1, Walk(m1))
    BY <2>1, <2>2, <2>3 DEF With
  <2>5. y # heap_listp
    <3>1. Tiled(m, b, W)
      BY <2>1 DEF Alike, Heap
    <3>2. heap_listp \in HeldIn(m, W)
      BY <3>1, FreeFacts
    <3> QED BY <3>2, <2>2
  <2>6. size <= 4 * (SizeOf(m1, y) - 2)
    <3>1. Adjusted(size) \in Nat /\ size <= 4 * (Adjusted(size) - 2)
      BY AdjustedFacts
    <3>2. Tiled(m1, c, V) /\ y \in V
      BY <2>2, <2>3, <2>4 DEF Heap, HeldIn
    <3>3. SizeOf(m1, y) \in Nat
      BY <3>2, TiledFacts
    <3> QED BY <3>1, <3>3, <2>2
  <2>7. PICK m2 : m2 = Copied(m1, y, x, size)
    OBVIOUS
  <2>8. PICK n2 : n2 = Copied(n1, y, x, size)
    OBVIOUS
  <2>9. Alike(m2, n2, c) /\ x \in HeldIn(m2, Walk(m2))
    <3>1. size \in Nat
      OBVIOUS
    <3>2. Alike(m2, n2, c) /\ HeldIn(m2, Walk(m2)) = HeldIn(m1, Walk(m1))
      BY <3>1, <2>4, <2>5, <2>6, <2>7, <2>8, <1>7, CopyAlike
    <3> QED BY <3>2, <2>4
  <2>10. PICK h : h = mm_free([mem |-> m2, brk |-> c], x)
    OBVIOUS
  <2>11. PICK k : k = mm_free([mem |-> n2, brk |-> c], x)
    OBVIOUS
  <2>12. /\ h = [mem |-> h.mem, brk |-> c] /\ k = [mem |-> k.mem, brk |-> c]
         /\ Alike(h.mem, k.mem, c)
    BY <2>9, <2>10, <2>11, FreeAlike
  <2>13. r = [bp |-> y, heap |-> h]
    BY <1>4, <1>7, <2>7, <2>10
  <2>14. q = [bp |-> y, heap |-> k]
    BY <1>5, <1>7, <2>8, <2>11
  <2>15. PICK m3 : m3 = h.mem
    OBVIOUS
  <2>16. PICK n3 : n3 = k.mem
    OBVIOUS
  <2>17. /\ r = [bp |-> y, heap |-> [mem |-> m3, brk |-> c]]
         /\ q = [bp |-> y, heap |-> [mem |-> n3, brk |-> c]]
         /\ Alike(m3, n3, c)
    BY <2>12, <2>13, <2>14, <2>15, <2>16
  <2>18. r.bp = y
    BY <2>17
  <2> QED BY <2>17, <2>18, <1>7
<1>8. \/ /\ f = [bp |-> 0, heap |-> [mem |-> m, brk |-> b]]
         /\ g = [bp |-> 0, heap |-> [mem |-> n, brk |-> b]]
      \/ \E y, c, m1, n1 :
           /\ f = [bp |-> y, heap |-> [mem |-> m1, brk |-> c]]
           /\ g = [bp |-> y, heap |-> [mem |-> n1, brk |-> c]]
           /\ y # 0 /\ Took(m, c, Walk(m), y, Adjusted(size), m1) /\ Alike(m1, n1, c)
  BY <1>1, <1>2, MallocAlike
<1> QED BY <1>6, <1>7, <1>8

(* mm_init leaves the same heap whatever the arena held before.            *)
LEMMA InitAlike ==
  ASSUME NEW m \in Memory, NEW n \in Memory,
         NEW h, h = mm_init(m), NEW g, g = mm_init(n)
  PROVE  /\ h = [mem |-> h.mem, brk |-> 6 + CHUNKSIZE]
         /\ g = [mem |-> g.mem, brk |-> 6 + CHUNKSIZE]
         /\ Alike(h.mem, g.mem, 6 + CHUNKSIZE)
<1>1. PICK c : c = 6 + CHUNKSIZE
  OBVIOUS
<1>2. PICK m2 : m2 = h.mem
  OBVIOUS
<1>3. PICK n2 : n2 = g.mem
  OBVIOUS
<1>4. h = [mem |-> m2, brk |-> c] /\ \E V : Heap(m2, c, V) /\ HeldIn(m2, V) = {heap_listp}
  BY <1>1, <1>2, InitHeap
<1>5. g = [mem |-> n2, brk |-> c] /\ \E V : Heap(n2, c, V) /\ HeldIn(n2, V) = {heap_listp}
  BY <1>1, <1>3, InitHeap
<1>6. PICK W : Heap(m2, c, W) /\ HeldIn(m2, W) = {heap_listp}
  BY <1>4
<1>7. PICK V : Heap(n2, c, V) /\ HeldIn(n2, V) = {heap_listp}
  BY <1>5
<1>8. Tiled(m2, c, W) /\ Tiled(n2, c, V)
  BY <1>6, <1>7 DEF Heap
<1>9. SizeOf(m2, heap_listp) = 2
  BY <1>8, TiledFacts
<1>10. SizeOf(n2, heap_listp) = 2
  BY <1>8, TiledFacts
<1>11. Alike(m2, n2, c)
  <2>1. \A x \in HeldIn(m2, W) : SizeOf(m2, x) = SizeOf(n2, x)
    BY <1>6, <1>9, <1>10
  <2>2. HeldIn(m2, W) = HeldIn(n2, V)
    BY <1>6, <1>7
  <2> QED BY <2>1, <2>2, <1>6, <1>7, MakeAlike
<1> QED BY <1>1, <1>2, <1>3, <1>4, <1>5, <1>11
=============================================================================
