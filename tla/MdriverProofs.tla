---------------------------- MODULE MdriverProofs ----------------------------
(***************************************************************************)
(* Theorems about the driver mdriver.c, its allocator and its clock, for   *)
(* every arena, trace, K, tolerance and width of the counter's words: the  *)
(* allocator serves a client as it should and the driver's tests agree;    *)
(* the times are right and fcyc keeps the best ones; the runs that are     *)
(* measured and timed repeat the run that was checked.                     *)
(***************************************************************************)
EXTENDS Mdriver, MmProofs

-----------------------------------------------------------------------------
\* The client's blocks, its payloads and its ranges.

(* A range of the driver, as trace.c's range_t holds one.                  *)
Range_t == [lo : Nat, hi : Nat]

(* add_range puts the new range in front of the others.                    *)
LEMMA AddRangeFacts ==
  ASSUME NEW q \in Seq(Range_t), NEW lo \in Nat, NEW size \in Nat, size > 0
  PROVE  /\ add_range(q, lo, size) \in Seq(Range_t)
         /\ Len(q) \in Nat
         /\ Len(add_range(q, lo, size)) = Len(q) + 1
         /\ add_range(q, lo, size)[1] = [lo |-> lo, hi |-> lo + size - 1]
         /\ \A k \in 2 .. Len(q) + 1 : add_range(q, lo, size)[k] = q[k - 1]
<1> DEFINE new == [lo |-> lo, hi |-> lo + size - 1]
<1>1. <<new>> \in Seq(Range_t) /\ Len(<<new>>) = 1 /\ <<new>>[1] = new
  BY DEF Range_t
<1>2. Len(q) \in Nat
  BY LenProperties
<1>3. add_range(q, lo, size) = <<new>> \o q
  BY DEF add_range
<1> HIDE DEF new
<1>4. /\ <<new>> \o q \in Seq(Range_t)
      /\ Len(<<new>> \o q) = 1 + Len(q)
      /\ \A i \in 1 .. 1 + Len(q) :
           (<<new>> \o q)[i] = IF i <= 1 THEN <<new>>[1] ELSE q[i - 1]
  <2>1. /\ <<new>> \o q \in Seq(Range_t)
        /\ Len(<<new>> \o q) = Len(<<new>>) + Len(q)
        /\ \A i \in 1 .. Len(<<new>>) + Len(q) : (<<new>> \o q)[i] =
             IF i <= Len(<<new>>) THEN <<new>>[i] ELSE q[i - Len(<<new>>)]
    BY <1>1, ConcatProperties
  <2>2. \A i \in 1 .. 1 + Len(q) : i <= 1 => i = 1
    BY <1>2
  <2> QED BY <2>1, <2>2, <1>1
<1>5. (<<new>> \o q)[1] = new
  BY <1>1, <1>2, <1>4
<1>6. \A k \in 2 .. Len(q) + 1 : (<<new>> \o q)[k] = q[k - 1]
  BY <1>2, <1>4
<1> QED BY <1>2, <1>3, <1>4, <1>5, <1>6 DEF new

(* remove_range takes out the one range that begins at an address.         *)
LEMMA RemoveRangeFacts ==
  ASSUME NEW q \in Seq(Range_t), NEW n \in 1 .. Len(q),
         \A k \in 1 .. Len(q) : q[k].lo = q[n].lo => k = n
  PROVE  remove_range(q, q[n].lo) = RemoveAt(q, n)
<1> DEFINE at == {k \in DOMAIN q : q[k].lo = q[n].lo}
<1>1. Len(q) \in Nat /\ DOMAIN q = 1 .. Len(q)
  BY LenProperties
<1>2. at = {n}
  BY <1>1
<1>3. Min(at) = n
  <2>1. at \in SUBSET Nat /\ at # {}
    BY <1>1, <1>2
  <2> HIDE DEF at
  <2> QED BY <2>1, <1>2, MinOfNats
<1> QED BY <1>2, <1>3 DEF remove_range

(* The indices of a trace that hold a block, and the blocks they hold.     *)
Used(B) == {i \in Indices : B[i] # Unused}
Ptrs(B) == {B[i].ptr : i \in Used(B)}

(* The table of blocks after a free and after an allocation.               *)
Drop(B, i) == [B EXCEPT ![i] = Unused]
Give(B, i, x, size) == [B EXCEPT ![i] = [ptr |-> x, size |-> size]]

(* Every index has a block of its own, large enough for its request, and   *)
(* every word the client has written there still has its value.            *)
Payloads(m, B) ==
  /\ B \in [Indices -> [ptr : 0 .. MAX_HEAP - 1, size : Sizes \cup {0}]]
  /\ IsFiniteSet(Used(B))
  /\ \A i \in Used(B) : /\ B[i].ptr # heap_listp /\ B[i].size \in Sizes
                        /\ B[i].size <= 4 * (SizeOf(m, B[i].ptr) - 2)
                        /\ \A p \in Words(B[i].ptr, B[i].size) : m[p] = Value(i)
  /\ \A i, k \in Used(B) : B[i].ptr = B[k].ptr => i = k

(* A heap whose held blocks are the prologue and those of the client.      *)
Client(m, b, W, B) == /\ Heap(m, b, W)
                      /\ Payloads(m, B)
                      /\ HeldIn(m, W) = With(Ptrs(B), heap_listp)

(* The same with one more held block, x, not in the client's table yet.    *)
Placed(m, b, B, x, s) ==
  \E V : /\ Heap(m, b, V)
         /\ Payloads(m, B)
         /\ x \notin With(Ptrs(B), heap_listp)
         /\ HeldIn(m, V) = With(With(Ptrs(B), heap_listp), x)
         /\ SizeOf(m, x) >= s

(* The table without index i.                                              *)
LEMMA DropFacts ==
  ASSUME NEW m, NEW B, Payloads(m, B), NEW i \in Used(B)
  PROVE  /\ Payloads(m, Drop(B, i))
         /\ i \in Indices /\ i \notin Used(Drop(B, i)) /\ Used(Drop(B, i)) = Used(B) \ {i}
         /\ \A k \in Used(Drop(B, i)) : Drop(B, i)[k] = B[k]
         /\ Ptrs(Drop(B, i)) = Without(Ptrs(B), B[i].ptr) /\ B[i].ptr \in Ptrs(B)
<1>1. PICK C : C = Drop(B, i)
  OBVIOUS
<1>2. /\ B \in [Indices -> [ptr : 0 .. MAX_HEAP - 1, size : Sizes \cup {0}]]
      /\ IsFiniteSet(Used(B)) /\ i \in Indices
      /\ \A k, l \in Used(B) : B[k].ptr = B[l].ptr => k = l
  BY DEF Payloads, Used
<1>3. Unused \in [ptr : 0 .. MAX_HEAP - 1, size : Sizes \cup {0}]
  BY HeapAssumption DEF Unused
<1>4. /\ C \in [Indices -> [ptr : 0 .. MAX_HEAP - 1, size : Sizes \cup {0}]]
      /\ C[i] = Unused /\ \A k \in Indices : k # i => C[k] = B[k]
  BY <1>1, <1>2, <1>3 DEF Drop
<1>5. Used(C) = Used(B) \ {i}
  BY <1>4 DEF Used
<1>6. IsFiniteSet(Used(C))
  BY <1>2, <1>5, FS_RemoveElement
<1>7. \A k \in Used(C) : k \in Used(B) /\ k # i /\ C[k] = B[k]
  BY <1>4, <1>5 DEF Used
<1>8. Payloads(m, C)
  BY <1>4, <1>6, <1>7 DEF Payloads
<1>9. Ptrs(C) = Without(Ptrs(B), B[i].ptr)
  <2>1. \A x : x \in Ptrs(C) <=> x \in Without(Ptrs(B), B[i].ptr)
    BY <1>2, <1>5, <1>7 DEF Ptrs, Without
  <2> QED BY <2>1
<1>10. B[i].ptr \in Ptrs(B)
  BY DEF Ptrs
<1> QED BY <1>1, <1>2, <1>5, <1>7, <1>8, <1>9, <1>10

(* The table with a block for index i.                                     *)
LEMMA GiveFacts ==
  ASSUME NEW B \in [Indices -> [ptr : 0 .. MAX_HEAP - 1, size : Sizes \cup {0}]],
         NEW i \in Indices, i \notin Used(B), NEW x \in 0 .. MAX_HEAP - 1, NEW size \in Sizes
  PROVE  /\ Give(B, i, x, size) \in [Indices -> [ptr : 0 .. MAX_HEAP - 1, size : Sizes \cup {0}]]
         /\ Used(Give(B, i, x, size)) = Used(B) \cup {i}
         /\ Give(B, i, x, size)[i] = [ptr |-> x, size |-> size]
         /\ \A k \in Used(B) : k # i /\ Give(B, i, x, size)[k] = B[k]
         /\ Ptrs(Give(B, i, x, size)) = With(Ptrs(B), x)
<1>1. PICK C : C = Give(B, i, x, size)
  OBVIOUS
<1>2. /\ C \in [Indices -> [ptr : 0 .. MAX_HEAP - 1, size : Sizes \cup {0}]]
      /\ C[i] = [ptr |-> x, size |-> size]
      /\ \A k \in Indices : k # i => C[k] = B[k]
  BY <1>1 DEF Give
<1>3. C[i] # Unused
  <2>1. size # 0
    BY TraceAssumption
  <2>2. C[i].size # Unused.size
    BY <2>1, <1>2 DEF Unused
  <2> QED BY <2>2
<1>4. \A k \in Used(B) : k \in Indices /\ k # i
  BY DEF Used
<1>5. Used(C) = Used(B) \cup {i}
  <2>1. \A k : k \in Used(C) <=> k \in Used(B) \cup {i}
    BY <1>2, <1>3 DEF Used
  <2> QED BY <2>1
<1>6. Ptrs(C) = With(Ptrs(B), x)
  <2>1. C[i].ptr = x /\ \A k \in Used(B) : C[k].ptr = B[k].ptr
    BY <1>2, <1>4
  <2>2. \A y : y \in Ptrs(C) <=> y \in With(Ptrs(B), x)
    BY <2>1, <1>5 DEF Ptrs, With
  <2> QED BY <2>2
<1> QED BY <1>1, <1>2, <1>4, <1>5, <1>6

(* The words of a request lie in the payload of its block.                 *)
LEMMA PayloadWords ==
  ASSUME NEW m, NEW b, NEW W, Tiled(m, b, W), NEW x \in W,
         NEW size \in Nat, size <= 4 * (SizeOf(m, x) - 2)
  PROVE  /\ size \div 4 \in Nat /\ size \div 4 <= SizeOf(m, x) - 2
         /\ Words(x, size) \subseteq BlockWords(m, x)
         /\ Words(x, size) = x .. x + (size \div 4) - 1
<1>1. x \in Nat /\ SizeOf(m, x) \in Nat
  BY TiledFacts
<1>2. size \div 4 \in Nat /\ size \div 4 <= SizeOf(m, x) - 2
  BY <1>1
<1> QED BY <1>1, <1>2 DEF Words, BlockWords

(* Whoever keeps the words of the held blocks keeps the payloads.          *)
LEMMA PayloadsKept ==
  ASSUME NEW m, NEW b, NEW W, Tiled(m, b, W), NEW B, Payloads(m, B),
         NEW H \in SUBSET W, Ptrs(B) \subseteq H, NEW m2, Keeps(m, m2, H)
  PROVE  Payloads(m2, B)
<1>1. /\ B \in [Indices -> [ptr : 0 .. MAX_HEAP - 1, size : Sizes \cup {0}]]
      /\ IsFiniteSet(Used(B))
      /\ \A i, k \in Used(B) : B[i].ptr = B[k].ptr => i = k
  BY DEF Payloads
<1>2. \A x \in W : x - 1 \in BlockWords(m, x)
  BY DisjointWords
<1>3. \A x \in H : SizeOf(m2, x) = SizeOf(m, x)
  <2>1. \A x \in H : m2[x - 1] = m[x - 1]
    BY <1>2 DEF Keeps
  <2> QED BY <2>1, SameHeader
<1>4. ASSUME NEW i \in Used(B)
      PROVE  /\ B[i].ptr # heap_listp /\ B[i].size \in Sizes
             /\ B[i].size <= 4 * (SizeOf(m2, B[i].ptr) - 2)
             /\ \A p \in Words(B[i].ptr, B[i].size) : m2[p] = Value(i)
  <2>1. PICK x : x = B[i].ptr
    OBVIOUS
  <2>2. PICK size : size = B[i].size
    OBVIOUS
  <2>3. /\ x # heap_listp /\ size \in Sizes
        /\ size <= 4 * (SizeOf(m, x) - 2)
        /\ \A p \in Words(x, size) : m[p] = Value(i)
    BY <2>1, <2>2 DEF Payloads
  <2>4. x \in H /\ x \in W
    BY <2>1 DEF Ptrs
  <2>5. size \in Nat
    BY <2>3, TraceAssumption
  <2>6. Words(x, size) \subseteq BlockWords(m, x)
    BY <2>3, <2>4, <2>5, PayloadWords
  <2>7. \A p \in Words(x, size) : m2[p] = Value(i)
    BY <2>3, <2>4, <2>6 DEF Keeps
  <2> QED BY <1>3, <2>1, <2>2, <2>3, <2>4, <2>7
<1> QED BY <1>1, <1>4 DEF Payloads

(* The range of the bytes a client has asked for.                          *)
RangeOf(c) == [lo |-> 4 * c.ptr, hi |-> 4 * c.ptr + c.size - 1]

(* The list of ranges holds the range of each block of the client once and *)
(* nothing else.                                                           *)
Matches(R, B) ==
  /\ R \in Seq(Range_t)
  /\ Len(R) = Cardinality(Used(B))
  /\ \A k \in 1 .. Len(R) : \E i \in Used(B) : R[k] = RangeOf(B[i])
  /\ \A i \in Used(B) : \E k \in 1 .. Len(R) : R[k] = RangeOf(B[i])
  /\ \A k, l \in 1 .. Len(R) : R[k].lo = R[l].lo => k = l

(* The client fills a block it has got and enters it in its table.         *)
LEMMA FillPlaced ==
  ASSUME NEW m, NEW b, NEW B, NEW i \in Indices, i \notin Used(B), NEW size \in Sizes,
         NEW x, Placed(m, b, B, x, Adjusted(size))
  PROVE  /\ \E V : Client(Fill(m, x, size, i), b, V, Give(B, i, x, size))
         /\ x \in 0 .. MAX_HEAP - 1
<1>1. PICK V : /\ Heap(m, b, V)
               /\ Payloads(m, B)
               /\ x \notin With(Ptrs(B), heap_listp)
               /\ HeldIn(m, V) = With(With(Ptrs(B), heap_listp), x)
               /\ SizeOf(m, x) >= Adjusted(size)
  BY DEF Placed
<1>2. PICK m2 : m2 = Fill(m, x, size, i)
  OBVIOUS
<1>3. PICK C : C = Give(B, i, x, size)
  OBVIOUS
<1>4. Tiled(m, b, V) /\ m \in Memory
  BY <1>1 DEF Heap, Tiled
<1>5. x \in HeldIn(m, V) /\ x \in V /\ x # heap_listp /\ x \notin Ptrs(B)
  BY <1>1 DEF With, HeldIn
<1>6. x \in Nat /\ SizeOf(m, x) \in Nat /\ x >= 4 /\ x \in 0 .. MAX_HEAP - 1
  <2>1. x \in Nat /\ x >= 4 /\ SizeOf(m, x) \in Nat /\ x < b
    BY <1>4, <1>5, TiledFacts
  <2>2. b \in Nat /\ b <= MAX_HEAP /\ MAX_HEAP \in Nat
    BY <1>4, TiledFacts
  <2> QED BY <2>1, <2>2
<1>7. size \in Nat /\ size # 0
  BY TraceAssumption
<1>8. size <= 4 * (SizeOf(m, x) - 2)
  <2>1. Adjusted(size) \in Nat /\ size <= 4 * (Adjusted(size) - 2)
    BY <1>7, AdjustedFacts
  <2> QED BY <2>1, <1>1, <1>6, <1>7
<1>9. PICK n : n = size \div 4
  OBVIOUS
<1>10. n \in Nat /\ n <= SizeOf(m, x) - 2 /\ Words(x, size) = x .. x + n - 1
  BY <1>4, <1>5, <1>7, <1>8, <1>9, PayloadWords
<1>11. /\ m2 \in Memory
       /\ \A p \in Arena : p \notin x .. x + n - 1 => m2[p] = m[p]
       /\ \A p \in Words(x, size) \cap Arena : m2[p] = Value(i)
  <2>1. DOMAIN m = Arena
    BY <1>4 DEF Memory
  <2>2. m2 = [p \in Arena |-> IF p \in Words(x, size) THEN Value(i) ELSE m[p]]
    BY <1>2, <2>1 DEF Fill
  <2>3. Value(i) \in Nat
    BY TraceAssumption DEF Value
  <2>4. m2 \in Memory
    BY <2>2, <2>3, <1>4 DEF Memory
  <2> QED BY <2>2, <2>4, <1>10
<1>12. Words(x, size) \subseteq Arena
  <2>1. Words(x, size) \subseteq BlockWords(m, x)
    BY <1>4, <1>5, <1>7, <1>8, PayloadWords
  <2>2. \A p \in BlockWords(m, x) : p \in Arena
    BY <1>4, <1>5, DisjointWords
  <2> QED BY <2>1, <2>2
<1>13. /\ Heap(m2, b, V)
       /\ HeldIn(m2, V) = HeldIn(m, V) /\ SizeOf(m2, x) = SizeOf(m, x)
       /\ Keeps(m, m2, Without(HeldIn(m, V), x))
  BY <1>1, <1>5, <1>10, <1>11, PayloadFrame
<1>14. Payloads(m2, B)
  <2>1. Without(HeldIn(m, V), x) \in SUBSET V /\ Ptrs(B) \subseteq Without(HeldIn(m, V), x)
    BY <1>1, <1>5 DEF HeldIn, Without, With
  <2> QED BY <2>1, <1>1, <1>4, <1>13, PayloadsKept
<1>15. /\ B \in [Indices -> [ptr : 0 .. MAX_HEAP - 1, size : Sizes \cup {0}]]
       /\ IsFiniteSet(Used(B))
       /\ \A k \in Used(B) : /\ B[k].ptr # heap_listp /\ B[k].size \in Sizes
                             /\ B[k].size <= 4 * (SizeOf(m2, B[k].ptr) - 2)
                             /\ \A p \in Words(B[k].ptr, B[k].size) : m2[p] = Value(k)
       /\ \A k, l \in Used(B) : B[k].ptr = B[l].ptr => k = l
  BY <1>14 DEF Payloads
<1>16. /\ C \in [Indices -> [ptr : 0 .. MAX_HEAP - 1, size : Sizes \cup {0}]]
       /\ Used(C) = Used(B) \cup {i}
       /\ C[i] = [ptr |-> x, size |-> size]
       /\ \A k \in Used(B) : k # i /\ C[k] = B[k]
       /\ Ptrs(C) = With(Ptrs(B), x)
  BY <1>3, <1>6, <1>15, GiveFacts
<1>17. C[i].ptr = x /\ C[i].size = size
  BY <1>16
<1>18. IsFiniteSet(Used(C))
  BY <1>15, <1>16, FS_AddElement
<1>19. ASSUME NEW k \in Used(C)
       PROVE  /\ C[k].ptr # heap_listp /\ C[k].size \in Sizes
              /\ C[k].size <= 4 * (SizeOf(m2, C[k].ptr) - 2)
              /\ \A p \in Words(C[k].ptr, C[k].size) : m2[p] = Value(k)
  <2>1. CASE k = i
    BY <2>1, <1>5, <1>8, <1>11, <1>12, <1>13, <1>17
  <2>2. CASE k \in Used(B)
    BY <2>2, <1>15, <1>16
  <2> QED BY <2>1, <2>2, <1>16
<1>20. \A k \in Used(B) : B[k].ptr # x
  BY <1>5 DEF Ptrs
<1>21. \A k, l \in Used(C) : C[k].ptr = C[l].ptr => k = l
  BY <1>15, <1>16, <1>17, <1>20
<1>22. Payloads(m2, C)
  BY <1>16, <1>18, <1>19, <1>21 DEF Payloads
<1>23. HeldIn(m2, V) = With(Ptrs(C), heap_listp)
  BY <1>1, <1>13, <1>16 DEF With
<1> QED BY <1>2, <1>3, <1>6, <1>13, <1>22, <1>23 DEF Client

(* add_range's three tests accept a block that the allocator placed: it is *)
(* aligned, inside the heap and apart from every range in the list.        *)
LEMMA AcceptsPlaced ==
  ASSUME NEW m, NEW b, NEW B, NEW size \in Sizes,
         NEW x, Placed(m, b, B, x, Adjusted(size)), NEW R, Matches(R, B)
  PROVE  Accepts(R, 4 * x, size, 4 * b - 1)
<1>1. PICK V : /\ Heap(m, b, V)
               /\ Payloads(m, B)
               /\ x \notin With(Ptrs(B), heap_listp)
               /\ HeldIn(m, V) = With(With(Ptrs(B), heap_listp), x)
               /\ SizeOf(m, x) >= Adjusted(size)
  BY DEF Placed
<1>2. Tiled(m, b, V)
  BY <1>1 DEF Heap
<1>3. x \in V /\ x \notin Ptrs(B) /\ Ptrs(B) \subseteq V
  BY <1>1 DEF With, HeldIn
<1>4. \A w \in V : w \in Nat /\ SizeOf(m, w) \in Nat /\ SizeOf(m, w) >= 2
  BY <1>2, TiledFacts
<1>5. size \in Nat /\ size > 0 /\ size <= 4 * (SizeOf(m, x) - 2)
  <2>1. size \in Nat /\ size > 0
    BY TraceAssumption
  <2>2. Adjusted(size) \in Nat /\ size <= 4 * (Adjusted(size) - 2)
    BY <2>1, AdjustedFacts
  <2> QED BY <2>1, <2>2, <1>1, <1>3, <1>4
<1>6. (4 * x) % ALIGNMENT = 0
  <2>1. x \in Nat /\ x % 2 = 0
    BY <1>2, <1>3, TiledFacts
  <2>2. (4 * x) % 8 = 0
    BY <2>1
  <2> QED BY <2>2, DriverAssumption
<1>7. b \in Nat /\ x + SizeOf(m, x) <= b
  BY <1>2, <1>3, TiledFacts
<1>8. {4 * x, 4 * x + size - 1} \subseteq 0 .. 4 * b - 1
  BY <1>3, <1>4, <1>5, <1>7
<1>9. ASSUME NEW k \in DOMAIN R
      PROVE  ~Overlaps(4 * x, 4 * x + size - 1, R[k])
  <2>1. k \in 1 .. Len(R)
    BY LenProperties DEF Matches
  <2>2. PICK i \in Used(B) : R[k] = RangeOf(B[i])
    BY <2>1 DEF Matches
  <2>3. PICK y : y = B[i].ptr
    OBVIOUS
  <2>4. PICK s : s = B[i].size
    OBVIOUS
  <2>5. R[k].lo = 4 * y /\ R[k].hi = 4 * y + s - 1
    BY <2>2, <2>3, <2>4 DEF RangeOf
  <2>6. y \in Ptrs(B) /\ s \in Sizes /\ s <= 4 * (SizeOf(m, y) - 2)
    BY <1>1, <2>3, <2>4 DEF Payloads, Ptrs
  <2>7. s \in Nat /\ s > 0 /\ y \in V /\ y # x
    BY <2>6, <1>3, TraceAssumption
  <2>8. (x < y => x + SizeOf(m, x) <= y) /\ (y < x => y + SizeOf(m, y) <= x)
    BY <1>2, <1>3, <2>7, TiledFacts
  <2>9. x \in Nat /\ y \in Nat /\ SizeOf(m, x) \in Nat /\ SizeOf(m, y) \in Nat
    BY <1>3, <1>4, <2>7
  <2>10. 4 * x + size - 1 < 4 * y \/ 4 * y + s - 1 < 4 * x
    BY <1>5, <2>6, <2>7, <2>8, <2>9
  <2> QED BY <1>5, <2>5, <2>7, <2>9, <2>10 DEF Overlaps
<1> QED BY <1>6, <1>8, <1>9 DEF Accepts

(* The list follows an allocation,                                         *)
LEMMA AddMatches ==
  ASSUME NEW B \in [Indices -> [ptr : 0 .. MAX_HEAP - 1, size : Sizes \cup {0}]],
         IsFiniteSet(Used(B)), NEW R, Matches(R, B),
         NEW i \in Indices, i \notin Used(B), NEW x \in 0 .. MAX_HEAP - 1, x \notin Ptrs(B),
         NEW size \in Sizes
  PROVE  Matches(add_range(R, 4 * x, size), Give(B, i, x, size))
<1>1. PICK C : C = Give(B, i, x, size)
  OBVIOUS
<1>2. PICK S : S = add_range(R, 4 * x, size)
  OBVIOUS
<1>3. /\ Used(C) = Used(B) \cup {i}
      /\ C[i] = [ptr |-> x, size |-> size]
      /\ \A k \in Used(B) : k # i /\ C[k] = B[k]
  BY <1>1, GiveFacts
<1>4. size \in Nat \ {0} /\ x \in Nat /\ 4 * x \in Nat
  BY TraceAssumption, HeapAssumption
<1>5. /\ R \in Seq(Range_t)
      /\ Len(R) = Cardinality(Used(B))
      /\ \A k \in 1 .. Len(R) : \E j \in Used(B) : R[k] = RangeOf(B[j])
      /\ \A j \in Used(B) : \E k \in 1 .. Len(R) : R[k] = RangeOf(B[j])
      /\ \A k, l \in 1 .. Len(R) : R[k].lo = R[l].lo => k = l
  BY DEF Matches
<1>6. /\ S \in Seq(Range_t)
      /\ Len(R) \in Nat
      /\ Len(S) = Len(R) + 1
      /\ S[1] = [lo |-> 4 * x, hi |-> 4 * x + size - 1]
      /\ \A k \in 2 .. Len(R) + 1 : S[k] = R[k - 1]
  <2>1. PICK a : a = 4 * x
    OBVIOUS
  <2>2. a \in Nat /\ size \in Nat /\ size > 0 /\ R \in Seq(Range_t)
    BY <1>4, <1>5, <2>1
  <2>3. /\ add_range(R, a, size) \in Seq(Range_t)
        /\ Len(R) \in Nat
        /\ Len(add_range(R, a, size)) = Len(R) + 1
        /\ add_range(R, a, size)[1] = [lo |-> a, hi |-> a + size - 1]
        /\ \A k \in 2 .. Len(R) + 1 : add_range(R, a, size)[k] = R[k - 1]
    BY <2>2, AddRangeFacts
  <2> QED BY <1>2, <2>1, <2>3
<1>7. S[1] = RangeOf(C[i]) /\ i \in Used(C)
  BY <1>3, <1>6 DEF RangeOf
<1>8. Len(S) = Cardinality(Used(C))
  <2>1. Cardinality(Used(B) \cup {i}) = Cardinality(Used(B)) + 1
    BY FS_AddElement
  <2> QED BY <2>1, <1>3, <1>5, <1>6
<1>9. ASSUME NEW k \in 1 .. Len(S) PROVE k = 1 \/ (k \in 2 .. Len(R) + 1 /\ k - 1 \in 1 .. Len(R))
  BY <1>6
<1>10. \A k \in 1 .. Len(S) : \E j \in Used(C) : S[k] = RangeOf(C[j])
  <2> SUFFICES ASSUME NEW k \in 1 .. Len(S) PROVE \E j \in Used(C) : S[k] = RangeOf(C[j])
    OBVIOUS
  <2>1. CASE k = 1
    BY <2>1, <1>7
  <2>2. CASE k \in 2 .. Len(R) + 1 /\ k - 1 \in 1 .. Len(R)
    <3>1. S[k] = R[k - 1]
      BY <2>2, <1>6
    <3>2. PICK j \in Used(B) : R[k - 1] = RangeOf(B[j])
      BY <2>2, <1>5
    <3> QED BY <3>1, <3>2, <1>3
  <2> QED BY <2>1, <2>2, <1>9
<1>11. \A j \in Used(C) : \E k \in 1 .. Len(S) : S[k] = RangeOf(C[j])
  <2> SUFFICES ASSUME NEW j \in Used(C) PROVE \E k \in 1 .. Len(S) : S[k] = RangeOf(C[j])
    OBVIOUS
  <2>1. CASE j = i
    <3>1. 1 \in 1 .. Len(S)
      BY <1>6
    <3> QED BY <3>1, <2>1, <1>7
  <2>2. CASE j \in Used(B)
    <3>1. PICK k \in 1 .. Len(R) : R[k] = RangeOf(B[j])
      BY <2>2, <1>5
    <3>2. k + 1 \in 2 .. Len(R) + 1 /\ k + 1 \in 1 .. Len(S) /\ (k + 1) - 1 = k
      BY <1>6
    <3>3. S[k + 1] = R[k]
      BY <3>2, <1>6
    <3>4. S[k + 1] = RangeOf(C[j])
      BY <3>1, <3>3, <2>2, <1>3
    <3> QED BY <3>2, <3>4
  <2> QED BY <2>1, <2>2, <1>3
<1>12. \A k \in 1 .. Len(R) : R[k].lo # 4 * x
  <2> SUFFICES ASSUME NEW k \in 1 .. Len(R) PROVE R[k].lo # 4 * x
    OBVIOUS
  <2>1. PICK j \in Used(B) : R[k] = RangeOf(B[j])
    BY <1>5
  <2>2. B[j].ptr \in Nat /\ B[j].ptr # x
    BY HeapAssumption DEF Used, Ptrs
  <2> QED BY <2>1, <2>2, <1>4 DEF RangeOf
<1>13. S[1].lo = 4 * x
  BY <1>6
<1>14. \A k, l \in 1 .. Len(S) : S[k].lo = S[l].lo => k = l
  <2> SUFFICES ASSUME NEW k \in 1 .. Len(S), NEW l \in 1 .. Len(S), S[k].lo = S[l].lo PROVE k = l
    OBVIOUS
  <2>1. k # 1 => S[k].lo # 4 * x
    BY <1>6, <1>9, <1>12
  <2>2. l # 1 => S[l].lo # 4 * x
    BY <1>6, <1>9, <1>12
  <2>3. CASE k # 1 /\ l # 1
    <3>1. k - 1 \in 1 .. Len(R) /\ l - 1 \in 1 .. Len(R)
      BY <2>3, <1>9
    <3>2. S[k] = R[k - 1] /\ S[l] = R[l - 1]
      BY <2>3, <1>6, <1>9
    <3>3. k - 1 = l - 1
      BY <3>1, <3>2, <1>5
    <3> QED BY <3>3
  <2> QED BY <2>1, <2>2, <2>3, <1>13
<1>15. Matches(S, C)
  BY <1>6, <1>8, <1>10, <1>11, <1>14 DEF Matches
<1> QED BY <1>1, <1>2, <1>15

(* and a free.                                                             *)
LEMMA DropMatches ==
  ASSUME NEW m, NEW B, Payloads(m, B), NEW R, Matches(R, B), NEW i \in Used(B)
  PROVE  Matches(remove_range(R, 4 * B[i].ptr), Drop(B, i))
<1>1. PICK C : C = Drop(B, i)
  OBVIOUS
<1>2. /\ R \in Seq(Range_t)
      /\ Len(R) = Cardinality(Used(B))
      /\ \A k \in 1 .. Len(R) : \E j \in Used(B) : R[k] = RangeOf(B[j])
      /\ \A j \in Used(B) : \E k \in 1 .. Len(R) : R[k] = RangeOf(B[j])
      /\ \A k, l \in 1 .. Len(R) : R[k].lo = R[l].lo => k = l
  BY DEF Matches
<1>3. PICK n \in 1 .. Len(R) : R[n] = RangeOf(B[i])
  BY <1>2
<1>4. R[n].lo = 4 * B[i].ptr
  BY <1>3 DEF RangeOf
<1>5. PICK S : S = remove_range(R, 4 * B[i].ptr)
  OBVIOUS
<1>6. S = RemoveAt(R, n)
  <2>1. \A k \in 1 .. Len(R) : R[k].lo = R[n].lo => k = n
    BY <1>2
  <2>2. remove_range(R, R[n].lo) = RemoveAt(R, n)
    BY <1>2, <2>1, RemoveRangeFacts
  <2> QED BY <2>2, <1>4, <1>5
<1>7. /\ S \in Seq(Range_t)
      /\ Len(S) = Len(R) - 1
      /\ \A k \in 1 .. Len(R) - 1 : S[k] = IF k < n THEN R[k] ELSE R[k + 1]
  <2>1. R \in Seq(Range_t)
    BY <1>2
  <2>2. /\ RemoveAt(R, n) \in Seq(Range_t)
        /\ Len(RemoveAt(R, n)) = Len(R) - 1
        /\ \A k \in 1 .. Len(R) - 1 :
             RemoveAt(R, n)[k] = IF k < n THEN R[k] ELSE R[k + 1]
    BY <2>1, RemoveAtFacts
  <2> QED BY <2>2, <1>6
<1>8. Len(R) \in Nat
  BY <1>2, LenProperties
<1>9. /\ i \in Indices /\ i \notin Used(C) /\ Used(C) = Used(B) \ {i}
      /\ \A k \in Used(C) : C[k] = B[k]
  BY <1>1, DropFacts
<1>10. /\ IsFiniteSet(Used(B))
       /\ \A k \in Used(B) : B[k].ptr \in Nat
       /\ \A k, l \in Used(B) : B[k].ptr = B[l].ptr => k = l
  BY HeapAssumption DEF Payloads, Used
<1>11. \A j, k \in Used(B) : RangeOf(B[j]) = RangeOf(B[k]) => j = k
  <2> SUFFICES ASSUME NEW j \in Used(B), NEW k \in Used(B), RangeOf(B[j]) = RangeOf(B[k])
               PROVE  j = k
    OBVIOUS
  <2>1. RangeOf(B[j]).lo = 4 * B[j].ptr /\ RangeOf(B[k]).lo = 4 * B[k].ptr
    BY DEF RangeOf
  <2>2. B[j].ptr = B[k].ptr
    BY <2>1, <1>10
  <2> QED BY <2>2, <1>10
<1>12. Len(S) = Cardinality(Used(C))
  <2>1. Cardinality(Used(B) \ {i}) = Cardinality(Used(B)) - 1
    BY <1>10, FS_RemoveElement
  <2> QED BY <2>1, <1>2, <1>7, <1>9
<1>13. \A k \in 1 .. Len(S) :
         \E l \in 1 .. Len(R) : l # n /\ S[k] = R[l] /\ l = IF k < n THEN k ELSE k + 1
  BY <1>7, <1>8
<1>14. \A l \in 1 .. Len(R) : l # n => \E k \in 1 .. Len(S) : S[k] = R[l]
  <2> SUFFICES ASSUME NEW l \in 1 .. Len(R), l # n PROVE \E k \in 1 .. Len(S) : S[k] = R[l]
    OBVIOUS
  <2>1. CASE l < n
    <3>1. l \in 1 .. Len(S) /\ S[l] = R[l]
      BY <2>1, <1>7, <1>8
    <3> QED BY <3>1
  <2>2. CASE l > n
    <3>1. l - 1 \in 1 .. Len(R) - 1 /\ ~(l - 1 < n) /\ (l - 1) + 1 = l
      BY <2>2, <1>8
    <3>2. S[l - 1] = R[(l - 1) + 1]
      BY <3>1, <1>7
    <3> QED BY <3>1, <3>2, <1>7
  <2> QED BY <2>1, <2>2, <1>8
<1>15. \A k \in 1 .. Len(S) : \E j \in Used(C) : S[k] = RangeOf(C[j])
  <2> SUFFICES ASSUME NEW k \in 1 .. Len(S) PROVE \E j \in Used(C) : S[k] = RangeOf(C[j])
    OBVIOUS
  <2>1. PICK l \in 1 .. Len(R) : l # n /\ S[k] = R[l]
    BY <1>13
  <2>2. PICK j \in Used(B) : R[l] = RangeOf(B[j])
    BY <1>2
  <2>3. j # i
    BY <2>1, <2>2, <1>2, <1>3
  <2> QED BY <2>1, <2>2, <2>3, <1>9
<1>16. \A j \in Used(C) : \E k \in 1 .. Len(S) : S[k] = RangeOf(C[j])
  <2> SUFFICES ASSUME NEW j \in Used(C) PROVE \E k \in 1 .. Len(S) : S[k] = RangeOf(C[j])
    OBVIOUS
  <2>1. j \in Used(B) /\ j # i /\ C[j] = B[j]
    BY <1>9
  <2>2. PICK l \in 1 .. Len(R) : R[l] = RangeOf(B[j])
    BY <2>1, <1>2
  <2>3. l # n
    BY <2>1, <2>2, <1>3, <1>11
  <2>4. PICK k \in 1 .. Len(S) : S[k] = R[l]
    BY <2>3, <1>14
  <2> QED BY <2>1, <2>2, <2>4
<1>17. \A k, l \in 1 .. Len(S) : S[k].lo = S[l].lo => k = l
  <2> SUFFICES ASSUME NEW k \in 1 .. Len(S), NEW l \in 1 .. Len(S), S[k].lo = S[l].lo
               PROVE  k = l
    OBVIOUS
  <2>1. PICK u \in 1 .. Len(R) : S[k] = R[u] /\ u = IF k < n THEN k ELSE k + 1
    BY <1>13
  <2>2. PICK v \in 1 .. Len(R) : S[l] = R[v] /\ v = IF l < n THEN l ELSE l + 1
    BY <1>13
  <2>3. u = v
    BY <2>1, <2>2, <1>2
  <2> QED BY <2>1, <2>2, <2>3
<1>18. Matches(S, C)
  BY <1>7, <1>12, <1>15, <1>16, <1>17 DEF Matches
<1> QED BY <1>1, <1>5, <1>18

(* What Client says of the heap and the table.                             *)
LEMMA ClientFacts ==
  ASSUME NEW m, NEW b, NEW W, NEW B, Client(m, b, W, B)
  PROVE  /\ Tiled(m, b, W) /\ Heap(m, b, W) /\ Payloads(m, B)
         /\ HeldIn(m, W) = With(Ptrs(B), heap_listp) /\ HeldIn(m, W) \in SUBSET W
         /\ Ptrs(B) \subseteq HeldIn(m, W) /\ heap_listp \notin Ptrs(B)
         /\ \A i \in Used(B) : B[i].ptr \in HeldIn(m, W) /\ B[i].ptr # heap_listp
<1>1. Tiled(m, b, W) /\ Heap(m, b, W) /\ Payloads(m, B)
  BY DEF Client, Heap
<1>2. HeldIn(m, W) = With(Ptrs(B), heap_listp) /\ HeldIn(m, W) \in SUBSET W
  BY DEF Client, HeldIn
<1>3. Ptrs(B) \subseteq HeldIn(m, W)
  BY <1>2 DEF With
<1>4. \A i \in Used(B) : B[i].ptr \in HeldIn(m, W) /\ B[i].ptr # heap_listp
  BY <1>1, <1>3 DEF Ptrs, Payloads
<1>5. heap_listp \notin Ptrs(B)
  BY <1>4 DEF Ptrs
<1> QED BY <1>1, <1>2, <1>3, <1>4, <1>5

(* mm_malloc's block is placed,                                            *)
LEMMA TookPlaced ==
  ASSUME NEW m, NEW b, NEW W, NEW B, Client(m, b, W, B), NEW b2, NEW x, NEW s, NEW m2,
         Took(m, b2, W, x, s, m2)
  PROVE  Placed(m2, b2, B, x, s)
<1>1. /\ Tiled(m, b, W) /\ Payloads(m, B)
      /\ HeldIn(m, W) = With(Ptrs(B), heap_listp) /\ HeldIn(m, W) \in SUBSET W
      /\ Ptrs(B) \subseteq HeldIn(m, W)
  BY ClientFacts
<1>2. PICK V : /\ Heap(m2, b2, V)
               /\ x \notin HeldIn(m, W) /\ HeldIn(m2, V) = With(HeldIn(m, W), x)
               /\ SizeOf(m2, x) >= s
               /\ Keeps(m, m2, HeldIn(m, W))
  BY DEF Took
<1>3. Payloads(m2, B)
  BY <1>1, <1>2, PayloadsKept
<1> QED BY <1>1, <1>2, <1>3 DEF Placed

(* so is mm_realloc's, the old one's index being dropped,                  *)
LEMMA MovedPlaced ==
  ASSUME NEW m, NEW b, NEW W, NEW B, Client(m, b, W, B), NEW i \in Used(B),
         NEW b2, NEW x, NEW s, NEW m2, Moved(m, b2, W, B[i].ptr, x, s, m2)
  PROVE  Placed(m2, b2, Drop(B, i), x, s)
<1>1. PICK C : C = Drop(B, i)
  OBVIOUS
<1>2. PICK y : y = B[i].ptr
  OBVIOUS
<1>3. PICK H : H = HeldIn(m, W)
  OBVIOUS
<1>4. /\ Tiled(m, b, W) /\ Payloads(m, B)
      /\ H = With(Ptrs(B), heap_listp) /\ H \in SUBSET W
      /\ Ptrs(B) \subseteq H /\ heap_listp \notin Ptrs(B) /\ y # heap_listp
  BY <1>2, <1>3, ClientFacts
<1>5. Payloads(m, C) /\ Ptrs(C) = Without(Ptrs(B), y)
  BY <1>1, <1>2, <1>4, DropFacts
<1>6. PICK V : /\ Heap(m2, b2, V)
               /\ x \notin H
               /\ HeldIn(m2, V) = With(Without(H, y), x)
               /\ SizeOf(m2, x) >= s
               /\ Keeps(m, m2, Without(H, y))
  BY <1>2, <1>3 DEF Moved
<1>7. Without(H, y) = With(Ptrs(C), heap_listp)
  BY <1>4, <1>5 DEF With, Without
<1>8. /\ Without(H, y) \in SUBSET W /\ Ptrs(C) \subseteq Without(H, y)
      /\ x \notin With(Ptrs(C), heap_listp)
  BY <1>4, <1>5, <1>6 DEF Without, With
<1>9. Payloads(m2, C)
  BY <1>4, <1>5, <1>6, <1>8, PayloadsKept
<1>10. HeldIn(m2, V) = With(With(Ptrs(C), heap_listp), x)
  BY <1>6, <1>7
<1>11. Placed(m2, b2, C, x, s)
  BY <1>6, <1>8, <1>9, <1>10 DEF Placed
<1> QED BY <1>1, <1>11

(* and mm_free leaves the client's other blocks.                           *)
LEMMA ReleasedClient ==
  ASSUME NEW m, NEW b, NEW W, NEW B, Client(m, b, W, B), NEW i \in Used(B),
         NEW m2, Released(m, b, W, B[i].ptr, m2)
  PROVE  \E V : Client(m2, b, V, Drop(B, i))
<1>1. PICK C : C = Drop(B, i)
  OBVIOUS
<1>2. PICK y : y = B[i].ptr
  OBVIOUS
<1>3. PICK H : H = HeldIn(m, W)
  OBVIOUS
<1>4. /\ Tiled(m, b, W) /\ Payloads(m, B)
      /\ H = With(Ptrs(B), heap_listp) /\ H \in SUBSET W
      /\ Ptrs(B) \subseteq H /\ heap_listp \notin Ptrs(B) /\ y # heap_listp
  BY <1>2, <1>3, ClientFacts
<1>5. Payloads(m, C) /\ Ptrs(C) = Without(Ptrs(B), y)
  BY <1>1, <1>2, <1>4, DropFacts
<1>6. PICK V : /\ Heap(m2, b, V)
               /\ HeldIn(m2, V) = Without(H, y)
               /\ Keeps(m, m2, Without(H, y))
  BY <1>2, <1>3 DEF Released
<1>7. Without(H, y) = With(Ptrs(C), heap_listp)
  BY <1>4, <1>5 DEF With, Without
<1>8. Without(H, y) \in SUBSET W /\ Ptrs(C) \subseteq Without(H, y)
  BY <1>4, <1>5 DEF Without, With
<1>9. Payloads(m2, C)
  BY <1>4, <1>5, <1>6, <1>8, PayloadsKept
<1>10. Client(m2, b, V, C)
  BY <1>6, <1>7, <1>9 DEF Client
<1> QED BY <1>1, <1>10

-----------------------------------------------------------------------------
\* The traces of MallocDriver.

(* The inductive invariant of a trace that is being checked: the heap is   *)
(* the client's, the ranges are those of its blocks, and no test of the    *)
(* driver has failed on a block.                                           *)
TraceInv == /\ Client(mem, brk, Walk(mem), blocks)
            /\ Matches(ranges, blocks)
            /\ verdict \in {"ok", "failed"}

(* The blocks of the client's heap are those Walk visits.                  *)
LEMMA ClientWalk ==
  ASSUME NEW m, NEW b, NEW B, \E V : Client(m, b, V, B)
  PROVE  Client(m, b, Walk(m), B)
<1>1. PICK V : Client(m, b, V, B)
  OBVIOUS
<1>2. Walk(m) = V
  BY <1>1, ClientFacts, WalkTiled
<1> QED BY <1>1, <1>2

(* The indices in use, as MallocDriver names them.                         *)
LEMMA HeldIsUsed ==
  /\ Held = Used(blocks)
  /\ \A i : i \in Free <=> i \in Indices /\ i \notin Used(blocks)
BY DEF Held, Free, Used

(* What eval_mm_valid does with a block it has got keeps the invariant.    *)
LEMMA TakeStep ==
  ASSUME NEW m, NEW b, NEW R, NEW i \in Indices, NEW x, NEW size \in Sizes, NEW B,
         Placed(m, b, B, x, Adjusted(size)), i \notin Used(B), Matches(R, B),
         Give(B, i, x, size) = Give(blocks, i, x, size),
         verdict = "ok", Take([mem |-> m, brk |-> b], R, i, x, size)
  PROVE  /\ TraceInv'
         /\ brk' = b /\ blocks' = Give(blocks, i, x, size) /\ verdict' = "ok"
<1>1. PICK C : C = Give(B, i, x, size)
  OBVIOUS
<1>2. Accepts(R, 4 * x, size, 4 * b - 1)
  BY AcceptsPlaced
<1>3. /\ mem' = Fill(m, x, size, i) /\ brk' = b
      /\ ranges' = add_range(R, 4 * x, size)
      /\ blocks' = [blocks EXCEPT ![i] = [ptr |-> x, size |-> size]]
      /\ verdict' = "ok"
  BY <1>2 DEF Take
<1>4. blocks' = C
  BY <1>1, <1>3 DEF Give
<1>5. (\E V : Client(Fill(m, x, size, i), b, V, C)) /\ x \in 0 .. MAX_HEAP - 1
  BY <1>1, FillPlaced
<1>6. Client(mem', brk', Walk(mem'), blocks')
  BY <1>3, <1>4, <1>5, ClientWalk
<1>7. /\ B \in [Indices -> [ptr : 0 .. MAX_HEAP - 1, size : Sizes \cup {0}]]
      /\ IsFiniteSet(Used(B)) /\ x \notin Ptrs(B)
  BY DEF Placed, Payloads, With
<1>8. Matches(add_range(R, 4 * x, size), C)
  BY <1>1, <1>5, <1>7, AddMatches
<1> QED BY <1>1, <1>3, <1>4, <1>6, <1>8 DEF TraceInv

(* An allocation keeps the invariant; it fails and changes nothing,        *)
(* extends the heap when nothing fits, or takes the first fit.             *)
LEMMA AllocStep ==
  ASSUME TraceInv, NEW i, NEW size \in Sizes, Alloc(i, size)
  PROVE  /\ TraceInv'
         /\ \/ UNCHANGED <<mem, brk, ranges, blocks>> /\ verdict' = "failed"
            \/ /\ \E x : /\ blocks' = Give(blocks, i, x, size)
                         /\ \/ /\ \A y \in FreeIn(mem, Walk(mem)) : ~(SizeOf(mem, y) >= Adjusted(size))
                               /\ brk' > brk
                            \/ /\ x \in FreeIn(mem, Walk(mem)) /\ SizeOf(mem, x) >= Adjusted(size)
                               /\ \A y \in FreeIn(mem, Walk(mem)) : SizeOf(mem, y) >= Adjusted(size) => x <= y
                               /\ brk' = brk
               /\ verdict' = "ok"
<1>1. PICK r : r = mm_malloc([mem |-> mem, brk |-> brk], size)
  OBVIOUS
<1>2. /\ verdict = "ok" /\ i \in Free
      /\ IF r.bp = 0 THEN Fail(r.heap) ELSE Take(r.heap, ranges, i, r.bp, size)
  BY <1>1 DEF Alloc, heap
<1>3. i \in Indices /\ i \notin Used(blocks)
  BY <1>2, HeldIsUsed
<1>4. Client(mem, brk, Walk(mem), blocks) /\ Matches(ranges, blocks)
  BY DEF TraceInv
<1>5. Heap(mem, brk, Walk(mem))
  BY <1>4, ClientFacts
<1>6. size \in Nat \ {0}
  BY TraceAssumption
<1>7. CASE r = [bp |-> 0, heap |-> [mem |-> mem, brk |-> brk]]
  <2>1. Fail(r.heap)
    BY <1>2, <1>7
  <2>2. UNCHANGED <<mem, brk, ranges, blocks>> /\ verdict' = "failed"
    BY <2>1, <1>7 DEF Fail
  <2> QED BY <2>2, <1>4 DEF TraceInv
<1>8. CASE r # [bp |-> 0, heap |-> [mem |-> mem, brk |-> brk]]
  <2>1. PICK x : x = r.bp
    OBVIOUS
  <2>2. PICK m2 : m2 = r.heap.mem
    OBVIOUS
  <2>3. PICK b2 : b2 = r.heap.brk
    OBVIOUS
  <2>4. /\ r = [bp |-> x, heap |-> [mem |-> m2, brk |-> b2]]
        /\ Took(mem, b2, Walk(mem), x, Adjusted(size), m2) /\ x # 0
        /\ \/ /\ \A y \in FreeIn(mem, Walk(mem)) : ~(SizeOf(mem, y) >= Adjusted(size))
              /\ b2 > brk
           \/ /\ x \in FreeIn(mem, Walk(mem)) /\ SizeOf(mem, x) >= Adjusted(size)
              /\ \A y \in FreeIn(mem, Walk(mem)) : SizeOf(mem, y) >= Adjusted(size) => x <= y
              /\ b2 = brk
    BY <1>1, <1>5, <1>6, <1>8, <2>1, <2>2, <2>3, Malloc
  <2>5. Placed(m2, b2, blocks, x, Adjusted(size))
    BY <1>4, <2>4, TookPlaced
  <2>6. Take([mem |-> m2, brk |-> b2], ranges, i, x, size)
    <3>1. r.bp = x /\ r.heap = [mem |-> m2, brk |-> b2]
      BY <2>4
    <3> QED BY <1>2, <2>4, <3>1
  <2>7. TraceInv' /\ brk' = b2 /\ blocks' = Give(blocks, i, x, size) /\ verdict' = "ok"
    BY <1>2, <1>3, <1>4, <2>5, <2>6, TakeStep
  <2> QED BY <2>4, <2>7
<1> QED BY <1>7, <1>8

(* A free keeps the invariant.                                             *)
LEMMA DeallocStep ==
  ASSUME TraceInv, NEW i \in Indices, Dealloc(i)
  PROVE  /\ TraceInv' /\ i \in Used(blocks) /\ blocks' = Drop(blocks, i)
         /\ UNCHANGED <<brk, verdict>>
<1>1. /\ verdict = "ok" /\ i \notin Free
      /\ ranges' = remove_range(ranges, 4 * blocks[i].ptr)
      /\ mem' = mm_free([mem |-> mem, brk |-> brk], blocks[i].ptr).mem
      /\ blocks' = Drop(blocks, i)
      /\ UNCHANGED <<brk, verdict>>
  BY DEF Dealloc, heap, Drop
<1>2. i \in Used(blocks)
  BY <1>1, HeldIsUsed
<1>3. Client(mem, brk, Walk(mem), blocks) /\ Matches(ranges, blocks)
  BY DEF TraceInv
<1>4. PICK x : x = blocks[i].ptr
  OBVIOUS
<1>5. /\ Heap(mem, brk, Walk(mem)) /\ Payloads(mem, blocks)
      /\ x \in HeldIn(mem, Walk(mem)) /\ x # heap_listp
  BY <1>2, <1>3, <1>4, ClientFacts
<1>6. Released(mem, brk, Walk(mem), x, mem')
  BY <1>1, <1>4, <1>5, FreeBlock
<1>7. \E V : Client(mem', brk, V, Drop(blocks, i))
  BY <1>2, <1>3, <1>4, <1>6, ReleasedClient
<1>8. Client(mem', brk', Walk(mem'), blocks')
  BY <1>1, <1>7, ClientWalk
<1>9. Matches(ranges', blocks')
  BY <1>1, <1>2, <1>3, <1>5, DropMatches
<1> QED BY <1>1, <1>2, <1>8, <1>9 DEF TraceInv

(* A reallocation keeps the invariant: its payload is moved with it.       *)
LEMMA ReallocStep ==
  ASSUME TraceInv, NEW i \in Indices, NEW size \in Sizes, Realloc(i, size)
  PROVE  /\ TraceInv' /\ i \in Used(blocks)
         /\ \/ UNCHANGED <<mem, brk, ranges, blocks>> /\ verdict' = "failed"
            \/ (\E x : blocks' = Give(blocks, i, x, size)) /\ brk' >= brk /\ verdict' = "ok"
<1>1. PICK x : x = blocks[i].ptr
  OBVIOUS
<1>2. PICK olds : olds = blocks[i].size
  OBVIOUS
<1>3. PICK rest : rest = remove_range(ranges, 4 * x)
  OBVIOUS
<1>4. PICK r : r = mm_realloc([mem |-> mem, brk |-> brk], x, size)
  OBVIOUS
<1>5. /\ verdict = "ok" /\ i \notin Free
      /\ IF r.bp = 0 THEN Fail(r.heap)
         ELSE IF /\ Accepts(rest, 4 * r.bp, size, 4 * r.heap.brk - 1)
                 /\ \E p \in Words(r.bp, Min({size, olds})) : r.heap.mem[p] # Value(i)
         THEN /\ mem' = r.heap.mem /\ brk' = r.heap.brk
              /\ ranges' = add_range(rest, 4 * r.bp, size)
              /\ verdict' = "data"
              /\ UNCHANGED blocks
         ELSE Take(r.heap, rest, i, r.bp, size)
  BY <1>1, <1>2, <1>3, <1>4 DEF Realloc, heap
<1>6. i \in Used(blocks)
  BY <1>5, HeldIsUsed
<1>7. Client(mem, brk, Walk(mem), blocks) /\ Matches(ranges, blocks)
  BY DEF TraceInv
<1>8. /\ Heap(mem, brk, Walk(mem)) /\ Tiled(mem, brk, Walk(mem)) /\ Payloads(mem, blocks)
      /\ x \in HeldIn(mem, Walk(mem)) /\ x # heap_listp /\ x \in Walk(mem)
  <2>1. HeldIn(mem, Walk(mem)) \in SUBSET Walk(mem)
    BY <1>7, ClientFacts
  <2> QED BY <2>1, <1>1, <1>6, <1>7, ClientFacts
<1>9. size \in Nat \ {0}
  BY TraceAssumption
<1>10. CASE r = [bp |-> 0, heap |-> [mem |-> mem, brk |-> brk]]
  <2>1. Fail(r.heap)
    BY <1>5, <1>10
  <2>2. UNCHANGED <<mem, brk, ranges, blocks>> /\ verdict' = "failed"
    BY <2>1, <1>10 DEF Fail
  <2> QED BY <2>2, <1>6, <1>7 DEF TraceInv
<1>11. CASE r # [bp |-> 0, heap |-> [mem |-> mem, brk |-> brk]]
  <2>1. PICK y : y = r.bp
    OBVIOUS
  <2>2. PICK m2 : m2 = r.heap.mem
    OBVIOUS
  <2>3. PICK b2 : b2 = r.heap.brk
    OBVIOUS
  <2>4. /\ r = [bp |-> y, heap |-> [mem |-> m2, brk |-> b2]]
        /\ Moved(mem, b2, Walk(mem), x, y, Adjusted(size), m2) /\ y # 0 /\ b2 >= brk
        /\ \A k \in 0 .. (size \div 4) - 1 :
             k < SizeOf(mem, x) - 2 => m2[y + k] = mem[x + k]
    BY <1>4, <1>8, <1>9, <1>11, <2>1, <2>2, <2>3, Reallocate
  <2>5. PICK B : B = Drop(blocks, i)
    OBVIOUS
  <2>6. Placed(m2, b2, B, y, Adjusted(size))
    BY <1>1, <1>6, <1>7, <2>4, <2>5, MovedPlaced
  <2>7. Matches(rest, B)
    BY <1>1, <1>3, <1>6, <1>7, <1>8, <2>5, DropMatches
  <2>8. ASSUME NEW p \in Words(y, Min({size, olds})) PROVE m2[p] = Value(i)
    <3>1. PICK z : z = Min({size, olds})
      OBVIOUS
    <3>2. /\ olds \in Sizes /\ olds <= 4 * (SizeOf(mem, x) - 2)
          /\ \A p_1 \in Words(x, olds) : mem[p_1] = Value(i)
      BY <1>1, <1>2, <1>6, <1>8 DEF Payloads
    <3>3. olds \in Nat /\ size \in Nat
      BY <1>9, <3>2, TraceAssumption
    <3>4. z \in Nat /\ z <= size /\ z <= olds
      BY <3>1, <3>3, MinOfTwo
    <3>5. z \div 4 \in Nat /\ z \div 4 <= size \div 4 /\ z \div 4 <= olds \div 4
      BY <3>3, <3>4
    <3>6. olds \div 4 \in Nat /\ olds \div 4 <= SizeOf(mem, x) - 2 /\ Words(x, olds) = x .. x + (olds \div 4) - 1
      BY <1>8, <3>2, <3>3, PayloadWords
    <3>7. x \in Nat /\ SizeOf(mem, x) \in Nat
      BY <1>8, TiledFacts
    <3>8. y \in Nat
      <4>1. PICK V : /\ Heap(m2, b2, V)
                     /\ HeldIn(m2, V) = With(With(Ptrs(B), heap_listp), y)
        BY <2>6 DEF Placed
      <4>2. y \in V /\ Tiled(m2, b2, V)
        <5>1. y \in HeldIn(m2, V)
          BY <4>1 DEF With
        <5> QED BY <4>1, <5>1 DEF HeldIn, Heap
      <4> QED BY <4>2, TiledFacts
    <3>9. p \in y .. y + (z \div 4) - 1
      BY <3>1 DEF Words
    <3>10. PICK k \in 0 .. (z \div 4) - 1 : p = y + k
      <4>1. p - y \in 0 .. (z \div 4) - 1 /\ p = y + (p - y)
        BY <3>5, <3>8, <3>9
      <4> QED BY <4>1
    <3>11. k \in 0 .. (size \div 4) - 1 /\ k < SizeOf(mem, x) - 2 /\ x + k \in x .. x + (olds \div 4) - 1
      <4>1. size \div 4 \in Nat
        BY <3>3
      <4> QED BY <4>1, <3>5, <3>6, <3>7
    <3>12. m2[y + k] = mem[x + k]
      BY <2>4, <3>11
    <3>13. mem[x + k] = Value(i)
      BY <3>2, <3>6, <3>11
    <3> QED BY <3>10, <3>12, <3>13
  <2>9. r.bp = y /\ r.heap = [mem |-> m2, brk |-> b2] /\ r.heap.mem = m2
    BY <2>4
  <2>10. Take([mem |-> m2, brk |-> b2], rest, i, y, size)
    BY <1>5, <2>4, <2>8, <2>9
  <2>11. i \notin Used(B) /\ Give(B, i, y, size) = Give(blocks, i, y, size)
    <3>1. i \notin Used(B)
      BY <1>6, <1>8, <2>5, DropFacts
    <3>2. Give(B, i, y, size) = Give(blocks, i, y, size)
      BY <1>8, <2>5 DEF Give, Drop, Payloads
    <3> QED BY <3>1, <3>2
  <2>12. TraceInv' /\ blocks' = Give(blocks, i, y, size) /\ verdict' = "ok" /\ brk' = b2
    BY <1>5, <2>6, <2>7, <2>10, <2>11, TakeStep
  <2> QED BY <1>6, <2>4, <2>12
<1> QED BY <1>10, <1>11

(* A heap that mm_init has made belongs to a client with no block.         *)
LEMMA StartClient ==
  ASSUME NEW m \in Memory, NEW h, h = mm_init(m)
  PROVE  /\ Client(h.mem, h.brk, Walk(h.mem), [i \in Indices |-> Unused])
         /\ Matches(<<>>, [i \in Indices |-> Unused])
<1>1. PICK B : B = [i \in Indices |-> Unused]
  OBVIOUS
<1>2. B \in [Indices -> [ptr : 0 .. MAX_HEAP - 1, size : Sizes \cup {0}]]
  BY <1>1, HeapAssumption DEF Unused
<1>3. Used(B) = {}
  BY <1>1 DEF Used
<1>4. Ptrs(B) = {}
  BY <1>3 DEF Ptrs
<1>5. IsFiniteSet(Used(B)) /\ Cardinality(Used(B)) = 0
  BY <1>3, FS_EmptySet
<1>6. Payloads(h.mem, B)
  BY <1>2, <1>3, <1>5 DEF Payloads
<1>7. /\ h = [mem |-> h.mem, brk |-> 6 + CHUNKSIZE]
      /\ \E V : Heap(h.mem, 6 + CHUNKSIZE, V) /\ HeldIn(h.mem, V) = {heap_listp}
  BY InitHeap
<1>8. h.brk = 6 + CHUNKSIZE
  BY <1>7
<1>9. \E V : Client(h.mem, h.brk, V, B)
  BY <1>4, <1>6, <1>7, <1>8 DEF Client, With
<1>10. Client(h.mem, h.brk, Walk(h.mem), B)
  BY <1>9, ClientWalk
<1>11. Matches(<<>>, B)
  <2>1. <<>> \in Seq(Range_t) /\ Len(<<>>) = 0 /\ 1 .. 0 = {}
    OBVIOUS
  <2> QED BY <2>1, <1>3, <1>5 DEF Matches
<1> QED BY <1>1, <1>10, <1>11

(* A trace starts with such a heap,                                        *)
LEMMA TraceInit == Init => TraceInv
<1> SUFFICES ASSUME Init PROVE TraceInv
  OBVIOUS
<1>1. PICK m : m = [p \in 0 .. MAX_HEAP - 1 |-> 999]
  OBVIOUS
<1>2. m \in Memory
  BY <1>1 DEF Memory, Arena
<1>3. PICK h : h = mm_init(m)
  OBVIOUS
<1>4. mem = h.mem /\ brk = h.brk /\ ranges = <<>> /\ blocks = [i \in Indices |-> Unused] /\ verdict = "ok"
  BY <1>1, <1>3 DEF Init, Started
<1> QED BY <1>2, <1>3, <1>4, StartClient DEF TraceInv

(* and so does the next one, in the arena the last one left.               *)
LEMMA NewTraceStep == NewTrace => TraceInv'
<1> SUFFICES ASSUME NewTrace PROVE TraceInv'
  OBVIOUS
<1>1. PICK m : m = [p \in 0 .. MAX_HEAP - 1 |-> 999]
  OBVIOUS
<1>2. m \in Memory
  BY <1>1 DEF Memory, Arena
<1>3. PICK h : h = mm_init(m)
  OBVIOUS
<1>4. mem' = h.mem /\ brk' = h.brk /\ ranges' = <<>> /\ blocks' = [i \in Indices |-> Unused] /\ verdict' = "ok"
  BY <1>1, <1>3 DEF NewTrace, Started
<1> QED BY <1>2, <1>3, <1>4, StartClient DEF TraceInv

(* The next index of a trace is unused.                                    *)
LEMMA FreeLeast ==
  Free # {} => Min(Free) \in Free
<1>1. Free \in SUBSET Nat
  BY TraceAssumption DEF Free
<1> QED BY <1>1, MinOfNats

(* Every step of a trace keeps the invariant.                              *)
LEMMA TraceStep == TraceInv /\ [Next]_vars => TraceInv'
<1> SUFFICES ASSUME TraceInv, [Next]_vars
             PROVE  TraceInv'
  OBVIOUS
<1>1. ASSUME NEW size \in Sizes, Free # {}, Alloc(Min(Free), size)
      PROVE  TraceInv'
  BY <1>1, AllocStep
<1>2. ASSUME NEW i \in Indices, Dealloc(i)
      PROVE  TraceInv'
  BY <1>2, DeallocStep
<1>3. ASSUME NEW i \in Indices, NEW size \in Sizes, Realloc(i, size)
      PROVE  TraceInv'
  BY <1>3, ReallocStep
<1>4. CASE NewTrace
  BY <1>4, NewTraceStep
<1>5. CASE UNCHANGED vars
  BY <1>5 DEF vars, TraceInv
<1> QED BY <1>1, <1>2, <1>3, <1>4, <1>5 DEF Next

(* The invariant holds of every trace, for every arena, CHUNKSIZE, set of  *)
(* sizes and set of indices.                                               *)
THEOREM TraceHolds == Spec => []TraceInv
<1> USE TraceInit, TraceStep
<1> QED BY PTL DEF Spec

(* It gives the variables their types.                                     *)
LEMMA TraceTypes == TraceInv => TypeOK
<1> SUFFICES ASSUME TraceInv PROVE TypeOK
  OBVIOUS
<1>1. Client(mem, brk, Walk(mem), blocks) /\ Matches(ranges, blocks) /\ verdict \in {"ok", "failed"}
  BY DEF TraceInv
<1>2. Tiled(mem, brk, Walk(mem)) /\ Payloads(mem, blocks)
  BY <1>1, ClientFacts
<1>3. mem \in [0 .. MAX_HEAP - 1 -> Nat]
  BY <1>2 DEF Tiled, Memory, Arena
<1>4. brk \in 0 .. MAX_HEAP
  <2>1. brk \in Nat /\ brk <= MAX_HEAP /\ MAX_HEAP \in Nat
    BY <1>2, TiledFacts
  <2> QED BY <2>1
<1>5. blocks \in [Indices -> [ptr : 0 .. MAX_HEAP - 1, size : Sizes \cup {0}]]
  BY <1>2 DEF Payloads
<1>6. ASSUME NEW k \in DOMAIN ranges
      PROVE  ranges[k].lo \in Nat /\ ranges[k].hi \in Nat
  <2>1. ranges[k] \in Range_t
    BY <1>1 DEF Matches
  <2> QED BY <2>1 DEF Range_t
<1> QED BY <1>1, <1>3, <1>4, <1>5, <1>6 DEF TypeOK

(* checkheap has nothing to report of a heap that is tiled.                *)
LEMMA TiledCheck ==
  ASSUME NEW m, NEW b, Tiled(m, b, Walk(m))
  PROVE  /\ checkheap(m)
         /\ \A x \in Walk(m) \ {heap_listp} : SizeOf(m, x) >= 4
         /\ NEXT_BLKP(m, Max(Walk(m))) = b
<1>1. PICK W : W = Walk(m)
  OBVIOUS
<1>2. Tiled(m, b, W)
  BY <1>1
<1>3. /\ b \in Nat /\ W \in SUBSET Nat /\ heap_listp \in W
      /\ \A x \in W : x \in Nat /\ x < b /\ SizeOf(m, x) \in Nat /\ SizeOf(m, x) >= 2
      /\ \A x \in W : x + SizeOf(m, x) \in W \cup {b}
  <2>1. b \in Nat /\ W \in SUBSET Nat /\ heap_listp \in W
    BY <1>2, TiledFacts
  <2>2. \A x \in W : x \in Nat /\ x < b /\ SizeOf(m, x) \in Nat /\ SizeOf(m, x) >= 2
    BY <1>2, TiledFacts
  <2>3. \A x \in W : x + SizeOf(m, x) \in W \cup {b}
    BY <1>2, TiledFacts
  <2> QED BY <2>1, <2>2, <2>3
<1>4. Max(W) \in W /\ \A x \in W : x <= Max(W)
  <2>1. W # {} /\ \A x \in W : x <= b
    BY <1>3
  <2> QED BY <2>1, <1>3, MaxOfNats
<1>5. NEXT_BLKP(m, Max(W)) = b
  <2>1. PICK z : z = Max(W)
    OBVIOUS
  <2>2. z \in W /\ \A x \in W : x <= z
    BY <2>1, <1>4
  <2>3. z + SizeOf(m, z) = b
    BY <2>2, <1>3
  <2> QED BY <2>1, <2>3 DEF NEXT_BLKP, SizeOf
<1>6. m[b - 1] = 1 /\ m[heap_listp - 1] = 3
  BY <1>2 DEF Tiled
<1>7. GET_SIZE(m, HDRP(heap_listp)) = 2 /\ GET_ALLOC(m, HDRP(heap_listp)) = 1
  BY <1>6 DEF GET_SIZE, GET_ALLOC, HDRP
<1>8. ASSUME NEW x \in W
      PROVE  checkblock(m, x)
  <2>1. x % 2 = 0 /\ m[x + SizeOf(m, x) - 2] = m[x - 1]
    BY <1>2 DEF Tiled
  <2> QED BY <2>1 DEF checkblock, FTRP, HDRP, SizeOf
<1>9. m[HDRP(NEXT_BLKP(m, Max(W)))] = 1
  BY <1>5, <1>6 DEF HDRP
<1>10. checkheap(m)
  BY <1>1, <1>7, <1>8, <1>9 DEF checkheap
<1>11. \A x \in W \ {heap_listp} : SizeOf(m, x) >= 4
  BY <1>2 DEF Tiled
<1> QED BY <1>1, <1>5, <1>10, <1>11

(* checkheap never has anything to report: the blocks follow each other    *)
(* from the prologue to the epilogue, with equal tags and even sizes.      *)
THEOREM HeapIsTiled == Spec => []HeapTiled
<1>1. TraceInv => HeapTiled
  <2> SUFFICES ASSUME TraceInv PROVE HeapTiled
    OBVIOUS
  <2>1. Tiled(mem, brk, Walk(mem))
    BY ClientFacts DEF TraceInv
  <2>2. /\ checkheap(mem)
        /\ \A x \in Walk(mem) \ {heap_listp} : SizeOf(mem, x) >= 4
        /\ NEXT_BLKP(mem, Max(Walk(mem))) = brk
    BY <2>1, TiledCheck
  <2> QED BY <2>2, TraceTypes DEF HeapTiled, BlockSize, SizeOf, HDRP
<1> QED BY <1>1, TraceHolds, PTL

(* The free blocks and their sizes, as MallocDriver names them.            *)
LEMMA FreeBlocksAre ==
  /\ FreeBlocks = FreeIn(mem, Walk(mem))
  /\ \A x : BlockSize(x) = SizeOf(mem, x)
BY DEF FreeBlocks, FreeIn, AllocOf, BlockSize, SizeOf, HDRP

(* The next node in address order is the least one above.                  *)
LEMMA NextIsMin ==
  ASSUME NEW F \in SUBSET Nat, NEW p \in Nat, NEW q, IsNext(F, p, q), 0 \notin F
  PROVE  /\ {x \in F : x > p} = {} => q = 0
         /\ {x \in F : x > p} # {} => q = Min({x \in F : x > p}) /\ q # 0
<1>1. PICK A : A = {x \in F : x > p}
  OBVIOUS
<1>2. ASSUME A = {} PROVE q = 0
  BY <1>1, <1>2 DEF IsNext
<1>3. ASSUME A # {} PROVE q = Min(A) /\ q # 0
  <2>1. A \in SUBSET Nat
    BY <1>1
  <2>2. Min(A) \in A /\ \A x \in A : Min(A) <= x
    BY <1>3, <2>1, MinOfNats
  <2>3. PICK z : z = Min(A)
    OBVIOUS
  <2>4. z \in F /\ z > p /\ z \in Nat /\ \A x \in A : z <= x
    BY <1>1, <2>2, <2>3
  <2>5. q \in F /\ q > p /\ \A x \in F : x <= p \/ x >= q
    BY <2>4 DEF IsNext
  <2>6. q \in A /\ q <= z
    BY <1>1, <2>4, <2>5
  <2>7. z <= q
    BY <2>4, <2>6
  <2>8. q = z
    BY <2>4, <2>5, <2>6, <2>7
  <2> QED BY <2>3, <2>5, <2>8
<1> QED BY <1>1, <1>2, <1>3

(* The list holds every free block, no other, in address order, linked     *)
(* both ways, and no two free blocks touch.                                *)
THEOREM FreeListIsExact == Spec => []FreeListExact
<1>1. TraceInv => FreeListExact
  <2> SUFFICES ASSUME TraceInv PROVE FreeListExact
    OBVIOUS
  <2>1. PICK F : F = FreeBlocks
    OBVIOUS
  <2>2. Tiled(mem, brk, Walk(mem)) /\ Linked(mem, F) /\ Apart(mem, F)
    BY <2>1, FreeBlocksAre, ClientFacts DEF TraceInv, Heap
  <2>3. F \in SUBSET Nat /\ 0 \notin F
    <3>1. \A x \in Walk(mem) : x \in Nat /\ x >= 4
      BY <2>2, TiledFacts
    <3> QED BY <3>1, <2>1 DEF FreeBlocks
  <2>4. NoFreeNeighbours
    BY <2>1, <2>2 DEF NoFreeNeighbours, Apart
  <2>5. ASSUME NEW p \in F \cup {starter}
        PROVE  /\ {x \in F : x > p} = {} => GET_SUCC(mem, p) = 0
               /\ {x \in F : x > p} # {} =>
                    /\ GET_SUCC(mem, p) = Min({x \in F : x > p})
                    /\ GET_PREV(mem, Min({x \in F : x > p})) = p
    <3>1. p \in Nat
      BY <2>3 DEF starter
    <3>2. PICK q : q = GET_SUCC(mem, p)
      OBVIOUS
    <3>3. IsNext(F, p, q) /\ (q # 0 => GET_PREV(mem, q) = p)
      BY <2>2, <3>2 DEF Linked
    <3>4. /\ {x \in F : x > p} = {} => q = 0
          /\ {x \in F : x > p} # {} => q = Min({x \in F : x > p}) /\ q # 0
      BY <2>3, <3>1, <3>3, NextIsMin
    <3> QED BY <3>2, <3>3, <3>4
  <2> QED BY <2>1, <2>4, <2>5 DEF FreeListExact
<1> QED BY <1>1, TraceHolds, PTL

(* Every block of the client, and no other, is allocated, and has room for *)
(* its request.                                                            *)
THEOREM HeldBlocksAreAllocated == Spec => []HeldAreAllocated
<1>1. TraceInv => HeldAreAllocated
  <2> SUFFICES ASSUME TraceInv PROVE HeldAreAllocated
    OBVIOUS
  <2>1. PICK W : W = Walk(mem)
    OBVIOUS
  <2>2. Client(mem, brk, W, blocks)
    BY <2>1 DEF TraceInv
  <2>3. /\ Tiled(mem, brk, W) /\ Payloads(mem, blocks)
        /\ HeldIn(mem, W) = With(Ptrs(blocks), heap_listp)
        /\ heap_listp \notin Ptrs(blocks)
    BY <2>2, ClientFacts
  <2>4. HeldIn(mem, W) = W \ FreeIn(mem, W)
    BY <2>3, FreeFacts
  <2>5. {blocks[i].ptr : i \in Held} = Walk(mem) \ (FreeBlocks \cup {heap_listp})
    BY <2>1, <2>3, <2>4, HeldIsUsed, FreeBlocksAre DEF Ptrs, With
  <2>6. \A i, k \in Held : blocks[i].ptr = blocks[k].ptr => i = k
    BY <2>3, HeldIsUsed DEF Payloads
  <2>7. \A i \in Held : blocks[i].size <= 4 * (BlockSize(blocks[i].ptr) - 2)
    BY <2>3, HeldIsUsed, FreeBlocksAre DEF Payloads
  <2> QED BY <2>5, <2>6, <2>7 DEF HeldAreAllocated
<1> QED BY <1>1, TraceHolds, PTL

(* No call of the allocator changes what the client has written.           *)
THEOREM PayloadsAreKept == Spec => []DataKept
<1>1. TraceInv => DataKept
  <2> SUFFICES ASSUME TraceInv PROVE DataKept
    OBVIOUS
  <2>1. Payloads(mem, blocks)
    BY ClientFacts DEF TraceInv
  <2> QED BY <2>1, HeldIsUsed DEF DataKept, Payloads
<1> QED BY <1>1, TraceHolds, PTL

(* The driver's own tests of an address never fail on this allocator.      *)
THEOREM DriverAcceptsAllocator == Spec => []DriverAccepts
<1>1. TraceInv => DriverAccepts
  BY DEF TraceInv, DriverAccepts
<1> QED BY <1>1, TraceHolds, PTL

(* The driver's list of ranges is that of the blocks of the trace.         *)
THEOREM RangesFollowBlocks == Spec => []RangesAreHeld
<1>1. TraceInv => RangesAreHeld
  <2> SUFFICES ASSUME TraceInv PROVE RangesAreHeld
    OBVIOUS
  <2>1. Matches(ranges, blocks)
    BY DEF TraceInv
  <2>2. Len(ranges) = Cardinality(Held) /\ DOMAIN ranges = 1 .. Len(ranges)
    BY <2>1, HeldIsUsed DEF Matches
  <2>3. ASSUME NEW i \in Held
        PROVE  \E k \in DOMAIN ranges : /\ ranges[k].lo = 4 * blocks[i].ptr
                                        /\ ranges[k].hi = 4 * blocks[i].ptr + blocks[i].size - 1
    <3>1. PICK k \in 1 .. Len(ranges) : ranges[k] = RangeOf(blocks[i])
      BY <2>1, HeldIsUsed DEF Matches
    <3>2. /\ ranges[k].lo = 4 * blocks[i].ptr
          /\ ranges[k].hi = 4 * blocks[i].ptr + blocks[i].size - 1
      BY <3>1 DEF RangeOf
    <3> QED BY <2>2, <3>2
  <2> QED BY <2>2, <2>3 DEF RangesAreHeld
<1> QED BY <1>1, TraceHolds, PTL

(* An element that is below all others is the least one.                   *)
LEMMA MinIs ==
  ASSUME NEW S \in SUBSET Nat, NEW x \in S, \A y \in S : x <= y
  PROVE  x = Min(S)
<1>1. Min(S) \in S /\ \A y \in S : Min(S) <= y
  BY MinOfNats
<1>2. PICK z : z = Min(S)
  OBVIOUS
<1>3. z \in Nat /\ x \in Nat /\ z <= x /\ x <= z
  BY <1>1, <1>2
<1>4. x = z
  BY <1>3
<1> QED BY <1>2, <1>4

(* An allocation uses one more index at most.                              *)
LEMMA StaysUsed ==
  ASSUME TraceInv, NEW i, NEW x, NEW size, blocks' = Give(blocks, i, x, size)
  PROVE  /\ Free \ Free' \subseteq {i}
         /\ i \in Indices => blocks'[i].ptr = x /\ blocks'[i].size = size
<1>1. Payloads(mem, blocks)
  BY ClientFacts DEF TraceInv
<1>2. DOMAIN blocks = Indices
  BY <1>1 DEF Payloads
<1>3. \A k \in Indices : k # i => blocks'[k] = blocks[k]
  BY <1>2 DEF Give
<1>4. i \in Indices => blocks'[i] = [ptr |-> x, size |-> size]
  BY <1>2 DEF Give
<1> QED BY <1>3, <1>4 DEF Free

(* mm_malloc takes the first block in address order that is large enough   *)
(* and extends the heap only when there is none.                           *)
THEOREM SearchIsFirstFit == Spec => FirstFit
<1> DEFINE Chosen == \A i \in Free \ Free' :
             LET fits == {bp \in FreeBlocks : BlockSize(bp) >= Adjusted(blocks'[i].size)}
             IN  IF fits = {} THEN brk' > brk
                 ELSE blocks'[i].ptr = Min(fits) /\ brk' = brk
<1>1. TraceInv /\ Next => Chosen
  <2> SUFFICES ASSUME TraceInv, Next
               PROVE  Chosen
    OBVIOUS
  <2>1. ASSUME NEW size \in Sizes, Free # {}, Alloc(Min(Free), size)
        PROVE  Chosen
    <3>1. PICK i : i = Min(Free)
      OBVIOUS
    <3>2. i \in Indices
      BY <2>1, <3>1, FreeLeast, HeldIsUsed
    <3>3. PICK F : F = FreeIn(mem, Walk(mem))
      OBVIOUS
    <3>4. CASE UNCHANGED <<mem, brk, ranges, blocks>>
      <4>1. Free' = Free
        BY <3>4 DEF Free
      <4> QED BY <4>1
    <3>5. CASE \E x : /\ blocks' = Give(blocks, i, x, size)
                      /\ \/ /\ \A y \in F : ~(SizeOf(mem, y) >= Adjusted(size))
                            /\ brk' > brk
                         \/ /\ x \in F /\ SizeOf(mem, x) >= Adjusted(size)
                            /\ \A y \in F : SizeOf(mem, y) >= Adjusted(size) => x <= y
                            /\ brk' = brk
      <4>1. PICK x : /\ blocks' = Give(blocks, i, x, size)
                     /\ \/ /\ \A y \in F : ~(SizeOf(mem, y) >= Adjusted(size))
                           /\ brk' > brk
                        \/ /\ x \in F /\ SizeOf(mem, x) >= Adjusted(size)
                           /\ \A y \in F : SizeOf(mem, y) >= Adjusted(size) => x <= y
                           /\ brk' = brk
        BY <3>5
      <4>2. Free \ Free' \subseteq {i} /\ blocks'[i].ptr = x /\ blocks'[i].size = size
        BY <3>2, <4>1, StaysUsed
      <4>3. PICK S : S = {bp \in FreeBlocks : BlockSize(bp) >= Adjusted(size)}
        OBVIOUS
      <4>4. \A y : y \in S <=> y \in F /\ SizeOf(mem, y) >= Adjusted(size)
        BY <3>3, <4>3, FreeBlocksAre
      <4>5. S \in SUBSET Nat
        <5>1. Tiled(mem, brk, Walk(mem))
          BY ClientFacts DEF TraceInv
        <5>2. Walk(mem) \in SUBSET Nat
          BY <5>1, TiledFacts
        <5> QED BY <5>2, <3>3, <4>4 DEF FreeIn
      <4>6. IF S = {} THEN brk' > brk ELSE x = Min(S) /\ brk' = brk
        <5>1. CASE (\A y \in F : ~(SizeOf(mem, y) >= Adjusted(size))) /\ brk' > brk
          BY <5>1, <4>4
        <5>2. CASE /\ x \in F /\ SizeOf(mem, x) >= Adjusted(size)
                   /\ \A y \in F : SizeOf(mem, y) >= Adjusted(size) => x <= y
                   /\ brk' = brk
          <6>1. x \in S /\ \A y \in S : x <= y
            BY <5>2, <4>4
          <6>2. x = Min(S)
            BY <6>1, <4>5, MinIs
          <6> QED BY <6>1, <6>2, <5>2
        <5> QED BY <5>1, <5>2, <4>1
      <4> QED BY <4>2, <4>3, <4>6
    <3> HIDE DEF Chosen
    <3>6. Alloc(i, size)
      BY <2>1, <3>1
    <3> QED BY <3>3, <3>4, <3>5, <3>6, AllocStep
  <2>2. ASSUME NEW i \in Indices, Dealloc(i)
        PROVE  Chosen
    <3>1. Payloads(mem, blocks) /\ blocks' = Drop(blocks, i)
      BY <2>2, DeallocStep, ClientFacts DEF TraceInv
    <3>2. DOMAIN blocks = Indices
      BY <3>1 DEF Payloads
    <3>3. Free \ Free' = {}
      BY <3>1, <3>2 DEF Free, Drop
    <3> QED BY <3>3
  <2>3. ASSUME NEW i \in Indices, NEW size \in Sizes, Realloc(i, size)
        PROVE  Chosen
    <3>1. i \in Used(blocks)
      BY <2>3, ReallocStep
    <3>2. i \notin Free
      BY <3>1, HeldIsUsed
    <3>3. CASE UNCHANGED <<mem, brk, ranges, blocks>>
      <4>1. Free' = Free
        BY <3>3 DEF Free
      <4> QED BY <4>1
    <3>4. CASE \E x : blocks' = Give(blocks, i, x, size)
      <4>1. PICK x : blocks' = Give(blocks, i, x, size)
        BY <3>4
      <4>1a. Free \ Free' \subseteq {i}
        BY <4>1, StaysUsed
      <4>2. Free \ Free' = {}
        BY <3>2, <4>1a
      <4> QED BY <4>2
    <3> HIDE DEF Chosen
    <3> QED BY <2>3, <3>3, <3>4, ReallocStep
  <2>4. CASE NewTrace
    <3>1. Free' = Indices
      BY <2>4 DEF NewTrace, Free
    <3>2. Free \ Free' = {}
      BY <3>1 DEF Free
    <3> QED BY <3>2
  <2> HIDE DEF Chosen
  <2> QED BY <2>1, <2>2, <2>3, <2>4 DEF Next
<1>2. TraceInv /\ [Next]_vars => [Chosen]_vars
  BY <1>1
<1>3. [][Chosen]_vars => FirstFit
  BY PTL DEF FirstFit
<1> HIDE DEF Chosen
<1> QED BY <1>2, <1>3, TraceInit, TraceStep, PTL DEF Spec

-----------------------------------------------------------------------------
\* The clock and the sampler.

(* Division by the number of values of a word.                             *)
LEMMA WordDivision ==
  ASSUME NEW n \in Int
  PROVE  /\ n \div WORD \in Int /\ n % WORD \in 0 .. WORD - 1
         /\ n = WORD * (n \div WORD) + (n % WORD)
BY ClockAssumption, SMTT(30)

LEMMA WordRest ==
  ASSUME NEW q \in Int, NEW r \in 0 .. WORD - 1
  PROVE  (WORD * q + r) % WORD = r
BY ClockAssumption, SMTT(30)

(* The difference of two readings of the counter, taken word by word with  *)
(* a borrow, is the time between them unless it wraps as a whole.          *)
LEMMA CounterDifference ==
  ASSUME NEW s \in Nat, NEW d \in Nat, d < WORD * WORD
  PROVE  get_counter(access_counter(s), access_counter(s + d)) = d
<1> DEFINE t == s + d
           qs == s \div WORD
           qt == t \div WORD
           rs == s % WORD
           rt == t % WORD
           lo == (rt - rs) % WORD
           borrow == IF lo > rt THEN 1 ELSE 0
           words == qt - qs - borrow
<1>1. WORD \in Nat \ {0}
  BY ClockAssumption
<1>2. /\ qs \in Int /\ qt \in Int
      /\ rs \in 0 .. WORD - 1 /\ rt \in 0 .. WORD - 1
      /\ s = WORD * qs + rs /\ t = WORD * qt + rt
  BY WordDivision
<1>3. get_counter(access_counter(s), access_counter(t)) =
        (((qt % WORD) - (qs % WORD) - borrow) % WORD) * WORD + lo
  BY DEF get_counter, access_counter
<1> HIDE DEF qs, qt, rs, rt
<1>4. borrow = (IF rt < rs THEN 1 ELSE 0) /\ lo = rt - rs + borrow * WORD
  <2>1. CASE rt < rs
    <3>1. rt - rs = WORD * (-1) + (rt - rs + WORD) /\ rt - rs + WORD \in 0 .. WORD - 1
      BY <1>1, <1>2, <2>1
    <3>2. lo = rt - rs + WORD
      BY <3>1, WordRest
    <3> QED BY <1>1, <1>2, <2>1, <3>2
  <2>2. CASE ~(rt < rs)
    <3>1. rt - rs = WORD * 0 + (rt - rs) /\ rt - rs \in 0 .. WORD - 1
      BY <1>1, <1>2, <2>2
    <3>2. lo = rt - rs
      BY <3>1, WordRest
    <3> QED BY <1>1, <1>2, <2>2, <3>2
  <2> QED BY <2>1, <2>2
<1>5. borrow \in {0, 1} /\ lo \in 0 .. WORD - 1
  BY <1>1, <1>2, <1>4
<1> HIDE DEF lo, borrow
<1>6. d = WORD * words + lo
  <2>1. d = WORD * qt - WORD * qs + rt - rs
    BY <1>1, <1>2
  <2>2. WORD * words = WORD * qt - WORD * qs - WORD * borrow
    BY <1>1, <1>2, <1>5
  <2> QED BY <1>1, <1>2, <1>4, <1>5, <2>1, <2>2
<1>7. words \in 0 .. WORD - 1
  BY <1>1, <1>2, <1>5, <1>6
<1>8. ((qt % WORD) - (qs % WORD) - borrow) % WORD = words
  <2> DEFINE a == qt \div WORD
             b == qs \div WORD
  <2>1. /\ a \in Int /\ b \in Int
        /\ qt = WORD * a + (qt % WORD) /\ qs = WORD * b + (qs % WORD)
        /\ qt % WORD \in Int /\ qs % WORD \in Int
    BY <1>1, <1>2, WordDivision
  <2> DEFINE ht == qt % WORD
             hs == qs % WORD
  <2> HIDE DEF a, b, ht, hs
  <2>2. ht - hs - borrow = WORD * (b - a) + words
    <3>1. /\ qt = WORD * a + ht /\ qs = WORD * b + hs
          /\ a \in Int /\ b \in Int /\ ht \in Int /\ hs \in Int
      BY <2>1 DEF a, b, ht, hs
    <3>2. WORD * (b - a) = WORD * b - WORD * a
      BY <1>1, <3>1
    <3> QED BY <1>1, <1>2, <1>5, <3>1, <3>2
  <2>3. b - a \in Int
    BY <2>1
  <2> HIDE DEF words
  <2> QED BY <1>7, <2>2, <2>3, WordRest DEF ht, hs
<1> HIDE DEF words
<1>9. words * WORD + lo = d
  BY <1>1, <1>5, <1>6, <1>7
<1> QED BY <1>3, <1>8, <1>9
-----------------------------------------------------------------------------
Sorted(list) == \A p, q \in 1 .. Len(list) : p <= q => list[p] <= list[q]

\* m values of a sorted list are within a bound: the first m.
Prefix(list, bound, m) ==
  /\ m \in 0 .. Len(list)
  /\ \A p \in 1 .. Len(list) : list[p] <= bound <=> p <= m

LEMMA PrefixExists ==
  ASSUME NEW list \in Seq(Int), Sorted(list), NEW bound \in Int
  PROVE  \E m \in 0 .. Len(list) : Prefix(list, bound, m)
<1> DEFINE n == Len(list)
           S == {p \in 1 .. n + 1 : p = n + 1 \/ list[p] > bound}
<1>1. n \in Nat /\ \A p \in 1 .. n : list[p] \in Int
  OBVIOUS
<1>2. n + 1 \in S /\ S \in SUBSET Nat
  BY <1>1
<1> HIDE DEF S
<1>3. PICK k \in S : \A p \in S : k <= p
  BY <1>2, LeastNat
<1>4. k \in 1 .. n + 1
  BY <1>3 DEF S
<1>5. \A p \in 1 .. n : p < k => list[p] <= bound
  BY <1>1, <1>3, <1>4 DEF S
<1>6. \A p \in 1 .. n : p >= k => list[p] > bound
  <2> SUFFICES ASSUME NEW p \in 1 .. n, p >= k PROVE list[p] > bound
    OBVIOUS
  <2>1. k \in 1 .. n /\ list[k] > bound
    BY <1>1, <1>3, <1>4 DEF S
  <2>2. list[k] <= list[p]
    BY <2>1 DEF Sorted
  <2> QED BY <1>1, <2>1, <2>2
<1>7. k - 1 \in 0 .. n
  BY <1>1, <1>4
<1>8. \A p \in 1 .. n : list[p] <= bound <=> p <= k - 1
  BY <1>1, <1>4, <1>5, <1>6
<1>9. Prefix(list, bound, k - 1)
  BY <1>7, <1>8 DEF Prefix
<1> QED BY <1>7, <1>9

LEMMA PrefixCounts ==
  ASSUME NEW list \in Seq(Int), NEW bound \in Int, NEW m, Prefix(list, bound, m)
  PROVE  AtMost(list, bound) = m
<1>1. m \in Nat /\ m <= Len(list) /\ DOMAIN list = 1 .. Len(list)
  BY DEF Prefix
<1>2. {p \in DOMAIN list : list[p] <= bound} = 1 .. m
  BY <1>1 DEF Prefix
<1>3. Cardinality(1 .. m) = m
  BY <1>1, FS_Interval
<1> QED BY <1>2, <1>3 DEF AtMost

(* Insertion keeps the list sorted and adds one value to it: of two lists  *)
(* with the same number of values within every bound one can say so.       *)
LEMMA InsertFacts ==
  ASSUME NEW list \in Seq(Int), Sorted(list), NEW val \in Int
  PROVE  LET new == InsertSorted(list, val)
         IN  /\ new \in Seq(Int) /\ Sorted(new)
             /\ Len(new) = Len(list) + 1
             /\ \A bound \in Int, m \in 0 .. Len(list) :
                  Prefix(list, bound, m) =>
                    Prefix(new, bound, IF val <= bound THEN m + 1 ELSE m)
<1> DEFINE n == Len(list)
           new == InsertSorted(list, val)
<1>1. n \in Nat /\ \A p \in 1 .. n : list[p] \in Int
  OBVIOUS
<1>2. PICK k \in 0 .. n : \A p \in 1 .. n : list[p] <= val <=> p <= k
  BY PrefixExists DEF Prefix
<1>3. new = [p \in 1 .. n + 1 |->
               IF p <= n /\ list[p] <= val THEN list[p]
               ELSE IF p = 1 \/ list[p - 1] <= val THEN val ELSE list[p - 1]]
  BY DEF InsertSorted
<1>4. \A p \in 1 .. n + 1 :
        new[p] = IF p <= k THEN list[p] ELSE IF p = k + 1 THEN val ELSE list[p - 1]
  <2> SUFFICES ASSUME NEW p \in 1 .. n + 1
               PROVE  new[p] = IF p <= k THEN list[p]
                               ELSE IF p = k + 1 THEN val ELSE list[p - 1]
    OBVIOUS
  <2>1. CASE p <= k
    BY <1>1, <1>2, <1>3, <2>1
  <2>2. CASE p = k + 1
    <3>1. ~(p <= n /\ list[p] <= val)
      BY <1>1, <1>2, <2>2
    <3>2. p = 1 \/ list[p - 1] <= val
      BY <1>1, <1>2, <2>2
    <3> QED BY <1>3, <2>2, <3>1, <3>2
  <2>3. CASE p > k + 1
    <3>1. p - 1 \in 1 .. n /\ ~(p - 1 <= k) /\ p # 1
      BY <1>1, <2>3
    <3>2. ~(list[p - 1] <= val) /\ ~(p <= n /\ list[p] <= val)
      BY <1>1, <1>2, <2>3, <3>1
    <3> QED BY <1>3, <2>3, <3>1, <3>2
  <2> QED BY <1>1, <1>2, <2>1, <2>2, <2>3
<1>5. new \in Seq(Int) /\ Len(new) = n + 1
  <2>1. \A p \in 1 .. n + 1 : new[p] \in Int
    BY <1>1, <1>2, <1>4
  <2>2. DOMAIN new = 1 .. n + 1 /\ n + 1 \in Nat
    BY <1>1, <1>3
  <2>3. new \in [1 .. n + 1 -> Int]
    BY <1>3, <2>1
  <2> QED BY <2>2, <2>3
<1> HIDE DEF new
<1>6. Sorted(new)
  <2> SUFFICES ASSUME NEW p \in 1 .. n + 1, NEW q \in 1 .. n + 1, p < q
               PROVE  new[p] <= new[q]
    BY <1>1, <1>2, <1>4, <1>5 DEF Sorted
  <2>1. CASE q <= k
    BY <1>1, <1>2, <1>4, <2>1 DEF Sorted
  <2>2. CASE q = k + 1
    BY <1>1, <1>2, <1>4, <2>2, SMTT(30)
  <2>3. CASE q > k + 1 /\ p <= k
    <3>1. p \in 1 .. n /\ q - 1 \in 1 .. n /\ p <= q - 1
      BY <1>1, <1>2, <2>3, SMTT(30)
    <3>2. list[p] <= list[q - 1]
      BY <3>1 DEF Sorted
    <3> QED BY <1>1, <1>2, <1>4, <2>3, <3>2
  <2>4. CASE q > k + 1 /\ p = k + 1
    <3>1. q - 1 \in 1 .. n /\ ~(q - 1 <= k)
      BY <1>1, <1>2, <2>4, SMTT(30)
    <3>2. list[q - 1] > val
      BY <1>1, <1>2, <3>1, SMTT(30)
    <3>3. new[p] = val /\ new[q] = list[q - 1]
      BY <1>1, <1>2, <1>4, <2>4, SMTT(30)
    <3>4. list[q - 1] \in Int
      BY <1>1, <3>1
    <3> QED BY <3>2, <3>3, <3>4
  <2>5. CASE p > k + 1
    <3>1. p - 1 \in 1 .. n /\ q - 1 \in 1 .. n /\ p - 1 <= q - 1
      BY <1>1, <1>2, <2>5, SMTT(30)
    <3>2. list[p - 1] <= list[q - 1]
      BY <3>1 DEF Sorted
    <3> QED BY <1>1, <1>2, <1>4, <2>5, <3>2
  <2> QED BY <1>1, <1>2, <2>1, <2>2, <2>3, <2>4, <2>5
<1>7. ASSUME NEW bound \in Int, NEW m \in 0 .. n, Prefix(list, bound, m)
      PROVE  Prefix(new, bound, IF val <= bound THEN m + 1 ELSE m)
  <2>1. \A p \in 1 .. n : list[p] <= bound <=> p <= m
    BY <1>7 DEF Prefix
  <2>2. CASE val <= bound
    <3>1. k <= m
      BY <1>1, <1>2, <2>1, <2>2, SMTT(30)
    <3>2. \A p \in 1 .. n + 1 : new[p] <= bound <=> p <= m + 1
      <4> SUFFICES ASSUME NEW p \in 1 .. n + 1
                   PROVE  new[p] <= bound <=> p <= m + 1
        OBVIOUS
      <4>1. CASE p <= k
        BY <1>1, <1>2, <1>4, <2>1, <3>1, <4>1, SMTT(30)
      <4>2. CASE p = k + 1
        BY <1>1, <1>2, <1>4, <2>2, <3>1, <4>2
      <4>3. CASE p > k + 1
        <5>1. p - 1 \in 1 .. n /\ new[p] = list[p - 1]
          BY <1>1, <1>2, <1>4, <4>3
        <5>2. list[p - 1] <= bound <=> p - 1 <= m
          BY <2>1, <5>1
        <5> QED BY <5>1, <5>2
      <4> QED BY <1>2, <4>1, <4>2, <4>3
    <3> QED BY <1>1, <1>5, <2>2, <3>2 DEF Prefix
  <2>3. CASE ~(val <= bound)
    <3>1. m <= k
      BY <1>1, <1>2, <2>1, <2>3
    <3>2. \A p \in 1 .. n + 1 : new[p] <= bound <=> p <= m
      <4> SUFFICES ASSUME NEW p \in 1 .. n + 1
                   PROVE  new[p] <= bound <=> p <= m
        OBVIOUS
      <4>1. CASE p <= k
        BY <1>1, <1>2, <1>4, <2>1, <3>1, <4>1
      <4>2. CASE p = k + 1
        BY <1>1, <1>2, <1>4, <2>3, <3>1, <4>2
      <4>3. CASE p > k + 1
        <5>1. p - 1 \in 1 .. n /\ new[p] = list[p - 1]
          BY <1>1, <1>2, <1>4, <4>3
        <5>2. ~(list[p - 1] <= bound)
          BY <1>2, <2>1, <3>1, <4>3, <5>1
        <5> QED BY <3>1, <4>3, <5>1, <5>2
      <4> QED BY <1>2, <4>1, <4>2, <4>3
    <3> QED BY <1>1, <1>5, <2>3, <3>2 DEF Prefix
  <2> QED BY <2>2, <2>3
<1>8. \A bound \in Int, m \in 0 .. n :
        Prefix(list, bound, m) => Prefix(new, bound, IF val <= bound THEN m + 1 ELSE m)
  BY <1>7
<1> QED BY <1>5, <1>6, <1>8, Zenon DEF new

AtMostK(n) == IF n <= K THEN n ELSE K

(* The head of a sorted list, one shorter.                                 *)
LEMMA HeadFacts ==
  ASSUME NEW list \in Seq(Int), Sorted(list), Len(list) = K
  PROVE  LET head == SubSeq(list, 1, K - 1)
         IN  /\ head \in Seq(Int) /\ Sorted(head) /\ Len(head) = K - 1
             /\ \A bound \in Int, m \in 0 .. K :
                  Prefix(list, bound, m) =>
                    Prefix(head, bound, IF m = K THEN K - 1 ELSE m)
<1> DEFINE head == SubSeq(list, 1, K - 1)
<1>1. K \in Nat \ {0} /\ \A p \in 1 .. K : list[p] \in Int
  BY SamplerAssumption
<1>2. head \in Seq(Int) /\ Len(head) = K - 1 /\ \A p \in 1 .. K - 1 : head[p] = list[p]
  BY <1>1
<1> HIDE DEF head
<1>3. Sorted(head)
  BY <1>1, <1>2 DEF Sorted
<1>4. \A bound \in Int, m \in 0 .. K :
        Prefix(list, bound, m) => Prefix(head, bound, IF m = K THEN K - 1 ELSE m)
  BY <1>1, <1>2 DEF Prefix
<1> QED BY <1>2, <1>3, <1>4, Zenon DEF head

(* add_sample keeps the K smallest: a bound that m of the values and the   *)
(* new sample keep within has m + 1 of the new values, but at most K.      *)
LEMMA AddSampleFacts ==
  ASSUME NEW list \in Seq(Int), Sorted(list), Len(list) <= K, NEW val \in Int
  PROVE  LET new == add_sample(list, val)
         IN  /\ new \in Seq(Int) /\ Sorted(new)
             /\ Len(new) = AtMostK(Len(list) + 1)
             /\ \A bound \in Int :
                  AtMost(new, bound) =
                    AtMostK(AtMost(list, bound) + IF val <= bound THEN 1 ELSE 0)
<1> DEFINE new == add_sample(list, val)
           StillBest(m, bound) ==
             Prefix(new, bound, AtMostK(m + IF val <= bound THEN 1 ELSE 0))
<1>1. K \in Nat \ {0} /\ Len(list) \in Nat /\ \A p \in 1 .. Len(list) : list[p] \in Int
  BY SamplerAssumption
<1>2. /\ new \in Seq(Int) /\ Sorted(new)
      /\ Len(new) = AtMostK(Len(list) + 1)
      /\ \A bound \in Int, m \in 0 .. Len(list) :
           Prefix(list, bound, m) => StillBest(m, bound)
  <2>1. CASE Len(list) < K
    <3>1. new = InsertSorted(list, val)
      BY <2>1 DEF add_sample
    <3>2. AtMostK(Len(list) + 1) = Len(list) + 1
      BY <1>1, <2>1 DEF AtMostK
    <3>3. \A bound \in Int, m \in 0 .. Len(list) :
            AtMostK(m + IF val <= bound THEN 1 ELSE 0) =
              IF val <= bound THEN m + 1 ELSE m
      BY <1>1, <2>1 DEF AtMostK
    <3> HIDE DEF new
    <3>4. /\ new \in Seq(Int) /\ Sorted(new) /\ Len(new) = Len(list) + 1
          /\ \A bound \in Int, m \in 0 .. Len(list) :
               Prefix(list, bound, m) =>
                 Prefix(new, bound, IF val <= bound THEN m + 1 ELSE m)
      BY <3>1, InsertFacts
    <3>5. ASSUME NEW bound \in Int, NEW m \in 0 .. Len(list), Prefix(list, bound, m)
          PROVE  StillBest(m, bound)
      BY <3>3, <3>4, <3>5
    <3> QED BY <3>2, <3>4, <3>5
  <2>2. CASE Len(list) = K /\ val < list[K]
    <3> DEFINE head == SubSeq(list, 1, K - 1)
    <3>1. new = InsertSorted(head, val)
      BY <1>1, <2>2 DEF add_sample
    <3>2. /\ head \in Seq(Int) /\ Sorted(head) /\ Len(head) = K - 1
          /\ \A bound \in Int, m \in 0 .. K :
               Prefix(list, bound, m) =>
                 Prefix(head, bound, IF m = K THEN K - 1 ELSE m)
      BY <2>2, HeadFacts
    <3> HIDE DEF head, new
    <3>3. /\ new \in Seq(Int) /\ Sorted(new) /\ Len(new) = K
          /\ \A bound \in Int, m \in 0 .. K - 1 :
               Prefix(head, bound, m) =>
                 Prefix(new, bound, IF val <= bound THEN m + 1 ELSE m)
      <4>1. /\ new \in Seq(Int) /\ Sorted(new) /\ Len(new) = Len(head) + 1
            /\ \A bound \in Int, m \in 0 .. Len(head) :
                 Prefix(head, bound, m) =>
                   Prefix(new, bound, IF val <= bound THEN m + 1 ELSE m)
        BY <3>1, <3>2, InsertFacts
      <4>2. Len(head) = K - 1 /\ Len(head) + 1 = K
        BY <1>1, <3>2
      <4> QED BY <4>1, <4>2
    <3>4. AtMostK(Len(list) + 1) = K
      BY <1>1, <2>2 DEF AtMostK
    <3>5. ASSUME NEW bound \in Int, NEW m \in 0 .. K, Prefix(list, bound, m)
          PROVE  StillBest(m, bound)
      <4> DEFINE l == IF m = K THEN K - 1 ELSE m
      <4>1. l \in 0 .. K - 1 /\ Prefix(head, bound, l)
        BY <1>1, <3>2, <3>5
      <4>2. Prefix(new, bound, IF val <= bound THEN l + 1 ELSE l)
        BY <3>3, <4>1
      <4>3. ~(val <= bound) => m # K
        BY <1>1, <2>2, <3>5 DEF Prefix
      <4>4. AtMostK(m + IF val <= bound THEN 1 ELSE 0) = IF val <= bound THEN l + 1 ELSE l
        BY <1>1, <4>3 DEF AtMostK
      <4> HIDE DEF l
      <4> QED BY <4>2, <4>4
    <3>6. \A bound \in Int, m \in 0 .. K : Prefix(list, bound, m) => StillBest(m, bound)
      BY <3>5
    <3> HIDE DEF StillBest
    <3> QED BY <2>2, <3>3, <3>4, <3>6
  <2>3. CASE Len(list) = K /\ ~(val < list[K])
    <3>1. new = list
      BY <1>1, <2>3 DEF add_sample
    <3> HIDE DEF new
    <3>2. AtMostK(Len(list) + 1) = K
      BY <1>1, <2>3 DEF AtMostK
    <3>3. ASSUME NEW bound \in Int, NEW m \in 0 .. K, Prefix(list, bound, m)
          PROVE  StillBest(m, bound)
      <4>1. val <= bound => m = K
        BY <1>1, <2>3, <3>3 DEF Prefix
      <4>2. AtMostK(m + IF val <= bound THEN 1 ELSE 0) = m
        BY <1>1, <4>1 DEF AtMostK
      <4> QED BY <3>1, <3>3, <4>2
    <3> QED BY <2>3, <3>1, <3>2, <3>3
  <2> QED BY <1>1, <2>1, <2>2, <2>3
<1> HIDE DEF new
<1>3. ASSUME NEW bound \in Int
      PROVE  AtMost(new, bound) =
               AtMostK(AtMost(list, bound) + IF val <= bound THEN 1 ELSE 0)
  <2>1. PICK m \in 0 .. Len(list) : Prefix(list, bound, m)
    BY PrefixExists
  <2>2. AtMost(list, bound) = m
    BY <2>1, PrefixCounts
  <2>3. StillBest(m, bound)
    BY <1>2, <2>1
  <2> QED BY <1>2, <2>2, <2>3, PrefixCounts
<1>4. \A bound \in Int :
        AtMost(new, bound) =
          AtMostK(AtMost(list, bound) + IF val <= bound THEN 1 ELSE 0)
  BY <1>3
<1> QED BY <1>2, <1>4, Zenon DEF new

(* One more sample is one more within each bound that it is within.        *)
LEMMA AppendCounts ==
  ASSUME NEW list \in Seq(Int), NEW val \in Int, NEW bound \in Int
  PROVE  /\ AtMost(list, bound) \in Nat
         /\ AtMost(Append(list, val), bound) =
              AtMost(list, bound) + IF val <= bound THEN 1 ELSE 0
<1> DEFINE n == Len(list)
           S == {p \in DOMAIN list : list[p] <= bound}
           new == Append(list, val)
           T == {p \in DOMAIN new : new[p] <= bound}
<1>1. n \in Nat /\ DOMAIN list = 1 .. n /\ DOMAIN new = 1 .. n + 1
  OBVIOUS
<1>2. new[n + 1] = val /\ \A p \in 1 .. n : new[p] = list[p]
  OBVIOUS
<1>3. IsFiniteSet(S) /\ Cardinality(S) \in Nat
  <2>1. IsFiniteSet(1 .. n)
    BY <1>1, FS_Interval
  <2>2. S \subseteq 1 .. n
    BY <1>1
  <2> HIDE DEF S
  <2> QED BY <2>1, <2>2, FS_Subset, FS_CardinalityType
<1>4. T = IF val <= bound THEN S \cup {n + 1} ELSE S
  BY <1>1, <1>2
<1>5. n + 1 \notin S
  BY <1>1
<1> HIDE DEF S, T
<1>6. Cardinality(T) = Cardinality(S) + IF val <= bound THEN 1 ELSE 0
  <2>1. CASE val <= bound
    BY <1>3, <1>4, <1>5, <2>1, FS_AddElement
  <2>2. CASE ~(val <= bound)
    BY <1>3, <1>4, <2>2
  <2> QED BY <2>1, <2>2
<1> QED BY <1>3, <1>6 DEF AtMost, S, T
-----------------------------------------------------------------------------
ClockTypes ==
  /\ stage \in {"idle", "start", "callibrate", "timed", "stop", "done"}
  /\ compensate \in BOOLEAN
  /\ clock \in Nat /\ ticks \in Nat /\ start_tick \in Nat
  /\ cyc \in [hi : 0 .. WORD - 1, lo : 0 .. WORD - 1]
  /\ e \in 0 .. NEVENT /\ cyc_per_tick \in Nat
  /\ spent \in Nat \X Nat \X Nat

\* What callibrate has found is a tick and less than THRESHOLD more, and the call
\* being timed began when the counter was read.
TimingOK ==
  /\ ClockTypes
  /\ stage = "callibrate" => e < NEVENT
  /\ cyc_per_tick # 0 => cyc_per_tick \in TICK .. TICK + THRESHOLD
  /\ stage = "stop" =>
       LET took == spent[1] + spent[2] * TICK
       IN  /\ took < WORD * WORD /\ took <= clock
           /\ cyc = access_counter(clock - took)
           /\ ticks = start_tick + spent[3] + spent[2]

LEMMA CounterTypes ==
  ASSUME NEW t \in Nat
  PROVE  access_counter(t) \in [hi : 0 .. WORD - 1, lo : 0 .. WORD - 1]
<1>1. t \div WORD \in Int /\ t % WORD \in 0 .. WORD - 1
  BY WordDivision
<1>2. (t \div WORD) % WORD \in 0 .. WORD - 1
  BY <1>1, WordDivision
<1> QED BY <1>1, <1>2 DEF access_counter

LEMMA TimingStep == TimingOK /\ [Measure]_fcyc_vars => TimingOK'
<1> SUFFICES ASSUME TimingOK, [Measure]_fcyc_vars PROVE TimingOK'
  OBVIOUS
<1> USE DEF TimingOK, ClockTypes
<1>1. ASSUME NEW t \in Starts, Begin(t) PROVE TimingOK'
  BY <1>1, ClockAssumption DEF Begin
<1>2. CASE StartCallibrate
  BY <1>2, ClockAssumption DEF StartCallibrate
<1>3. ASSUME NEW slack \in 0 .. THRESHOLD, NEW inside \in BOOLEAN,
             CallibrateEvent(slack, inside)
      PROVE  TimingOK'
  <2> DEFINE gap == IF inside THEN slack + TICK ELSE slack
  <2>1. cyc_per_tick' = cyc_per_tick \/ (cyc_per_tick' = gap /\ gap > RECORDTHRESH)
    BY <1>3 DEF CallibrateEvent, Recorded
  <2>2. cyc_per_tick' = cyc_per_tick \/ cyc_per_tick' \in TICK .. TICK + THRESHOLD
    BY <2>1, ClockAssumption
  <2>3. /\ clock' = clock + slack + TICK /\ ticks' = ticks + 1 /\ e' = e + 1
        /\ stage' = IF e + 1 < NEVENT THEN "callibrate" ELSE "timed"
        /\ stage = "callibrate" /\ UNCHANGED <<compensate, cyc, start_tick, spent>>
    BY <1>3 DEF CallibrateEvent
  <2>4. slack + TICK \in Nat /\ cyc_per_tick' \in Nat
    BY <2>2, ClockAssumption
  <2> QED BY <2>2, <2>3, <2>4, ClockAssumption
<1>4. ASSUME NEW cycles \in Durations, NEW n \in 0 .. MaxTicks, NEW early \in Between,
             Call(cycles, n, early)
      PROVE  TimingOK'
  <2> DEFINE took == cycles + n * TICK
             began == clock + early * TICK
  <2>1. took \in Nat /\ took < WORD * WORD
    <3>1. n * TICK <= MaxTicks * TICK /\ n * TICK \in Nat
      BY ClockAssumption
    <3> QED BY <3>1, CallAssumption, ClockAssumption
  <2>2. early \in Nat /\ began \in Nat
    <3>1. early \in Nat
      BY ClockAssumption DEF Between
    <3>2. early * TICK \in Nat
      BY <3>1, ClockAssumption
    <3> QED BY <3>1, <3>2
  <2>3. /\ stage' = "stop" /\ start_tick' = ticks /\ cyc' = access_counter(began)
        /\ clock' = began + cycles + n * TICK /\ ticks' = ticks + early + n
        /\ spent' = <<cycles, n, early>> /\ UNCHANGED <<compensate, e, cyc_per_tick>>
    BY <1>4 DEF Call
  <2>4. cycles \in Nat /\ n \in Nat /\ n * TICK \in Nat
    BY ClockAssumption
  <2>5. spent' \in Nat \X Nat \X Nat /\ spent'[1] + spent'[2] * TICK = took
        /\ spent'[2] = n /\ spent'[3] = early
    BY <2>2, <2>3, <2>4
  <2> HIDE DEF began
  <2>6. access_counter(began) \in [hi : 0 .. WORD - 1, lo : 0 .. WORD - 1]
    BY <2>2, CounterTypes
  <2>7. clock' = began + took /\ clock' - took = began
    BY <2>2, <2>3, <2>4
  <2> HIDE DEF took
  <2>8. ClockTypes'
    BY <2>1, <2>2, <2>3, <2>4, <2>5, <2>6, <2>7, ClockAssumption
  <2>9. /\ took < WORD * WORD /\ took <= clock' /\ cyc' = access_counter(clock' - took)
        /\ ticks' = start_tick' + early + n
    BY <2>1, <2>2, <2>3, <2>7
  <2> QED BY <2>3, <2>5, <2>8, <2>9
<1>5. ASSUME NEW late \in Between, Add(late) PROVE TimingOK'
  <2>1. late \in Nat
    BY ClockAssumption DEF Between
  <2>2. late * TICK \in Nat
    BY <2>1, ClockAssumption
  <2>3. clock' = clock + late * TICK /\ ticks' = ticks + late
    BY <1>5 DEF Add
  <2>4. clock' \in Nat /\ ticks' \in Nat
    BY <2>1, <2>2, <2>3
  <2> QED BY <1>5, <2>4 DEF Add
<1>6. CASE Return
  <2>1. access_counter(0) \in [hi : 0 .. WORD - 1, lo : 0 .. WORD - 1]
    BY CounterTypes
  <2> QED BY <1>6, <2>1, ClockAssumption DEF Return
<1>7. CASE UNCHANGED fcyc_vars
  BY <1>7 DEF fcyc_vars
<1> QED BY <1>1, <1>2, <1>3, <1>4, <1>5, <1>6, <1>7 DEF Measure

LEMMA TimingMeans == TimingOK => TimesAreRight
<1> SUFFICES ASSUME TimingOK, stage = "stop"
             PROVE  /\ get_counter(cyc, access_counter(clock)) = spent[1] + spent[2] * TICK
                    /\ compensate /\ cyc_per_tick > 0 =>
                         \A late \in 0 .. MaxTicks :
                           /\ Measured(late) <= spent[1]
                           /\ Measured(late) >= spent[1] - spent[2] * THRESHOLD
                                                - (spent[3] + late) * (TICK + THRESHOLD)
  BY DEF TimesAreRight
<1> USE DEF TimingOK, ClockTypes
<1> DEFINE c == spent[1]
           n == spent[2]
           took == c + n * TICK
<1>1. /\ c \in Nat /\ n \in Nat /\ spent[3] \in Nat
      /\ TICK \in Nat /\ THRESHOLD \in Nat /\ n * TICK \in Nat
  BY ClockAssumption
<1>2. /\ took \in Nat /\ took < WORD * WORD /\ took <= clock
      /\ cyc = access_counter(clock - took) /\ ticks = start_tick + spent[3] + n
  BY <1>1
<1> HIDE DEF c, n
<1>3. get_counter(cyc, access_counter(clock)) = took
  <2>1. clock - took \in Nat /\ clock = (clock - took) + took
    BY <1>1, <1>2
  <2> HIDE DEF took
  <2> QED BY <1>2, <2>1, CounterDifference
<1>4. ASSUME compensate, cyc_per_tick > 0, NEW late \in 0 .. MaxTicks
      PROVE  /\ Measured(late) <= c
             /\ Measured(late) >= c - n * THRESHOLD - (spent[3] + late) * (TICK + THRESHOLD)
  <2> DEFINE more == cyc_per_tick - TICK
             out == spent[3] + late
  <2>1. more \in 0 .. THRESHOLD /\ cyc_per_tick = TICK + more
    BY <1>1, <1>4
  <2>2. Measured(late) = took - (ticks + late - start_tick) * cyc_per_tick
    BY <1>3, <1>4, Zenon DEF Measured
  <2>3. ticks + late - start_tick = n + out /\ out \in Nat
    BY <1>1, <1>2, ClockAssumption
  <2> HIDE DEF more, out
  <2>4. Measured(late) = (c + n * TICK) - (n + out) * (TICK + more)
    <3>1. cyc_per_tick = TICK + more
      BY <2>1
    <3>2. Measured(late) = took - (n + out) * cyc_per_tick
      BY <2>2, <2>3, Zenon
    <3> HIDE DEF took
    <3>3. Measured(late) = took - (n + out) * (TICK + more)
      BY <3>1, <3>2, Zenon
    <3> QED BY <3>3, Zenon DEF took
  <2>5. (n + out) * (TICK + more) = n * TICK + n * more + out * (TICK + more)
    BY <1>1, <2>1, <2>3
  <2>6. n * more >= 0 /\ n * more <= n * THRESHOLD /\ n * more \in Int
    BY <1>1, <2>1
  <2>7. /\ out * (TICK + more) >= 0 /\ out * (TICK + more) \in Int
        /\ out * (TICK + more) <= out * (TICK + THRESHOLD)
    BY <1>1, <2>1, <2>3
  <2>8. Measured(late) = c - n * more - out * (TICK + more)
    BY <1>1, <2>4, <2>5, <2>6, <2>7
  <2>9. n * THRESHOLD \in Int /\ out * (TICK + THRESHOLD) \in Int
    BY <1>1, <2>3
  <2>10. /\ Measured(late) <= c
         /\ Measured(late) >= c - n * THRESHOLD - out * (TICK + THRESHOLD)
    BY <1>1, <2>6, <2>7, <2>8, <2>9
  <2> QED BY <2>10 DEF out
<1> QED BY <1>3, <1>4 DEF c, n
-----------------------------------------------------------------------------
\* The values are sorted and, counted by any bound, the K smallest samples; fcyc
\* takes another one while there are less than MAXSAMPLES.
SamplerOK ==
  /\ values \in Seq(Int) /\ samples \in Seq(Int)
  /\ Sorted(values) /\ Len(values) = AtMostK(Len(samples))
  /\ \A bound \in Int : AtMost(values, bound) = AtMostK(AtMost(samples, bound))
  /\ samplecount = Len(samples)
  /\ stage = "idle" => samplecount = 0
  /\ stage \in {"start", "callibrate", "timed", "stop"} =>
       samplecount = 0 \/ samplecount < MAXSAMPLES
  /\ stage = "done" =>
       /\ samplecount = 1 \/ samplecount <= MAXSAMPLES
       /\ samplecount >= MAXSAMPLES \/ has_converged(values, samplecount)

(* No values and no samples are in step.                                   *)
LEMMA EmptySampler ==
  /\ <<>> \in Seq(Int) /\ Sorted(<<>>) /\ Len(<<>>) = AtMostK(0)
  /\ \A bound \in Int : AtMost(<<>>, bound) = AtMostK(AtMost(<<>>, bound))
<1>1. \A bound \in Int : AtMost(<<>>, bound) = 0
  <2> SUFFICES ASSUME NEW bound \in Int PROVE AtMost(<<>>, bound) = 0
    OBVIOUS
  <2>1. {p \in DOMAIN <<>> : <<>>[p] <= bound} = {}
    OBVIOUS
  <2> QED BY <2>1, FS_EmptySet DEF AtMost
<1>2. AtMostK(0) = 0
  BY SamplerAssumption DEF AtMostK
<1> QED BY <1>1, <1>2 DEF Sorted

LEMMA AddSampler ==
  ASSUME TimingOK, SamplerOK, NEW late \in Between, Add(late)
  PROVE  SamplerOK'
<1> DEFINE val == Measured(late)
           new == add_sample(values, val)
<1> USE DEF SamplerOK
<1>1. val \in Int
  <2> DEFINE time == get_counter(cyc, access_counter(clock))
  <2>1. time \in Int
    <3>1. stage = "stop"
      BY DEF Add
    <3>2. time = spent[1] + spent[2] * TICK
      BY <3>1, TimingMeans DEF TimesAreRight
    <3> QED BY <3>2, ClockAssumption DEF TimingOK, ClockTypes
  <2>2. (ticks + late - start_tick) * cyc_per_tick \in Int
    BY ClockAssumption DEF TimingOK, ClockTypes, Between
  <2> HIDE DEF time
  <2>3. time - (ticks + late - start_tick) * cyc_per_tick \in Int
    BY <2>1, <2>2
  <2>4. val = IF compensate THEN time - (ticks + late - start_tick) * cyc_per_tick ELSE time
    BY Zenon DEF Measured, time
  <2>5. CASE compensate
    BY <2>3, <2>4, <2>5, Zenon
  <2>6. CASE ~compensate
    BY <2>1, <2>4, <2>6, Zenon
  <2> QED BY <2>5, <2>6
<1>2. /\ values' = new /\ samplecount' = samplecount + 1
      /\ samples' = Append(samples, val) /\ stage = "stop"
      /\ stage' = IF ~has_converged(new, samplecount + 1) /\ samplecount + 1 < MAXSAMPLES
                  THEN "start" ELSE "done"
  BY DEF Add
<1> HIDE DEF val, new
<1>3. K \in Nat \ {0} /\ MAXSAMPLES \in Nat /\ Len(samples) \in Nat
  BY SamplerAssumption
<1>4. Len(values) <= K
  BY <1>3 DEF AtMostK
<1>5. /\ new \in Seq(Int) /\ Sorted(new)
      /\ Len(new) = AtMostK(Len(values) + 1)
      /\ \A bound \in Int :
           AtMost(new, bound) =
             AtMostK(AtMost(values, bound) + IF val <= bound THEN 1 ELSE 0)
  BY <1>1, <1>4, AddSampleFacts DEF new
<1>6. samples' \in Seq(Int) /\ Len(samples') = Len(samples) + 1
  BY <1>1, <1>2
<1>7. Len(new) = AtMostK(Len(samples) + 1)
  BY <1>3, <1>5 DEF AtMostK
<1>8. ASSUME NEW bound \in Int
      PROVE  AtMost(new, bound) = AtMostK(AtMost(samples', bound))
  <2> DEFINE a == AtMost(samples, bound)
             more == IF val <= bound THEN 1 ELSE 0
  <2>1. a \in Nat /\ AtMost(samples', bound) = a + more
    BY <1>1, <1>2, AppendCounts
  <2>2. AtMost(new, bound) = AtMostK(AtMostK(a) + more)
    BY <1>5
  <2>3. more \in {0, 1}
    OBVIOUS
  <2> HIDE DEF a, more
  <2> QED BY <1>3, <2>1, <2>2, <2>3 DEF AtMostK
<1>9. /\ stage' = "start" => samplecount' < MAXSAMPLES
      /\ stage' = "done" =>
           /\ samplecount' = 1 \/ samplecount' <= MAXSAMPLES
           /\ samplecount' >= MAXSAMPLES \/ has_converged(new, samplecount')
      /\ stage' \in {"start", "done"}
  <2>1. samplecount = 0 \/ samplecount < MAXSAMPLES
    BY <1>2
  <2>2. samplecount \in Nat
    BY <1>3
  <2> QED BY <1>2, <1>3, <2>1, <2>2
<1> QED BY <1>2, <1>5, <1>6, <1>7, <1>8, <1>9

LEMMA SamplerStep == TimingOK /\ SamplerOK /\ [Measure]_fcyc_vars => SamplerOK'
<1> SUFFICES ASSUME TimingOK, SamplerOK, [Measure]_fcyc_vars PROVE SamplerOK'
  OBVIOUS
<1>1. ASSUME values' = <<>>, samples' = <<>>, samplecount' = 0,
             stage' \in {"idle", "start"}
      PROVE  SamplerOK'
  BY <1>1, EmptySampler DEF SamplerOK
<1>2. ASSUME UNCHANGED <<values, samples, samplecount>>,
             \/ stage' = stage
             \/ /\ stage \in {"start", "callibrate", "timed", "stop"}
                /\ stage' \in {"start", "callibrate", "timed", "stop"}
      PROVE  SamplerOK'
  BY <1>2 DEF SamplerOK, has_converged
<1>3. ASSUME NEW t \in Starts, Begin(t) PROVE SamplerOK'
  BY <1>1, <1>3 DEF Begin
<1>4. CASE StartCallibrate
  BY <1>2, <1>4 DEF StartCallibrate
<1>5. ASSUME NEW slack \in 0 .. THRESHOLD, NEW inside \in BOOLEAN,
             CallibrateEvent(slack, inside)
      PROVE  SamplerOK'
  BY <1>2, <1>5 DEF CallibrateEvent
<1>6. ASSUME NEW cycles \in Durations, NEW n \in 0 .. MaxTicks, NEW early \in Between,
             Call(cycles, n, early)
      PROVE  SamplerOK'
  BY <1>2, <1>6 DEF Call
<1>7. ASSUME NEW late \in Between, Add(late) PROVE SamplerOK'
  BY <1>7, AddSampler
<1>8. CASE Return
  BY <1>1, <1>8 DEF Return
<1>9. CASE UNCHANGED fcyc_vars
  BY <1>2, <1>9 DEF fcyc_vars
<1> QED BY <1>3, <1>4, <1>5, <1>6, <1>7, <1>8, <1>9 DEF Measure

(* The least and the greatest of two numbers.                              *)
LEMMA MinMaxOfTwo ==
  ASSUME NEW a \in Nat, NEW b \in Nat
  PROVE  Min({a, b}) = (IF a <= b THEN a ELSE b) /\ Max({a, b}) = (IF a <= b THEN b ELSE a)
<1>1. Min({a, b}) \in {a, b} /\ \A k \in {a, b} : Min({a, b}) <= k
  BY MinOfNats
<1>2. Max({a, b}) \in {a, b} /\ \A k \in {a, b} : k <= Max({a, b})
  <2>1. a + b \in Nat /\ \A k \in {a, b} : k <= a + b
    OBVIOUS
  <2> QED BY <2>1, MaxOfNats
<1> QED BY <1>1, <1>2

LEMMA SamplerMeans == TimingOK /\ SamplerOK => KeepsBest
<1> SUFFICES ASSUME TimingOK, SamplerOK PROVE KeepsBest
  OBVIOUS
<1> USE DEF SamplerOK
<1>1. /\ K \in Nat \ {0} /\ MAXSAMPLES \in Nat /\ EPSILON \in Nat /\ UNIT \in Nat \ {0}
      /\ Len(samples) \in Nat /\ samplecount \in Nat
  BY SamplerAssumption
<1>2. \A p, q \in DOMAIN values : p <= q => values[p] <= values[q]
  BY DEF Sorted
<1>3. ASSUME NEW k \in DOMAIN samples
      PROVE  AtMost(values, samples[k]) = Min({K, AtMost(samples, samples[k])})
  <2>1. samples[k] \in Int
    BY <1>3
  <2>2. AtMost(samples, samples[k]) \in Nat
    BY <2>1, AppendCounts
  <2>3. AtMost(values, samples[k]) = AtMostK(AtMost(samples, samples[k]))
    BY <2>1
  <2> QED BY <1>1, <2>2, <2>3, MinMaxOfTwo DEF AtMostK
<1>4. samplecount <= Max({1, MAXSAMPLES})
  <2>1. Max({1, MAXSAMPLES}) = IF 1 <= MAXSAMPLES THEN MAXSAMPLES ELSE 1
    BY <1>1, MinMaxOfTwo
  <2>2. samplecount <= 1 \/ samplecount <= MAXSAMPLES
    <3>1. CASE stage = "idle"
      BY <3>1
    <3>2. CASE stage \in {"start", "callibrate", "timed", "stop"}
      BY <1>1, <3>2
    <3>3. CASE stage = "done"
      BY <1>1, <3>3
    <3> QED BY <3>1, <3>2, <3>3 DEF TimingOK, ClockTypes
  <2> QED BY <1>1, <2>1, <2>2
<1>5. ASSUME stage = "done", samplecount < MAXSAMPLES
      PROVE  /\ samplecount >= K
             /\ UNIT * (values[K] - values[1]) <= EPSILON * values[1]
  <2>1. samplecount >= K /\ (UNIT + EPSILON) * values[1] >= UNIT * values[K]
    BY <1>1, <1>5 DEF has_converged
  <2>2. Len(values) = K
    BY <1>1, <2>1 DEF AtMostK
  <2> DEFINE x == values[1]
             y == values[K]
  <2>3. x \in Int /\ y \in Int
    BY <1>1, <2>2
  <2> HIDE DEF x, y
  <2>4. (UNIT + EPSILON) * x = UNIT * x + EPSILON * x /\ UNIT * (y - x) = UNIT * y - UNIT * x
    BY <1>1, <2>3
  <2>5. UNIT * x \in Int /\ UNIT * y \in Int /\ EPSILON * x \in Int
    BY <1>1, <2>3
  <2>6. (UNIT + EPSILON) * x >= UNIT * y
    BY <2>1 DEF x, y
  <2>7. UNIT * (y - x) <= EPSILON * x
    BY <2>4, <2>5, <2>6
  <2> QED BY <2>1, <2>7 DEF x, y
<1> QED BY <1>2, <1>3, <1>4, <1>5 DEF KeepsBest

LEMMA FcycInitOK == FcycInit => TimingOK /\ SamplerOK
<1> SUFFICES ASSUME FcycInit PROVE TimingOK /\ SamplerOK
  OBVIOUS
<1>1. access_counter(0) \in [hi : 0 .. WORD - 1, lo : 0 .. WORD - 1]
  BY CounterTypes
<1>2. TimingOK
  BY <1>1, ClockAssumption DEF FcycInit, TimingOK, ClockTypes
<1>3. SamplerOK
  BY EmptySampler DEF FcycInit, SamplerOK
<1> QED BY <1>2, <1>3

LEMMA FcycHolds == FcycSpec => [](TimingOK /\ SamplerOK)
  BY FcycInitOK, TimingStep, SamplerStep, PTL DEF FcycSpec

(* The sampler counts its samples and never exceeds its bounds, and the    *)
(* clock's readings fit their words.                                       *)
THEOREM FcycTypes == FcycSpec => []FcycTypeOK
<1>1. TimingOK /\ SamplerOK => FcycTypeOK
  BY DEF TimingOK, ClockTypes, SamplerOK, FcycTypeOK
<1> QED BY <1>1, FcycHolds, PTL

(* fcyc called by anyone: its times are right whenever the counter wraps,  *)
(* and it returns the smallest of its samples.                             *)
THEOREM FcycMeasures == FcycSpec => [](TimesAreRight /\ KeepsBest)
  BY FcycHolds, TimingMeans, SamplerMeans, PTL

(* The driver uses the timing package as it wants to be used: every step   *)
(* of mdriver is a step of fcyc or leaves its state alone.                 *)
THEOREM DriverUsesFcyc == DriverSpec => FcycSpec
<1>1. DriverInit => FcycInit
  BY DEF DriverInit
<1>2. [DriverNext]_driver_vars => [Measure]_fcyc_vars
  <2> SUFFICES ASSUME [DriverNext]_driver_vars PROVE Measure \/ UNCHANGED fcyc_vars
    OBVIOUS
  <2>1. CASE SpeedFcyc
    BY <2>1 DEF SpeedFcyc, Measure
  <2>2. CASE read_trace \/ eval_libc_valid \/ StartValid \/ ValidOp \/ ValidDone
    BY <2>2 DEF read_trace, eval_libc_valid, StartValid, ValidOp, ValidDone
  <2>3. CASE StartUtil \/ UtilOp \/ UtilDone \/ SpeedGettod \/ eval_mm_speed
    BY <2>3 DEF StartUtil, UtilOp, UtilDone, SpeedGettod, eval_mm_speed
  <2>4. CASE free_trace \/ Score
    BY <2>4 DEF free_trace, Score
  <2>5. CASE UNCHANGED driver_vars
    BY <2>5 DEF driver_vars
  <2> QED BY <2>1, <2>2, <2>3, <2>4, <2>5 DEF DriverNext
<1> QED BY <1>1, <1>2, PTL DEF DriverSpec, FcycSpec

(* So in the driver too a measured time is that of the call, however the   *)
(* counter wraps and interrupts fall.                                      *)
THEOREM DriverTimes == DriverSpec => []TimesAreRight
  BY DriverUsesFcyc, FcycMeasures, PTL

(* And the speed of an allocator is the smallest sample, taken when the K  *)
(* smallest agree or MAXSAMPLES have been tried.                           *)
THEOREM DriverKeepsBest == DriverSpec => []KeepsBest
  BY DriverUsesFcyc, FcycMeasures, PTL

-----------------------------------------------------------------------------
\* The runs of a trace.

(* The pointers of a run that is repeated are those of the checked one.    *)
Agrees(ptr, B) == \A i \in Used(B) : ptr[i] = B[i].ptr

(* Request o led from the snapshot g to g2 and returned x, and does so on  *)
(* every heap alike to g's with the same pointers.                         *)
Repeats(o, g, g2, x) ==
  /\ o.type # "f" => x # 0
  /\ \A n, ptr : Alike(n, g.mem, g.brk) /\ Agrees(ptr, g.blocks) =>
       \E n2 : /\ Request([mem |-> n, brk |-> g.brk], ptr, o)
                  = [bp |-> x, heap |-> [mem |-> n2, brk |-> g2.brk]]
               /\ Alike(n2, g2.mem, g2.brk)
  /\ \A i \in Used(g2.blocks) :
       IF i = o.index /\ o.type # "f" THEN g2.blocks[i].ptr = x
       ELSE i \in Used(g.blocks) /\ g2.blocks[i] = g.blocks[i]

(* The state of a run that the transcript of it keeps.                     *)
Snapshot == [mem |-> mem, brk |-> brk, blocks |-> blocks]

(* The checked run writes the payloads, the others do not: their heaps     *)
(* stay alike.                                                             *)
LEMMA RefillAlike ==
  ASSUME NEW m, NEW b, NEW B, Client(m, b, Walk(m), B), NEW i \in Used(B),
         NEW m2 \in Memory, m = Fill(m2, B[i].ptr, B[i].size, i)
  PROVE  Alike(m, m2, b)
<1>1. PICK x : x = B[i].ptr
  OBVIOUS
<1>2. PICK size : size = B[i].size
  OBVIOUS
<1>3. PICK W : W = Walk(m)
  OBVIOUS
<1>4. /\ Heap(m, b, W) /\ Tiled(m, b, W) /\ Payloads(m, B)
      /\ x \in HeldIn(m, W) /\ x # heap_listp /\ HeldIn(m, W) \in SUBSET W
  BY <1>1, <1>3, ClientFacts
<1>5. size \in Sizes /\ size <= 4 * (SizeOf(m, x) - 2)
  BY <1>1, <1>2, <1>4 DEF Payloads
<1>6. size \in Nat
  BY <1>5, TraceAssumption
<1>7. size \div 4 \in Nat /\ size \div 4 <= SizeOf(m, x) - 2 /\ Words(x, size) = x .. x + (size \div 4) - 1
  BY <1>4, <1>5, <1>6, PayloadWords
<1>8. \A p \in Arena : p \notin x .. x + (size \div 4) - 1 => m2[p] = m[p]
  <2>1. DOMAIN m2 = Arena
    BY DEF Memory
  <2> QED BY <2>1, <1>1, <1>2, <1>7 DEF Fill
<1> QED BY <1>4, <1>7, <1>8, PayloadAlike

(* An allocation that was checked repeats,                                 *)
LEMMA AllocRepeats ==
  ASSUME TraceInv, TraceInv', NEW i, NEW size \in Sizes, Alloc(i, size), verdict' = "ok",
         NEW o, o = [type |-> "a", index |-> i, size |-> size]
  PROVE  Repeats(o, Snapshot, Snapshot', blocks'[i].ptr)
<1>1. PICK r : r = mm_malloc([mem |-> mem, brk |-> brk], size)
  OBVIOUS
<1>2. /\ verdict = "ok" /\ i \in Free
      /\ IF r.bp = 0 THEN Fail(r.heap) ELSE Take(r.heap, ranges, i, r.bp, size)
  BY <1>1 DEF Alloc, heap
<1>3. i \in Indices /\ i \notin Used(blocks) /\ size \in Nat \ {0}
  BY <1>2, HeldIsUsed, TraceAssumption
<1>4. r.bp # 0
  BY <1>2 DEF Fail
<1>5. /\ mem' = Fill(r.heap.mem, r.bp, size, i) /\ brk' = r.heap.brk
      /\ blocks' = Give(blocks, i, r.bp, size)
  BY <1>2, <1>4 DEF Take, Give
<1>6. /\ Client(mem, brk, Walk(mem), blocks) /\ Client(mem', brk', Walk(mem'), blocks')
  BY DEF TraceInv
<1>7. DOMAIN blocks = Indices
  <2>1. Payloads(mem, blocks)
    BY <1>6, ClientFacts
  <2> QED BY <2>1 DEF Payloads
<1>8. /\ blocks'[i] = [ptr |-> r.bp, size |-> size]
      /\ \A k \in Used(blocks') : k # i => k \in Used(blocks) /\ blocks'[k] = blocks[k]
  BY <1>3, <1>5, <1>7 DEF Give, Used
<1>9. i \in Used(blocks')
  BY <1>3, <1>8 DEF Used, Unused
<1>10. ASSUME NEW n, NEW ptr, Alike(n, mem, brk)
       PROVE  \E n2 : /\ Request([mem |-> n, brk |-> brk], ptr, o)
                         = [bp |-> r.bp, heap |-> [mem |-> n2, brk |-> brk']]
                      /\ Alike(n2, mem', brk')
  <2>1. PICK q : q = mm_malloc([mem |-> n, brk |-> brk], size)
    OBVIOUS
  <2>2. Alike(mem, n, brk)
    BY <1>10, AlikeSymmetric
  <2>3. \/ /\ r = [bp |-> 0, heap |-> [mem |-> mem, brk |-> brk]]
           /\ q = [bp |-> 0, heap |-> [mem |-> n, brk |-> brk]]
        \/ \E x, c, m2, n2 :
             /\ r = [bp |-> x, heap |-> [mem |-> m2, brk |-> c]]
             /\ q = [bp |-> x, heap |-> [mem |-> n2, brk |-> c]]
             /\ x # 0 /\ Took(mem, c, Walk(mem), x, Adjusted(size), m2) /\ Alike(m2, n2, c)
    BY <1>1, <1>3, <2>1, <2>2, MallocAlike
  <2>4. PICK x, c, m2, n2 :
             /\ r = [bp |-> x, heap |-> [mem |-> m2, brk |-> c]]
             /\ q = [bp |-> x, heap |-> [mem |-> n2, brk |-> c]]
             /\ Alike(m2, n2, c)
    BY <2>3, <1>4
  <2>5. r.bp = x /\ r.heap.mem = m2 /\ r.heap.brk = c
    BY <2>4
  <2>6. m2 \in Memory
    BY <2>4 DEF Alike, Heap, Tiled
  <2>7. mem' = Fill(m2, blocks'[i].ptr, blocks'[i].size, i) /\ c = brk'
    BY <1>5, <1>8, <2>5
  <2>8. Alike(mem', m2, brk')
    BY <1>6, <1>9, <2>6, <2>7, RefillAlike
  <2>9. Alike(n2, mem', brk')
    <3>1. Alike(m2, n2, brk')
      BY <2>4, <2>7
    <3>2. Alike(mem', n2, brk')
      BY <3>1, <2>8, AlikeTransitive
    <3> QED BY <3>2, AlikeSymmetric
  <2>10. Request([mem |-> n, brk |-> brk], ptr, o) = q
    BY <2>1 DEF Request
  <2> QED BY <2>4, <2>5, <2>7, <2>9, <2>10
<1> QED BY <1>4, <1>8, <1>10, SMTT(30) DEF Repeats, Snapshot

(* so does a reallocation,                                                 *)
LEMMA ReallocRepeats ==
  ASSUME TraceInv, TraceInv', NEW i \in Indices, NEW size \in Sizes, Realloc(i, size),
         verdict' = "ok", NEW o, o = [type |-> "r", index |-> i, size |-> size]
  PROVE  Repeats(o, Snapshot, Snapshot', blocks'[i].ptr)
<1>1. PICK old : old = blocks[i].ptr
  OBVIOUS
<1>2. PICK r : r = mm_realloc([mem |-> mem, brk |-> brk], old, size)
  OBVIOUS
<1>3. /\ verdict = "ok" /\ i \notin Free
      /\ \/ r.bp = 0 /\ Fail(r.heap)
         \/ r.bp # 0 /\ verdict' = "data"
         \/ r.bp # 0 /\ Take(r.heap, remove_range(ranges, 4 * old), i, r.bp, size)
  BY <1>1, <1>2 DEF Realloc, heap
<1>4. i \in Used(blocks) /\ size \in Nat \ {0}
  BY <1>3, HeldIsUsed, TraceAssumption
<1>5. r.bp # 0
  BY <1>3 DEF Fail
<1>6. /\ mem' = Fill(r.heap.mem, r.bp, size, i) /\ brk' = r.heap.brk
      /\ blocks' = Give(blocks, i, r.bp, size)
  BY <1>3, <1>5 DEF Take, Give
<1>7. /\ Client(mem, brk, Walk(mem), blocks) /\ Client(mem', brk', Walk(mem'), blocks')
  BY DEF TraceInv
<1>8. DOMAIN blocks = Indices /\ old \in HeldIn(mem, Walk(mem)) /\ old # heap_listp
  <2>1. Payloads(mem, blocks) /\ old \in HeldIn(mem, Walk(mem)) /\ old # heap_listp
    BY <1>1, <1>4, <1>7, ClientFacts
  <2> QED BY <2>1 DEF Payloads
<1>9. /\ blocks'[i] = [ptr |-> r.bp, size |-> size]
      /\ \A k \in Used(blocks') : k # i => k \in Used(blocks) /\ blocks'[k] = blocks[k]
  BY <1>6, <1>8 DEF Give, Used
<1>10. i \in Used(blocks')
  BY <1>4, <1>9 DEF Used, Unused
<1>11. ASSUME NEW n, NEW ptr, Alike(n, mem, brk), ptr[i] = old
       PROVE  \E n2 : /\ Request([mem |-> n, brk |-> brk], ptr, o)
                         = [bp |-> r.bp, heap |-> [mem |-> n2, brk |-> brk']]
                      /\ Alike(n2, mem', brk')
  <2>1. PICK q : q = mm_realloc([mem |-> n, brk |-> brk], old, size)
    OBVIOUS
  <2>2. Alike(mem, n, brk)
    BY <1>11, AlikeSymmetric
  <2>3. \/ /\ r = [bp |-> 0, heap |-> [mem |-> mem, brk |-> brk]]
           /\ q = [bp |-> 0, heap |-> [mem |-> n, brk |-> brk]]
        \/ \E c, m2, n2 :
             /\ r = [bp |-> r.bp, heap |-> [mem |-> m2, brk |-> c]]
             /\ q = [bp |-> r.bp, heap |-> [mem |-> n2, brk |-> c]]
             /\ r.bp # 0 /\ Alike(m2, n2, c)
    <3>1. old \in HeldIn(mem, Walk(mem)) /\ old # heap_listp
      BY <1>8
    <3>2. size \in Nat \ {0}
      BY <1>4
    <3> QED BY <3>1, <3>2, <1>2, <2>1, <2>2, ReallocAlike
  <2>4. PICK c, m2, n2 :
             /\ r = [bp |-> r.bp, heap |-> [mem |-> m2, brk |-> c]]
             /\ q = [bp |-> r.bp, heap |-> [mem |-> n2, brk |-> c]]
             /\ Alike(m2, n2, c)
    BY <2>3, <1>5
  <2>5. r.heap.mem = m2 /\ r.heap.brk = c
    BY <2>4
  <2>6. m2 \in Memory
    BY <2>4 DEF Alike, Heap, Tiled
  <2>7. mem' = Fill(m2, blocks'[i].ptr, blocks'[i].size, i) /\ c = brk'
    BY <1>6, <1>9, <2>5
  <2>8. Alike(mem', m2, brk')
    BY <1>7, <1>10, <2>6, <2>7, RefillAlike
  <2>9. Alike(n2, mem', brk')
    <3>1. Alike(m2, n2, brk')
      BY <2>4, <2>7
    <3>2. Alike(mem', n2, brk')
      BY <3>1, <2>8, AlikeTransitive
    <3> QED BY <3>2, AlikeSymmetric
  <2>10. Request([mem |-> n, brk |-> brk], ptr, o) = q
    BY <1>11, <2>1 DEF Request
  <2> QED BY <2>4, <2>5, <2>7, <2>9, <2>10
<1>12. \A ptr : Agrees(ptr, blocks) => ptr[i] = old
  BY <1>1, <1>4 DEF Agrees
<1>13. \A n, ptr : Alike(n, mem, brk) /\ Agrees(ptr, blocks) =>
         \E n2 : /\ Request([mem |-> n, brk |-> brk], ptr, o)
                    = [bp |-> r.bp, heap |-> [mem |-> n2, brk |-> brk']]
                 /\ Alike(n2, mem', brk')
  BY <1>11, <1>12
<1> QED BY <1>5, <1>9, <1>13 DEF Repeats, Snapshot

(* and a free.                                                             *)
LEMMA DeallocRepeats ==
  ASSUME TraceInv, TraceInv', NEW i \in Indices, Dealloc(i),
         NEW o, o = [type |-> "f", index |-> i, size |-> 0]
  PROVE  Repeats(o, Snapshot, Snapshot', 0)
<1>1. PICK old : old = blocks[i].ptr
  OBVIOUS
<1>2. PICK h : h = mm_free([mem |-> mem, brk |-> brk], old)
  OBVIOUS
<1>3. /\ i \notin Free /\ mem' = h.mem /\ brk' = brk /\ blocks' = Drop(blocks, i)
  BY <1>1, <1>2 DEF Dealloc, heap, Drop
<1>4. i \in Used(blocks)
  BY <1>3, HeldIsUsed
<1>5. Client(mem, brk, Walk(mem), blocks)
  BY DEF TraceInv
<1>6. Payloads(mem, blocks) /\ old \in HeldIn(mem, Walk(mem)) /\ old # heap_listp
  BY <1>1, <1>4, <1>5, ClientFacts
<1>7. \A k \in Used(blocks') : k \in Used(blocks) /\ blocks'[k] = blocks[k]
  <2>1. /\ Used(Drop(blocks, i)) = Used(blocks) \ {i}
        /\ \A k \in Used(Drop(blocks, i)) : Drop(blocks, i)[k] = blocks[k]
    BY <1>4, <1>6, DropFacts
  <2> QED BY <2>1, <1>3
<1>8. ASSUME NEW n, NEW ptr, Alike(n, mem, brk), ptr[i] = old
      PROVE  \E n2 : /\ Request([mem |-> n, brk |-> brk], ptr, o)
                         = [bp |-> 0, heap |-> [mem |-> n2, brk |-> brk']]
                     /\ Alike(n2, mem', brk')
  <2>1. PICK g : g = mm_free([mem |-> n, brk |-> brk], old)
    OBVIOUS
  <2>2. Alike(mem, n, brk)
    BY <1>8, AlikeSymmetric
  <2>3. /\ h = [mem |-> h.mem, brk |-> brk] /\ g = [mem |-> g.mem, brk |-> brk]
        /\ Alike(h.mem, g.mem, brk)
    BY <1>2, <1>6, <2>1, <2>2, FreeAlike
  <2>4. PICK n2 : n2 = g.mem
    OBVIOUS
  <2>5. Alike(n2, mem', brk')
    <3>1. Alike(mem', n2, brk)
      BY <1>3, <2>3, <2>4
    <3> QED BY <3>1, <1>3, AlikeSymmetric
  <2>6. Request([mem |-> n, brk |-> brk], ptr, o) = [bp |-> 0, heap |-> g]
    BY <1>8, <2>1 DEF Request
  <2>7. g = [mem |-> n2, brk |-> brk']
    BY <1>3, <2>3, <2>4
  <2> QED BY <2>5, <2>6, <2>7
<1>9. \A ptr : Agrees(ptr, blocks) => ptr[i] = old
  BY <1>1, <1>4 DEF Agrees
<1> QED BY <1>4, <1>7, <1>8, <1>9 DEF Repeats, Snapshot

-----------------------------------------------------------------------------
\* The bytes that a client holds.

(* Bytes, each with the index that holds it, when index i holds F[i].      *)
Bytes(F) == UNION {{i} \X (1 .. F[i]) : i \in Indices}

\* What each index holds after k requests of a trace.
HeldSizes(ops, k) == [i \in Indices |-> SizeHeld(ops, k, i)]

(* HeldBytes counts them.                                                  *)
LEMMA HeldBytesAre ==
  ASSUME NEW ops, NEW k
  PROVE  HeldBytes(ops, k) = Cardinality(Bytes(HeldSizes(ops, k)))
<1>1. \A i \in Indices : HeldSizes(ops, k)[i] = SizeHeld(ops, k, i)
  BY DEF HeldSizes
<1>2. UNION {{i} \X (1 .. SizeHeld(ops, k, i)) : i \in Indices} = Bytes(HeldSizes(ops, k))
  BY <1>1 DEF Bytes
<1> QED BY <1>2 DEF HeldBytes

(* Sets with nothing in common: their sizes add up.                        *)
LEMMA DisjointUnion ==
  ASSUME NEW S, NEW T, IsFiniteSet(S), IsFiniteSet(T), S \cap T = {}
  PROVE  /\ IsFiniteSet(S \cup T) /\ Cardinality(S) \in Nat /\ Cardinality(T) \in Nat
         /\ Cardinality(S \cup T) = Cardinality(S) + Cardinality(T)
<1>1. /\ IsFiniteSet(S \cup T)
      /\ Cardinality(S \cup T) = Cardinality(S) + Cardinality(T) - Cardinality(S \cap T)
  BY FS_Union
<1>2. Cardinality(S \cap T) = 0
  BY FS_EmptySet
<1>3. Cardinality(S) \in Nat /\ Cardinality(T) \in Nat
  BY FS_CardinalityType
<1> QED BY <1>1, <1>2, <1>3

(* One index comes to hold s bytes instead of F[i].                        *)
LEMMA BytesChange ==
  ASSUME NEW F \in [Indices -> Nat], IsFiniteSet(Bytes(F)), NEW i \in Indices, NEW s \in Nat,
         NEW G, G = [F EXCEPT ![i] = s]
  PROVE  /\ IsFiniteSet(Bytes(G))
         /\ Cardinality(Bytes(G)) = Cardinality(Bytes(F)) - F[i] + s
<1> DEFINE own(n) == {i} \X (1 .. n)
           rest == {t \in Bytes(F) : t[1] # i}
<1>1. ASSUME NEW n \in Nat
      PROVE  IsFiniteSet(own(n)) /\ Cardinality(own(n)) = n
  <2>1. IsFiniteSet({i}) /\ Cardinality({i}) = 1
    BY FS_Singleton
  <2>2. IsFiniteSet(1 .. n) /\ Cardinality(1 .. n) = n
    <3>1. 1 \in Int /\ n \in Int
      OBVIOUS
    <3>2. IsFiniteSet(1 .. n) /\ Cardinality(1 .. n) = IF 1 > n THEN 0 ELSE n - 1 + 1
      BY <3>1, FS_Interval
    <3>3. n = IF 1 > n THEN 0 ELSE n - 1 + 1
      OBVIOUS
    <3> QED BY <3>2, <3>3
  <2>3. IsFiniteSet({i} \X (1 .. n)) /\ Cardinality({i} \X (1 .. n)) = 1 * n
    BY <2>1, <2>2, FS_Product
  <2> QED BY <2>3
<1>2. F[i] \in Nat
  OBVIOUS
<1>3. Bytes(F) = rest \cup own(F[i])
  BY DEF Bytes
<1>4. Bytes(G) = rest \cup own(s)
  <2>1. G[i] = s /\ \A k \in Indices : k # i => G[k] = F[k]
    OBVIOUS
  <2> QED BY <2>1 DEF Bytes
<1>5. rest \cap own(F[i]) = {} /\ rest \cap own(s) = {}
  OBVIOUS
<1>6. IsFiniteSet(rest)
  <2>1. rest \in SUBSET Bytes(F)
    OBVIOUS
  <2> HIDE DEF rest
  <2> QED BY <2>1, FS_Subset
<1> HIDE DEF rest, own
<1>7. IsFiniteSet(own(F[i])) /\ Cardinality(own(F[i])) = F[i]
  BY <1>1, <1>2
<1>8. /\ Cardinality(rest \cup own(F[i])) = Cardinality(rest) + Cardinality(own(F[i]))
      /\ Cardinality(rest) \in Nat
  BY <1>5, <1>6, <1>7, DisjointUnion
<1>9. /\ IsFiniteSet(rest \cup own(s))
      /\ Cardinality(rest \cup own(s)) = Cardinality(rest) + Cardinality(own(s))
  BY <1>1, <1>5, <1>6, DisjointUnion
<1>10. Cardinality(own(s)) = s
  BY <1>1
<1>11. Cardinality(Bytes(F)) = Cardinality(rest) + F[i]
  BY <1>3, <1>7, <1>8
<1>12. Cardinality(Bytes(G)) = Cardinality(rest) + s
  BY <1>4, <1>9, <1>10
<1>13. IsFiniteSet(Bytes(G))
  BY <1>4, <1>9
<1> QED BY <1>2, <1>8, <1>11, <1>12, <1>13

(* The sizes in a table of blocks.                                         *)
SizesOf(B) == [i \in Indices |-> B[i].size]

(* The bytes of a client's blocks lie apart in the heap, so that there are *)
(* no more of them than bytes in the heap.                                 *)
LEMMA BytesFit ==
  ASSUME NEW m, NEW b, NEW W, NEW B, Client(m, b, W, B)
  PROVE  Cardinality(Bytes(SizesOf(B))) <= 4 * b
<1>1. /\ Tiled(m, b, W) /\ Payloads(m, B) /\ HeldIn(m, W) \in SUBSET W
      /\ \A i \in Used(B) : B[i].ptr \in HeldIn(m, W)
  BY ClientFacts
<1>2. B \in [Indices -> [ptr : 0 .. MAX_HEAP - 1, size : Sizes \cup {0}]]
  BY <1>1 DEF Payloads
<1>3. ASSUME NEW i \in Indices
      PROVE  B[i].size \in Nat /\ (B[i].size > 0 => i \in Used(B))
  <2>1. B[i].size \in Nat
    <3>1. B[i] \in [ptr : 0 .. MAX_HEAP - 1, size : Sizes \cup {0}]
      BY <1>2
    <3>2. B[i].size \in Sizes \cup {0}
      BY <3>1
    <3>3. \A z \in Sizes \cup {0} : z \in Nat
      BY TraceAssumption
    <3> QED BY <3>2, <3>3, Zenon
  <2>2. B[i] = Unused => B[i].size = 0
    BY DEF Unused
  <2> QED BY <2>1, <2>2 DEF Used
<1>4. ASSUME NEW i \in Used(B)
      PROVE  /\ B[i].ptr \in W /\ B[i].ptr \in Nat
             /\ SizeOf(m, B[i].ptr) \in Nat
             /\ B[i].size <= 4 * (SizeOf(m, B[i].ptr) - 2)
             /\ B[i].ptr + SizeOf(m, B[i].ptr) <= b
  <2>1. B[i].ptr \in W
    BY <1>1
  <2>2. B[i].size <= 4 * (SizeOf(m, B[i].ptr) - 2)
    BY <1>1 DEF Payloads
  <2>3. \A x \in W : x \in Nat /\ SizeOf(m, x) \in Nat /\ x + SizeOf(m, x) <= b
    BY <1>1, TiledFacts
  <2> QED BY <2>1, <2>2, <2>3
<1>5. ASSUME NEW i \in Used(B), NEW k \in Used(B), i # k
      PROVE  \/ B[i].ptr + SizeOf(m, B[i].ptr) <= B[k].ptr
             \/ B[k].ptr + SizeOf(m, B[k].ptr) <= B[i].ptr
  <2>1. B[i].ptr # B[k].ptr
    BY <1>1, <1>5 DEF Payloads
  <2>2. B[i].ptr < B[k].ptr \/ B[k].ptr < B[i].ptr
    BY <2>1, <1>4
  <2>3. \A x, y \in W : x < y => x + SizeOf(m, x) <= y
    BY <1>1, TiledFacts
  <2> QED BY <2>2, <2>3, <1>4
<1> DEFINE S == Bytes(SizesOf(B))
           at(t) == 4 * B[t[1]].ptr + t[2]
<1>6. ASSUME NEW t \in S
      PROVE  /\ t[1] \in Used(B) /\ t[2] \in Nat /\ t[2] >= 1 /\ t[2] <= B[t[1]].size
             /\ t = <<t[1], t[2]>>
  <2>1. PICK i \in Indices : t \in {i} \X (1 .. SizesOf(B)[i])
    BY DEF Bytes
  <2>2. t[1] = i /\ t[2] \in 1 .. SizesOf(B)[i] /\ t = <<t[1], t[2]>>
    BY <2>1
  <2>3. SizesOf(B)[i] = B[i].size
    BY DEF SizesOf
  <2>4. t[2] \in 1 .. B[i].size
    BY <2>2, <2>3
  <2>5. i \in Used(B) /\ t[2] \in Nat /\ t[2] >= 1 /\ t[2] <= B[i].size
    BY <2>4, <1>3
  <2> QED BY <2>2, <2>5
<1> HIDE DEF S
<1>7. b \in Nat
  BY <1>1, TiledFacts
<1>8. ASSUME NEW t \in S PROVE at(t) \in 1 .. 4 * b
  <2>1. PICK i \in Used(B) : i = t[1]
    BY <1>6
  <2>2. t[2] \in Nat /\ t[2] >= 1 /\ t[2] <= B[i].size
    BY <1>6, <2>1
  <2>3. /\ B[i].ptr \in Nat /\ SizeOf(m, B[i].ptr) \in Nat
        /\ B[i].size <= 4 * (SizeOf(m, B[i].ptr) - 2)
        /\ B[i].ptr + SizeOf(m, B[i].ptr) <= b /\ B[i].size \in Nat
    BY <1>3, <1>4 DEF Used
  <2>4. 4 * B[i].ptr + t[2] \in 1 .. 4 * b
    BY <1>7, <2>2, <2>3
  <2> QED BY <2>1, <2>4
<1>9. ASSUME NEW t \in S, NEW u \in S, at(t) = at(u) PROVE t = u
  <2>1. t[1] = u[1]
    <3> SUFFICES ASSUME t[1] # u[1] PROVE FALSE
      OBVIOUS
    <3>1. PICK i \in Used(B) : i = t[1]
      BY <1>6
    <3>2. PICK k \in Used(B) : k = u[1]
      BY <1>6
    <3>3. 4 * B[i].ptr + t[2] = 4 * B[k].ptr + u[2]
      BY <1>9, <3>1, <3>2
    <3>4. /\ t[2] \in Nat /\ t[2] >= 1 /\ t[2] <= B[i].size
          /\ u[2] \in Nat /\ u[2] >= 1 /\ u[2] <= B[k].size
      BY <1>6, <3>1, <3>2
    <3>5. \/ B[i].ptr + SizeOf(m, B[i].ptr) <= B[k].ptr
          \/ B[k].ptr + SizeOf(m, B[k].ptr) <= B[i].ptr
      BY <1>5, <3>1, <3>2
    <3>6. /\ B[i].ptr \in Nat /\ SizeOf(m, B[i].ptr) \in Nat
          /\ B[i].size <= 4 * (SizeOf(m, B[i].ptr) - 2)
          /\ B[k].ptr \in Nat /\ SizeOf(m, B[k].ptr) \in Nat
          /\ B[k].size <= 4 * (SizeOf(m, B[k].ptr) - 2)
          /\ B[i].size \in Nat /\ B[k].size \in Nat
      BY <1>3, <1>4 DEF Used
    <3> QED BY <3>3, <3>4, <3>5, <3>6
  <2>2. B[t[1]].ptr \in Nat /\ t[2] \in Nat /\ u[2] \in Nat
    BY <1>4, <1>6
  <2>3. t[2] = u[2]
    BY <1>9, <2>1, <2>2
  <2> QED BY <1>6, <2>1, <2>3
<1>10. PICK f : f = [t \in S |-> at(t)]
  OBVIOUS
<1>11. f \in Injection(S, 1 .. 4 * b)
  <2>1. f \in [S -> 1 .. 4 * b]
    BY <1>8, <1>10
  <2>2. \A t \in S : f[t] = at(t)
    BY <1>10
  <2>3. \A t, u \in S : f[t] = f[u] => t = u
    BY <1>9, <2>2
  <2> QED BY <2>1, <2>3 DEF Injection, IsInjective
<1>12. 4 * b \in Nat
  BY <1>7
<1>13. IsFiniteSet(1 .. 4 * b) /\ Cardinality(1 .. 4 * b) = 4 * b
  BY <1>12, FS_Interval
<1>14. Cardinality(S) <= Cardinality(1 .. 4 * b)
  BY <1>11, <1>13, FS_Injection
<1> QED BY <1>13, <1>14 DEF S

(* An element that is above all others is the greatest one.                *)
LEMMA MaxIs ==
  ASSUME NEW S \in SUBSET Nat, NEW x \in S, \A y \in S : y <= x
  PROVE  Max(S) = x
<1>1. x \in Nat
  OBVIOUS
<1>2. Max(S) \in S /\ \A y \in S : y <= Max(S)
  BY <1>1, MaxOfNats
<1>3. PICK z : z = Max(S)
  OBVIOUS
<1>4. z \in Nat /\ x <= z /\ z <= x
  BY <1>2, <1>3
<1>5. z = x
  BY <1>1, <1>4
<1> QED BY <1>3, <1>5

(* The requests on an index before the k-th, and the last of them.         *)
Uses(ops, k, i) == {j \in 1 .. k : ops[j].index = i}

(* SizeHeld looks at the last use.                                         *)
LEMMA HeldSizeIs ==
  ASSUME NEW ops, NEW k \in Nat, NEW i
  PROVE  /\ Uses(ops, k, i) = {} => SizeHeld(ops, k, i) = 0
         /\ \A j \in Uses(ops, k, i) :
              (\A n \in Uses(ops, k, i) : n <= j) =>
                /\ SizeHeld(ops, k, i) = IF ops[j].type = "f" THEN 0 ELSE ops[j].size
                /\ Max(Uses(ops, k, i)) = j
         /\ Uses(ops, k, i) # {} =>
              /\ Max(Uses(ops, k, i)) \in Uses(ops, k, i)
              /\ \A n \in Uses(ops, k, i) : n <= Max(Uses(ops, k, i))
<1>1. PICK U : U = Uses(ops, k, i)
  OBVIOUS
<1>2. U \in SUBSET Nat /\ 0 \notin U /\ \A n \in U : n <= k
  BY <1>1 DEF Uses
<1>3. PICK last : last = Max({0} \cup U)
  OBVIOUS
<1>4. SizeHeld(ops, k, i) = IF last = 0 \/ ops[last].type = "f" THEN 0 ELSE ops[last].size
  BY <1>1, <1>3 DEF SizeHeld, Uses
<1>5. CASE U = {}
  <2>1. {0} \cup U \in SUBSET Nat /\ 0 \in {0} \cup U /\ \A y \in {0} \cup U : y <= 0
    BY <1>5
  <2>2. last = 0
    BY <2>1, <1>3, MaxIs
  <2> QED BY <2>2, <1>1, <1>4, <1>5
<1>6. ASSUME NEW j \in U, \A n \in U : n <= j
      PROVE  /\ SizeHeld(ops, k, i) = IF ops[j].type = "f" THEN 0 ELSE ops[j].size
             /\ Max(U) = j
  <2>1. {0} \cup U \in SUBSET Nat /\ j \in {0} \cup U /\ \A y \in {0} \cup U : y <= j
    BY <1>2, <1>6
  <2>2. last = j
    BY <2>1, <1>3, MaxIs
  <2>3. j # 0
    BY <1>2
  <2>4. Max(U) = j
    BY <1>2, <1>6, MaxIs
  <2> QED BY <2>2, <2>3, <2>4, <1>4
<1>7. ASSUME U # {}
      PROVE  Max(U) \in U /\ \A n \in U : n <= Max(U)
  BY <1>2, <1>7, MaxOfNats
<1> QED BY <1>1, <1>5, <1>6, <1>7, ZenonT(40)

(* Before the first request nothing is held,                               *)
LEMMA HeldFirst ==
  ASSUME NEW ops
  PROVE  /\ \A i : SizeHeld(ops, 0, i) = 0
         /\ Bytes(HeldSizes(ops, 0)) = {} /\ HeldBytes(ops, 0) = 0
<1>1. ASSUME NEW i PROVE SizeHeld(ops, 0, i) = 0
  <2>1. Uses(ops, 0, i) = {}
    BY DEF Uses
  <2> QED BY <2>1, HeldSizeIs
<1>2. \A i \in Indices : HeldSizes(ops, 0)[i] = 0
  BY <1>1 DEF HeldSizes
<1>3. Bytes(HeldSizes(ops, 0)) = {}
  <2>1. 1 .. 0 = {}
    OBVIOUS
  <2> QED BY <2>1, <1>2 DEF Bytes
<1>4. Cardinality({}) = 0
  BY FS_EmptySet
<1> QED BY <1>1, <1>3, <1>4, HeldBytesAre

(* and a request changes what its index holds.                             *)
LEMMA HeldNext ==
  ASSUME NEW ops \in Seq(Requests), NEW k \in Nat, k < Len(ops), NEW o, o = ops[k + 1]
  PROVE  /\ SizeHeld(ops, k + 1, o.index) = o.size
         /\ \A i : i # o.index => SizeHeld(ops, k + 1, i) = SizeHeld(ops, k, i)
<1>1. o \in Requests
  OBVIOUS
<1>2. o.type = "f" => o.size = 0
  BY <1>1 DEF Requests
<1>3. SizeHeld(ops, k + 1, o.index) = o.size
  <2>1. k + 1 \in Uses(ops, k + 1, o.index)
    BY DEF Uses
  <2>2. \A n \in Uses(ops, k + 1, o.index) : n <= k + 1
    BY DEF Uses
  <2>3. SizeHeld(ops, k + 1, o.index) = IF ops[k + 1].type = "f" THEN 0 ELSE ops[k + 1].size
    <3>1. k + 1 \in Nat
      OBVIOUS
    <3> QED BY <2>1, <2>2, <3>1, HeldSizeIs
  <2> QED BY <2>3, <1>2
<1>4. ASSUME NEW i, i # o.index
      PROVE  SizeHeld(ops, k + 1, i) = SizeHeld(ops, k, i)
  <2>1. Uses(ops, k + 1, i) = Uses(ops, k, i)
    BY <1>4 DEF Uses
  <2>2. {j \in 1 .. k + 1 : ops[j].index = i} = {j \in 1 .. k : ops[j].index = i}
    BY <2>1 DEF Uses
  <2> QED BY <2>2 DEF SizeHeld
<1> QED BY <1>3, <1>4

(* A legal trace allocates what it does not hold and nothing else.         *)
LEMMA HeldLegal ==
  ASSUME NEW ops \in Seq(Requests), Legal(ops), NEW k \in Nat, k < Len(ops),
         NEW o, o = ops[k + 1]
  PROVE  o.type = "a" <=> SizeHeld(ops, k, o.index) = 0
<1>1. PICK U : U = Uses(ops, k, o.index)
  OBVIOUS
<1>2. (k + 1) - 1 = k /\ k + 1 \in DOMAIN ops
  OBVIOUS
<1>3. o.type = "a" <=> ~(U # {} /\ ops[Max(U)].type # "f")
  <2>1. PICK n : n = k + 1
    OBVIOUS
  <2>2. n - 1 = k /\ n \in DOMAIN ops /\ o = ops[n]
    BY <1>2, <2>1
  <2>3. U = {j \in 1 .. n - 1 : ops[j].index = ops[n].index}
    BY <2>2, <1>1 DEF Uses
  <2> QED BY <2>2, <2>3 DEF Legal
<1>4. CASE U = {}
  BY <1>1, <1>3, <1>4, HeldSizeIs
<1>5. CASE U # {}
  <2>1. PICK j : j = Max(U)
    OBVIOUS
  <2>2. j \in U /\ \A n \in U : n <= j
    BY <1>1, <1>5, <2>1, HeldSizeIs
  <2>3. SizeHeld(ops, k, o.index) = IF ops[j].type = "f" THEN 0 ELSE ops[j].size
    BY <1>1, <2>2, HeldSizeIs
  <2>4. j \in 1 .. Len(ops)
    BY <1>1, <2>2 DEF Uses
  <2>5. ops[j] \in Requests
    BY <2>4
  <2>6. ops[j].type # "f" => ops[j].size # 0
    BY <2>5, TraceAssumption DEF Requests
  <2> QED BY <1>3, <1>5, <2>1, <2>3, <2>6
<1> QED BY <1>4, <1>5

(* What is held at a time can be counted.                                  *)
Countable(ops, k) == /\ HeldSizes(ops, k) \in [Indices -> Nat]
                     /\ IsFiniteSet(Bytes(HeldSizes(ops, k)))

(* So what is held changes by a request as Grown counts it.                *)
LEMMA HeldStep ==
  ASSUME NEW ops \in Seq(Requests), NEW k \in Nat, k < Len(ops), Countable(ops, k)
  PROVE  /\ Countable(ops, k + 1)
         /\ HeldBytes(ops, k + 1) = HeldBytes(ops, k)
                                    - SizeHeld(ops, k, ops[k + 1].index) + ops[k + 1].size
<1>1. PICK o : o = ops[k + 1]
  OBVIOUS
<1>2. o \in Requests
  BY <1>1
<1>3. o.index \in Indices /\ o.size \in Nat
  <2>1. o.index \in Indices /\ o.size \in Sizes \cup {0}
    BY <1>2 DEF Requests
  <2>2. \A z \in Sizes \cup {0} : z \in Nat
    BY TraceAssumption
  <2> QED BY <2>1, <2>2, Zenon
<1>4. PICK F : F = HeldSizes(ops, k)
  OBVIOUS
<1>5. PICK G : G = HeldSizes(ops, k + 1)
  OBVIOUS
<1>6. G = [F EXCEPT ![o.index] = o.size]
  <2>1. /\ SizeHeld(ops, k + 1, o.index) = o.size
        /\ \A i : i # o.index => SizeHeld(ops, k + 1, i) = SizeHeld(ops, k, i)
    BY <1>1, HeldNext
  <2> QED BY <2>1, <1>4, <1>5 DEF HeldSizes
<1>7. F[o.index] = SizeHeld(ops, k, o.index)
  BY <1>3, <1>4 DEF HeldSizes
<1>8. G \in [Indices -> Nat]
  BY <1>3, <1>4, <1>6 DEF Countable
<1>9. /\ IsFiniteSet(Bytes(G))
      /\ Cardinality(Bytes(G)) = Cardinality(Bytes(F)) - F[o.index] + o.size
  BY <1>3, <1>4, <1>6, BytesChange DEF Countable
<1>10. /\ HeldBytes(ops, k) = Cardinality(Bytes(F))
       /\ HeldBytes(ops, k + 1) = Cardinality(Bytes(G))
  BY <1>4, <1>5, HeldBytesAre
<1> QED BY <1>1, <1>5, <1>7, <1>8, <1>9, <1>10 DEF Countable

LEMMA HeldCountable ==
  ASSUME NEW ops \in Seq(Requests), NEW k \in 0 .. Len(ops)
  PROVE  Countable(ops, k) /\ HeldBytes(ops, k) \in Nat
<1> DEFINE Bad == {n \in 0 .. Len(ops) : ~Countable(ops, n)}
<1>1. Countable(ops, 0)
  <2>1. \A i \in Indices : HeldSizes(ops, 0)[i] = 0
    BY HeldFirst DEF HeldSizes
  <2>2. HeldSizes(ops, 0) \in [Indices -> Nat]
    BY <2>1 DEF HeldSizes
  <2>3. IsFiniteSet({})
    BY FS_EmptySet
  <2> QED BY <2>2, <2>3, HeldFirst DEF Countable
<1>2. Bad = {}
  <2>1. SUFFICES ASSUME Bad # {} PROVE FALSE
    OBVIOUS
  <2>2. PICK n \in Bad : \A x \in Bad : n <= x
    <3>1. Bad \in SUBSET Nat
      OBVIOUS
    <3> HIDE DEF Bad
    <3> QED BY <2>1, <3>1, LeastNat
  <2>3. n \in 0 .. Len(ops) /\ ~Countable(ops, n)
    BY <2>2
  <2>4. n # 0
    BY <1>1, <2>3
  <2>5. PICK x \in Nat : x = n - 1
    BY <2>3, <2>4
  <2>6. n = x + 1 /\ x < Len(ops) /\ x \in 0 .. Len(ops) /\ ~(n <= x)
    BY <2>3, <2>5
  <2>7. Countable(ops, x)
    BY <2>2, <2>6
  <2>8. Countable(ops, x + 1)
    BY <2>6, <2>7, HeldStep
  <2> QED BY <2>3, <2>6, <2>8
<1>3. Countable(ops, k)
  BY <1>2
<1>4. HeldBytes(ops, k) \in Nat
  BY <1>3, HeldBytesAre, FS_CardinalityType DEF Countable
<1> QED BY <1>3, <1>4

-----------------------------------------------------------------------------
\* What is written down of a checked run.

(* The transcript of a checked run: its snapshots, from a heap that every  *)
(* mm_init makes, each with the request and the answer that led to the     *)
(* next one.  What the client held at any time fits the heap of the last.  *)
Transcript(ops, n, ans, G) ==
  /\ \A m \in Memory : /\ mm_init(m).brk = G[0].brk
                       /\ Alike(mm_init(m).mem, G[0].mem, G[0].brk)
  /\ Used(G[0].blocks) = {}
  /\ \A k \in 1 .. n : Repeats(ops[k], G[k - 1], G[k], ans[k])
  /\ \A k \in 0 .. n : HeldBytes(ops, k) <= 4 * G[n].brk

(* A run that is repeated stands where the transcript has g.               *)
Follows(g) == /\ brk = g.brk
              /\ Alike(mem, g.mem, g.brk)
              /\ Agrees(Pointers, g.blocks)

(* A transcript starts with the heap mm_init made.                         *)
LEMMA RecordStart ==
  ASSUME NEW m \in Memory, NEW g, g.mem = mm_init(m).mem, g.brk = mm_init(m).brk,
         Used(g.blocks) = {}, NEW ops, NEW ans
  PROVE  \E G : Transcript(ops, 0, ans, G) /\ G[0] = g
<1>1. PICK G : G = [k \in {0} |-> g]
  OBVIOUS
<1>2. G[0] = g
  BY <1>1
<1>3. ASSUME NEW m2 \in Memory
      PROVE  mm_init(m2).brk = g.brk /\ Alike(mm_init(m2).mem, g.mem, g.brk)
  <2>1. PICK h : h = mm_init(m2)
    OBVIOUS
  <2>2. PICK f : f = mm_init(m)
    OBVIOUS
  <2>3. /\ h = [mem |-> h.mem, brk |-> 6 + CHUNKSIZE]
        /\ f = [mem |-> f.mem, brk |-> 6 + CHUNKSIZE]
        /\ Alike(h.mem, f.mem, 6 + CHUNKSIZE)
    BY <2>1, <2>2, InitAlike
  <2>4. h.brk = 6 + CHUNKSIZE /\ f.brk = 6 + CHUNKSIZE
    BY <2>3
  <2>5. g.mem = f.mem /\ g.brk = f.brk
    BY <2>2
  <2>6. Alike(h.mem, g.mem, g.brk)
    BY <2>3, <2>4, <2>5
  <2> QED BY <2>1, <2>4, <2>5, <2>6
<1>4. Transcript(ops, 0, ans, G)
  <2>1. 1 .. 0 = {} /\ 0 .. 0 = {0}
    OBVIOUS
  <2>2. HeldBytes(ops, 0) <= 4 * G[0].brk
    <3>1. PICK h : h = mm_init(m)
      OBVIOUS
    <3>2. h = [mem |-> h.mem, brk |-> 6 + CHUNKSIZE]
      BY <3>1, InitHeap
    <3>3. h.brk = 6 + CHUNKSIZE /\ G[0].brk = h.brk
      BY <3>1, <3>2, <1>2
    <3>4. 0 <= 4 * (6 + CHUNKSIZE)
      BY HeapAssumption
    <3> QED BY <3>3, <3>4, HeldFirst
  <2> QED BY <2>1, <2>2, <1>2, <1>3 DEF Transcript
<1> QED BY <1>2, <1>4

(* The request a run is at is one of the trace's file.                     *)
LEMMA OpFacts ==
  ASSUME trace \in TraceFiles, op \in Nat, op < Len(trace.ops)
  PROVE  /\ trace.ops[op + 1] \in Requests
         /\ trace.ops[op + 1].index \in Indices
<1>1. trace.ops \in Seq(Requests)
  BY TraceFilesAssumption
<1>2. trace.ops[op + 1] \in Requests
  BY <1>1
<1> QED BY <1>2 DEF Requests

(* A repeated run starts where the transcript does.                        *)
LEMMA FollowsStart ==
  ASSUME NEW ops, NEW n, NEW ans, NEW G, Transcript(ops, n, ans, G), NEW m \in Memory,
         mem' = mm_init(m).mem, brk' = mm_init(m).brk
  PROVE  Follows(G[0])'
<1>1. mm_init(m).brk = G[0].brk /\ Alike(mm_init(m).mem, G[0].mem, G[0].brk)
  BY DEF Transcript
<1>2. \A ptr : Agrees(ptr, G[0].blocks)
  BY DEF Transcript, Agrees
<1> QED BY <1>1, <1>2 DEF Follows

(* A repeated run follows the transcript by a step, and gets the answer    *)
(* the checked run got.                                                    *)
LEMMA ReplayStep ==
  ASSUME trace \in TraceFiles, op \in Nat, op < Len(trace.ops),
         answers \in Seq(Nat), Len(answers) = Len(trace.ops),
         again = SubSeq(answers, 1, op), blocks = [i \in Indices |-> blocks[i]],
         NEW G, Transcript(trace.ops, Len(trace.ops), answers, G), Follows(G[op]),
         Replay(trace.ops[op + 1])
  PROVE  /\ phase' = phase /\ op' = op + 1
         /\ again' = SubSeq(answers, 1, op + 1)
         /\ blocks' = [i \in Indices |-> blocks'[i]]
         /\ /\ brk' = G[op + 1].brk
            /\ Alike(mem', G[op + 1].mem, G[op + 1].brk)
            /\ Agrees(Pointers', G[op + 1].blocks)
<1>1. PICK o : o = trace.ops[op + 1]
  OBVIOUS
<1>2. PICK x : x = answers[op + 1]
  OBVIOUS
<1>3. PICK g : g = G[op]
  OBVIOUS
<1>4. PICK g2 : g2 = G[op + 1]
  OBVIOUS
<1>5. o.index \in Indices
  BY <1>1, OpFacts
<1>6. Repeats(o, g, g2, x)
  <2>1. Len(trace.ops) \in Nat
    BY TraceFilesAssumption, LenProperties
  <2>2. op + 1 \in 1 .. Len(trace.ops) /\ (op + 1) - 1 = op
    BY <2>1
  <2> QED BY <2>2, <1>1, <1>2, <1>3, <1>4 DEF Transcript
<1>7. PICK r : /\ r = Request([mem |-> mem, brk |-> brk], Pointers, o)
               /\ IF Refused(o, r)
                  THEN phase' = "exit" /\ UNCHANGED <<mem, brk, blocks, again, op>>
                  ELSE /\ mem' = r.heap.mem /\ brk' = r.heap.brk
                       /\ blocks' = IF o.type = "f" THEN blocks
                                    ELSE [blocks EXCEPT ![o.index] = [ptr |-> r.bp, size |-> o.size]]
                       /\ again' = Append(again, r.bp)
                       /\ op' = op + 1
                       /\ UNCHANGED phase
  BY <1>1 DEF Replay, heap
<1>8. brk = g.brk /\ Alike(mem, g.mem, g.brk) /\ Agrees(Pointers, g.blocks)
  BY <1>3 DEF Follows
<1>9. PICK n2 : /\ r = [bp |-> x, heap |-> [mem |-> n2, brk |-> g2.brk]]
                /\ Alike(n2, g2.mem, g2.brk)
  BY <1>6, <1>7, <1>8 DEF Repeats
<1>10. r.bp = x /\ r.heap.mem = n2 /\ r.heap.brk = g2.brk
  BY <1>9
<1>11. ~Refused(o, r)
  BY <1>6, <1>10 DEF Repeats, Refused
<1>12. /\ mem' = n2 /\ brk' = g2.brk
       /\ blocks' = IF o.type = "f" THEN blocks
                    ELSE [blocks EXCEPT ![o.index] = [ptr |-> x, size |-> o.size]]
       /\ again' = Append(again, x) /\ op' = op + 1 /\ phase' = phase
  BY <1>7, <1>10, <1>11
<1>13. blocks' = [i \in Indices |-> blocks'[i]]
  BY <1>12
<1>14. again' = SubSeq(answers, 1, op + 1)
  <2>1. /\ op + 1 \in 1 .. Len(answers) /\ 1 \in 1 .. Len(answers) /\ op + 1 \in 1 .. Len(answers)
        /\ (op + 1) - 1 = op
    <3>1. Len(answers) \in Nat
      BY LenProperties
    <3> QED BY <3>1
  <2>2. SubSeq(answers, 1, op + 1) = SubSeq(answers, 1, op) \o << x >>
    BY <2>1, <1>2, SubSeqRecursiveSecond
  <2>3. again \in Seq(Nat) /\ x \in Nat
    <3>1. \A i \in 1 .. op : answers[i] \in Nat
      BY <2>1, SMTT(30)
    <3>2. SubSeq(answers, 1, op) \in Seq(Nat)
      BY <3>1, SubSeqProperties
    <3> QED BY <3>2, <2>1, <1>2
  <2>4. Append(again, x) = again \o << x >>
    BY <2>3, AppendIsConcat
  <2> QED BY <2>2, <2>4, <1>12
<1>15. ASSUME NEW i \in Used(g2.blocks)
       PROVE  blocks'[i].ptr = g2.blocks[i].ptr
  <2>1. i \in Indices
    BY DEF Used
  <2>2. CASE i = o.index /\ o.type # "f"
    <3>1. g2.blocks[i].ptr = x
      BY <2>2, <1>6, <1>15 DEF Repeats
    <3>2. blocks'[i] = [ptr |-> x, size |-> o.size]
      BY <2>1, <2>2, <1>12
    <3> QED BY <3>1, <3>2
  <2>3. CASE ~(i = o.index /\ o.type # "f")
    <3>1. i \in Used(g.blocks) /\ g2.blocks[i] = g.blocks[i]
      BY <2>3, <1>6, <1>15 DEF Repeats
    <3>2. blocks'[i] = blocks[i]
      BY <2>1, <2>3, <1>12
    <3>3. blocks[i].ptr = g.blocks[i].ptr
      BY <2>1, <3>1, <1>8 DEF Agrees, Pointers
    <3> QED BY <3>1, <3>2, <3>3
  <2> QED BY <2>2, <2>3
<1>16. Agrees(Pointers', g2.blocks)
  BY <1>15 DEF Agrees, Pointers, Used
<1> QED BY <1>4, <1>9, <1>12, <1>13, <1>14, <1>16

(* What the phases of the driver have settled when they begin.             *)
ReplayTypes ==
  /\ trace \in TraceFiles /\ op \in Nat /\ answers \in Seq(Nat)
  /\ blocks = [i \in Indices |-> blocks[i]]
  /\ phase \in {"valid", "checking", "util", "utilizing", "libc_valid", "speed", "speeding"}
     => trace.num_ops = Len(trace.ops)
  /\ phase = "libc_valid" => libc
  /\ phase \in {"valid", "checking", "util", "utilizing", "speeding"} => ~libc
  /\ phase \in {"libc_valid", "util"} => op = 0
  /\ phase \in {"utilizing", "speeding"} => op <= Len(trace.ops)

(* While a trace is checked its transcript grows;                          *)
Recording ==
  phase = "checking" /\ verdict = "ok" =>
    /\ TraceInv /\ op = Len(answers)
    /\ SizesOf(blocks) = HeldSizes(trace.ops, op)
    /\ \E G : Transcript(trace.ops, op, answers, G) /\ G[op] = Snapshot

(* when it is measured and timed, the run follows the whole transcript.    *)
Replaying ==
  phase \in {"util", "utilizing", "speed", "speeding"} /\ ~libc =>
    /\ Len(answers) = Len(trace.ops)
    /\ \E G : /\ Transcript(trace.ops, Len(trace.ops), answers, G)
              /\ phase \in {"utilizing", "speeding"} => Follows(G[op])

(* The inductive invariant of the driver for ReplaysAgree.                 *)
ReplayInv == ReplayTypes /\ Recording /\ Replaying /\ ReplaysAgree

(* The invariant holds before the first trace is read.                     *)
LEMMA ReplayInit == DriverInit => ReplayInv
<1> SUFFICES ASSUME DriverInit PROVE ReplayInv
  OBVIOUS
<1>1. /\ trace \in TraceFiles /\ op = 0 /\ answers = <<>> /\ phase = "read"
      /\ blocks = [i \in Indices |-> Unused]
  BY DEF DriverInit
<1>2. ReplayTypes
  <2>1. \A i \in Indices : blocks[i] = Unused
    BY <1>1
  <2> QED BY <2>1, <1>1 DEF ReplayTypes
<1> QED BY <1>1, <1>2 DEF ReplayInv, Recording, Replaying, ReplaysAgree

(* mem_init and mm_init make a heap, or the driver exits.                  *)
LEMMA NewHeapMakes ==
  ASSUME NEW next, NewHeap(next)
  PROVE  \/ phase' = "exit" /\ arenas = ARENAS /\ UNCHANGED <<mem, brk, arenas>>
         \/ /\ phase' = next
            /\ \E m \in Memory : mem' = mm_init(m).mem /\ brk' = mm_init(m).brk
<1>1. CASE arenas = ARENAS
  BY <1>1 DEF NewHeap
<1>2. CASE arenas # ARENAS
  <2>1. /\ phase' = next
        /\ \E h \in {mm_init([p \in 0 .. MAX_HEAP - 1 |-> word]) : word \in {0, 999}} :
             mem' = h.mem /\ brk' = h.brk
    BY <1>2, ZenonT(40) DEF NewHeap
  <2>2. PICK word \in {0, 999} :
          /\ mem' = mm_init([p \in 0 .. MAX_HEAP - 1 |-> word]).mem
          /\ brk' = mm_init([p \in 0 .. MAX_HEAP - 1 |-> word]).brk
    BY <2>1
  <2>3. PICK m : m = [p \in 0 .. MAX_HEAP - 1 |-> word]
    BY ZenonT(40)
  <2>4. m \in Memory
    BY <2>3 DEF Memory, Arena
  <2>5. mem' = mm_init(m).mem /\ brk' = mm_init(m).brk
    BY <2>2, <2>3
  <2> QED BY <2>1, <2>4, <2>5
<1> QED BY <1>1, <1>2

(* Reading a trace, and the runs of libc's malloc, keep the invariant.     *)
LEMMA ReadReplay == ReplayInv /\ (read_trace \/ eval_libc_valid) => ReplayInv'
<1> SUFFICES ASSUME ReplayInv, read_trace \/ eval_libc_valid PROVE ReplayInv'
  OBVIOUS
<1>1. ReplayTypes /\ ReplaysAgree
  BY DEF ReplayInv
<1>2. CASE read_trace
  <2>1. /\ trace' \in TraceFiles /\ op' = 0
        /\ phase' \in {"overrun", "abort", "libc_valid", "valid"}
        /\ phase' = "libc_valid" => libc /\ trace'.num_ops = Len(trace'.ops)
        /\ phase' = "valid" => ~libc /\ trace'.num_ops = Len(trace'.ops)
        /\ UNCHANGED <<mem, brk, ranges, blocks, verdict, libc, arenas, answers, again>>
    BY <1>2 DEF read_trace, Consistent, vars
  <2>2. ReplayTypes'
    BY <1>1, <2>1 DEF ReplayTypes
  <2> QED BY <2>1, <2>2 DEF ReplayInv, Recording, Replaying, ReplaysAgree
<1>3. CASE eval_libc_valid
  <2>1. /\ phase = "libc_valid" /\ phase' \in {"speed", "exit"}
        /\ UNCHANGED <<mem, brk, ranges, blocks, verdict, libc, trace, op, arenas, answers, again>>
    BY <1>3 DEF eval_libc_valid, vars
  <2>2. libc /\ op = 0
    BY <1>1, <2>1 DEF ReplayTypes
  <2>3. ReplayTypes'
    BY <1>1, <2>1, <2>2 DEF ReplayTypes
  <2> QED BY <2>1, <2>2, <2>3 DEF ReplayInv, Recording, Replaying, ReplaysAgree
<1> QED BY <1>2, <1>3

(* The checked run begins a transcript,                                    *)
LEMMA StartRecording == ReplayInv /\ StartValid => ReplayInv'
<1> SUFFICES ASSUME ReplayInv, StartValid PROVE ReplayInv'
  OBVIOUS
<1>1. ReplayTypes /\ ReplaysAgree
  BY DEF ReplayInv
<1>2. /\ phase = "valid" /\ op = 0 /\ answers = <<>>
      /\ NewHeap("checking")
      /\ ranges' = <<>> /\ blocks' = [i \in Indices |-> Unused] /\ verdict' = "ok"
      /\ UNCHANGED <<libc, trace, op, answers, again>>
  BY DEF StartValid
<1>3. \/ phase' = "exit" /\ arenas = ARENAS /\ UNCHANGED <<mem, brk, arenas>>
      \/ /\ phase' = "checking"
         /\ \E m \in Memory : mem' = mm_init(m).mem /\ brk' = mm_init(m).brk
  BY <1>2, NewHeapMakes
<1>4. blocks' = [i \in Indices |-> blocks'[i]]
  BY <1>2
<1>5. ReplayTypes'
  BY <1>1, <1>2, <1>3, <1>4 DEF ReplayTypes
<1>6. CASE phase' = "exit" /\ arenas = ARENAS /\ UNCHANGED <<mem, brk, arenas>>
  BY <1>5, <1>6 DEF ReplayInv, Recording, Replaying, ReplaysAgree
<1>7. ASSUME phase' = "checking",
             NEW m \in Memory, mem' = mm_init(m).mem, brk' = mm_init(m).brk
      PROVE  ReplayInv'
  <2>1. PICK h : h = mm_init(m)
    OBVIOUS
  <2>2. /\ Client(h.mem, h.brk, Walk(h.mem), [i \in Indices |-> Unused])
        /\ Matches(<<>>, [i \in Indices |-> Unused])
    BY <2>1, StartClient
  <2>3. mem' = h.mem /\ brk' = h.brk
    BY <1>7, <2>1
  <2>4. TraceInv'
    BY <1>2, <2>2, <2>3 DEF TraceInv
  <2>5. PICK g : g = Snapshot'
    OBVIOUS
  <2>6. g.mem = mm_init(m).mem /\ g.brk = mm_init(m).brk /\ g.blocks = [i \in Indices |-> Unused]
    BY <1>2, <1>7, <2>5 DEF Snapshot
  <2>7. Used(g.blocks) = {}
    BY <2>6 DEF Used
  <2>8. \E G : Transcript(trace.ops, 0, answers, G) /\ G[0] = g
    BY <2>6, <2>7, RecordStart
  <2>9. op' = Len(answers')
    BY <1>2
  <2>10. SizesOf(blocks') = HeldSizes(trace.ops, 0)
    <3>1. \A i \in Indices : blocks'[i].size = 0
      BY <1>2 DEF Unused
    <3>2. \A i \in Indices : SizeHeld(trace.ops, 0, i) = 0
      BY HeldFirst
    <3> QED BY <3>1, <3>2 DEF SizesOf, HeldSizes
  <2>11. Recording'
    BY <1>2, <2>4, <2>5, <2>8, <2>9, <2>10 DEF Recording
  <2> QED BY <1>5, <1>7, <2>11 DEF ReplayInv, Replaying, ReplaysAgree
<1> QED BY <1>3, <1>6, <1>7

(* extends it by each request that succeeds,                               *)
LEMMA RecordStep == ReplayInv /\ ValidOp => ReplayInv'
<1> SUFFICES ASSUME ReplayInv, ValidOp PROVE ReplayInv'
  OBVIOUS
<1>1. ReplayTypes /\ ReplaysAgree /\ Recording
  BY DEF ReplayInv
<1>2. PICK o : o = trace.ops[op + 1]
  OBVIOUS
<1>3. /\ phase = "checking" /\ verdict = "ok" /\ op < trace.num_ops
      /\ \/ o.type = "a" /\ Alloc(o.index, o.size)
         \/ o.type = "r" /\ Realloc(o.index, o.size)
         \/ o.type = "f" /\ Dealloc(o.index)
      /\ answers' = Append(answers, IF o.type = "f" THEN 0 ELSE blocks'[o.index].ptr)
      /\ op' = op + 1
      /\ UNCHANGED <<phase, libc, trace, arenas, again>>
  BY <1>2 DEF ValidOp
<1>4. /\ trace \in TraceFiles /\ op \in Nat /\ answers \in Seq(Nat)
      /\ trace.num_ops = Len(trace.ops)
  BY <1>1, <1>3 DEF ReplayTypes
<1>5. o \in Requests /\ o.index \in Indices
  BY <1>2, <1>3, <1>4, OpFacts
<1>6. /\ o.type \in {"a", "r"} => o.size \in Sizes
      /\ o = [type |-> o.type, index |-> o.index, size |-> o.size]
      /\ o.type = "f" => o.size = 0
  BY <1>5 DEF Requests
<1>7. TraceInv /\ op = Len(answers)
  BY <1>1, <1>3 DEF Recording
<1>8. TraceInv'
  BY <1>3, <1>5, <1>6, <1>7, AllocStep, ReallocStep, DeallocStep
<1>9. PICK x : x = IF o.type = "f" THEN 0 ELSE blocks'[o.index].ptr
  OBVIOUS
<1>10. blocks' \in [Indices -> [ptr : 0 .. MAX_HEAP - 1, size : Sizes \cup {0}]]
  <2>1. Client(mem', brk', Walk(mem'), blocks')
    BY <1>8 DEF TraceInv
  <2>2. Payloads(mem', blocks')
    BY <2>1, ClientFacts
  <2> QED BY <2>2 DEF Payloads
<1>11. x \in Nat
  BY <1>5, <1>9, <1>10, HeapAssumption
<1>12. answers' = Append(answers, x) /\ answers' \in Seq(Nat) /\ Len(answers') = op'
  BY <1>3, <1>4, <1>7, <1>9, <1>11, AppendProperties
<1>13. ReplayTypes'
  <2>1. blocks' = [i \in Indices |-> blocks'[i]]
    BY <1>10
  <2> QED BY <2>1, <1>1, <1>3, <1>12 DEF ReplayTypes
<1>14. ASSUME verdict' = "ok"
       PROVE  /\ brk' >= brk /\ blocks'[o.index].size = o.size
              /\ \A i \in Indices : i # o.index => blocks'[i] = blocks[i]
  <2>1. brk \in Nat /\ DOMAIN blocks = Indices
    <3>1. Client(mem, brk, Walk(mem), blocks)
      BY <1>7 DEF TraceInv
    <3>2. Tiled(mem, brk, Walk(mem)) /\ Payloads(mem, blocks)
      BY <3>1, ClientFacts
    <3>3. brk \in Nat
      BY <3>2, TiledFacts
    <3> QED BY <3>2, <3>3 DEF Payloads
  <2>2. CASE o.type = "a" /\ Alloc(o.index, o.size)
    <3>1. PICK y : /\ blocks' = Give(blocks, o.index, y, o.size)
                   /\ brk' > brk \/ brk' = brk
      BY <2>2, <1>6, <1>7, <1>14, AllocStep
    <3>2. brk' \in Nat
      <4>1. Client(mem', brk', Walk(mem'), blocks')
        BY <1>8 DEF TraceInv
      <4>2. Tiled(mem', brk', Walk(mem'))
        BY <4>1, ClientFacts
      <4> QED BY <4>2, TiledFacts
    <3>3. brk' >= brk
      BY <2>1, <3>1, <3>2
    <3> QED BY <2>1, <3>1, <3>3, <1>5 DEF Give
  <2>3. CASE o.type = "r" /\ Realloc(o.index, o.size)
    <3>1. PICK y : /\ blocks' = Give(blocks, o.index, y, o.size)
                   /\ brk' >= brk
      BY <2>3, <1>5, <1>6, <1>7, <1>14, ReallocStep
    <3> QED BY <2>1, <3>1, <1>5 DEF Give
  <2>4. CASE o.type = "f" /\ Dealloc(o.index)
    <3>1. blocks' = Drop(blocks, o.index) /\ brk' = brk
      BY <2>4, <1>5, <1>7, DeallocStep
    <3> QED BY <2>1, <2>4, <3>1, <1>5, <1>6 DEF Drop, Unused
  <2> QED BY <1>3, <2>2, <2>3, <2>4
<1>15. trace.ops \in Seq(Requests) /\ op < Len(trace.ops) /\ SizesOf(blocks) = HeldSizes(trace.ops, op)
  BY <1>1, <1>3, <1>4, TraceFilesAssumption DEF Recording
<1>16. ASSUME verdict' = "ok"
       PROVE  SizesOf(blocks') = HeldSizes(trace.ops, op + 1)
  <2>1. /\ SizeHeld(trace.ops, op + 1, o.index) = o.size
        /\ \A i : i # o.index => SizeHeld(trace.ops, op + 1, i) = SizeHeld(trace.ops, op, i)
    BY <1>2, <1>4, <1>15, HeldNext
  <2>2. \A i \in Indices : SizeHeld(trace.ops, op, i) = blocks[i].size
    BY <1>15 DEF SizesOf, HeldSizes
  <2>3. \A i \in Indices : SizeHeld(trace.ops, op + 1, i) = blocks'[i].size
    BY <1>14, <1>16, <2>1, <2>2
  <2> QED BY <2>3 DEF SizesOf, HeldSizes
<1>17. ASSUME verdict' = "ok"
       PROVE  HeldBytes(trace.ops, op + 1) <= 4 * brk'
  <2>1. Client(mem', brk', Walk(mem'), blocks')
    BY <1>8 DEF TraceInv
  <2>2. Cardinality(Bytes(SizesOf(blocks'))) <= 4 * brk'
    BY <2>1, BytesFit
  <2> QED BY <2>2, <1>16, <1>17, HeldBytesAre
<1>18. ASSUME verdict' = "ok"
       PROVE  \E G : Transcript(trace.ops, op + 1, answers', G) /\ G[op + 1] = Snapshot'
  <2>1. Repeats(o, Snapshot, Snapshot', x)
    <3>1. CASE o.type = "a" /\ Alloc(o.index, o.size)
      <4>1. o = [type |-> "a", index |-> o.index, size |-> o.size] /\ o.size \in Sizes
        BY <3>1, <1>6
      <4>2. x = blocks'[o.index].ptr
        BY <3>1, <1>9
      <4> QED BY <4>1, <4>2, <3>1, <1>7, <1>8, <1>18, AllocRepeats
    <3>2. CASE o.type = "r" /\ Realloc(o.index, o.size)
      <4>1. o = [type |-> "r", index |-> o.index, size |-> o.size] /\ o.size \in Sizes
        BY <3>2, <1>6
      <4>2. x = blocks'[o.index].ptr
        BY <3>2, <1>9
      <4> QED BY <4>1, <4>2, <3>2, <1>5, <1>7, <1>8, <1>18, ReallocRepeats
    <3>3. CASE o.type = "f" /\ Dealloc(o.index)
      <4>1. o = [type |-> "f", index |-> o.index, size |-> 0]
        BY <3>3, <1>6
      <4>2. x = 0
        BY <3>3, <1>9
      <4> QED BY <4>1, <4>2, <3>3, <1>5, <1>7, <1>8, DeallocRepeats
    <3> QED BY <1>3, <3>1, <3>2, <3>3
  <2>2. PICK G : Transcript(trace.ops, op, answers, G) /\ G[op] = Snapshot
    BY <1>1, <1>3 DEF Recording
  <2>3. PICK g2 : g2 = Snapshot'
    OBVIOUS
  <2>4. \E G2 : Transcript(trace.ops, op + 1, Append(answers, x), G2) /\ G2[op + 1] = g2
    <3>1. PICK n \in Nat : n = op /\ n + 1 = op + 1
      BY <1>4
    <3>2. answers \in Seq(Nat) /\ Len(answers) = n
      BY <3>1, <1>4, <1>7
    <3>3. PICK ans2 : ans2 = Append(answers, x)
      OBVIOUS
    <3>4. ans2[n + 1] = x /\ \A k \in 1 .. n : ans2[k] = answers[k]
      BY <3>2, <3>3, <1>11, AppendProperties
    <3>5. PICK G2 : G2 = [k \in 0 .. n + 1 |-> IF k <= n THEN G[k] ELSE g2]
      OBVIOUS
    <3>6. G2[n + 1] = g2 /\ \A k \in 0 .. n : G2[k] = G[k]
      BY <3>5
    <3>7. ASSUME NEW k \in 1 .. n + 1
          PROVE  Repeats(trace.ops[k], G2[k - 1], G2[k], ans2[k])
      <4>1. CASE k = n + 1
        <5>1. G2[k - 1] = Snapshot /\ G2[k] = g2 /\ ans2[k] = x /\ trace.ops[k] = o
          BY <4>1, <3>1, <3>4, <3>6, <2>2, <1>2
        <5> QED BY <5>1, <2>1, <2>3
      <4>2. CASE k # n + 1
        <5>1. k \in 1 .. n
          BY <4>2
        <5>2. G2[k - 1] = G[k - 1] /\ G2[k] = G[k] /\ ans2[k] = answers[k]
          BY <5>1, <3>4, <3>6
        <5> QED BY <5>1, <5>2, <3>1, <2>2 DEF Transcript
      <4> QED BY <4>1, <4>2
    <3>8. G2[0] = G[0]
      BY <3>6
    <3>9. ASSUME NEW k \in 0 .. n + 1
           PROVE  HeldBytes(trace.ops, k) <= 4 * G2[n + 1].brk
      <4>1. G2[n + 1].brk = brk' /\ G[n].brk = brk
        BY <3>1, <3>6, <2>2, <2>3 DEF Snapshot
      <4>2. CASE k = n + 1
        BY <4>1, <4>2, <3>1, <1>18, <1>17
      <4>3. CASE k # n + 1
        <5>1. HeldBytes(trace.ops, k) <= 4 * brk
          BY <4>1, <4>3, <3>1, <2>2 DEF Transcript
        <5>2. HeldBytes(trace.ops, k) \in Nat
          BY <3>1, <4>3, <1>4, <1>15, HeldCountable
        <5>3. brk' >= brk /\ brk \in Nat /\ brk' \in Nat
          <6>1. Client(mem, brk, Walk(mem), blocks) /\ Client(mem', brk', Walk(mem'), blocks')
            BY <1>7, <1>8 DEF TraceInv
          <6>2. Tiled(mem, brk, Walk(mem)) /\ Tiled(mem', brk', Walk(mem'))
            BY <6>1, ClientFacts
          <6> QED BY <6>2, <1>18, <1>14, TiledFacts
        <5>4. HeldBytes(trace.ops, k) <= 4 * brk'
          BY <5>1, <5>2, <5>3
        <5> QED BY <5>4, <4>1
      <4> QED BY <4>2, <4>3
    <3>10. Transcript(trace.ops, n + 1, ans2, G2)
      BY <3>7, <3>8, <3>9, <2>2 DEF Transcript
    <3>11. Transcript(trace.ops, op + 1, ans2, G2) /\ G2[op + 1] = g2
      BY <3>1, <3>6, <3>10
    <3> QED BY <3>3, <3>11
  <2> QED BY <2>3, <2>4, <1>12
<1>19. Recording'
  BY <1>3, <1>8, <1>12, <1>18, <1>16 DEF Recording
<1> QED BY <1>3, <1>13, <1>19 DEF ReplayInv, Replaying, ReplaysAgree

(* and leaves it to the runs after it.                                     *)
LEMMA RecordDone == ReplayInv /\ ValidDone => ReplayInv'
<1> SUFFICES ASSUME ReplayInv, ValidDone PROVE ReplayInv'
  OBVIOUS
<1>1. ReplayTypes /\ Recording /\ ReplaysAgree
  BY DEF ReplayInv
<1>2. /\ phase = "checking" /\ (verdict # "ok" \/ op = trace.num_ops)
      /\ phase' = IF verdict = "ok" THEN "util" ELSE "free"
      /\ op' = 0
      /\ UNCHANGED <<mem, brk, ranges, blocks, verdict, libc, trace, arenas, answers, again>>
  BY DEF ValidDone, vars
<1>3. ReplayTypes'
  BY <1>1, <1>2 DEF ReplayTypes
<1>4. Replaying'
  <2> SUFFICES ASSUME verdict = "ok"
               PROVE  /\ Len(answers) = Len(trace.ops)
                      /\ \E G : Transcript(trace.ops, Len(trace.ops), answers, G)
    BY <1>2 DEF Replaying
  <2>1. op = Len(answers) /\ \E G : Transcript(trace.ops, op, answers, G)
    BY <1>1, <1>2 DEF Recording
  <2>2. op = Len(trace.ops)
    BY <1>1, <1>2 DEF ReplayTypes
  <2> QED BY <2>1, <2>2
<1> QED BY <1>2, <1>3, <1>4 DEF ReplayInv, Recording, ReplaysAgree

(* A run that has not begun has no answers.                                *)
LEMMA SubSeqNone ==
  ASSUME NEW s PROVE SubSeq(s, 1, 0) = <<>>
  BY SubSeqEmpty

(* A run of the measuring or timing phase begins with the transcript,      *)
LEMMA StartReplay ==
  ASSUME ReplayInv, NEW next \in {"utilizing", "speeding"},
         NewHeap(next), phase \in {"util", "speed"}, ~libc, op' = 0, again' = <<>>,
         UNCHANGED <<blocks, libc, trace, answers>>
  PROVE  ReplayInv'
<1>1. ReplayTypes /\ Replaying /\ ReplaysAgree
  BY DEF ReplayInv
<1>2. \/ phase' = "exit" /\ arenas = ARENAS /\ UNCHANGED <<mem, brk, arenas>>
      \/ /\ phase' = next
         /\ \E m \in Memory : mem' = mm_init(m).mem /\ brk' = mm_init(m).brk
  BY NewHeapMakes
<1>3. Len(trace.ops) \in Nat
  BY <1>1, TraceFilesAssumption, LenProperties DEF ReplayTypes
<1>4. ReplayTypes'
  BY <1>1, <1>2, <1>3 DEF ReplayTypes
<1>5. CASE phase' = "exit" /\ arenas = ARENAS /\ UNCHANGED <<mem, brk, arenas>>
  BY <1>4, <1>5 DEF ReplayInv, Recording, Replaying, ReplaysAgree
<1>6. ASSUME phase' = next,
             NEW m \in Memory, mem' = mm_init(m).mem, brk' = mm_init(m).brk
      PROVE  ReplayInv'
  <2>1. PICK G : Transcript(trace.ops, Len(trace.ops), answers, G)
    BY <1>1 DEF Replaying
  <2>2. Follows(G[0])'
    BY <1>6, <2>1, FollowsStart
  <2>3. Replaying'
    BY <1>1, <1>6, <2>1, <2>2 DEF Replaying
  <2>4. again' = SubSeq(answers', 1, op')
    BY SubSeqNone
  <2> QED BY <1>4, <1>6, <2>3, <2>4 DEF ReplayInv, Recording, ReplaysAgree
<1> QED BY <1>2, <1>5, <1>6

(* follows it request by request,                                          *)
LEMMA ReplayOne ==
  ASSUME ReplayInv, phase \in {"utilizing", "speeding"}, op < trace.num_ops,
         Replay(trace.ops[op + 1]),
         UNCHANGED <<libc, trace, arenas, answers>>
  PROVE  ReplayInv'
<1>1. ReplayTypes /\ Replaying /\ ReplaysAgree
  BY DEF ReplayInv
<1>2. /\ trace \in TraceFiles /\ op \in Nat /\ answers \in Seq(Nat)
      /\ trace.num_ops = Len(trace.ops) /\ ~libc
      /\ blocks = [i \in Indices |-> blocks[i]]
  BY <1>1 DEF ReplayTypes
<1>3. again = SubSeq(answers, 1, op)
  BY <1>1 DEF ReplaysAgree
<1>4. Len(answers) = Len(trace.ops)
  BY <1>1, <1>2 DEF Replaying
<1>5. PICK G : /\ Transcript(trace.ops, Len(trace.ops), answers, G)
               /\ Follows(G[op])
  BY <1>1, <1>2 DEF Replaying
<1>6. op < Len(trace.ops)
  BY <1>2
<1>7. /\ phase' = phase /\ op' = op + 1
      /\ again' = SubSeq(answers, 1, op + 1)
      /\ blocks' = [i \in Indices |-> blocks'[i]]
      /\ brk' = G[op + 1].brk
      /\ Alike(mem', G[op + 1].mem, G[op + 1].brk)
      /\ Agrees(Pointers', G[op + 1].blocks)
  BY <1>2, <1>3, <1>4, <1>5, <1>6, ReplayStep
<1>8. Len(trace.ops) \in Nat
  BY <1>2, TraceFilesAssumption, LenProperties
<1>9. ReplayTypes'
  <2>1. op' \in Nat /\ op' <= Len(trace.ops) /\ phase' = phase
    BY <1>2, <1>6, <1>7, <1>8
  <2>2. blocks' = [i \in Indices |-> blocks'[i]]
    BY <1>7
  <2> QED BY <1>2, <2>1, <2>2 DEF ReplayTypes
<1>10. PICK g2 : g2 = G[op + 1]
  OBVIOUS
<1>11. Follows(g2)'
  <2>1. brk' = g2.brk /\ Alike(mem', g2.mem, g2.brk) /\ Agrees(Pointers', g2.blocks)
    BY <1>7, <1>10
  <2> QED BY <2>1 DEF Follows
<1>12. G[op'] = g2
  BY <1>7, <1>10
<1>13. Replaying'
  BY <1>4, <1>5, <1>7, <1>11, <1>12 DEF Replaying
<1> QED BY <1>7, <1>9, <1>13 DEF ReplayInv, Recording, ReplaysAgree

(* and ends with it.                                                       *)
LEMMA ReplayDone ==
  ASSUME ReplayInv, phase \in {"utilizing", "speeding"}, op = trace.num_ops, phase' = "speed",
         UNCHANGED <<mem, brk, blocks, libc, trace, op, arenas, answers, again>>
  PROVE  ReplayInv'
<1>1. ReplayTypes /\ Replaying /\ ReplaysAgree
  BY DEF ReplayInv
<1>2. /\ op = Len(trace.ops) /\ answers \in Seq(Nat) /\ ~libc
  BY <1>1 DEF ReplayTypes
<1>3. /\ Len(answers) = Len(trace.ops)
      /\ \E G : Transcript(trace.ops, Len(trace.ops), answers, G)
  BY <1>1, <1>2 DEF Replaying
<1>4. again = answers
  <2>1. again = SubSeq(answers, 1, op)
    BY <1>1 DEF ReplaysAgree
  <2> QED BY <2>1, <1>2, <1>3, SubSeqFull
<1>5. ReplayTypes'
  BY <1>1 DEF ReplayTypes
<1>6. Replaying'
  BY <1>3 DEF Replaying
<1> QED BY <1>4, <1>5, <1>6 DEF ReplayInv, Recording, ReplaysAgree

(* A step between two timed runs changes no heap.                          *)
LEMMA StayTimed ==
  ASSUME ReplayInv, phase = "speed", phase' \in {"speed", "free"},
         UNCHANGED <<mem, brk, ranges, blocks, verdict, libc, trace, op, arenas, answers, again>>
  PROVE  ReplayInv'
<1>1. ReplayTypes /\ Replaying /\ ReplaysAgree
  BY DEF ReplayInv
<1>2. ReplayTypes'
  BY <1>1 DEF ReplayTypes
<1>3. Replaying'
  BY <1>1 DEF Replaying
<1> QED BY <1>1, <1>2, <1>3 DEF ReplayInv, Recording, ReplaysAgree

(* A timed call starts a run and nothing else does.                        *)
LEMMA TimedReplay ==
  ASSUME ReplayInv, phase = "speed", Timed,
         UNCHANGED <<ranges, blocks, verdict, libc, trace, answers>>
  PROVE  ReplayInv'
<1>1. CASE libc
  <2>1. /\ phase' = "exit" \/ phase' = phase
        /\ UNCHANGED <<mem, brk, arenas, op, again>>
    BY <1>1 DEF Timed
  <2>2. CASE phase' = phase
    BY <2>1, <2>2, StayTimed
  <2>3. CASE phase' = "exit"
    <3>1. ReplayTypes
      BY DEF ReplayInv
    <3>2. ReplayTypes'
      BY <2>1, <2>3, <3>1 DEF ReplayTypes
    <3> QED BY <1>1, <2>1, <2>3, <3>2 DEF ReplayInv, Recording, Replaying, ReplaysAgree
  <2> QED BY <2>1, <2>2, <2>3
<1>2. CASE ~libc
  <2>1. NewHeap("speeding") /\ op' = 0 /\ again' = <<>>
    BY <1>2 DEF Timed
  <2> QED BY <1>2, <2>1, StartReplay
<1> QED BY <1>1, <1>2

(* Both ways of timing keep the invariant.                                 *)
LEMMA SpeedReplay == ReplayInv /\ (SpeedFcyc \/ SpeedGettod) => ReplayInv'
<1> SUFFICES ASSUME ReplayInv, SpeedFcyc \/ SpeedGettod PROVE ReplayInv'
  OBVIOUS
<1>1. /\ phase = "speed"
      /\ \/ /\ phase' \in {"speed", "free"}
            /\ UNCHANGED <<mem, brk, arenas, op, again>>
         \/ Timed
      /\ UNCHANGED <<ranges, blocks, verdict, libc, trace, answers>>
  <2>1. CASE SpeedFcyc
    BY <2>1 DEF SpeedFcyc
  <2>2. CASE SpeedGettod
    BY <2>2 DEF SpeedGettod
  <2> QED BY <2>1, <2>2
<1>2. CASE phase' \in {"speed", "free"} /\ UNCHANGED <<mem, brk, arenas, op, again>>
  BY <1>1, <1>2, StayTimed
<1>3. CASE Timed
  BY <1>1, <1>3, TimedReplay
<1> QED BY <1>1, <1>2, <1>3

(* So does the end of a trace.                                             *)
LEMMA EndReplay == ReplayInv /\ (free_trace \/ Score) => ReplayInv'
<1> SUFFICES ASSUME ReplayInv, free_trace \/ Score PROVE ReplayInv'
  OBVIOUS
<1>1. ReplayTypes
  BY DEF ReplayInv
<1>2. /\ phase' \in {"read", "score", "done"}
      /\ trace' \in TraceFiles /\ op' \in Nat /\ answers' \in Seq(Nat)
      /\ UNCHANGED blocks
  <2>1. CASE free_trace
    BY <1>1, <2>1 DEF free_trace, ReplayTypes, vars
  <2>2. CASE Score
    BY <1>1, <2>2 DEF Score, ReplayTypes, vars
  <2> QED BY <2>1, <2>2
<1>3. ReplayTypes'
  BY <1>1, <1>2 DEF ReplayTypes
<1> QED BY <1>2, <1>3 DEF ReplayInv, Recording, Replaying, ReplaysAgree

(* Every step of the driver keeps the invariant.                           *)
LEMMA ReplayNext == ReplayInv /\ [DriverNext]_driver_vars => ReplayInv'
<1> SUFFICES ASSUME ReplayInv, [DriverNext]_driver_vars PROVE ReplayInv'
  OBVIOUS
<1>1. CASE read_trace \/ eval_libc_valid
  BY <1>1, ReadReplay
<1>2. CASE StartValid
  BY <1>2, StartRecording
<1>3. CASE ValidOp
  BY <1>3, RecordStep
<1>4. CASE ValidDone
  BY <1>4, RecordDone
<1>5. CASE StartUtil
  <2>1. /\ phase = "util" /\ NewHeap("utilizing") /\ again' = <<>>
        /\ UNCHANGED <<blocks, libc, trace, op, answers>>
    BY <1>5 DEF StartUtil
  <2>2. ~libc /\ op' = 0
    BY <2>1 DEF ReplayInv, ReplayTypes
  <2> QED BY <2>1, <2>2, StartReplay
<1>6. CASE UtilOp
  <2>1. /\ phase = "utilizing" /\ op < trace.num_ops /\ Replay(trace.ops[op + 1])
        /\ UNCHANGED <<libc, trace, arenas, answers>>
    BY <1>6 DEF UtilOp
  <2> QED BY <2>1, ReplayOne
<1>7. CASE UtilDone
  <2>1. /\ phase = "utilizing" /\ op = trace.num_ops /\ phase' = "speed"
        /\ UNCHANGED <<mem, brk, blocks, libc, trace, op, arenas, answers, again>>
    BY <1>7 DEF UtilDone, vars
  <2> QED BY <2>1, ReplayDone
<1>8. CASE SpeedFcyc \/ SpeedGettod
  BY <1>8, SpeedReplay
<1>9. CASE eval_mm_speed
  <2>1. /\ phase = "speeding"
        /\ \/ op < trace.num_ops /\ Replay(trace.ops[op + 1])
           \/ /\ op = trace.num_ops /\ phase' = "speed"
              /\ UNCHANGED <<mem, brk, blocks, again, op>>
        /\ UNCHANGED <<libc, trace, arenas, answers>>
    BY <1>9 DEF eval_mm_speed
  <2>2. CASE op < trace.num_ops /\ Replay(trace.ops[op + 1])
    BY <2>1, <2>2, ReplayOne
  <2>3. CASE op = trace.num_ops /\ phase' = "speed" /\ UNCHANGED <<mem, brk, blocks, again, op>>
    BY <2>1, <2>3, ReplayDone
  <2> QED BY <2>1, <2>2, <2>3
<1>10. CASE free_trace \/ Score
  BY <1>10, EndReplay
<1>11. CASE UNCHANGED driver_vars
  <2>1. UNCHANGED <<mem, brk, ranges, blocks, verdict, phase, libc, trace, op, arenas, answers, again>>
    BY <1>11 DEF driver_vars, vars, main_vars
  <2>2. Snapshot' = Snapshot /\ TraceInv' = TraceInv
    BY <2>1 DEF Snapshot, TraceInv
  <2>3. \A g : Follows(g)' = Follows(g)
    BY <2>1 DEF Follows, Pointers
  <2>4. ReplayTypes' /\ ReplaysAgree'
    BY <2>1 DEF ReplayInv, ReplayTypes, ReplaysAgree
  <2>5. Recording' /\ Replaying'
    BY <2>1, <2>2, <2>3 DEF ReplayInv, Recording, Replaying
  <2> QED BY <2>4, <2>5 DEF ReplayInv
<1> QED BY <1>1, <1>2, <1>3, <1>4, <1>5, <1>6, <1>7, <1>8, <1>9, <1>10, <1>11 DEF DriverNext

(* The measuring run and every timed run get the very addresses that the   *)
(* checked run got, though nothing checks their answers: what is timed is  *)
(* what was found correct.                                                 *)
THEOREM RunsRepeat == DriverSpec => []ReplaysAgree
<1>1. ReplayInv => ReplaysAgree
  BY DEF ReplayInv
<1> USE ReplayInit, ReplayNext
<1> QED BY <1>1, PTL DEF DriverSpec

-----------------------------------------------------------------------------
\* Where the driver is.

(* Where main, fcyc and ftimer_gettod are: the timing package is used only *)
(* to time, and by one of its two functions.                               *)
PhaseInv ==
  /\ phase \in {"read", "libc_valid", "valid", "checking", "util", "utilizing", "speed",
                "speeding", "free", "score", "done", "abort", "overrun", "exit"}
  /\ libc \in BOOLEAN /\ timing \in {"fcyc", "gettod"}
  /\ file \in 1 .. Files /\ op \in 0 .. Len(trace.ops) /\ runs \in 0 .. RUNS
  /\ timing = "gettod" => stage = "idle"
  /\ timing = "fcyc" => runs = 0
  /\ phase \notin {"speed", "speeding", "exit"} => stage = "idle" /\ runs = 0
  /\ phase = "speeding" /\ timing = "fcyc" => stage = "stop"
  /\ phase \in {"score", "done"} => ~libc /\ file = Files

(* mem_init takes an arena or the driver exits.                            *)
LEMMA NewHeapCounts ==
  ASSUME NEW next, NewHeap(next)
  PROVE  \/ phase' = "exit" /\ arenas' = arenas
         \/ phase' = next /\ arenas' = arenas + 1
BY ZenonT(40) DEF NewHeap

(* So does a call that is timed, which the C library's allocator may end.  *)
LEMMA TimedCounts ==
  ASSUME Timed
  PROVE  \/ phase' = "exit" /\ arenas' = arenas /\ (libc => op' = op) /\ (~libc => op' = 0)
         \/ libc /\ phase' = phase /\ arenas' = arenas /\ op' = op
         \/ ~libc /\ phase' = "speeding" /\ arenas' = arenas + 1 /\ op' = 0
<1>1. CASE libc
  BY <1>1 DEF Timed
<1>2. CASE ~libc
  <2>1. NewHeap("speeding") /\ op' = 0
    BY <1>2 DEF Timed
  <2> QED BY <1>2, <2>1, NewHeapCounts
<1> QED BY <1>1, <1>2

(* A request that is repeated is done or ends the driver.                  *)
LEMMA ReplayCounts ==
  ASSUME NEW o, Replay(o)
  PROVE  \/ phase' = "exit" /\ UNCHANGED <<op, blocks>>
         \/ /\ phase' = phase /\ op' = op + 1
            /\ \E x : /\ again' = Append(again, x)
                      /\ blocks' = IF o.type = "f" THEN blocks
                                   ELSE [blocks EXCEPT ![o.index] = [ptr |-> x, size |-> o.size]]
<1>1. PICK r : IF Refused(o, r)
               THEN phase' = "exit" /\ UNCHANGED <<mem, brk, blocks, again, op>>
               ELSE /\ mem' = r.heap.mem /\ brk' = r.heap.brk
                    /\ blocks' = IF o.type = "f" THEN blocks
                                 ELSE [blocks EXCEPT ![o.index] = [ptr |-> r.bp, size |-> o.size]]
                    /\ again' = Append(again, r.bp)
                    /\ op' = op + 1
                    /\ UNCHANGED phase
  BY DEF Replay
<1> QED BY <1>1, Zenon

(* The driver starts at the beginning of its first file.                   *)
LEMMA PhaseInit == DriverInit => PhaseInv
<1> SUFFICES ASSUME DriverInit PROVE PhaseInv
  OBVIOUS
<1>1. Len(trace.ops) \in Nat
  BY TraceFilesAssumption, LenProperties DEF DriverInit
<1> QED BY <1>1, FilesAssumption DEF DriverInit, FcycInit, PhaseInv

(* Every step of the driver goes from one of its places to another.        *)
LEMMA PhaseNext == PhaseInv /\ ReplayInv /\ [DriverNext]_driver_vars => PhaseInv'
<1> SUFFICES ASSUME PhaseInv, ReplayInv, [DriverNext]_driver_vars PROVE PhaseInv'
  OBVIOUS
<1>1. ReplayTypes
  BY DEF ReplayInv
<1>2. Len(trace.ops) \in Nat /\ op \in Nat /\ trace \in TraceFiles
  BY <1>1, TraceFilesAssumption, LenProperties DEF ReplayTypes
<1>3. CASE read_trace
  <2>1. trace' \in TraceFiles
    BY <1>3 DEF read_trace
  <2>2. Len(trace'.ops) \in Nat
    BY <2>1, TraceFilesAssumption, LenProperties
  <2>3. phase' \in {"overrun", "abort", "libc_valid", "valid"} /\ phase = "read"
    BY <1>3 DEF read_trace
  <2> QED BY <1>3, <2>2, <2>3 DEF read_trace, PhaseInv, fcyc_vars
<1>4. CASE eval_libc_valid
  BY <1>4 DEF eval_libc_valid, PhaseInv, fcyc_vars
<1>5. CASE StartValid
  <2>1. phase' \in {"exit", "checking"} /\ phase = "valid"
    BY <1>5, NewHeapCounts DEF StartValid
  <2> QED BY <1>5, <2>1 DEF StartValid, PhaseInv, fcyc_vars
<1>6. CASE ValidOp
  <2>1. op' = op + 1 /\ op < Len(trace.ops)
    BY <1>1, <1>6 DEF ValidOp, ReplayTypes
  <2>2. op' \in 0 .. Len(trace.ops)
    BY <1>2, <2>1
  <2> QED BY <1>6, <2>2 DEF ValidOp, PhaseInv, fcyc_vars
<1>7. CASE ValidDone
  BY <1>2, <1>7 DEF ValidDone, PhaseInv, fcyc_vars
<1>8. CASE StartUtil
  <2>1. phase' \in {"exit", "utilizing"} /\ phase = "util"
    BY <1>8, NewHeapCounts DEF StartUtil
  <2> QED BY <1>8, <2>1 DEF StartUtil, PhaseInv, fcyc_vars
<1>9. CASE UtilOp
  <2>1. /\ phase = "utilizing" /\ op < Len(trace.ops)
        /\ (phase' = "exit" /\ op' = op) \/ (phase' = phase /\ op' = op + 1)
    <3>1. phase = "utilizing" /\ op < trace.num_ops /\ Replay(trace.ops[op + 1])
      BY <1>9 DEF UtilOp
    <3>2. trace.num_ops = Len(trace.ops)
      BY <1>1, <3>1 DEF ReplayTypes
    <3>3. (phase' = "exit" /\ op' = op) \/ (phase' = phase /\ op' = op + 1)
      BY <3>1, ReplayCounts
    <3> QED BY <3>1, <3>2, <3>3
  <2>2. op' \in 0 .. Len(trace.ops)
    BY <1>2, <2>1
  <2> QED BY <1>9, <2>1, <2>2 DEF UtilOp, PhaseInv, fcyc_vars
<1>10. CASE UtilDone
  BY <1>2, <1>10 DEF UtilDone, PhaseInv, fcyc_vars
<1>11. CASE SpeedFcyc
  <2>1. /\ phase = "speed" /\ timing = "fcyc"
        /\ \/ stage' \in {"start", "callibrate", "timed", "done"} /\ phase' = phase /\ op' = op
           \/ stage' = "stop" /\ Timed
           \/ stage' = "idle" /\ phase' = "free" /\ op' = op
        /\ UNCHANGED <<libc, timing, trace, file, runs>>
    BY <1>11 DEF SpeedFcyc, Begin, StartCallibrate, Add, CallibrateEvent, Call, Return
  <2>2. /\ \/ stage' \in {"start", "callibrate", "timed", "done"} /\ phase' = phase
           \/ stage' = "stop" /\ phase' \in {"exit", "speeding", "speed"}
           \/ stage' = "idle" /\ phase' = "free"
        /\ op' \in 0 .. Len(trace.ops)
    <3>1. CASE Timed
      <4>1. phase' \in {"exit", "speeding", "speed"} /\ op' \in {0, op}
        BY <2>1, <3>1, TimedCounts
      <4> QED BY <1>2, <2>1, <4>1 DEF PhaseInv
    <3>2. CASE ~Timed
      BY <2>1, <3>2 DEF PhaseInv
    <3> QED BY <3>1, <3>2
  <2> QED BY <2>1, <2>2 DEF PhaseInv
<1>12. CASE SpeedGettod
  <2>1. /\ phase = "speed" /\ timing = "gettod"
        /\ \/ runs < RUNS /\ runs' = runs + 1 /\ Timed
           \/ runs' = 0 /\ phase' = "free" /\ op' = op
        /\ UNCHANGED <<libc, timing, trace, file, stage>>
    BY <1>12 DEF SpeedGettod, fcyc_vars
  <2>2. /\ \/ runs < RUNS /\ runs' = runs + 1 /\ phase' \in {"exit", "speeding", "speed"}
           \/ runs' = 0 /\ phase' = "free"
        /\ op' \in 0 .. Len(trace.ops)
    <3>1. CASE Timed
      <4>1. phase' \in {"exit", "speeding", "speed"} /\ op' \in {0, op}
        BY <2>1, <3>1, TimedCounts
      <4> QED BY <1>2, <2>1, <4>1 DEF PhaseInv
    <3>2. CASE ~Timed
      BY <2>1, <3>2 DEF PhaseInv
    <3> QED BY <3>1, <3>2
  <2>3. runs' \in 0 .. RUNS
    BY <2>2, FilesAssumption DEF PhaseInv
  <2> QED BY <2>1, <2>2, <2>3 DEF PhaseInv
<1>13. CASE eval_mm_speed
  <2>1. /\ phase = "speeding" /\ trace.num_ops = Len(trace.ops)
        /\ \/ op < trace.num_ops /\ Replay(trace.ops[op + 1])
           \/ phase' = "speed" /\ op' = op
        /\ UNCHANGED <<libc, timing, trace, file, runs, stage>>
    BY <1>1, <1>13 DEF eval_mm_speed, fcyc_vars, ReplayTypes
  <2>2. /\ phase' \in {"exit", "speeding", "speed"} /\ op' \in 0 .. Len(trace.ops)
    <3>1. CASE op < trace.num_ops /\ Replay(trace.ops[op + 1])
      <4>1. phase' \in {"exit", "speeding"} /\ op' \in {op, op + 1}
        BY <2>1, <3>1, ReplayCounts
      <4> QED BY <1>2, <2>1, <3>1, <4>1
    <3>2. CASE phase' = "speed" /\ op' = op
      BY <3>2 DEF PhaseInv
    <3> QED BY <2>1, <3>1, <3>2
  <2> QED BY <2>1, <2>2 DEF PhaseInv
<1>14. CASE free_trace
  <2>1. /\ phase = "free" /\ op' = 0 /\ UNCHANGED <<timing, trace, runs, stage>>
        /\ \/ file < Files /\ file' = file + 1 /\ phase' = "read" /\ libc' = libc
           \/ ~(file < Files) /\ libc /\ file' = 1 /\ phase' = "read" /\ libc' = FALSE
           \/ ~(file < Files) /\ ~libc /\ phase' = "score" /\ file' = file /\ libc' = libc
    <3>1. CASE file < Files
      BY <1>14, <3>1 DEF free_trace, fcyc_vars
    <3>2. CASE ~(file < Files)
      BY <1>14, <3>2 DEF free_trace, fcyc_vars, PhaseInv
    <3> QED BY <3>1, <3>2
  <2>2. file' \in 1 .. Files /\ (~(file < Files) => file = Files)
    BY <2>1, FilesAssumption DEF PhaseInv
  <2>3. op' \in 0 .. Len(trace'.ops)
    BY <1>2, <2>1
  <2>4. stage = "idle" /\ runs = 0 /\ timing \in {"fcyc", "gettod"} /\ libc \in BOOLEAN /\ runs \in 0 .. RUNS
    BY <2>1 DEF PhaseInv
  <2>5. phase' \in {"read", "score"} /\ (phase' = "score" => ~libc' /\ file' = Files) /\ libc' \in BOOLEAN
    <3>1. CASE file < Files /\ phase' = "read" /\ libc' = libc
      <4>1. phase' # "score"
        BY <3>1
      <4> QED BY <2>4, <3>1, <4>1
    <3>2. CASE phase' = "read" /\ libc' = FALSE
      <4>1. phase' # "score"
        BY <3>2
      <4> QED BY <3>2, <4>1
    <3>3. CASE ~(file < Files) /\ ~libc /\ phase' = "score" /\ file' = file /\ libc' = libc
      <4>1. file = Files /\ ~libc'
        BY <2>2, <3>3
      <4> QED BY <2>4, <3>3, <4>1
    <3> QED BY <2>1, <3>1, <3>2, <3>3
  <2>6. stage' = "idle" /\ runs' = 0 /\ timing' \in {"fcyc", "gettod"} /\ runs' \in 0 .. RUNS
    BY <2>1, <2>4
  <2> QED BY <2>2, <2>3, <2>5, <2>6 DEF PhaseInv
<1>15. CASE Score
  BY <1>15 DEF Score, PhaseInv, fcyc_vars
<1>16. CASE UNCHANGED driver_vars
  BY <1>16 DEF driver_vars, main_vars, fcyc_vars, PhaseInv
<1> QED BY <1>3, <1>4, <1>5, <1>6, <1>7, <1>8, <1>9, <1>10, <1>11, <1>12, <1>13, <1>14,
           <1>15, <1>16 DEF DriverNext

-----------------------------------------------------------------------------
\* What eval_mm_util adds up.

Address == 0 .. MAX_HEAP - 1
Tables == [Indices -> [ptr : Address, size : Sizes \cup {0}]]

(* The driver's sums while a trace is measured: total_size is what the     *)
(* client holds, max_total_size the most it has held, and the sizes in the *)
(* table are right for the indices that hold something.  Those of others   *)
(* may be left from an earlier run.                                        *)
Measuring ==
  phase = "utilizing" =>
    /\ total_size = HeldBytes(trace.ops, op)
    /\ max_total_size = Max({HeldBytes(trace.ops, k) : k \in 0 .. op})
    /\ \A k \in 0 .. op : HeldBytes(trace.ops, k) <= max_total_size
    /\ \A i \in Indices : SizeHeld(trace.ops, op, i) > 0 =>
         blocks[i].size = SizeHeld(trace.ops, op, i)

BytesInv == /\ blocks \in Tables /\ answers \in Seq(Address)
            /\ total_size \in Nat /\ max_total_size \in Nat
            /\ Measuring

(* Before the first trace nothing is held and nothing is added up.         *)
LEMMA BytesInit == DriverInit => BytesInv
<1> SUFFICES ASSUME DriverInit PROVE BytesInv
  OBVIOUS
<1>1. 0 \in Address
  BY HeapAssumption DEF Address
<1>2. blocks \in Tables
  BY <1>1 DEF DriverInit, Tables, Unused
<1> QED BY <1>2 DEF DriverInit, BytesInv, Measuring

(* The checked run keeps the table in its type, and its answers are        *)
(* addresses.                                                              *)
LEMMA CheckedTypes ==
  ASSUME ReplayInv, BytesInv, ValidOp
  PROVE  blocks' \in Tables /\ answers' \in Seq(Address)
<1>1. ReplayTypes /\ Recording
  BY DEF ReplayInv
<1>2. PICK o : o = trace.ops[op + 1]
  OBVIOUS
<1>3. /\ phase = "checking" /\ verdict = "ok" /\ op < trace.num_ops
      /\ \/ o.type = "a" /\ Alloc(o.index, o.size)
         \/ o.type = "r" /\ Realloc(o.index, o.size)
         \/ o.type = "f" /\ Dealloc(o.index)
      /\ answers' = Append(answers, IF o.type = "f" THEN 0 ELSE blocks'[o.index].ptr)
  BY <1>2 DEF ValidOp
<1>4. /\ trace \in TraceFiles /\ op \in Nat /\ op < Len(trace.ops)
  BY <1>1, <1>3 DEF ReplayTypes
<1>5. o \in Requests /\ o.index \in Indices
  BY <1>2, <1>4, OpFacts
<1>6. o.type \in {"a", "r"} => o.size \in Sizes
  BY <1>5 DEF Requests
<1>7. TraceInv
  BY <1>1, <1>3 DEF Recording
<1>8. TraceInv'
  BY <1>3, <1>5, <1>6, <1>7, AllocStep, ReallocStep, DeallocStep
<1>9. blocks' \in Tables
  <2>1. Client(mem', brk', Walk(mem'), blocks')
    BY <1>8 DEF TraceInv
  <2>2. Payloads(mem', blocks')
    BY <2>1, ClientFacts
  <2> QED BY <2>2 DEF Payloads, Tables, Address
<1>10. PICK x : x = IF o.type = "f" THEN 0 ELSE blocks'[o.index].ptr
  OBVIOUS
<1>11. x \in Address
  <2>1. blocks'[o.index].ptr \in Address
    BY <1>5, <1>9 DEF Tables
  <2>2. 0 \in Address
    BY HeapAssumption DEF Address
  <2> QED BY <2>1, <2>2, <1>10
<1>12. answers' = Append(answers, x) /\ answers \in Seq(Address)
  BY <1>3, <1>10 DEF BytesInv
<1>13. answers' \in Seq(Address)
  BY <1>11, <1>12, AppendProperties
<1> QED BY <1>9, <1>13

(* A request that is repeated stores the size it asks for.                 *)
LEMMA ReplayedTable ==
  ASSUME ReplayInv, ReplayInv', BytesInv, phase \in {"utilizing", "speeding"}, op < trace.num_ops,
         NEW o, o = trace.ops[op + 1], Replay(o), UNCHANGED answers
  PROVE  /\ blocks' \in Tables
         /\ phase' = phase =>
              /\ op' = op + 1
              /\ o.type # "f" => blocks'[o.index].size = o.size
              /\ \A i \in Indices : i # o.index => blocks'[i] = blocks[i]
<1>1. ReplayTypes /\ ReplaysAgree /\ ReplaysAgree' /\ blocks \in Tables /\ answers \in Seq(Address)
  BY DEF ReplayInv, BytesInv
<1>2. CASE phase' = "exit" /\ UNCHANGED <<op, blocks>>
  BY <1>1, <1>2
<1>3. CASE /\ phase' = phase /\ op' = op + 1
           /\ \E x : /\ again' = Append(again, x)
                     /\ blocks' = IF o.type = "f" THEN blocks
                                  ELSE [blocks EXCEPT ![o.index] = [ptr |-> x, size |-> o.size]]
  <2>1. PICK x : /\ again' = Append(again, x)
                 /\ blocks' = IF o.type = "f" THEN blocks
                              ELSE [blocks EXCEPT ![o.index] = [ptr |-> x, size |-> o.size]]
    BY <1>3
  <2>2. again = SubSeq(answers, 1, op) /\ again' = SubSeq(answers, 1, op + 1)
    BY <1>1, <1>3 DEF ReplaysAgree
  <2>3. trace \in TraceFiles /\ op \in Nat /\ op < Len(trace.ops) /\ Len(answers) = Len(trace.ops)
    BY <1>1 DEF ReplayTypes, ReplayInv, Replaying
  <2>4. \A k \in 1 .. op + 1 : answers[k] \in Address
    <3>1. Len(answers) \in Nat
      BY <1>1, LenProperties
    <3>2. \A k \in 1 .. op + 1 : k \in 1 .. Len(answers)
      BY <2>3, <3>1
    <3> QED BY <1>1, <3>2, ElementOfSeq
  <2>5. /\ SubSeq(answers, 1, op) \in Seq(Address) /\ Len(SubSeq(answers, 1, op)) = op
        /\ SubSeq(answers, 1, op + 1) \in Seq(Address)
        /\ Len(SubSeq(answers, 1, op + 1)) = op + 1
    <3>1. \A k \in 1 .. op : answers[k] \in Address
      BY <2>3, <2>4
    <3>2. SubSeq(answers, 1, op) \in Seq(Address) /\ Len(SubSeq(answers, 1, op)) = op
      BY <2>3, <3>1, SubSeqProperties
    <3>3. /\ SubSeq(answers, 1, op + 1) \in Seq(Address)
          /\ Len(SubSeq(answers, 1, op + 1)) = op + 1
      BY <2>3, <2>4, SubSeqProperties
    <3> QED BY <3>2, <3>3
  <2>6. again \in Seq(Address) /\ Len(again) = op /\ again' \in Seq(Address) /\ Len(again') = op + 1
    BY <2>2, <2>5
  <2>7. x \in Address
    <3>1. op + 1 \in 1 .. Len(again')
      BY <2>3, <2>6
    <3>2. again'[op + 1] \in Address
      BY <2>6, <3>1, ElementOfSeq
    <3>3. Append(again, x)[op + 1] = x
      BY <2>3, <2>6, <2>1
    <3> QED BY <2>1, <3>2, <3>3
  <2>8. o \in Requests /\ o.index \in Indices
    BY <2>3, OpFacts
  <2>9. o.type # "f" => o.size \in Sizes
    BY <2>8 DEF Requests
  <2>10. blocks' \in Tables
    BY <1>1, <2>1, <2>7, <2>8, <2>9 DEF Tables
  <2>11. /\ o.type # "f" => blocks'[o.index].size = o.size
         /\ \A i \in Indices : i # o.index => blocks'[i] = blocks[i]
    BY <1>1, <2>1, <2>8 DEF Tables
  <2> QED BY <1>3, <2>10, <2>11
<1> QED BY <1>2, <1>3, ReplayCounts

(* The greatest of a set and one element more.                             *)
LEMMA MaxWith ==
  ASSUME NEW S \in SUBSET Nat, NEW m \in S, \A y \in S : y <= m, NEW x \in Nat
  PROVE  /\ Max(S \cup {x}) = Max({m, x}) /\ Max({m, x}) \in Nat
         /\ \A y \in S \cup {x} : y <= Max({m, x})
<1>1. m \in Nat
  OBVIOUS
<1>2. Max({m, x}) = IF m <= x THEN x ELSE m
  BY <1>1, MinMaxOfTwo
<1>3. PICK z : z = Max({m, x})
  OBVIOUS
<1>4. z \in S \cup {x} /\ m <= z /\ x <= z /\ z \in Nat
  BY <1>1, <1>2, <1>3
<1>5. ASSUME NEW y \in S \cup {x} PROVE y <= z
  <2>1. y \in Nat /\ (y <= m \/ y = x)
    OBVIOUS
  <2> QED BY <1>1, <1>4, <2>1
<1>6. S \cup {x} \in SUBSET Nat
  OBVIOUS
<1>7. Max(S \cup {x}) = z
  BY <1>4, <1>5, <1>6, MaxIs
<1> QED BY <1>3, <1>4, <1>5, <1>7

(* A request adds to the sums what it adds to the bytes held.              *)
LEMMA MeasureStep ==
  ASSUME ReplayInv, ReplayInv', BytesInv, UtilOp
  PROVE  BytesInv'
<1>1. ReplayTypes /\ blocks \in Tables /\ answers \in Seq(Address)
  BY DEF ReplayInv, BytesInv
<1>2. PICK o : o = trace.ops[op + 1]
  OBVIOUS
<1>3. /\ phase = "utilizing" /\ op < trace.num_ops /\ Replay(o)
      /\ IF phase' = "exit" THEN UNCHANGED <<total_size, max_total_size>>
         ELSE /\ total_size' = total_size + Grown(o)
              /\ max_total_size' = Max({max_total_size, total_size'})
      /\ UNCHANGED <<trace, answers>>
  BY <1>2 DEF UtilOp
<1>4. /\ blocks' \in Tables
      /\ phase' = phase =>
           /\ op' = op + 1
           /\ o.type # "f" => blocks'[o.index].size = o.size
           /\ \A i \in Indices : i # o.index => blocks'[i] = blocks[i]
  BY <1>2, <1>3, ReplayedTable
<1>5. phase' = "exit" \/ phase' = phase
  BY <1>3, ReplayCounts
<1>6. CASE phase' = "exit"
  BY <1>1, <1>3, <1>4, <1>6 DEF BytesInv, Measuring
<1>7. CASE phase' = "utilizing"
  <2>1. /\ trace.ops \in Seq(Requests) /\ Legal(trace.ops) /\ op \in Nat /\ op < Len(trace.ops)
        /\ o \in Requests /\ o.index \in Indices
    <3>1. trace \in TraceFiles /\ op \in Nat /\ op < Len(trace.ops)
      BY <1>1, <1>3 DEF ReplayTypes
    <3>2. o \in Requests /\ o.index \in Indices
      BY <1>2, <3>1, OpFacts
    <3> QED BY <3>1, <3>2, TraceFilesAssumption, LegalAssumption
  <2>2. PICK ops : ops = trace.ops
    OBVIOUS
  <2>3. PICK n \in Nat : n = op
    BY <2>1
  <2>4. PICK held : held = SizeHeld(ops, n, o.index)
    OBVIOUS
  <2>5. /\ n \in 0 .. Len(ops) /\ n + 1 \in 0 .. Len(ops) /\ n < Len(ops)
        /\ 0 .. n + 1 = (0 .. n) \cup {n + 1} /\ \A k \in 0 .. n : k \in 0 .. Len(ops)
    <3>1. Len(ops) \in Nat
      BY <2>1, <2>2, LenProperties
    <3> QED BY <2>1, <2>2, <2>3, <3>1
  <2>6. HeldBytes(ops, n + 1) = HeldBytes(ops, n) - held + o.size
    BY <1>2, <2>1, <2>2, <2>3, <2>4, <2>5, HeldCountable, HeldStep
  <2>7. /\ SizeHeld(ops, n + 1, o.index) = o.size
        /\ \A i : i # o.index => SizeHeld(ops, n + 1, i) = SizeHeld(ops, n, i)
    BY <1>2, <2>1, <2>2, <2>3, <2>5, HeldNext
  <2>8. held \in Nat
    <3>1. HeldSizes(ops, n) \in [Indices -> Nat]
      BY <2>1, <2>2, <2>5, HeldCountable DEF Countable
    <3>2. HeldSizes(ops, n)[o.index] = held
      BY <2>1, <2>4 DEF HeldSizes
    <3> QED BY <2>1, <3>1, <3>2
  <2>9. /\ total_size = HeldBytes(ops, n)
        /\ max_total_size = Max({HeldBytes(ops, k) : k \in 0 .. n})
        /\ \A k \in 0 .. n : HeldBytes(ops, k) <= max_total_size
        /\ \A i \in Indices : SizeHeld(ops, n, i) > 0 => blocks[i].size = SizeHeld(ops, n, i)
    BY <1>3, <2>2, <2>3 DEF BytesInv, Measuring
  <2>10. Grown(o) = o.size - held
    <3>1. o.type \in {"a", "r", "f"} /\ (o.type = "f" => o.size = 0) /\ o.size \in Nat
      <4>1. o.size \in Sizes \cup {0}
        BY <2>1 DEF Requests
      <4>2. \A z \in Sizes \cup {0} : z \in Nat
        BY TraceAssumption
      <4>3. o.size \in Nat
        BY <4>1, <4>2, Zenon
      <4> QED BY <2>1, <4>3 DEF Requests
    <3>2. o.type = "a" <=> held = 0
      BY <1>2, <2>1, <2>2, <2>3, <2>4, <2>5, HeldLegal
    <3>3. held # 0 => blocks[o.index].size = held
      BY <2>1, <2>4, <2>8, <2>9
    <3>4. CASE o.type = "a"
      BY <3>1, <3>2, <3>4 DEF Grown
    <3>5. CASE o.type = "r"
      BY <3>2, <3>3, <3>5 DEF Grown
    <3>6. CASE o.type = "f"
      BY <2>8, <3>1, <3>2, <3>3, <3>6 DEF Grown
    <3> QED BY <3>1, <3>4, <3>5, <3>6
  <2>11. HeldBytes(ops, n) \in Nat /\ HeldBytes(ops, n + 1) \in Nat /\ o.size \in Int
    <3>1. HeldBytes(ops, n) \in Nat /\ HeldBytes(ops, n + 1) \in Nat
      BY <2>1, <2>2, <2>5, HeldCountable
    <3>2. \A z \in Sizes \cup {0} : z \in Int
      BY TraceAssumption
    <3>3. o.size \in Sizes \cup {0}
      BY <2>1 DEF Requests
    <3> QED BY <3>1, <3>2, <3>3, Zenon
  <2>12. total_size' = HeldBytes(ops, n + 1)
    <3>1. total_size' = total_size + Grown(o)
      BY <1>3, <1>7
    <3> QED BY <2>6, <2>8, <2>9, <2>10, <2>11, <3>1
  <2>13. PICK S : S = {HeldBytes(ops, k) : k \in 0 .. n}
    OBVIOUS
  <2>14. S \in SUBSET Nat
    BY <2>1, <2>2, <2>5, <2>13, HeldCountable
  <2>15. max_total_size \in S /\ \A y \in S : y <= max_total_size
    <3>1. S # {} /\ max_total_size \in Nat /\ \A y \in S : y <= max_total_size
      BY <2>3, <2>9, <2>13 DEF BytesInv
    <3> QED BY <2>9, <2>13, <2>14, <3>1, MaxOfNats
  <2>16. {HeldBytes(ops, k) : k \in 0 .. n + 1} = S \cup {HeldBytes(ops, n + 1)}
    BY <2>5, <2>13
  <2>17. /\ max_total_size' = Max({HeldBytes(ops, k) : k \in 0 .. n + 1})
         /\ max_total_size' \in Nat
         /\ \A y \in S \cup {HeldBytes(ops, n + 1)} : y <= max_total_size'
    <3>1. max_total_size' = Max({max_total_size, HeldBytes(ops, n + 1)})
      BY <1>3, <1>7, <2>12
    <3>2. PICK h \in Nat : h = HeldBytes(ops, n + 1)
      BY <2>11
    <3>3. PICK m \in S : m = max_total_size
      BY <2>15
    <3>4. /\ Max(S \cup {h}) = Max({m, h}) /\ Max({m, h}) \in Nat
          /\ \A y \in S \cup {h} : y <= Max({m, h})
      BY <2>14, <2>15, <3>3, MaxWith
    <3>5. max_total_size' = Max({m, h}) /\ S \cup {HeldBytes(ops, n + 1)} = S \cup {h}
      BY <3>1, <3>2, <3>3
    <3> QED BY <2>16, <3>4, <3>5
  <2>18. \A k \in 0 .. n + 1 : HeldBytes(ops, k) <= max_total_size'
    BY <2>16, <2>17
  <2>19. ASSUME NEW i \in Indices, SizeHeld(ops, n + 1, i) > 0
         PROVE  blocks'[i].size = SizeHeld(ops, n + 1, i)
    <3>1. CASE i = o.index
      <4>1. o.size > 0
        BY <2>7, <2>19, <3>1
      <4>2. o.type = "f" => o.size = 0
        BY <2>1 DEF Requests
      <4>3. o.type # "f"
        BY <4>1, <4>2
      <4> QED BY <1>3, <1>4, <1>7, <2>7, <3>1, <4>3
    <3>2. CASE i # o.index
      BY <1>3, <1>4, <1>7, <2>7, <2>9, <2>19, <3>2
    <3> QED BY <3>1, <3>2
  <2>20. op' = n + 1 /\ trace'.ops = ops
    BY <1>3, <1>4, <1>7, <2>2, <2>3
  <2> QED BY <1>1, <1>3, <1>4, <2>11, <2>12, <2>17, <2>18, <2>19, <2>20 DEF BytesInv, Measuring
<1> QED BY <1>3, <1>5, <1>6, <1>7

(* Every step keeps the sums that eval_mm_util makes.                      *)
LEMMA BytesNext ==
  ASSUME ReplayInv, ReplayInv', BytesInv, [DriverNext]_driver_vars
  PROVE  BytesInv'
<1>1. ReplayTypes /\ 0 \in Nat
  BY DEF ReplayInv
<1>2. CASE read_trace \/ eval_libc_valid \/ ValidDone \/ UtilDone \/ Score
  <2>1. UNCHANGED <<blocks, answers, total_size, max_total_size>> /\ phase' # "utilizing"
    <3>1. CASE read_trace
      BY <3>1 DEF read_trace, vars
    <3>2. CASE eval_libc_valid \/ ValidDone
      BY <3>2 DEF eval_libc_valid, ValidDone, vars
    <3>3. CASE UtilDone \/ Score
      BY <3>3 DEF UtilDone, Score, vars
    <3> QED BY <1>2, <3>1, <3>2, <3>3
  <2> QED BY <2>1 DEF BytesInv, Measuring
<1>3. CASE StartValid
  <2>1. phase' \in {"exit", "checking"}
    BY <1>3, NewHeapCounts DEF StartValid
  <2>2. blocks' \in Tables
    <3>1. 0 \in Address
      BY HeapAssumption DEF Address
    <3> QED BY <1>3, <3>1 DEF StartValid, Tables, Unused
  <2> QED BY <1>3, <2>1, <2>2 DEF StartValid, BytesInv, Measuring
<1>4. CASE ValidOp
  <2>1. /\ blocks' \in Tables /\ answers' \in Seq(Address) /\ phase' = "checking"
        /\ UNCHANGED <<total_size, max_total_size>>
    BY <1>4, CheckedTypes DEF ValidOp
  <2> QED BY <2>1 DEF BytesInv, Measuring
<1>5. CASE StartUtil
  <2>1. phase = "util" /\ UNCHANGED <<blocks, trace, op, answers>>
        /\ total_size' = 0 /\ max_total_size' = 0
    BY <1>5 DEF StartUtil
  <2>2. op = 0
    BY <1>1, <2>1 DEF ReplayTypes
  <2>3. /\ HeldBytes(trace.ops, 0) = 0 /\ \A i : SizeHeld(trace.ops, 0, i) = 0
    BY HeldFirst
  <2>4. 0 .. 0 = {0} /\ {HeldBytes(trace.ops, k) : k \in {0}} = {0}
    BY <2>3
  <2>5. Max({0}) = 0
    BY MaxIs
  <2>6. Max({HeldBytes(trace.ops, k) : k \in 0 .. 0}) = 0
    BY <2>4, <2>5
  <2>7. \A k \in 0 .. 0 : HeldBytes(trace.ops, k) <= 0
    BY <2>3, <2>4
  <2>8. Measuring'
    BY <2>1, <2>2, <2>3, <2>6, <2>7 DEF Measuring
  <2> QED BY <2>1, <2>8 DEF BytesInv
<1>6. CASE UtilOp
  BY <1>6, MeasureStep
<1>7. CASE SpeedFcyc \/ SpeedGettod
  <2>1. /\ UNCHANGED <<blocks, answers, total_size, max_total_size>>
        /\ phase = "speed" /\ (phase' = phase \/ phase' = "free" \/ Timed)
    <3>1. CASE SpeedFcyc
      BY <3>1 DEF SpeedFcyc
    <3>2. CASE SpeedGettod
      BY <3>2 DEF SpeedGettod
    <3> QED BY <1>7, <3>1, <3>2
  <2>2. phase' # "utilizing"
    BY <2>1, TimedCounts
  <2> QED BY <2>1, <2>2 DEF BytesInv, Measuring
<1>8. CASE eval_mm_speed
  <2>1. /\ UNCHANGED <<answers, total_size, max_total_size>> /\ phase = "speeding"
        /\ \/ op < trace.num_ops /\ Replay(trace.ops[op + 1])
           \/ phase' = "speed" /\ UNCHANGED blocks
    BY <1>8 DEF eval_mm_speed
  <2>2. CASE op < trace.num_ops /\ Replay(trace.ops[op + 1])
    <3>1. blocks' \in Tables
      BY <2>1, <2>2, ReplayedTable
    <3>2. phase' # "utilizing"
      BY <2>1, <2>2, ReplayCounts
    <3> QED BY <2>1, <3>1, <3>2 DEF BytesInv, Measuring
  <2>3. CASE phase' = "speed" /\ UNCHANGED blocks
    BY <2>1, <2>3 DEF BytesInv, Measuring
  <2> QED BY <2>1, <2>2, <2>3
<1>9. CASE free_trace
  <2>1. /\ UNCHANGED blocks /\ answers' = <<>> /\ total_size' = 0 /\ max_total_size' = 0
        /\ phase' \in {"read", "score"}
    BY <1>9 DEF free_trace, vars
  <2> QED BY <2>1 DEF BytesInv, Measuring
<1>10. CASE UNCHANGED driver_vars
  BY <1>10 DEF driver_vars, vars, main_vars, BytesInv, Measuring
<1> QED BY <1>2, <1>3, <1>4, <1>5, <1>6, <1>7, <1>8, <1>9, <1>10 DEF DriverNext

-----------------------------------------------------------------------------
\* The statistics and the errors.

(* What was measured of a trace fits the heap it left.                     *)
LEMMA MeasuredFits ==
  ASSUME ReplayInv, BytesInv, phase = "utilizing", op = trace.num_ops
  PROVE  brk \in Nat /\ max_total_size \in Nat /\ max_total_size <= 4 * brk
<1>1. /\ trace \in TraceFiles /\ op \in Nat /\ op = Len(trace.ops) /\ ~libc
      /\ trace.ops \in Seq(Requests)
  BY TraceFilesAssumption DEF ReplayInv, ReplayTypes
<1>2. PICK G : Transcript(trace.ops, Len(trace.ops), answers, G) /\ Follows(G[op])
  BY <1>1 DEF ReplayInv, Replaying
<1>3. brk = G[op].brk /\ brk \in Nat
  <2>1. brk = G[op].brk /\ Alike(mem, G[op].mem, G[op].brk)
    BY <1>2 DEF Follows
  <2>2. Heap(mem, brk, Walk(mem))
    BY <2>1 DEF Alike
  <2>3. Tiled(mem, brk, Walk(mem))
    BY <2>2 DEF Heap
  <2>4. brk \in Nat
    BY <2>3, TiledFacts
  <2> QED BY <2>1, <2>4
<1>4. PICK n \in Nat : n = op
  BY <1>1
<1>5. PICK ops : ops = trace.ops
  OBVIOUS
<1>6. \A k \in 0 .. n : HeldBytes(ops, k) <= 4 * brk
  BY <1>1, <1>2, <1>3, <1>4, <1>5 DEF Transcript
<1>7. PICK S : S = {HeldBytes(ops, k) : k \in 0 .. n}
  OBVIOUS
<1>8. S \in SUBSET Nat /\ S # {} /\ \A y \in S : y <= 4 * brk
  BY <1>1, <1>4, <1>5, <1>6, <1>7, HeldCountable
<1>9. Max(S) \in S
  <2>1. 4 * brk \in Nat
    BY <1>3
  <2> QED BY <1>8, <2>1, MaxOfNats
<1>10. max_total_size = Max(S)
  BY <1>4, <1>5, <1>7 DEF BytesInv, Measuring
<1>11. max_total_size <= 4 * brk
  BY <1>8, <1>9, <1>10
<1> QED BY <1>3, <1>11 DEF BytesInv

\* The files judged so far, and those of them that were found invalid.
judged == IF libc THEN 0
          ELSE IF phase \in {"read", "valid", "checking"} THEN file - 1 ELSE file
Invalid(s, n) == {i \in 1 .. n : ~s[i].valid}

(* The driver's books: each file judged invalid is one error, a file that  *)
(* is not judged has no statistics yet, one that is measured was valid.    *)
BooksInv ==
  /\ stats \in [1 .. Files -> [valid : BOOLEAN, hwm : Nat, heapsize : Nat]]
  /\ \A i \in 1 .. Files : /\ stats[i].hwm <= stats[i].heapsize
                           /\ stats[i].heapsize > 0 => stats[i].valid
  /\ errors \in 0 .. Files + 1
  /\ phase \notin {"exit", "abort", "overrun"} =>
       /\ errors = Cardinality(Invalid(stats, judged))
       /\ \A i \in 1 .. Files : i > judged => stats[i] = NoStats
       /\ phase \in {"util", "utilizing", "speed", "speeding"} /\ ~libc => stats[file].valid
  /\ phase = "done" => perfidx = IF errors = 0 THEN "index" ELSE "errors"

(* How many of the first n traces were found invalid: none of them when all *)
(* are valid, and as many in two tables that agree on those.               *)
LEMMA InvalidFacts ==
  ASSUME NEW s, NEW n \in Nat
  PROVE  /\ IsFiniteSet(Invalid(s, n)) /\ Cardinality(Invalid(s, n)) \in 0 .. n
         /\ Cardinality(Invalid(s, n)) = 0 <=> \A i \in 1 .. n : s[i].valid
         /\ \A t : (\A i \in 1 .. n : t[i] = s[i]) => Invalid(t, n) = Invalid(s, n)
<1>1. 1 \in Int /\ n \in Int
  OBVIOUS
<1>2. IsFiniteSet(1 .. n) /\ Cardinality(1 .. n) = n
  BY <1>1, FS_Interval
<1>3. Invalid(s, n) \in SUBSET (1 .. n)
  BY DEF Invalid
<1>4. /\ IsFiniteSet(Invalid(s, n)) /\ Cardinality(Invalid(s, n)) <= n
  BY <1>2, <1>3, FS_Subset
<1>5. Cardinality(Invalid(s, n)) \in Nat
  BY <1>4, FS_CardinalityType
<1>6. Cardinality(Invalid(s, n)) = 0 <=> Invalid(s, n) = {}
  BY <1>4, FS_EmptySet
<1>7. Invalid(s, n) = {} <=> \A i \in 1 .. n : s[i].valid
  BY DEF Invalid
<1>8. \A t : (\A i \in 1 .. n : t[i] = s[i]) => Invalid(t, n) = Invalid(s, n)
  BY DEF Invalid
<1>9. Cardinality(Invalid(s, n)) \in 0 .. n
  BY <1>4, <1>5
<1> QED BY <1>4, <1>6, <1>7, <1>8, <1>9

(* One more file is judged.                                                *)
LEMMA InvalidNext ==
  ASSUME NEW s, NEW n \in Nat
  PROVE  Cardinality(Invalid(s, n + 1)) = Cardinality(Invalid(s, n))
                                          + (IF s[n + 1].valid THEN 0 ELSE 1)
<1>1. 1 .. n + 1 = (1 .. n) \cup {n + 1} /\ n + 1 \notin 1 .. n
  OBVIOUS
<1>2. CASE s[n + 1].valid
  <2>1. Invalid(s, n + 1) = Invalid(s, n)
    BY <1>1, <1>2 DEF Invalid
  <2>2. Cardinality(Invalid(s, n)) \in Int
    BY InvalidFacts
  <2> QED BY <1>2, <2>1, <2>2
<1>3. CASE ~s[n + 1].valid
  <2>1. Invalid(s, n + 1) = Invalid(s, n) \cup {n + 1} /\ n + 1 \notin Invalid(s, n)
    BY <1>1, <1>3 DEF Invalid
  <2>2. IsFiniteSet(Invalid(s, n))
    BY InvalidFacts
  <2>3. Cardinality(Invalid(s, n) \cup {n + 1}) = Cardinality(Invalid(s, n)) + 1
    BY <2>1, <2>2, FS_AddElement
  <2> QED BY <1>3, <2>1, <2>3
<1> QED BY <1>2, <1>3

(* No trace has been judged before the first.                              *)
LEMMA BooksInit == DriverInit => BooksInv
<1> SUFFICES ASSUME DriverInit PROVE BooksInv
  OBVIOUS
<1>1. judged = 0
  BY DEF DriverInit, judged
<1>2. Cardinality(Invalid(stats, 0)) = 0
  BY InvalidFacts
<1>3. stats \in [1 .. Files -> [valid : BOOLEAN, hwm : Nat, heapsize : Nat]]
  BY DEF DriverInit, NoStats
<1>4. \A i \in 1 .. Files : stats[i] = NoStats
  BY DEF DriverInit
<1>5. phase = "read" /\ errors = 0
  BY DEF DriverInit
<1>6. NoStats.hwm = 0 /\ NoStats.heapsize = 0
  BY DEF NoStats
<1> QED BY <1>1, <1>2, <1>3, <1>4, <1>5, <1>6, FilesAssumption DEF BooksInv

(* A step that judges no file.                                             *)
LEMMA BooksStay ==
  ASSUME BooksInv, UNCHANGED <<stats, errors>>, phase \notin {"exit", "abort", "overrun"},
         phase' # "done",
         \/ phase' \in {"exit", "abort", "overrun"}
         \/ /\ judged' = judged
            /\ phase' \in {"util", "utilizing", "speed", "speeding"} /\ ~libc' =>
                 /\ phase \in {"util", "utilizing", "speed", "speeding"} /\ ~libc
                 /\ file' = file
  PROVE  BooksInv'
<1>1. CASE phase' \in {"exit", "abort", "overrun"}
  BY <1>1 DEF BooksInv
<1>2. CASE /\ judged' = judged
           /\ phase' \in {"util", "utilizing", "speed", "speeding"} /\ ~libc' =>
                /\ phase \in {"util", "utilizing", "speed", "speeding"} /\ ~libc
                /\ file' = file
  <2>1. Invalid(stats', judged') = Invalid(stats, judged)
    BY <1>2
  <2> QED BY <1>2, <2>1 DEF BooksInv
<1> QED BY <1>1, <1>2

(* eval_mm_valid's verdict on a file.                                      *)
LEMMA BooksJudge ==
  ASSUME BooksInv, PhaseInv, ReplayInv, ValidDone
  PROVE  BooksInv'
<1>1. /\ phase = "checking" /\ ~libc /\ file \in 1 .. Files /\ Files \in Nat
  BY FilesAssumption DEF ValidDone, PhaseInv, ReplayInv, ReplayTypes
<1>2. PICK n \in Nat : n = file - 1 /\ file = n + 1 /\ n + 1 <= Files
  BY <1>1
<1>3. judged = n /\ judged' = n + 1
  BY <1>1, <1>2 DEF judged, ValidDone
<1>4. PICK ok \in BOOLEAN : ok = (verdict = "ok")
  OBVIOUS
<1>5. /\ errors' = IF ok THEN errors ELSE errors + 1
      /\ stats' = [stats EXCEPT ![n + 1].valid = ok]
      /\ phase' \in {"util", "free"} /\ (phase' = "util" => ok)
      /\ UNCHANGED <<libc, file>>
  BY <1>2, <1>4 DEF ValidDone
<1>6. /\ stats \in [1 .. Files -> [valid : BOOLEAN, hwm : Nat, heapsize : Nat]]
      /\ stats[n + 1] = NoStats
      /\ errors = Cardinality(Invalid(stats, n))
      /\ \A i \in 1 .. Files : i > n => stats[i] = NoStats
  BY <1>1, <1>2, <1>3 DEF BooksInv
<1>7. /\ \A i \in 1 .. n : stats'[i] = stats[i]
      /\ \A i \in 1 .. Files : i > n + 1 => stats'[i] = stats[i]
      /\ \A i \in 1 .. Files : i # n + 1 => stats'[i] = stats[i]
      /\ stats'[n + 1] = [stats[n + 1] EXCEPT !.valid = ok]
  <2>1. n + 1 \in 1 .. Files /\ \A i \in 1 .. n : i \in 1 .. Files /\ i # n + 1
    BY <1>1, <1>2
  <2>2. \A i \in 1 .. Files : i # n + 1 => stats'[i] = stats[i]
    BY <1>5, <1>6
  <2>3. stats'[n + 1] = [stats[n + 1] EXCEPT !.valid = ok]
    BY <1>5, <1>6, <2>1
  <2> QED BY <2>1, <2>2, <2>3
<1>8. stats'[n + 1].valid = ok /\ stats'[n + 1].hwm = 0 /\ stats'[n + 1].heapsize = 0
  BY <1>6, <1>7 DEF NoStats
<1>9. stats' \in [1 .. Files -> [valid : BOOLEAN, hwm : Nat, heapsize : Nat]]
  BY <1>5, <1>6
<1>10. PICK s : s = stats'
  OBVIOUS
<1>11. Cardinality(Invalid(s, n + 1)) = Cardinality(Invalid(s, n)) + (IF s[n + 1].valid THEN 0 ELSE 1)
  BY InvalidNext
<1>12. Invalid(s, n) = Invalid(stats, n)
  BY <1>7, <1>10, InvalidFacts
<1>13. Cardinality(Invalid(stats, n)) \in Nat /\ Cardinality(Invalid(s, n + 1)) \in 0 .. n + 1
  BY InvalidFacts
<1>14. errors' = Cardinality(Invalid(s, n + 1))
  <2>1. PICK old \in Nat : old = Cardinality(Invalid(stats, n))
    BY <1>13
  <2>2. s[n + 1].valid = ok
    BY <1>8, <1>10
  <2>3. Cardinality(Invalid(s, n + 1)) = old + (IF ok THEN 0 ELSE 1)
    BY <1>11, <1>12, <2>1, <2>2
  <2>4. errors' = IF ok THEN old ELSE old + 1
    BY <1>5, <1>6, <2>1
  <2> QED BY <2>1, <2>3, <2>4
<1>15. errors' \in 0 .. Files + 1
  BY <1>1, <1>2, <1>13, <1>14
<1>16. \A i \in 1 .. Files : /\ stats'[i].hwm <= stats'[i].heapsize
                             /\ stats'[i].heapsize > 0 => stats'[i].valid
  <2>1. ASSUME NEW i \in 1 .. Files
        PROVE  /\ stats'[i].hwm <= stats'[i].heapsize
               /\ stats'[i].heapsize > 0 => stats'[i].valid
    <3>1. CASE i = n + 1
      BY <3>1, <1>8
    <3>2. CASE i # n + 1
      BY <3>2, <1>7 DEF BooksInv
    <3> QED BY <3>1, <3>2
  <2> QED BY <2>1
<1>17. \A i \in 1 .. Files : i > n + 1 => stats'[i] = NoStats
  BY <1>2, <1>6, <1>7
<1>18. phase' \in {"util", "utilizing", "speed", "speeding"} => stats'[file'].valid
  BY <1>2, <1>5, <1>8
<1> QED BY <1>3, <1>5, <1>9, <1>10, <1>14, <1>15, <1>16, <1>17, <1>18 DEF BooksInv

(* The results of eval_mm_util.                                            *)
LEMMA BooksMeasure ==
  ASSUME BooksInv, PhaseInv, ReplayInv, BytesInv, UtilDone
  PROVE  BooksInv'
<1>1. /\ phase = "utilizing" /\ op = trace.num_ops /\ ~libc /\ file \in 1 .. Files
      /\ phase' = "speed" /\ UNCHANGED <<libc, file, errors>>
      /\ stats' = [stats EXCEPT ![file].hwm = max_total_size, ![file].heapsize = 4 * brk]
  BY DEF UtilDone, PhaseInv, ReplayInv, ReplayTypes
<1>2. brk \in Nat /\ max_total_size \in Nat /\ max_total_size <= 4 * brk
  BY <1>1, MeasuredFits
<1>3. /\ stats \in [1 .. Files -> [valid : BOOLEAN, hwm : Nat, heapsize : Nat]]
      /\ stats[file].valid /\ judged = file /\ judged' = file
      /\ errors = Cardinality(Invalid(stats, file))
      /\ \A i \in 1 .. Files : i > file => stats[i] = NoStats
  <2>1. judged = file /\ judged' = file
    BY <1>1 DEF judged
  <2> QED BY <1>1, <2>1 DEF BooksInv
<1>4. /\ \A i \in 1 .. Files : i # file => stats'[i] = stats[i]
      /\ stats'[file] = [stats[file] EXCEPT !.hwm = max_total_size, !.heapsize = 4 * brk]
  BY <1>1, <1>3
<1>5. /\ stats'[file].valid = stats[file].valid /\ stats'[file].hwm = max_total_size
      /\ stats'[file].heapsize = 4 * brk
  <2>1. PICK was \in [valid : BOOLEAN, hwm : Nat, heapsize : Nat] : was = stats[file]
    BY <1>1, <1>3
  <2>2. stats'[file] = [was EXCEPT !.hwm = max_total_size, !.heapsize = 4 * brk]
    BY <1>4, <2>1
  <2> QED BY <2>1, <2>2
<1>6. stats' \in [1 .. Files -> [valid : BOOLEAN, hwm : Nat, heapsize : Nat]]
  <2>1. 4 * brk \in Nat
    BY <1>2
  <2>2. PICK table : /\ table \in [1 .. Files -> [valid : BOOLEAN, hwm : Nat, heapsize : Nat]]
                     /\ table = stats
    BY <1>3
  <2>3. PICK was \in [valid : BOOLEAN, hwm : Nat, heapsize : Nat] : was = stats[file]
    BY <1>1, <2>2
  <2>4. [was EXCEPT !.hwm = max_total_size, !.heapsize = 4 * brk]
          \in [valid : BOOLEAN, hwm : Nat, heapsize : Nat]
    BY <1>2, <2>1
  <2>5. PICK now \in [valid : BOOLEAN, hwm : Nat, heapsize : Nat] : now = stats'[file]
    BY <1>4, <2>3, <2>4
  <2>6. stats' = [table EXCEPT ![file] = now]
    BY <1>1, <2>2, <2>5
  <2> QED BY <2>2, <2>5, <2>6
<1>7. Invalid(stats', file) = Invalid(stats, file)
  <2>1. \A i \in 1 .. file : i \in 1 .. Files
    BY <1>1, FilesAssumption
  <2>2. \A i \in 1 .. file : stats'[i].valid = stats[i].valid
    BY <1>4, <1>5, <2>1
  <2> QED BY <2>2 DEF Invalid
<1>8. ASSUME NEW i \in 1 .. Files
      PROVE  /\ stats'[i].hwm <= stats'[i].heapsize
             /\ stats'[i].heapsize > 0 => stats'[i].valid
  <2>1. CASE i = file
    BY <2>1, <1>2, <1>3, <1>5
  <2>2. CASE i # file
    BY <2>2, <1>4 DEF BooksInv
  <2> QED BY <2>1, <2>2
<1>9. \A i \in 1 .. Files : i > file => stats'[i] = NoStats
  BY <1>1, <1>3, <1>4
<1> QED BY <1>1, <1>3, <1>5, <1>6, <1>7, <1>8, <1>9 DEF BooksInv

(* Every step keeps the statistics and the count of the errors.            *)
LEMMA BooksNext ==
  ASSUME BooksInv, PhaseInv, ReplayInv, PhaseInv', ReplayInv', BytesInv, [DriverNext]_driver_vars
  PROVE  BooksInv'
<1> DEFINE Ended == {"exit", "abort", "overrun"}
           Measured4 == {"util", "utilizing", "speed", "speeding"}
<1>0. ReplayTypes /\ ReplayTypes' /\ libc \in BOOLEAN /\ file \in 1 .. Files
  BY DEF ReplayInv, PhaseInv
<1>1. CASE read_trace
  <2>1. /\ phase = "read" /\ phase' \in {"overrun", "abort", "libc_valid", "valid"}
        /\ UNCHANGED <<libc, file, stats, errors>>
    BY <1>1 DEF read_trace
  <2>2. phase' = "libc_valid" => libc
    BY <1>0, <2>1 DEF ReplayTypes
  <2>3. phase' \in Ended \/ judged' = judged
    BY <2>1, <2>2 DEF judged
  <2> QED BY <2>1, <2>3, BooksStay
<1>2. CASE eval_libc_valid
  <2>1. phase = "libc_valid" /\ UNCHANGED <<libc, file, stats>> /\ libc
    BY <1>0, <1>2 DEF eval_libc_valid, ReplayTypes
  <2>2. CASE phase' = "speed" /\ UNCHANGED errors
    <3>1. judged' = judged
      BY <2>1 DEF judged
    <3> QED BY <2>1, <2>2, <3>1, BooksStay
  <2>3. CASE phase' = "exit" /\ errors' = errors + 1
    <3>1. judged = 0
      BY <2>1 DEF judged
    <3>2. errors = 0
      BY <2>1, <3>1, InvalidFacts DEF BooksInv
    <3> QED BY <2>1, <2>3, <3>2, FilesAssumption DEF BooksInv
  <2> QED BY <1>2, <2>2, <2>3 DEF eval_libc_valid
<1>3. CASE StartValid \/ ValidOp
  <2>1. /\ phase \in {"valid", "checking"} /\ phase' \in {"exit", "checking"}
        /\ UNCHANGED <<libc, file, stats, errors>>
    <3>1. CASE StartValid
      BY <3>1, NewHeapCounts DEF StartValid
    <3>2. CASE ValidOp
      BY <3>2 DEF ValidOp
    <3> QED BY <1>3, <3>1, <3>2
  <2>2. phase' \in Ended \/ judged' = judged
    BY <2>1 DEF judged
  <2> QED BY <2>1, <2>2, BooksStay
<1>4. CASE ValidDone
  BY <1>4, BooksJudge
<1>5. CASE UtilDone
  BY <1>5, BooksMeasure
<1>6. CASE StartUtil \/ UtilOp \/ SpeedFcyc \/ SpeedGettod \/ eval_mm_speed
  <2>1. /\ phase \in Measured4
        /\ phase' \in {"exit", "free"} \/ phase' \in Measured4
        /\ UNCHANGED <<libc, file, stats, errors>>
    <3>1. CASE StartUtil
      BY <3>1, NewHeapCounts DEF StartUtil
    <3>2. CASE UtilOp
      BY <3>2, ReplayCounts DEF UtilOp
    <3>3. CASE SpeedFcyc
      BY <3>3, TimedCounts DEF SpeedFcyc
    <3>4. CASE SpeedGettod
      BY <3>4, TimedCounts DEF SpeedGettod
    <3>5. CASE eval_mm_speed
      BY <3>5, ReplayCounts DEF eval_mm_speed
    <3> QED BY <1>6, <3>1, <3>2, <3>3, <3>4, <3>5
  <2>2. phase' \in Ended \/ judged' = judged
    BY <2>1 DEF judged
  <2> QED BY <2>1, <2>2, BooksStay
<1>7. CASE free_trace
  <2>1. /\ phase = "free" /\ UNCHANGED <<stats, errors>>
        /\ \/ file' = file + 1 /\ phase' = "read" /\ libc' = libc
           \/ libc /\ file' = 1 /\ phase' = "read" /\ ~libc'
           \/ phase' = "score" /\ file' = file /\ libc' = libc
    BY <1>7 DEF free_trace
  <2>2. judged' = judged /\ phase' \in {"read", "score"}
    <3>1. (file + 1) - 1 = file
      BY <1>0
    <3> QED BY <2>1, <3>1 DEF judged
  <2> QED BY <2>1, <2>2, BooksStay
<1>8. CASE Score
  <2>1. /\ phase = "score" /\ phase' = "done" /\ UNCHANGED <<libc, file, stats, errors>>
        /\ perfidx' = IF errors = 0 THEN "index" ELSE "errors"
    BY <1>8 DEF Score
  <2>2. judged' = judged
    BY <2>1 DEF judged
  <2>3. Invalid(stats', judged') = Invalid(stats, judged)
    BY <2>1, <2>2
  <2> QED BY <2>1, <2>2, <2>3 DEF BooksInv
<1>9. CASE UNCHANGED driver_vars
  <2>1. UNCHANGED <<phase, libc, file, stats, errors, perfidx>>
    BY <1>9 DEF driver_vars, main_vars
  <2>2. judged' = judged
    BY <2>1 DEF judged
  <2>3. Invalid(stats', judged') = Invalid(stats, judged)
    BY <2>1, <2>2
  <2> QED BY <2>1, <2>2, <2>3 DEF BooksInv
<1> QED BY <1>1, <1>2, <1>3, <1>4, <1>5, <1>6, <1>7, <1>8, <1>9 DEF DriverNext

(* Everything the driver's invariants say of a state.                      *)
DriverInv == PhaseInv /\ ReplayInv /\ BytesInv /\ BooksInv

(* What holds of the driver at every moment: where it is, what it replays, *)
(* what it adds up and what it has noted.                                  *)
LEMMA DriverHolds == DriverSpec => []DriverInv
<1>1. DriverInit => DriverInv
  BY PhaseInit, ReplayInit, BytesInit, BooksInit DEF DriverInv
<1>2. DriverInv /\ [DriverNext]_driver_vars => DriverInv'
  <2> SUFFICES ASSUME DriverInv, [DriverNext]_driver_vars PROVE DriverInv'
    OBVIOUS
  <2>1. PhaseInv /\ ReplayInv /\ BytesInv /\ BooksInv
    BY DEF DriverInv
  <2>2. PhaseInv' /\ ReplayInv'
    BY <2>1, PhaseNext, ReplayNext
  <2>3. BytesInv' /\ BooksInv'
    BY <2>1, <2>2, BytesNext, BooksNext
  <2> QED BY <2>2, <2>3 DEF DriverInv
<1> QED BY <1>1, <1>2, PTL DEF DriverSpec

(* hwm is the most the client of a trace held at any time, and fits the    *)
(* heap; each invalid trace is one error; and there is a performance index *)
(* only when every trace was valid.                                        *)
THEOREM ReportsAreEarned == DriverSpec => []ReportIsEarned
<1>1. DriverInv => ReportIsEarned
  <2> SUFFICES ASSUME DriverInv PROVE ReportIsEarned
    OBVIOUS
  <2>1. PhaseInv /\ BytesInv /\ BooksInv
    BY DEF DriverInv
  <2>2. phase = "utilizing" => max_total_size = Max({HeldBytes(trace.ops, k) : k \in 0 .. op})
    BY <2>1 DEF BytesInv, Measuring
  <2>3. \A i \in 1 .. Files : /\ stats[i].hwm <= stats[i].heapsize
                              /\ stats[i].heapsize > 0 => stats[i].valid
    BY <2>1 DEF BooksInv
  <2>4. ASSUME phase = "done"
        PROVE  /\ errors = Cardinality({i \in 1 .. Files : ~stats[i].valid})
               /\ perfidx = "index" <=> \A i \in 1 .. Files : stats[i].valid
    <3>1. judged = Files
      BY <2>1, <2>4 DEF judged, PhaseInv
    <3>2. errors = Cardinality(Invalid(stats, Files))
      BY <2>1, <2>4, <3>1 DEF BooksInv
    <3>3. perfidx = IF errors = 0 THEN "index" ELSE "errors"
      BY <2>1, <2>4 DEF BooksInv
    <3>4. perfidx = "index" <=> errors = 0
      BY <3>3
    <3>5. errors = 0 <=> \A i \in 1 .. Files : stats[i].valid
      BY <3>2, InvalidFacts, FilesAssumption
    <3> QED BY <3>2, <3>4, <3>5 DEF Invalid
  <2> QED BY <2>2, <2>3, <2>4, Zenon DEF ReportIsEarned
<1> QED BY <1>1, DriverHolds, PTL

-----------------------------------------------------------------------------
\* The arenas.

\* Calls that are timed for a file, and arenas that it may take.
Calls == IF timing = "fcyc" THEN Max({1, MAXSAMPLES}) ELSE RUNS
PerFile == 2 + Calls

\* Files before this one that were found valid.
Valid(s, n) == {i \in 1 .. n : s[i].valid}
ValidBefore == Cardinality(Valid(stats, file - 1))

\* Calls begun for this file.
Begun == runs + samplecount + (IF stage = "stop" THEN 1 ELSE 0)

\* Arenas this file has taken at most, and with USE_GETTOD exactly.
Upto(last) == CASE phase \in {"read", "libc_valid", "valid"} -> 0
                [] phase \in {"checking", "util"} -> 1
                [] phase = "utilizing" -> 2
                [] phase \in {"speed", "speeding"} -> 2 + Begun
                [] OTHER -> last
Taken == Upto(PerFile)
Made == Upto(1 + (IF stats[file].valid THEN 1 + RUNS ELSE 0))

Ended == phase \in {"exit", "abort", "overrun"}

(* Each file takes an arena for each of its two evaluations and for each   *)
(* call that is timed, unless the driver ends before or finds it invalid.  *)
ArenaInv ==
  /\ arenas \in Nat
  /\ libc => arenas = 0
  /\ ~libc => arenas <= 1 + (file - 1) * PerFile + Taken
  /\ ~libc /\ timing = "gettod" /\ ~Ended =>
       arenas = 1 + (file - 1) + (1 + RUNS) * ValidBefore + Made

(* How many of the first n traces were found valid, counted one at a time. *)
LEMMA ValidFacts ==
  ASSUME NEW s, NEW n \in Nat
  PROVE  /\ Cardinality(Valid(s, n)) \in Nat /\ Valid(s, 0) = {} /\ Cardinality(Valid(s, 0)) = 0
         /\ Cardinality(Valid(s, n + 1)) = Cardinality(Valid(s, n))
                                           + (IF s[n + 1].valid THEN 1 ELSE 0)
<1>1. IsFiniteSet(Valid(s, n)) /\ Cardinality(Valid(s, n)) \in Nat
  <2>1. 1 \in Int /\ n \in Int
    OBVIOUS
  <2>2. IsFiniteSet(1 .. n)
    BY <2>1, FS_Interval
  <2>3. Valid(s, n) \in SUBSET (1 .. n)
    BY DEF Valid
  <2>4. IsFiniteSet(Valid(s, n))
    BY <2>2, <2>3, FS_Subset
  <2> QED BY <2>4, FS_CardinalityType
<1>2. 1 .. n + 1 = (1 .. n) \cup {n + 1} /\ n + 1 \notin 1 .. n
  OBVIOUS
<1>3. Valid(s, 0) = {} /\ Cardinality(Valid(s, 0)) = 0
  <2>1. Valid(s, 0) = {}
    BY DEF Valid
  <2> QED BY <2>1, FS_EmptySet
<1>4. CASE s[n + 1].valid
  <2>1. Valid(s, n + 1) = Valid(s, n) \cup {n + 1} /\ n + 1 \notin Valid(s, n)
    BY <1>2, <1>4 DEF Valid
  <2>2. Cardinality(Valid(s, n) \cup {n + 1}) = Cardinality(Valid(s, n)) + 1
    BY <1>1, <2>1, FS_AddElement
  <2> QED BY <1>1, <1>3, <1>4, <2>1, <2>2
<1>5. CASE ~s[n + 1].valid
  <2>1. Valid(s, n + 1) = Valid(s, n)
    BY <1>2, <1>5 DEF Valid
  <2> QED BY <1>1, <1>3, <1>5, <2>1
<1> QED BY <1>4, <1>5

(* No file takes more than its share.                                      *)
Shares == /\ Calls \in Nat /\ Calls >= 1 /\ PerFile = 2 + Calls /\ Taken \in 0 .. PerFile
          /\ Begun \in 0 .. Calls
          /\ samplecount \in Nat /\ (stage = "idle" => samplecount = 0)

(* The arenas that a file may take, from the types of the timing package.  *)
LEMMA ShareFacts == PhaseInv /\ TimingOK /\ SamplerOK => Shares
<1> SUFFICES ASSUME PhaseInv, TimingOK, SamplerOK PROVE Shares
  OBVIOUS
<1>1. /\ timing \in {"fcyc", "gettod"} /\ runs \in 0 .. RUNS
      /\ timing = "gettod" => stage = "idle"
      /\ timing = "fcyc" => runs = 0
      /\ RUNS \in Nat \ {0} /\ MAXSAMPLES \in Nat
  BY FilesAssumption, SamplerAssumption DEF PhaseInv
<1>2. /\ samplecount \in Nat
      /\ stage \in {"idle", "start", "callibrate", "timed", "stop", "done"}
      /\ stage = "idle" => samplecount = 0
      /\ stage \in {"start", "callibrate", "timed", "stop"} =>
           samplecount = 0 \/ samplecount < MAXSAMPLES
      /\ stage = "done" => samplecount = 1 \/ samplecount <= MAXSAMPLES
  <2>1. samplecount \in Nat
    BY DEF SamplerOK
  <2> QED BY <2>1 DEF TimingOK, ClockTypes, SamplerOK
<1>3. Max({1, MAXSAMPLES}) = IF 1 <= MAXSAMPLES THEN MAXSAMPLES ELSE 1
  BY <1>1, MinMaxOfTwo
<1>4. Calls = IF timing = "fcyc" THEN IF 1 <= MAXSAMPLES THEN MAXSAMPLES ELSE 1 ELSE RUNS
  BY <1>3 DEF Calls
<1>5. Calls \in Nat /\ Calls >= 1
  BY <1>1, <1>4
<1>6. Begun \in 0 .. Calls
  BY <1>1, <1>2, <1>4 DEF Begun
<1>7. PerFile = 2 + Calls
  BY DEF PerFile
<1>8. Taken \in 0 .. PerFile
  <2>1. Taken \in {0, 1, 2, 2 + Begun, PerFile}
    BY DEF Taken, Upto
  <2> QED BY <2>1, <1>5, <1>6, <1>7
<1> QED BY <1>2, <1>5, <1>6, <1>7, <1>8 DEF Shares

(* A step within a file takes an arena or not.                             *)
LEMMA ArenaStep ==
  ASSUME ArenaInv, PhaseInv, Shares, Shares',
         UNCHANGED <<libc, timing, file>>, NEW d \in {0, 1},
         arenas' = arenas + d, libc => d = 0, ~libc => Taken' >= Taken + d,
         ~libc /\ timing = "gettod" /\ ~Ended' =>
           ~Ended /\ Made' = Made + d /\ ValidBefore' = ValidBefore
  PROVE  ArenaInv'
<1>1. /\ PerFile \in Nat /\ Taken \in Nat /\ Taken' \in Nat /\ PerFile' = PerFile
      /\ file \in 1 .. Files /\ arenas \in Nat /\ RUNS \in Nat
  <2>1. PerFile' = PerFile
    BY DEF PerFile, Calls
  <2>2. PerFile \in Nat /\ Taken \in Nat
    BY DEF Shares
  <2>3. Taken' \in Nat
    BY <2>1, <2>2 DEF Shares
  <2>4. file \in 1 .. Files /\ arenas \in Nat /\ RUNS \in Nat
    BY FilesAssumption DEF PhaseInv, ArenaInv
  <2> QED BY <2>1, <2>2, <2>3, <2>4
<1>2. PICK c \in Nat : c = (file - 1) * PerFile
  BY <1>1, FilesAssumption
<1>3. (file' - 1) * PerFile' = c
  BY <1>1, <1>2
<1>4. ASSUME ~libc
      PROVE  arenas' <= 1 + (file' - 1) * PerFile' + Taken'
  <2>1. arenas <= 1 + c + Taken
    BY <1>2, <1>4 DEF ArenaInv
  <2>2. Taken' >= Taken + d /\ arenas' = arenas + d
    BY <1>4
  <2>3. PICK t \in Nat : t = Taken
    BY <1>1
  <2>4. PICK t2 \in Nat : t2 = Taken'
    BY <1>1
  <2>5. PICK a \in Nat : a = arenas
    BY <1>1
  <2>6. a <= 1 + c + t /\ t2 >= t + d /\ arenas' = a + d /\ d \in Nat
    BY <2>1, <2>2, <2>3, <2>4, <2>5
  <2>7. a + d <= 1 + c + t2
    BY <2>6
  <2> QED BY <1>3, <2>4, <2>6, <2>7
<1>5. ASSUME ~libc, timing = "gettod", ~Ended'
      PROVE  arenas' = 1 + (file' - 1) + (1 + RUNS) * ValidBefore' + Made'
  <2>1. /\ ValidBefore' = ValidBefore /\ Made' = Made + d
        /\ arenas = 1 + (file - 1) + (1 + RUNS) * ValidBefore + Made
    BY <1>5 DEF ArenaInv
  <2>2. Made \in Int /\ ValidBefore \in Nat
    <3>1. Begun \in Int
      BY DEF Shares
    <3>2. Made \in {0, 1, 2, 2 + Begun, 1, 2 + RUNS}
      <4>1. (1 + (IF stats[file].valid THEN 1 + RUNS ELSE 0)) \in {1, 2 + RUNS}
        BY <1>1
      <4> QED BY <4>1 DEF Made, Upto
    <3>3. file - 1 \in Nat
      BY <1>1, FilesAssumption
    <3> QED BY <1>1, <3>1, <3>2, <3>3, ValidFacts DEF ValidBefore
  <2>3. PICK v \in Nat : v = (1 + RUNS) * ValidBefore
    BY <1>1, <2>2
  <2>4. arenas = 1 + (file - 1) + v + Made
    BY <2>1, <2>3
  <2>5. arenas + d = 1 + (file - 1) + v + (Made + d)
    BY <1>1, <2>2, <2>4, FilesAssumption
  <2>6. (1 + RUNS) * ValidBefore' = v
    BY <2>1, <2>3
  <2> QED BY <2>1, <2>5, <2>6
<1>6. arenas' \in Nat
  BY <1>1
<1>7. libc' => arenas' = 0
  BY DEF ArenaInv
<1> QED BY <1>4, <1>5, <1>6, <1>7 DEF ArenaInv

(* The driver has made one heap, or the libc pass none, when it starts.    *)
LEMMA ArenaInit == DriverInit /\ Shares => ArenaInv
<1> SUFFICES ASSUME DriverInit, Shares PROVE ArenaInv
  OBVIOUS
<1>1. phase = "read" /\ file = 1 /\ arenas = (IF libc THEN 0 ELSE 1) /\ libc \in BOOLEAN
  BY DEF DriverInit
<1>2. Taken = 0 /\ Made = 0
  BY <1>1 DEF Taken, Made, Upto
<1>3. ValidBefore = 0
  BY <1>1, ValidFacts DEF ValidBefore
<1>4. (file - 1) * PerFile = 0
  <2>1. PerFile \in Int
    BY DEF Shares
  <2>2. 0 * PerFile = 0 /\ file - 1 = 0
    BY <1>1, <2>1
  <2> QED BY <2>2
<1> QED BY <1>1, <1>2, <1>3, <1>4, FilesAssumption DEF ArenaInv

(* A step of the two evaluations, which takes an arena when it makes a     *)
(* heap.                                                                   *)
LEMMA EvaluationArenas ==
  ASSUME ArenaInv, PhaseInv, ReplayInv, Shares, Shares', PhaseInv', ReplayInv',
         \/ read_trace \/ eval_libc_valid \/ StartValid \/ ValidOp \/ StartUtil \/ UtilOp
  PROVE  ArenaInv'
<1>1. /\ UNCHANGED <<libc, timing, file, stats, runs, samplecount, stage>> /\ ~Ended
      /\ ReplayTypes /\ ReplayTypes'
  <2>1. CASE read_trace
    BY <2>1 DEF read_trace, fcyc_vars, Ended, ReplayInv
  <2>2. CASE eval_libc_valid
    BY <2>2 DEF eval_libc_valid, fcyc_vars, Ended, ReplayInv
  <2>3. CASE StartValid \/ ValidOp
    BY <2>3 DEF StartValid, ValidOp, fcyc_vars, Ended, ReplayInv
  <2>4. CASE StartUtil \/ UtilOp
    BY <2>4 DEF StartUtil, UtilOp, fcyc_vars, Ended, ReplayInv
  <2> QED BY <2>1, <2>2, <2>3, <2>4
<1>2. ValidBefore' = ValidBefore
  BY <1>1 DEF ValidBefore, Valid
<1>3. PerFile \in Nat /\ PerFile >= 3 /\ PerFile' = PerFile /\ Taken \in 0 .. PerFile
      /\ Taken' \in 0 .. PerFile
  BY <1>1 DEF Shares, PerFile, Calls
<1>4. PICK d \in {0, 1} :
        /\ arenas' = arenas + d /\ (libc => d = 0)
        /\ ~libc => \/ Ended' /\ d = 0
                    \/ Taken' = Taken + d /\ Made' = Made + d /\ ~Ended'
  <2>1. CASE read_trace
    <3>1. /\ phase = "read" /\ phase' \in {"overrun", "abort", "libc_valid", "valid"}
          /\ arenas' = arenas
      BY <2>1 DEF read_trace
    <3>2. /\ phase' \in {"libc_valid", "valid"} => Taken' = 0 /\ Made' = 0
          /\ Taken = 0 /\ Made = 0
      BY <3>1 DEF Taken, Made, Upto
    <3>3. arenas' = arenas + 0
      BY <3>1 DEF ArenaInv
    <3>4. \/ Ended'
          \/ Taken' = Taken + 0 /\ Made' = Made + 0 /\ ~Ended'
      BY <3>1, <3>2 DEF Ended
    <3> QED BY <3>3, <3>4
  <2>2. CASE eval_libc_valid
    <3>1. arenas' = arenas /\ libc
      BY <1>1, <2>2 DEF eval_libc_valid, ReplayTypes
    <3> QED BY <3>1 DEF ArenaInv
  <2>3. CASE StartValid
    <3>1. /\ phase = "valid" /\ ~libc
          /\ \/ phase' = "exit" /\ arenas' = arenas
             \/ phase' = "checking" /\ arenas' = arenas + 1
      BY <1>1, <2>3, NewHeapCounts DEF StartValid, ReplayTypes
    <3>2. phase' = "checking" => Taken' = Taken + 1 /\ Made' = Made + 1
      BY <3>1 DEF Taken, Made, Upto
    <3> QED BY <3>1, <3>2 DEF Ended, ArenaInv
  <2>4. CASE ValidOp
    <3>1. phase = "checking" /\ phase' = "checking" /\ arenas' = arenas /\ ~libc
      BY <1>1, <2>4 DEF ValidOp, ReplayTypes
    <3>2. Taken' = Taken /\ Made' = Made /\ Taken = 1 /\ Made = 1
      BY <3>1 DEF Taken, Made, Upto
    <3> QED BY <3>1, <3>2 DEF Ended, ArenaInv
  <2>5. CASE StartUtil
    <3>1. /\ phase = "util" /\ ~libc
          /\ \/ phase' = "exit" /\ arenas' = arenas
             \/ phase' = "utilizing" /\ arenas' = arenas + 1
      BY <1>1, <2>5, NewHeapCounts DEF StartUtil, ReplayTypes
    <3>2. phase' = "utilizing" => Taken' = Taken + 1 /\ Made' = Made + 1
      BY <3>1 DEF Taken, Made, Upto
    <3> QED BY <3>1, <3>2 DEF Ended, ArenaInv
  <2>6. CASE UtilOp
    <3>1. phase = "utilizing" /\ phase' \in {"exit", "utilizing"} /\ arenas' = arenas
      BY <2>6, ReplayCounts DEF UtilOp
    <3>2. /\ phase' = "utilizing" =>
                Taken' = Taken + 0 /\ Made' = Made + 0 /\ ~Ended'
          /\ phase' = "exit" => Ended' /\ arenas' = arenas + 0
          /\ phase' = "utilizing" => arenas' = arenas + 0
      BY <3>1 DEF Taken, Made, Upto, Ended, ArenaInv
    <3>3. /\ arenas' = arenas + 0
          /\ Ended' \/ (Taken' = Taken + 0 /\ Made' = Made + 0 /\ ~Ended')
      BY <3>1, <3>2
    <3> QED BY <3>3
  <2> QED BY <2>1, <2>2, <2>3, <2>4, <2>5, <2>6
<1>5. ~libc => Taken' >= Taken + d
  <2>1. ASSUME Ended', d = 0
        PROVE  Taken' >= Taken + d
    <3>1. Taken' = PerFile
      BY <1>3, <2>1 DEF Ended, Taken, Upto
    <3> QED BY <1>3, <2>1, <3>1
  <2>2. ASSUME Taken' = Taken + d
        PROVE  Taken' >= Taken + d
    BY <1>3, <2>2
  <2> QED BY <1>4, <2>1, <2>2
<1> QED BY <1>1, <1>2, <1>4, <1>5, ArenaStep

(* The end of an evaluation takes none.                                    *)
LEMMA DoneArenas ==
  ASSUME ArenaInv, PhaseInv, ReplayInv, Shares, Shares', PhaseInv', BooksInv,
         ValidDone \/ UtilDone \/ Score
  PROVE  ArenaInv'
<1>1. /\ UNCHANGED <<libc, timing, file, runs, samplecount, stage, arenas>> /\ ~Ended
      /\ file \in 1 .. Files /\ Files \in Nat /\ (phase \in {"checking", "utilizing"} => ~libc)
  <2>1. CASE ValidDone \/ UtilDone
    BY <2>1, FilesAssumption DEF ValidDone, UtilDone, fcyc_vars, Ended, ReplayInv, ReplayTypes, PhaseInv
  <2>2. CASE Score
    BY <2>2, FilesAssumption DEF Score, fcyc_vars, Ended, ReplayInv, ReplayTypes, PhaseInv
  <2> QED BY <2>1, <2>2
<1>2. /\ PerFile \in Nat /\ PerFile >= 3 /\ PerFile' = PerFile /\ Taken \in 0 .. PerFile
      /\ Begun \in Nat
  BY <1>1 DEF Shares, PerFile, Calls
<1>3. /\ stats \in [1 .. Files -> [valid : BOOLEAN, hwm : Nat, heapsize : Nat]]
  BY DEF BooksInv
<1>4. arenas \in Nat /\ arenas' = arenas + 0
  BY <1>1 DEF ArenaInv
<1>5. ASSUME \A i \in 1 .. Files : i # file => stats'[i] = stats[i]
      PROVE  ValidBefore' = ValidBefore
  <2>1. \A i \in 1 .. file - 1 : i \in 1 .. Files /\ i # file
    BY <1>1
  <2>2. Valid(stats', file - 1) = Valid(stats, file - 1)
    BY <1>5, <2>1 DEF Valid
  <2> QED BY <1>1, <2>2 DEF ValidBefore
<1>6. CASE ValidDone
  <2>1. /\ phase = "checking" /\ phase' = IF verdict = "ok" THEN "util" ELSE "free"
        /\ stats' = [stats EXCEPT ![file].valid = verdict = "ok"]
    BY <1>6 DEF ValidDone
  <2>2. stats'[file].valid = (verdict = "ok")
    BY <1>1, <1>3, <2>1
  <2>3. \A i \in 1 .. Files : i # file => stats'[i] = stats[i]
    BY <1>3, <2>1
  <2>4. Taken = 1 /\ Made = 1
    BY <2>1 DEF Taken, Made, Upto
  <2>5. Taken' >= Taken + 0 /\ Made' = Made + 0
    <3>1. CASE verdict = "ok"
      <4>1. phase' = "util"
        BY <2>1, <3>1
      <4>2. Taken' = 1 /\ Made' = 1
        BY <4>1 DEF Taken, Made, Upto
      <4> QED BY <2>4, <4>2
    <3>2. CASE verdict # "ok"
      <4>1. phase' = "free" /\ stats'[file'].valid = FALSE
        BY <1>1, <2>1, <2>2, <3>2
      <4>2. Taken' = PerFile' /\ Made' = 1
        BY <4>1 DEF Taken, Made, Upto
      <4> QED BY <1>2, <2>4, <4>2
    <3> QED BY <3>1, <3>2
  <2> QED BY <1>1, <1>4, <1>5, <2>3, <2>5, ArenaStep
<1>7. CASE UtilDone
  <2>1. /\ phase = "utilizing" /\ phase' = "speed"
        /\ stats' = [stats EXCEPT ![file].hwm = max_total_size, ![file].heapsize = 4 * brk]
    BY <1>7 DEF UtilDone
  <2>2. \A i \in 1 .. Files : i # file => stats'[i] = stats[i]
    BY <1>3, <2>1
  <2>3. runs = 0 /\ samplecount = 0 /\ stage = "idle"
    BY <2>1 DEF PhaseInv, Shares
  <2>4. Begun' = 0
    BY <1>1, <2>3 DEF Begun
  <2>5. Taken = 2 /\ Made = 2 /\ Taken' = 2 /\ Made' = 2
    BY <2>1, <2>4 DEF Taken, Made, Upto
  <2>6. Taken' >= Taken + 0 /\ Made' = Made + 0
    BY <2>5
  <2> QED BY <1>1, <1>4, <1>5, <2>2, <2>6, ArenaStep
<1>8. CASE Score
  <2>1. phase = "score" /\ phase' = "done" /\ UNCHANGED stats
    BY <1>8 DEF Score
  <2>2. Taken = PerFile /\ Taken' = PerFile'
    BY <2>1 DEF Taken, Upto
  <2>3. Made' = Made /\ Made \in Int
    <3>1. stats[file].valid \in BOOLEAN /\ RUNS \in Nat
      BY <1>1, <1>3, FilesAssumption
    <3>2. Made = 1 + (IF stats[file].valid THEN 1 + RUNS ELSE 0)
      BY <2>1 DEF Made, Upto
    <3>3. Made' = 1 + (IF stats'[file'].valid THEN 1 + RUNS ELSE 0)
      BY <2>1 DEF Made, Upto
    <3>4. Made' = Made
      BY <1>1, <2>1, <3>2, <3>3
    <3> QED BY <3>1, <3>2, <3>4
  <2>4. Taken' >= Taken + 0 /\ Made' = Made + 0
    BY <1>2, <2>2, <2>3
  <2> QED BY <1>1, <1>4, <1>5, <2>1, <2>4, ArenaStep
<1> QED BY <1>6, <1>7, <1>8

(* A call that is timed takes an arena.                                    *)
LEMMA SpeedArenas ==
  ASSUME ArenaInv, PhaseInv, ReplayInv, Shares, Shares', PhaseInv', BooksInv,
         SpeedFcyc \/ SpeedGettod \/ eval_mm_speed
  PROVE  ArenaInv'
<1>1. /\ UNCHANGED <<libc, timing, file, stats>> /\ ~Ended
      /\ phase \in {"speed", "speeding"}
  <2>1. CASE SpeedFcyc
    BY <2>1 DEF SpeedFcyc, Ended
  <2>2. CASE SpeedGettod \/ eval_mm_speed
    BY <2>2 DEF SpeedGettod, eval_mm_speed, Ended
  <2> QED BY <2>1, <2>2
<1>2. ValidBefore' = ValidBefore
  BY <1>1 DEF ValidBefore, Valid
<1>3. /\ PerFile \in Nat /\ PerFile >= 3 /\ PerFile' = PerFile /\ Taken \in 0 .. PerFile
      /\ Taken' \in 0 .. PerFile /\ samplecount \in Nat /\ runs \in Nat /\ Begun \in Nat
      /\ arenas \in Nat /\ RUNS \in Nat /\ runs <= RUNS
  BY <1>1, FilesAssumption, SMTT(60) DEF Shares, PerFile, Calls, PhaseInv, ArenaInv
<1>4. Taken = 2 + Begun /\ Made = 2 + Begun
  BY <1>1 DEF Taken, Made, Upto
<1>5. /\ phase' \in {"speed", "speeding"} => Taken' = 2 + Begun' /\ Made' = 2 + Begun'
      /\ phase' \in {"exit", "free"} => Taken' = PerFile'
      /\ phase' = "free" => Made' = 1 + (IF stats[file].valid THEN 1 + RUNS ELSE 0)
  BY <1>1 DEF Taken, Made, Upto
<1>6. PICK d \in {0, 1} :
        /\ arenas' = arenas + d /\ (libc => d = 0)
        /\ \/ phase' = "exit" /\ d = 0
           \/ phase' = "free" /\ d = 0 /\ (timing = "gettod" => Begun = RUNS)
           \/ phase' \in {"speed", "speeding"} /\ (~libc => Begun' = Begun + d)
  <2>1. CASE SpeedFcyc
    <3>1. /\ timing = "fcyc" /\ runs' = runs
          /\ \/ /\ phase' = "speed" /\ arenas' = arenas /\ samplecount' = samplecount
                /\ stage \in {"start", "callibrate"} /\ stage' \in {"callibrate", "timed"}
             \/ /\ phase' = "speed" /\ arenas' = arenas
                /\ stage = "idle" /\ stage' = "start" /\ samplecount' = 0
             \/ /\ phase' = "speed" /\ arenas' = arenas /\ samplecount' = samplecount + 1
                /\ stage = "stop" /\ stage' \in {"start", "done"}
             \/ stage \in {"start", "timed"} /\ stage' = "stop" /\ samplecount' = samplecount /\ Timed
             \/ phase' = "free" /\ arenas' = arenas
      BY <2>1 DEF SpeedFcyc, Begin, StartCallibrate, Add, CallibrateEvent, Call, Return
    <3>2. stage = "idle" => samplecount = 0
      BY DEF Shares
    <3>3. CASE /\ stage \in {"start", "timed"} /\ stage' = "stop" /\ samplecount' = samplecount
               /\ Timed
      <4>1. Begun' = Begun + 1
        BY <1>3, <3>1, <3>3 DEF Begun
      <4>2. \/ phase' = "exit" /\ arenas' = arenas + 0
            \/ libc /\ phase' = phase /\ arenas' = arenas + 0
            \/ ~libc /\ phase' = "speeding" /\ arenas' = arenas + 1
        BY <1>3, <3>3, TimedCounts
      <4> QED BY <1>1, <4>1, <4>2
    <3>4. CASE phase' = "speed" /\ arenas' = arenas /\ samplecount' = samplecount
               /\ stage \in {"start", "callibrate"} /\ stage' \in {"callibrate", "timed"}
      <4>1. Begun' = Begun + 0 /\ arenas' = arenas + 0
        BY <1>3, <3>1, <3>4 DEF Begun
      <4> QED BY <3>4, <4>1
    <3>5. CASE /\ phase' = "speed" /\ arenas' = arenas
               /\ stage = "idle" /\ stage' = "start" /\ samplecount' = 0
      <4>1. Begun' = Begun + 0 /\ arenas' = arenas + 0
        BY <1>3, <3>1, <3>2, <3>5 DEF Begun
      <4> QED BY <3>5, <4>1
    <3>6. CASE /\ phase' = "speed" /\ arenas' = arenas /\ samplecount' = samplecount + 1
               /\ stage = "stop" /\ stage' \in {"start", "done"}
      <4>1. Begun' = Begun + 0 /\ arenas' = arenas + 0
        BY <1>3, <3>1, <3>6 DEF Begun
      <4> QED BY <3>6, <4>1
    <3>7. CASE phase' = "free" /\ arenas' = arenas
      <4>1. arenas' = arenas + 0 /\ timing # "gettod"
        BY <1>3, <3>1, <3>7
      <4> QED BY <3>7, <4>1
    <3> QED BY <3>1, <3>3, <3>4, <3>5, <3>6, <3>7
  <2>2. CASE SpeedGettod
    <3>1. /\ timing = "gettod" /\ UNCHANGED <<stage, samplecount>>
          /\ \/ runs < RUNS /\ runs' = runs + 1 /\ Timed
             \/ ~(runs < RUNS) /\ phase' = "free" /\ arenas' = arenas
      BY <2>2 DEF SpeedGettod, fcyc_vars
    <3>2. stage = "idle" /\ samplecount = 0
      BY <3>1 DEF PhaseInv, Shares
    <3>3. CASE runs < RUNS /\ runs' = runs + 1 /\ Timed
      <4>1. Begun' = Begun + 1
        BY <1>3, <3>1, <3>2, <3>3 DEF Begun
      <4>2. \/ phase' = "exit" /\ arenas' = arenas + 0
            \/ libc /\ phase' = phase /\ arenas' = arenas + 0
            \/ ~libc /\ phase' = "speeding" /\ arenas' = arenas + 1
        BY <1>3, <3>3, TimedCounts
      <4> QED BY <1>1, <4>1, <4>2
    <3>4. CASE ~(runs < RUNS) /\ phase' = "free" /\ arenas' = arenas
      <4>1. Begun = RUNS /\ arenas' = arenas + 0
        BY <1>3, <3>2, <3>4 DEF Begun
      <4> QED BY <3>4, <4>1
    <3> QED BY <3>1, <3>3, <3>4
  <2>3. CASE eval_mm_speed
    <3>1. /\ arenas' = arenas /\ UNCHANGED <<stage, samplecount, runs>>
          /\ phase' = "exit" \/ phase' \in {"speed", "speeding"}
      BY <2>3, ReplayCounts DEF eval_mm_speed, fcyc_vars
    <3>2. arenas' = arenas + 0 /\ Begun' = Begun + 0
      BY <1>3, <3>1 DEF Begun
    <3> QED BY <3>1, <3>2
  <2> QED BY <2>1, <2>2, <2>3
<1>7. d \in Nat /\ (phase' = "exit" => Ended')
  BY DEF Ended
<1>8. ~libc => Taken' >= Taken + d
  <2>1. CASE phase' \in {"exit", "free"} /\ d = 0
    BY <2>1, <1>3, <1>5
  <2>2. CASE phase' \in {"speed", "speeding"} /\ (~libc => Begun' = Begun + d)
    <3>1. ~libc => Taken' = Taken + d
      BY <2>2, <1>3, <1>4, <1>5, <1>7
    <3> QED BY <3>1, <1>3, <1>7
  <2> QED BY <2>1, <2>2, <1>6
<1>9. ASSUME ~libc, timing = "gettod", ~Ended'
      PROVE  Made' = Made + d
  <2>1. CASE phase' = "free" /\ d = 0 /\ (timing = "gettod" => Begun = RUNS)
    <3>1. stats[file].valid
      BY <1>1, <1>9, <2>1 DEF BooksInv, Ended
    <3> QED BY <1>3, <1>4, <1>5, <1>9, <2>1, <3>1
  <2>2. CASE phase' \in {"speed", "speeding"} /\ (~libc => Begun' = Begun + d)
    BY <2>2, <1>3, <1>4, <1>5, <1>7, <1>9
  <2> QED BY <2>1, <2>2, <1>6, <1>7, <1>9
<1> QED BY <1>1, <1>2, <1>6, <1>8, <1>9, ArenaStep

(* The next file begins with what the files before it have taken, and the  *)
(* files after -l with the arena of main.                                  *)
LEMMA FileArenas ==
  ASSUME ArenaInv, PhaseInv, Shares, Shares', PhaseInv', free_trace
  PROVE  ArenaInv'
<1>1. /\ phase = "free" /\ UNCHANGED <<timing, stats>> /\ file \in 1 .. Files
      /\ \/ file' = file + 1 /\ phase' = "read" /\ UNCHANGED <<libc, arenas>>
         \/ libc /\ file' = 1 /\ phase' = "read" /\ libc' = FALSE /\ arenas' = 1
         \/ phase' = "score" /\ UNCHANGED <<file, libc, arenas>>
  BY DEF free_trace, PhaseInv
<1>2. /\ PerFile \in Nat /\ PerFile >= 3 /\ PerFile' = PerFile
      /\ arenas \in Nat /\ RUNS \in Nat
  BY <1>1, FilesAssumption DEF Shares, PerFile, Calls, ArenaInv
<1>3. Taken = PerFile /\ Made = 1 + (IF stats[file].valid THEN 1 + RUNS ELSE 0) /\ ~Ended
  BY <1>1 DEF Taken, Made, Upto, Ended
<1>4. PICK n \in Nat : n = file - 1 /\ file = n + 1
  BY <1>1, FilesAssumption
<1>5. PICK v \in Nat : v = ValidBefore /\ v = Cardinality(Valid(stats, n))
  <2>1. Cardinality(Valid(stats, n)) \in Nat
    BY ValidFacts
  <2> QED BY <2>1, <1>4 DEF ValidBefore
<1>6. PICK w \in {0, 1} : w = IF stats[file].valid THEN 1 ELSE 0
  OBVIOUS
<1>7. PICK r \in Nat : r = 1 + RUNS
  BY <1>2
<1>8. /\ ~libc => arenas <= 1 + n * PerFile + PerFile
      /\ ~libc /\ timing = "gettod" => arenas = 1 + n + r * v + (1 + r * w)
  <2>1. (IF stats[file].valid THEN 1 + RUNS ELSE 0) = r * w
    BY <1>2, <1>6, <1>7
  <2>2. /\ ~libc => arenas <= 1 + (file - 1) * PerFile + Taken
        /\ ~libc /\ timing = "gettod" =>
             arenas = 1 + (file - 1) + (1 + RUNS) * ValidBefore + Made
    BY <1>3 DEF ArenaInv
  <2> QED BY <1>3, <1>4, <1>5, <1>7, <2>1, <2>2
<1>9. CASE file' = file + 1 /\ phase' = "read" /\ UNCHANGED <<libc, arenas>>
  <2>1. Taken' = 0 /\ Made' = 0 /\ file' - 1 = n + 1
    BY <1>4, <1>9 DEF Taken, Made, Upto
  <2>2. (n + 1) * PerFile = n * PerFile + PerFile
    BY <1>2
  <2>3. ValidBefore' = v + w
    <3>1. Cardinality(Valid(stats, n + 1)) = v + (IF stats[n + 1].valid THEN 1 ELSE 0)
      BY <1>5, ValidFacts
    <3>2. Cardinality(Valid(stats, n + 1)) = v + w
      BY <1>4, <1>6, <3>1
    <3> QED BY <1>1, <2>1, <3>2 DEF ValidBefore
  <2>4. r * (v + w) = r * v + r * w
    OBVIOUS
  <2>5. r * v \in Nat /\ r * w \in Nat /\ n * PerFile \in Nat
    BY <1>2
  <2>6. ~libc => arenas <= 1 + (n + 1) * PerFile + 0
    BY <1>2, <1>8, <2>2, <2>5
  <2>7. ~libc /\ timing = "gettod" => arenas = 1 + (n + 1) + r * (v + w) + 0
    BY <1>2, <1>8, <2>4, <2>5
  <2>8. ~libc' => arenas' <= 1 + (file' - 1) * PerFile' + Taken'
    BY <1>2, <1>9, <2>1, <2>6
  <2>9. ~libc' /\ timing' = "gettod" =>
          arenas' = 1 + (file' - 1) + (1 + RUNS) * ValidBefore' + Made'
    BY <1>1, <1>7, <1>9, <2>1, <2>3, <2>7
  <2> QED BY <1>2, <1>9, <2>8, <2>9 DEF ArenaInv
<1>10. CASE libc /\ file' = 1 /\ phase' = "read" /\ libc' = FALSE /\ arenas' = 1
  <2>1. Taken' = 0 /\ Made' = 0 /\ file' - 1 = 0
    BY <1>10 DEF Taken, Made, Upto
  <2>2. ValidBefore' = 0
    BY <2>1, ValidFacts DEF ValidBefore
  <2>3. 0 * PerFile = 0 /\ (1 + RUNS) * 0 = 0
    BY <1>2
  <2> QED BY <1>2, <1>10, <2>1, <2>2, <2>3 DEF ArenaInv
<1>11. CASE phase' = "score" /\ UNCHANGED <<file, libc, arenas>>
  <2>1. /\ Taken' = PerFile'
        /\ Made' = 1 + (IF stats[file].valid THEN 1 + RUNS ELSE 0)
    BY <1>1, <1>11 DEF Taken, Made, Upto
  <2>2. ValidBefore' = ValidBefore
    BY <1>1, <1>11 DEF ValidBefore
  <2>3. Taken' = Taken /\ Made' = Made /\ (file' - 1) * PerFile' = (file - 1) * PerFile
    BY <1>2, <1>3, <1>11, <2>1
  <2>4. ~libc' => arenas' <= 1 + (file' - 1) * PerFile' + Taken'
    BY <1>11, <2>3 DEF ArenaInv
  <2>5. ~libc' /\ timing' = "gettod" =>
          arenas' = 1 + (file' - 1) + (1 + RUNS) * ValidBefore' + Made'
    BY <1>1, <1>3, <1>11, <2>2, <2>3 DEF ArenaInv
  <2> QED BY <1>11, <2>4, <2>5 DEF ArenaInv
<1> QED BY <1>1, <1>9, <1>10, <1>11

(* Every step keeps the count of the arenas.                               *)
LEMMA ArenaNext ==
  ASSUME ArenaInv, PhaseInv, ReplayInv, Shares, BooksInv, PhaseInv', ReplayInv', Shares',
         [DriverNext]_driver_vars
  PROVE  ArenaInv'
<1>1. CASE read_trace \/ eval_libc_valid \/ StartValid \/ ValidOp \/ StartUtil \/ UtilOp
  BY <1>1, EvaluationArenas
<1>2. CASE ValidDone \/ UtilDone \/ Score
  BY <1>2, DoneArenas
<1>3. CASE SpeedFcyc \/ SpeedGettod \/ eval_mm_speed
  BY <1>3, SpeedArenas
<1>4. CASE free_trace
  BY <1>4, FileArenas
<1>5. CASE UNCHANGED driver_vars
  <2>1. UNCHANGED <<phase, libc, timing, file, stats, runs, arenas, stage, samplecount>>
    BY <1>5 DEF driver_vars, main_vars, fcyc_vars
  <2>2. /\ Taken' = Taken /\ Made' = Made /\ ValidBefore' = ValidBefore /\ PerFile' = PerFile
        /\ Ended' = Ended
    BY <2>1 DEF Taken, Made, Upto, Begun, ValidBefore, PerFile, Calls, Ended
  <2> QED BY <2>1, <2>2 DEF ArenaInv
<1> QED BY <1>1, <1>2, <1>3, <1>4, <1>5 DEF DriverNext

(* The invariants that the count of the arenas rests on, all together.     *)
LEMMA ArenasHold == DriverSpec => [](DriverInv /\ TimingOK /\ SamplerOK /\ Shares /\ ArenaInv)
<1>1. DriverSpec => [](DriverInv /\ TimingOK /\ SamplerOK)
  BY DriverHolds, DriverUsesFcyc, FcycHolds, PTL
<1>2. DriverInv /\ TimingOK /\ SamplerOK => Shares
  BY ShareFacts DEF DriverInv
<1>3. DriverInit /\ Shares => ArenaInv
  BY ArenaInit
<1>4. ArenaInv /\ DriverInv /\ DriverInv' /\ Shares /\ Shares' /\ [DriverNext]_driver_vars => ArenaInv'
  BY ArenaNext DEF DriverInv
<1> QED BY <1>1, <1>2, <1>3, <1>4, PTL DEF DriverSpec

(* The driver keeps its variables in their types, and takes no more arenas *)
(* than two for each file and one for each call that is timed; with        *)
(* USE_GETTOD, when it has gone through all files, just that many for the  *)
(* valid ones and one for the others.                                      *)
THEOREM ArenasAreCounted == DriverSpec => []ArenasCounted
<1>1. DriverInv /\ TimingOK /\ SamplerOK /\ Shares /\ ArenaInv /\ FcycTypeOK => ArenasCounted
  <2> SUFFICES ASSUME DriverInv, TimingOK, SamplerOK, Shares, ArenaInv, FcycTypeOK
               PROVE  ArenasCounted
    OBVIOUS
  <2>1. PhaseInv /\ BytesInv /\ BooksInv
    BY DEF DriverInv
  <2>2. DriverTypeOK
    BY <2>1 DEF DriverTypeOK, PhaseInv, BytesInv, BooksInv, Tables, Address
  <2>3. /\ file \in 1 .. Files /\ Files \in Nat /\ PerFile \in Nat /\ PerFile = 2 + Calls
        /\ Taken \in 0 .. PerFile /\ arenas \in Nat
    BY <2>1, FilesAssumption DEF PhaseInv, Shares, ArenaInv
  <2>4. arenas <= 1 + file * (2 + Calls)
    <3>1. PICK n \in Nat : n = file - 1 /\ file = n + 1
      BY <2>3
    <3>2. file * PerFile = n * PerFile + PerFile /\ n * PerFile \in Nat
      BY <2>3, <3>1
    <3>3. CASE libc
      <4>1. arenas = 0
        BY <3>3 DEF ArenaInv
      <4> QED BY <2>3, <3>2, <4>1
    <3>4. CASE ~libc
      <4>1. arenas <= 1 + n * PerFile + Taken
        BY <3>1, <3>4 DEF ArenaInv
      <4> QED BY <2>3, <3>2, <4>1
    <3> QED BY <3>3, <3>4
  <2>5. ASSUME phase = "done", timing = "gettod"
        PROVE  arenas = 1 + Files + (1 + RUNS) * Cardinality({i \in 1 .. Files : stats[i].valid})
    <3>1. ~libc /\ file = Files /\ ~Ended
      BY <2>1, <2>5 DEF PhaseInv, Ended
    <3>2. PICK n \in Nat : n = Files - 1 /\ Files = n + 1
      BY <2>3, <3>1
    <3>3. PICK v \in Nat : v = ValidBefore /\ v = Cardinality(Valid(stats, n))
      <4>1. Cardinality(Valid(stats, n)) \in Nat
        BY ValidFacts
      <4> QED BY <3>1, <3>2, <4>1 DEF ValidBefore
    <3>4. PICK w \in {0, 1} : w = IF stats[Files].valid THEN 1 ELSE 0
      OBVIOUS
    <3>5. PICK r \in Nat : r = 1 + RUNS
      BY FilesAssumption
    <3>6. Made = 1 + r * w
      <4>1. Made = 1 + (IF stats[file].valid THEN 1 + RUNS ELSE 0)
        BY <2>5 DEF Made, Upto
      <4>2. (IF stats[file].valid THEN 1 + RUNS ELSE 0) = r * w
        BY <3>1, <3>4, <3>5
      <4> QED BY <4>1, <4>2
    <3>7. arenas = 1 + n + r * v + (1 + r * w)
      <4>1. arenas = 1 + (file - 1) + (1 + RUNS) * ValidBefore + Made
        BY <2>5, <3>1 DEF ArenaInv
      <4> QED BY <3>1, <3>2, <3>3, <3>5, <3>6, <4>1
    <3>8. Cardinality(Valid(stats, Files)) = v + w
      <4>1. Cardinality(Valid(stats, n + 1)) = v + (IF stats[n + 1].valid THEN 1 ELSE 0)
        BY <3>3, ValidFacts
      <4> QED BY <3>2, <3>4, <4>1
    <3>9. r * (v + w) = r * v + r * w /\ r * v \in Nat /\ r * w \in Nat
      OBVIOUS
    <3>10. arenas = 1 + Files + r * (v + w)
      BY <3>2, <3>7, <3>9, SMTT(60)
    <3> QED BY <3>5, <3>8, <3>10 DEF Valid
  <2> QED BY <2>2, <2>4, <2>5 DEF ArenasCounted, Calls
<1> QED BY <1>1, ArenasHold, DriverUsesFcyc, FcycTypes, PTL

-----------------------------------------------------------------------------
\* What is left to do.

From(steps, at) == Len(steps) + 1 - Min({k \in DOMAIN steps : steps[k] = at})

(* The steps that are left from the k-th of n.                             *)
LEMMA FromIs ==
  ASSUME NEW steps, NEW n \in Nat, Len(steps) = n, DOMAIN steps = 1 .. n,
         \A j, k \in 1 .. n : steps[j] = steps[k] => j = k
  PROVE  \A k \in 1 .. n : From(steps, steps[k]) = n + 1 - k
<1> TAKE k \in 1 .. n
<1>1. PICK S : S = {j \in DOMAIN steps : steps[j] = steps[k]}
  OBVIOUS
<1>2. S \in SUBSET Nat /\ k \in S /\ \A y \in S : k <= y
  BY <1>1
<1>3. k = Min(S)
  BY <1>2, MinIs
<1> QED BY <1>1, <1>3 DEF From

MainSteps == <<"read", "libc_valid", "valid", "checking", "util", "utilizing",
               "speed", "free", "score">>
FcycSteps == <<"idle", "start", "callibrate", "timed", "stop", "done">>

(* The steps of main and of fcyc that are left.                            *)
LEMMA MainFrom ==
  /\ From(MainSteps, "read") = 9 /\ From(MainSteps, "libc_valid") = 8
  /\ From(MainSteps, "valid") = 7 /\ From(MainSteps, "checking") = 6
  /\ From(MainSteps, "util") = 5 /\ From(MainSteps, "utilizing") = 4
  /\ From(MainSteps, "speed") = 3 /\ From(MainSteps, "free") = 2
  /\ From(MainSteps, "score") = 1
<1>1. /\ Len(MainSteps) = 9 /\ DOMAIN MainSteps = 1 .. 9
      /\ MainSteps[1] = "read" /\ MainSteps[2] = "libc_valid" /\ MainSteps[3] = "valid"
      /\ MainSteps[4] = "checking" /\ MainSteps[5] = "util" /\ MainSteps[6] = "utilizing"
      /\ MainSteps[7] = "speed" /\ MainSteps[8] = "free" /\ MainSteps[9] = "score"
  BY DEF MainSteps
<1>2. \A j, k \in 1 .. 9 : MainSteps[j] = MainSteps[k] => j = k
  BY <1>1
<1>3. \A k \in 1 .. 9 : From(MainSteps, MainSteps[k]) = 9 + 1 - k
  <2>1. PICK n \in Nat : n = 9
    OBVIOUS
  <2>2. Len(MainSteps) = n /\ DOMAIN MainSteps = 1 .. n
    BY <1>1, <2>1
  <2>3. \A j, k \in 1 .. n : MainSteps[j] = MainSteps[k] => j = k
    BY <1>2, <2>1
  <2>4. \A k \in 1 .. n : From(MainSteps, MainSteps[k]) = n + 1 - k
    BY <2>2, <2>3, FromIs
  <2> QED BY <2>1, <2>4
<1>4. /\ 1 \in 1 .. 9 /\ 2 \in 1 .. 9 /\ 3 \in 1 .. 9 /\ 4 \in 1 .. 9 /\ 5 \in 1 .. 9
      /\ 6 \in 1 .. 9 /\ 7 \in 1 .. 9 /\ 8 \in 1 .. 9 /\ 9 \in 1 .. 9
  OBVIOUS
<1> QED BY <1>1, <1>3, <1>4

(* The steps of fcyc, in the order in which a sample makes them.           *)
LEMMA FcycFrom ==
  /\ From(FcycSteps, "idle") = 6 /\ From(FcycSteps, "start") = 5
  /\ From(FcycSteps, "callibrate") = 4 /\ From(FcycSteps, "timed") = 3
  /\ From(FcycSteps, "stop") = 2 /\ From(FcycSteps, "done") = 1
<1>1. /\ Len(FcycSteps) = 6 /\ DOMAIN FcycSteps = 1 .. 6
      /\ FcycSteps[1] = "idle" /\ FcycSteps[2] = "start" /\ FcycSteps[3] = "callibrate"
      /\ FcycSteps[4] = "timed" /\ FcycSteps[5] = "stop" /\ FcycSteps[6] = "done"
  BY DEF FcycSteps
<1>2. \A j, k \in 1 .. 6 : FcycSteps[j] = FcycSteps[k] => j = k
  BY <1>1
<1>3. \A k \in 1 .. 6 : From(FcycSteps, FcycSteps[k]) = 6 + 1 - k
  <2>1. PICK n \in Nat : n = 6
    OBVIOUS
  <2>2. Len(FcycSteps) = n /\ DOMAIN FcycSteps = 1 .. n
    BY <1>1, <2>1
  <2>3. \A j, k \in 1 .. n : FcycSteps[j] = FcycSteps[k] => j = k
    BY <1>2, <2>1
  <2>4. \A k \in 1 .. n : From(FcycSteps, FcycSteps[k]) = n + 1 - k
    BY <2>2, <2>3, FromIs
  <2> QED BY <2>1, <2>4
<1>4. /\ 1 \in 1 .. 6 /\ 2 \in 1 .. 6 /\ 3 \in 1 .. 6 /\ 4 \in 1 .. 6 /\ 5 \in 1 .. 6
      /\ 6 \in 1 .. 6
  OBVIOUS
<1> QED BY <1>1, <1>3, <1>4

\* The parts of Left, by weight.
FilesLeft == Files - file + (IF libc THEN Files ELSE 0)
StepsLeft == IF Over THEN 0
             ELSE From(MainSteps, IF phase = "speeding" THEN "speed" ELSE phase)
CallsLeft == RUNS - runs + Max({1, MAXSAMPLES}) - samplecount
StagesLeft == From(FcycSteps, stage)
EventsLeft == NEVENT - e
RequestsLeft == Len(trace.ops) - op
InnerLeft == IF phase = "speeding" THEN 1 ELSE 0

\* The state of the driver as its parts see it.
Ranks ==
  /\ Left = <<FilesLeft, StepsLeft, CallsLeft, StagesLeft, EventsLeft, RequestsLeft, InnerLeft>>
  /\ FilesLeft \in Nat /\ StepsLeft \in Nat /\ CallsLeft \in Nat /\ StagesLeft \in Nat
  /\ EventsLeft \in Nat /\ RequestsLeft \in Nat /\ InnerLeft \in Nat

(* The steps of main that are left, by phase.                              *)
LEMMA StepsAre ==
  /\ phase \in {"done", "abort", "overrun", "exit"} => StepsLeft = 0
  /\ phase = "read" => StepsLeft = 9
  /\ phase = "libc_valid" => StepsLeft = 8
  /\ phase = "valid" => StepsLeft = 7
  /\ phase = "checking" => StepsLeft = 6
  /\ phase = "util" => StepsLeft = 5
  /\ phase = "utilizing" => StepsLeft = 4
  /\ phase \in {"speed", "speeding"} => StepsLeft = 3
  /\ phase = "free" => StepsLeft = 2
  /\ phase = "score" => StepsLeft = 1
BY MainFrom DEF StepsLeft, Over

(* What is left to do is counted by natural numbers.                       *)
LEMMA RankFacts == PhaseInv /\ TimingOK /\ SamplerOK /\ Shares => Ranks
<1> SUFFICES ASSUME PhaseInv, TimingOK, SamplerOK, Shares PROVE Ranks
  OBVIOUS
<1>1. Left = <<FilesLeft, StepsLeft, CallsLeft, StagesLeft, EventsLeft, RequestsLeft, InnerLeft>>
  BY DEF Left, FilesLeft, StepsLeft, CallsLeft, StagesLeft, EventsLeft, RequestsLeft, InnerLeft,
         From, MainSteps, FcycSteps
<1>2. FilesLeft \in Nat
  BY FilesAssumption DEF FilesLeft, PhaseInv
<1>3. StepsLeft \in Nat
  BY StepsAre DEF PhaseInv
<1>4. CallsLeft \in Nat
  <2>1. /\ samplecount \in Nat /\ runs \in 0 .. RUNS /\ RUNS \in Nat
        /\ timing \in {"fcyc", "gettod"} /\ (timing = "gettod" => samplecount = 0)
        /\ samplecount <= Begun /\ Begun \in 0 .. Calls
    BY FilesAssumption DEF PhaseInv, Shares, Begun
  <2>2. PICK m \in Nat : m = Max({1, MAXSAMPLES})
    <3>1. Max({1, MAXSAMPLES}) = IF 1 <= MAXSAMPLES THEN MAXSAMPLES ELSE 1
      BY MinMaxOfTwo, SamplerAssumption
    <3> QED BY <3>1, SamplerAssumption
  <2>3. samplecount <= m
    <3>1. timing = "fcyc" => Calls = m
      BY <2>2 DEF Calls
    <3> QED BY <2>1, <2>2, <3>1
  <2>4. CallsLeft = RUNS - runs + m - samplecount
    BY <2>2 DEF CallsLeft
  <2> QED BY <2>1, <2>3, <2>4
<1>5. StagesLeft \in Nat
  BY FcycFrom DEF StagesLeft, TimingOK, ClockTypes
<1>6. EventsLeft \in Nat
  BY ClockAssumption DEF EventsLeft, TimingOK, ClockTypes
<1>7. RequestsLeft \in Nat /\ InnerLeft \in Nat
  BY DEF RequestsLeft, InnerLeft, PhaseInv
<1> QED BY <1>1, <1>2, <1>3, <1>4, <1>5, <1>6, <1>7 DEF Ranks

\* A step leaves less to do.
Less == /\ \A k \in DOMAIN Left : Left'[k] >= 0
        /\ \E k \in DOMAIN Left : /\ Left'[k] < Left[k]
                                /\ \A j \in 1 .. k - 1 : Left'[j] = Left[j]

(* What is left is compared part by part.                                  *)
LEMMA LessIs ==
  ASSUME Ranks, Ranks',
         \/ FilesLeft' < FilesLeft
         \/ /\ FilesLeft' = FilesLeft
            /\ \/ StepsLeft' < StepsLeft
               \/ /\ StepsLeft' = StepsLeft
                  /\ \/ CallsLeft' < CallsLeft
                     \/ /\ CallsLeft' = CallsLeft
                        /\ \/ StagesLeft' < StagesLeft
                           \/ /\ StagesLeft' = StagesLeft
                              /\ \/ EventsLeft' < EventsLeft
                                 \/ /\ EventsLeft' = EventsLeft
                                    /\ \/ RequestsLeft' < RequestsLeft
                                       \/ /\ RequestsLeft' = RequestsLeft
                                          /\ InnerLeft' < InnerLeft
  PROVE  Less
<1>1. /\ DOMAIN Left = 1 .. 7 /\ Left[1] = FilesLeft /\ Left[2] = StepsLeft
      /\ Left[3] = CallsLeft /\ Left[4] = StagesLeft /\ Left[5] = EventsLeft
      /\ Left[6] = RequestsLeft /\ Left[7] = InnerLeft
  BY DEF Ranks
<1>2. PICK T : T = Left'
  OBVIOUS
<1>3. T = <<FilesLeft', StepsLeft', CallsLeft', StagesLeft', EventsLeft', RequestsLeft', InnerLeft'>>
  BY <1>2 DEF Ranks
<1>4. /\ T[1] = FilesLeft' /\ T[2] = StepsLeft'
      /\ T[3] = CallsLeft' /\ T[4] = StagesLeft' /\ T[5] = EventsLeft'
      /\ T[6] = RequestsLeft' /\ T[7] = InnerLeft'
  BY <1>3
<1>5. \A k \in 1 .. 7 : k = 1 \/ k = 2 \/ k = 3 \/ k = 4 \/ k = 5 \/ k = 6 \/ k = 7
  OBVIOUS
<1>6. \A k \in DOMAIN Left : T[k] >= 0
  <2>1. T[1] >= 0 /\ T[2] >= 0 /\ T[3] >= 0 /\ T[4] >= 0 /\ T[5] >= 0 /\ T[6] >= 0 /\ T[7] >= 0
    BY <1>4 DEF Ranks
  <2> QED BY <1>1, <1>5, <2>1
<1>7. ASSUME NEW k \in 1 .. 7, T[k] < Left[k], \A j \in 1 .. k - 1 : T[j] = Left[j]
      PROVE  Less
  BY <1>1, <1>2, <1>6, <1>7 DEF Less
<1>8. CASE FilesLeft' < FilesLeft
  <2>1. T[1] < Left[1] /\ \A j \in 1 .. 1 - 1 : T[j] = Left[j]
    BY <1>1, <1>4, <1>8
  <2> QED BY <1>7, <2>1
<1>9. CASE FilesLeft' = FilesLeft /\ StepsLeft' < StepsLeft
  <2>1. T[2] < Left[2] /\ \A j \in 1 .. 2 - 1 : j = 1
    BY <1>1, <1>4, <1>9
  <2> QED BY <1>1, <1>4, <1>7, <1>9, <2>1
<1>10. CASE FilesLeft' = FilesLeft /\ StepsLeft' = StepsLeft /\ CallsLeft' < CallsLeft
  <2>1. T[3] < Left[3] /\ \A j \in 1 .. 3 - 1 : j = 1 \/ j = 2
    BY <1>1, <1>4, <1>10
  <2> QED BY <1>1, <1>4, <1>7, <1>10, <2>1
<1>11. CASE /\ FilesLeft' = FilesLeft /\ StepsLeft' = StepsLeft /\ CallsLeft' = CallsLeft
            /\ StagesLeft' < StagesLeft
  <2>1. T[4] < Left[4] /\ \A j \in 1 .. 4 - 1 : j = 1 \/ j = 2 \/ j = 3
    BY <1>1, <1>4, <1>11
  <2> QED BY <1>1, <1>4, <1>7, <1>11, <2>1
<1>12. CASE /\ FilesLeft' = FilesLeft /\ StepsLeft' = StepsLeft /\ CallsLeft' = CallsLeft
            /\ StagesLeft' = StagesLeft /\ EventsLeft' < EventsLeft
  <2>1. T[5] < Left[5] /\ \A j \in 1 .. 5 - 1 : j = 1 \/ j = 2 \/ j = 3 \/ j = 4
    BY <1>1, <1>4, <1>12
  <2> QED BY <1>1, <1>4, <1>7, <1>12, <2>1
<1>13. CASE /\ FilesLeft' = FilesLeft /\ StepsLeft' = StepsLeft /\ CallsLeft' = CallsLeft
            /\ StagesLeft' = StagesLeft /\ EventsLeft' = EventsLeft
            /\ RequestsLeft' < RequestsLeft
  <2>1. T[6] < Left[6] /\ \A j \in 1 .. 6 - 1 : j = 1 \/ j = 2 \/ j = 3 \/ j = 4 \/ j = 5
    BY <1>1, <1>4, <1>13
  <2> QED BY <1>1, <1>4, <1>7, <1>13, <2>1
<1>14. CASE /\ FilesLeft' = FilesLeft /\ StepsLeft' = StepsLeft /\ CallsLeft' = CallsLeft
            /\ StagesLeft' = StagesLeft /\ EventsLeft' = EventsLeft
            /\ RequestsLeft' = RequestsLeft /\ InnerLeft' < InnerLeft
  <2>1. T[7] < Left[7] /\ \A j \in 1 .. 7 - 1 : j = 1 \/ j = 2 \/ j = 3 \/ j = 4 \/ j = 5 \/ j = 6
    BY <1>1, <1>4, <1>14
  <2> QED BY <1>1, <1>4, <1>7, <1>14, <2>1
<1> QED BY <1>8, <1>9, <1>10, <1>11, <1>12, <1>13, <1>14

(* A step of main leaves fewer of its steps,                               *)
LEMMA MainLess ==
  ASSUME Ranks, Ranks', FilesLeft' = FilesLeft, StepsLeft' < StepsLeft
  PROVE  Less
BY LessIs

(* a request fewer requests.                                               *)
LEMMA RequestLess ==
  ASSUME Ranks, Ranks', PhaseInv, op' = op + 1, phase' = phase,
         UNCHANGED <<libc, file, trace, runs, samplecount, stage, e>>
  PROVE  Less
<1>1. /\ FilesLeft' = FilesLeft /\ StepsLeft' = StepsLeft /\ CallsLeft' = CallsLeft
      /\ StagesLeft' = StagesLeft /\ EventsLeft' = EventsLeft
  BY DEF FilesLeft, StepsLeft, Over, CallsLeft, StagesLeft, EventsLeft
<1>2. RequestsLeft' < RequestsLeft
  BY DEF RequestsLeft, PhaseInv
<1> QED BY <1>1, <1>2, LessIs

(* Reading, checking and measuring a trace.                                *)
LEMMA EvaluationLess ==
  ASSUME Ranks, Ranks', PhaseInv,
         \/ read_trace \/ eval_libc_valid \/ StartValid \/ ValidOp \/ ValidDone
         \/ StartUtil \/ UtilOp \/ UtilDone
  PROVE  Less
<1>1. UNCHANGED <<libc, file, runs, samplecount, stage, e>>
  <2>1. CASE read_trace \/ eval_libc_valid
    BY <2>1 DEF read_trace, eval_libc_valid, fcyc_vars
  <2>2. CASE StartValid \/ ValidOp \/ ValidDone
    BY <2>2 DEF StartValid, ValidOp, ValidDone, fcyc_vars
  <2>3. CASE StartUtil \/ UtilOp \/ UtilDone
    BY <2>3 DEF StartUtil, UtilOp, UtilDone, fcyc_vars
  <2> QED BY <2>1, <2>2, <2>3
<1>2. FilesLeft' = FilesLeft
  BY <1>1 DEF FilesLeft
<1>3. CASE ValidOp
  <2>1. op' = op + 1 /\ phase' = phase /\ UNCHANGED trace
    BY <1>3 DEF ValidOp
  <2> QED BY <1>1, <2>1, RequestLess
<1>4. CASE UtilOp
  <2>1. /\ phase = "utilizing" /\ UNCHANGED trace
        /\ phase' = "exit" \/ (phase' = phase /\ op' = op + 1)
    BY <1>4, ReplayCounts DEF UtilOp
  <2>2. CASE phase' = "exit"
    <3>1. StepsLeft' = 0
      BY <2>2 DEF StepsLeft, Over
    <3>2. StepsLeft = 4
      BY <2>1, StepsAre
    <3> QED BY <1>2, <3>1, <3>2, MainLess
  <2>3. CASE phase' = phase /\ op' = op + 1
    BY <1>1, <2>1, <2>3, RequestLess
  <2> QED BY <2>1, <2>2, <2>3
<1>5. CASE read_trace \/ eval_libc_valid \/ StartValid \/ ValidDone \/ StartUtil \/ UtilDone
  <2>1. \/ phase = "read" /\ phase' \in {"overrun", "abort", "libc_valid", "valid"}
        \/ phase = "libc_valid" /\ phase' \in {"speed", "exit"}
        \/ phase = "valid" /\ phase' \in {"checking", "exit"}
        \/ phase = "checking" /\ phase' \in {"util", "free"}
        \/ phase = "util" /\ phase' \in {"utilizing", "exit"}
        \/ phase = "utilizing" /\ phase' = "speed"
    <3>1. CASE read_trace \/ eval_libc_valid
      BY <3>1 DEF read_trace, eval_libc_valid
    <3>2. CASE StartValid
      BY <3>2, NewHeapCounts DEF StartValid
    <3>3. CASE ValidDone \/ UtilDone
      BY <3>3 DEF ValidDone, UtilDone
    <3>4. CASE StartUtil
      BY <3>4, NewHeapCounts DEF StartUtil
    <3> QED BY <1>5, <3>1, <3>2, <3>3, <3>4
  <2>2. /\ phase' \in {"exit", "overrun", "abort"} => StepsLeft' = 0
        /\ phase' = "libc_valid" => StepsLeft' = 8
        /\ phase' = "valid" => StepsLeft' = 7
        /\ phase' = "checking" => StepsLeft' = 6
        /\ phase' = "util" => StepsLeft' = 5
        /\ phase' = "utilizing" => StepsLeft' = 4
        /\ phase' = "speed" => StepsLeft' = 3
        /\ phase' = "free" => StepsLeft' = 2
    BY MainFrom DEF StepsLeft, Over
  <2>3. StepsLeft' < StepsLeft
    BY <2>1, <2>2, StepsAre
  <2> QED BY <1>2, <2>3, MainLess
<1> QED BY <1>3, <1>4, <1>5

(* A step between two timed calls or a call: fewer samples, fewer steps of *)
(* fcyc or fewer events of callibrate.                                     *)
LEMMA TimingLess ==
  ASSUME Ranks, Ranks', PhaseInv, TimingOK, Shares, SpeedFcyc \/ SpeedGettod
  PROVE  Less
<1>1. /\ UNCHANGED <<libc, timing, file, trace>> /\ phase = "speed"
      /\ phase' \in {"speed", "speeding", "exit", "free"}
  <2>1. CASE SpeedFcyc
    BY <2>1, TimedCounts DEF SpeedFcyc
  <2>2. CASE SpeedGettod
    BY <2>2, TimedCounts DEF SpeedGettod
  <2> QED BY <2>1, <2>2
<1>2. FilesLeft' = FilesLeft
  BY <1>1 DEF FilesLeft
<1>3. /\ StepsLeft = 3 /\ (phase' \in {"speed", "speeding"} => StepsLeft' = 3)
      /\ (phase' = "exit" => StepsLeft' = 0) /\ (phase' = "free" => StepsLeft' = 2)
  BY <1>1, MainFrom DEF StepsLeft, Over
<1>4. CASE phase' \in {"exit", "free"}
  <2>1. StepsLeft' < StepsLeft
    BY <1>3, <1>4
  <2> QED BY <1>2, <2>1, MainLess
<1>5. CASE phase' \in {"speed", "speeding"}
  <2>1. StepsLeft' = StepsLeft
    BY <1>3, <1>5
  <2>2. CASE SpeedGettod
    <3>1. runs' = runs + 1 /\ samplecount' = samplecount
      BY <1>5, <2>2 DEF SpeedGettod, fcyc_vars
    <3>2. CallsLeft' < CallsLeft
      <4>1. PICK m \in Nat : m = Max({1, MAXSAMPLES})
        <5>1. Max({1, MAXSAMPLES}) = IF 1 <= MAXSAMPLES THEN MAXSAMPLES ELSE 1
          BY MinMaxOfTwo, SamplerAssumption
        <5> QED BY <5>1, SamplerAssumption
      <4>2. runs \in Nat /\ RUNS \in Nat /\ samplecount \in Nat
        BY FilesAssumption DEF PhaseInv, Shares
      <4>3. CallsLeft = RUNS - runs + m - samplecount /\ CallsLeft' = RUNS - runs' + m - samplecount'
        BY <4>1 DEF CallsLeft
      <4> QED BY <3>1, <4>2, <4>3
    <3> QED BY <1>2, <2>1, <3>2, LessIs
  <2>3. CASE SpeedFcyc
    <3>1. /\ runs' = runs
          /\ \/ /\ samplecount' = samplecount
                /\ \/ stage = "start" /\ stage' \in {"callibrate", "stop"}
                   \/ stage = "callibrate" /\ stage' = "timed"
                   \/ stage = "timed" /\ stage' = "stop"
             \/ stage = "idle" /\ stage' = "start" /\ samplecount' = 0
             \/ samplecount' = samplecount /\ stage' = stage /\ e' = e + 1
             \/ samplecount' = samplecount + 1
      <4>1. phase' # "free"
        BY <1>5
      <4> QED BY <2>3, <4>1
           DEF SpeedFcyc, Begin, StartCallibrate, Add, CallibrateEvent, Call
    <3>2. CASE samplecount' = samplecount + 1
      <4>1. PICK m \in Nat : m = Max({1, MAXSAMPLES})
        <5>1. Max({1, MAXSAMPLES}) = IF 1 <= MAXSAMPLES THEN MAXSAMPLES ELSE 1
          BY MinMaxOfTwo, SamplerAssumption
        <5> QED BY <5>1, SamplerAssumption
      <4>2. runs \in Nat /\ RUNS \in Nat /\ samplecount \in Nat
        BY FilesAssumption DEF PhaseInv, Shares
      <4>3. CallsLeft = RUNS - runs + m - samplecount /\ CallsLeft' = RUNS - runs' + m - samplecount'
        BY <4>1 DEF CallsLeft
      <4>4. CallsLeft' < CallsLeft
        BY <3>1, <3>2, <4>2, <4>3
      <4> QED BY <1>2, <2>1, <4>4, LessIs
    <3>3. CASE samplecount' = samplecount
      <4>1. CallsLeft' = CallsLeft
        BY <3>1, <3>3 DEF CallsLeft
      <4>2. CASE samplecount' = samplecount /\ stage' = stage /\ e' = e + 1
        <5>1. StagesLeft' = StagesLeft
          BY <4>2 DEF StagesLeft
        <5>2. EventsLeft' < EventsLeft
          BY <4>2, ClockAssumption DEF EventsLeft, TimingOK, ClockTypes
        <5> QED BY <1>2, <2>1, <4>1, <5>1, <5>2, LessIs
      <4>3. CASE \/ stage = "start" /\ stage' \in {"callibrate", "stop"}
                 \/ stage = "callibrate" /\ stage' = "timed"
                 \/ stage = "timed" /\ stage' = "stop"
                 \/ stage = "idle" /\ stage' = "start"
        <5>1. /\ stage = "idle" => StagesLeft = 6
              /\ stage = "start" => StagesLeft = 5 /\ (stage' = "start" => StagesLeft' = 5)
              /\ stage = "callibrate" => StagesLeft = 4
              /\ stage = "timed" => StagesLeft = 3
              /\ stage' = "start" => StagesLeft' = 5
              /\ stage' = "callibrate" => StagesLeft' = 4
              /\ stage' = "timed" => StagesLeft' = 3
              /\ stage' = "stop" => StagesLeft' = 2
          BY FcycFrom DEF StagesLeft
        <5>2. StagesLeft' < StagesLeft
          BY <4>3, <5>1
        <5> QED BY <1>2, <2>1, <4>1, <5>2, LessIs
      <4>4. samplecount \in Nat /\ samplecount # samplecount + 1
        BY DEF Shares
      <4> QED BY <3>1, <3>3, <4>2, <4>3, <4>4
    <3>4. stage = "idle" => samplecount = 0
      BY DEF Shares
    <3> QED BY <3>1, <3>2, <3>3, <3>4
  <2> QED BY <2>2, <2>3
<1> QED BY <1>1, <1>4, <1>5

(* A call that is timed ends, and main goes on.                            *)
LEMMA RestLess ==
  ASSUME Ranks, Ranks', PhaseInv, eval_mm_speed \/ free_trace \/ Score
  PROVE  Less
<1>1. CASE eval_mm_speed
  <2>1. /\ phase = "speeding" /\ UNCHANGED <<libc, file, trace, runs, samplecount, stage, e>>
        /\ \/ phase' = "exit"
           \/ phase' = phase /\ op' = op + 1
           \/ phase' = "speed" /\ op' = op
    BY <1>1, ReplayCounts DEF eval_mm_speed, fcyc_vars
  <2>2. FilesLeft' = FilesLeft
    BY <2>1 DEF FilesLeft
  <2>3. StepsLeft = 3
    BY <2>1, StepsAre
  <2>4. CASE phase' = "exit"
    <3>1. StepsLeft' = 0
      BY <2>4 DEF StepsLeft, Over
    <3> QED BY <2>2, <2>3, <3>1, MainLess
  <2>5. CASE phase' = phase /\ op' = op + 1
    BY <2>1, <2>5, RequestLess
  <2>6. CASE phase' = "speed" /\ op' = op
    <3>1. StepsLeft' = StepsLeft
      BY <2>1, <2>6 DEF StepsLeft, Over
    <3>2. /\ CallsLeft' = CallsLeft /\ StagesLeft' = StagesLeft /\ EventsLeft' = EventsLeft
          /\ RequestsLeft' = RequestsLeft
      BY <2>1, <2>6 DEF CallsLeft, StagesLeft, EventsLeft, RequestsLeft
    <3>3. InnerLeft' = 0 /\ InnerLeft = 1
      BY <2>1, <2>6 DEF InnerLeft
    <3> QED BY <2>2, <3>1, <3>2, <3>3, LessIs
  <2> QED BY <2>1, <2>4, <2>5, <2>6
<1>2. CASE free_trace
  <2>1. /\ phase = "free" /\ file \in 1 .. Files /\ Files \in Nat
        /\ \/ file' = file + 1 /\ libc' = libc
           \/ file = Files /\ libc /\ file' = 1 /\ libc' = FALSE
           \/ phase' = "score" /\ file' = file /\ libc' = libc
    <3>1. CASE file < Files
      BY <1>2, <3>1, FilesAssumption DEF free_trace, PhaseInv
    <3>2. CASE ~(file < Files)
      <4>1. file = Files
        BY <3>2, FilesAssumption DEF PhaseInv
      <4> QED BY <1>2, <3>2, <4>1, FilesAssumption DEF free_trace, PhaseInv
    <3> QED BY <3>1, <3>2
  <2>2. CASE file' = file + 1 /\ libc' = libc
    <3>1. FilesLeft' < FilesLeft
      BY <2>1, <2>2 DEF FilesLeft
    <3> QED BY <3>1, LessIs
  <2>3. CASE file = Files /\ libc /\ file' = 1 /\ libc' = FALSE
    <3>1. FilesLeft' < FilesLeft
      BY <2>1, <2>3 DEF FilesLeft
    <3> QED BY <3>1, LessIs
  <2>4. CASE phase' = "score" /\ file' = file /\ libc' = libc
    <3>1. FilesLeft' = FilesLeft
      BY <2>4 DEF FilesLeft
    <3>2. StepsLeft = 2
      BY <2>1, StepsAre
    <3>3. StepsLeft' = 1
      BY <2>4, MainFrom DEF StepsLeft, Over
    <3> QED BY <3>1, <3>2, <3>3, MainLess
  <2> QED BY <2>1, <2>2, <2>3, <2>4
<1>3. CASE Score
  <2>1. phase = "score" /\ phase' = "done" /\ UNCHANGED <<libc, file>>
    BY <1>3 DEF Score
  <2>2. FilesLeft' = FilesLeft
    BY <2>1 DEF FilesLeft
  <2>3. StepsLeft = 1
    BY <2>1, StepsAre
  <2>4. StepsLeft' = 0
    BY <2>1 DEF StepsLeft, Over
  <2> QED BY <2>2, <2>3, <2>4, MainLess
<1> QED BY <1>1, <1>2, <1>3

(* Every step of the driver leaves less to do, by parts in their order: it *)
(* cannot run for ever.                                                    *)
THEOREM DriverFinishes == DriverSpec => Finishes
<1>1. DriverSpec => [](PhaseInv /\ TimingOK /\ Shares /\ Ranks)
  <2>1. DriverInv /\ TimingOK /\ SamplerOK /\ Shares /\ ArenaInv =>
          PhaseInv /\ TimingOK /\ Shares /\ Ranks
    BY RankFacts DEF DriverInv
  <2> QED BY <2>1, ArenasHold, PTL
<1>2. PhaseInv /\ TimingOK /\ Shares /\ Ranks /\ Ranks' /\ [DriverNext]_driver_vars
        => [Less]_driver_vars
  BY EvaluationLess, TimingLess, RestLess DEF DriverNext
<1>3. [][Less]_driver_vars => Finishes
  BY PTL DEF Finishes, Less
<1> QED BY <1>1, <1>2, <1>3, PTL DEF DriverSpec
=============================================================================
