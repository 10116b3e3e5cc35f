--------------------------------- MODULE Mm ---------------------------------
(***************************************************************************)
(* The allocator of mm.c on the simulated heap of memlib.c, as operators   *)
(* on a heap: its words and its break.  The arena is an array of words of  *)
(* 4 bytes, and an address is an index of a word, so WSIZE is 1 and DSIZE  *)
(* is 2 here; the sizes a client asks for are in bytes.  A header or       *)
(* footer holds size + alloc, with size even, as PACK does.  The first two *)
(* words of a free block link it into a list that starts at starter;       *)
(* address 0 ends the list.  Addresses fit the 32 bits the code keeps of   *)
(* them, and mm_init has been called before mm_malloc.                     *)
(***************************************************************************)
EXTENDS Integers, FiniteSetsExt

CONSTANTS CHUNKSIZE,  \* words the heap grows by at least
          MAX_HEAP    \* words of the arena

ASSUME HeapAssumption == /\ CHUNKSIZE \in Nat /\ CHUNKSIZE >= 4 /\ CHUNKSIZE % 2 = 0
                         /\ MAX_HEAP \in Nat /\ MAX_HEAP >= 6 + CHUNKSIZE

starter == 1
heap_listp == 4

GET_SIZE(m, p) == m[p] - (m[p] % 2)
GET_ALLOC(m, p) == m[p] % 2
HDRP(bp) == bp - 1
FTRP(m, bp) == bp + GET_SIZE(m, HDRP(bp)) - 2
NEXT_BLKP(m, bp) == bp + GET_SIZE(m, bp - 1)
PREV_BLKP(m, bp) == bp - GET_SIZE(m, bp - 2)
GET_PREV(m, p) == m[p]
GET_SUCC(m, p) == m[p + 1]

\* PUT of a header and its footer.
Tag(m, bp, size, alloc) ==
  [m EXCEPT ![HDRP(bp)] = size + alloc, ![bp + size - 2] = size + alloc]

\* PUT_SUCC of p and, unless q ends the list, PUT_PREV of q.
Link(m, p, q) == IF q = 0 THEN [m EXCEPT ![p + 1] = 0]
                 ELSE [m EXCEPT ![p + 1] = q, ![q] = p]

\* Addresses in the arena that have room for two links.
Nodes == starter .. MAX_HEAP - 2

\* The node of the free list before the first one that is in stop.
Before(m, stop) ==
  LET from[p \in Nodes] == LET q == GET_SUCC(m, p)
                           IN  IF q \in Nodes \ stop THEN from[q] ELSE p
  IN  from[starter]

-----------------------------------------------------------------------------
\* Seeded faults of coalesce: a freed block goes to the head of the list, the
\* list keeps a node swallowed from behind.
Insert_fault(m, bp) ==
  Link(Link(m, bp, GET_SUCC(m, starter)), starter, bp)

\* Case 1 of coalesce: the list is kept in address order.
Insert(m, bp) ==
  LET prev_free == Before(m, bp + 1 .. MAX_HEAP)
  IN  Link(Link(m, bp, GET_SUCC(m, prev_free)), prev_free, bp)

\* Case 4 of coalesce: the block before takes the list over from the one behind.
Skip_fault(m, first, succ_free) == m

Skip(m, first, succ_free) == Link(m, first, succ_free)

coalesce(m, bp) ==
  LET prev_bp    == PREV_BLKP(m, bp)
      next_bp    == NEXT_BLKP(m, bp)
      prev_alloc == GET_ALLOC(m, FTRP(m, prev_bp)) = 1
      next_alloc == GET_ALLOC(m, HDRP(next_bp)) = 1
      size       == GET_SIZE(m, HDRP(bp))
      prev_size  == IF prev_alloc THEN 0 ELSE GET_SIZE(m, HDRP(prev_bp))
      next_size  == IF next_alloc THEN 0 ELSE GET_SIZE(m, HDRP(next_bp))
      first      == bp - prev_size
      tagged     == Tag(m, first, prev_size + size + next_size, 0)
      succ_free  == GET_SUCC(m, next_bp)
  IN  [bp  |-> first,
       mem |-> CASE prev_alloc /\ next_alloc  -> Insert(m, bp)
                 [] prev_alloc /\ ~next_alloc ->
                      Link(Link(tagged, bp, succ_free), GET_PREV(m, next_bp), bp)
                 [] ~prev_alloc /\ next_alloc  -> tagged
                 [] ~prev_alloc /\ ~next_alloc -> Skip(tagged, first, succ_free)]

\* -1 when the arena is exhausted.
mem_sbrk(b, incr) == IF b + incr > MAX_HEAP THEN -1 ELSE b

\* A heap is its memory and its break; bp is 0 where the code returns NULL.
extend_heap(h, words) ==
  LET size == words + (words % 2)
      bp   == mem_sbrk(h.brk, size)
      m    == [Tag(h.mem, bp, size, 0) EXCEPT ![HDRP(bp + size)] = 1]
      c    == coalesce(m, bp)
  IN  IF bp = -1 THEN [bp |-> 0, heap |-> h]
      ELSE [bp |-> c.bp, heap |-> [mem |-> c.mem, brk |-> bp + size]]

mm_init(m) ==
  LET fresh == [m EXCEPT ![0] = 0, ![starter] = 0, ![starter + 1] = 0,
                         ![3] = 2 + 1, ![4] = 2 + 1, ![5] = 0 + 1]
  IN  extend_heap([mem |-> fresh, brk |-> 6], CHUNKSIZE).heap

\* Seeded fault: a remainder too small for a free block is split off.
place_fault(m, bp, asize) ==
  LET csize     == GET_SIZE(m, HDRP(bp))
      prev_free == GET_PREV(m, bp)
      succ_free == GET_SUCC(m, bp)
      rest      == bp + asize
  IN  IF csize - asize >= 2
      THEN Link(Link(Tag(Tag(m, bp, asize, 1), rest, csize - asize, 0),
                     rest, succ_free), prev_free, rest)
      ELSE Link(Tag(m, bp, csize, 1), prev_free, succ_free)

place(m, bp, asize) ==
  LET csize     == GET_SIZE(m, HDRP(bp))
      prev_free == GET_PREV(m, bp)
      succ_free == GET_SUCC(m, bp)
      rest      == bp + asize
  IN  IF csize - asize >= 2 * 2
      THEN Link(Link(Tag(Tag(m, bp, asize, 1), rest, csize - asize, 0),
                     rest, succ_free), prev_free, rest)
      ELSE Link(Tag(m, bp, csize, 1), prev_free, succ_free)

find_fit(m, asize) ==
  LET fits == {q \in 1 .. MAX_HEAP : asize <= GET_SIZE(m, HDRP(q))}
  IN  GET_SUCC(m, Before(m, fits))

\* Words of the block for a request of size bytes: 8 bytes of overhead, and
\* a multiple of 8 that has room for the links.
Adjusted_fault(size) == IF size <= 8 THEN 4 ELSE 2 * ((size + 7) \div 8)

Adjusted(size) == IF size <= 8 THEN 4 ELSE 2 * ((size + 8 + 7) \div 8)

mm_malloc(h, size) ==
  LET asize == Adjusted(size)
      fit   == find_fit(h.mem, asize)
      e     == IF fit # 0 THEN [bp |-> fit, heap |-> h]
               ELSE extend_heap(h, Max({asize, CHUNKSIZE}))
  IN  IF size = 0 THEN [bp |-> 0, heap |-> h]
      ELSE IF e.bp = 0 THEN e
      ELSE [bp |-> e.bp, heap |-> [e.heap EXCEPT !.mem = place(@, e.bp, asize)]]

mm_free(h, bp) ==
  IF bp = 0 THEN h
  ELSE [h EXCEPT !.mem =
          coalesce(Tag(@, bp, GET_SIZE(@, HDRP(bp)), 0), bp).mem]

\* memcpy takes as many bytes as the old block has, its tags included.
Copied(m, new, old, size) ==
  LET words == Min({size \div 4, GET_SIZE(m, HDRP(old))})
  IN  [p \in DOMAIN m |-> IF p \in new .. new + words - 1 THEN m[old + p - new]
                          ELSE m[p]]

\* Seeded fault: the old block is freed before it is copied.
mm_realloc_fault(h, ptr, size) ==
  LET new == mm_malloc(h, size)
      f   == mm_free(new.heap, ptr)
  IN  IF size = 0 THEN [bp |-> 0, heap |-> mm_free(h, ptr)]
      ELSE IF ptr = 0 \/ new.bp = 0 THEN new
      ELSE [bp   |-> new.bp,
            heap |-> [f EXCEPT !.mem = Copied(@, new.bp, ptr, size)]]

mm_realloc(h, ptr, size) ==
  LET new == mm_malloc(h, size)
  IN  IF size = 0 THEN [bp |-> 0, heap |-> mm_free(h, ptr)]
      ELSE IF ptr = 0 \/ new.bp = 0 THEN new
      ELSE [bp   |-> new.bp,
            heap |-> mm_free([new.heap EXCEPT !.mem = Copied(@, new.bp, ptr, size)],
                             ptr)]
-----------------------------------------------------------------------------
\* The blocks from the prologue up to the epilogue, as checkheap walks them.
Walk(m) ==
  LET from[bp \in 1 .. MAX_HEAP] ==
        LET next == NEXT_BLKP(m, bp)
        IN  IF GET_SIZE(m, HDRP(bp)) = 0 THEN {}
            ELSE {bp} \cup IF next \in 1 .. MAX_HEAP THEN from[next] ELSE {}
  IN  from[heap_listp]

checkblock(m, bp) == /\ bp % 2 = 0
                     /\ m[HDRP(bp)] = m[FTRP(m, bp)]

\* TRUE when checkheap has nothing to report.
checkheap(m) ==
  /\ GET_SIZE(m, HDRP(heap_listp)) = 2 /\ GET_ALLOC(m, HDRP(heap_listp)) = 1
  /\ \A bp \in Walk(m) : checkblock(m, bp)
  /\ LET last == Max(Walk(m)) IN m[HDRP(NEXT_BLKP(m, last))] = 1
=============================================================================
