---------------------------- MODULE MallocDriver ----------------------------
(***************************************************************************)
(* eval_mm_valid of mdriver.c running the allocator of mm.c: it interprets *)
(* the operations of a trace, checks every payload it is given against its *)
(* range list, and fills it with a value of its index.  A trace may be any *)
(* legal sequence: an index is allocated before it is reallocated or       *)
(* freed.                                                                  *)
(***************************************************************************)
EXTENDS Mm, RangeList

CONSTANTS Indices,  \* block indices of the traces
          Sizes     \* request sizes of the traces, in bytes

\* The alignment of config.h.
ASSUME DriverAssumption == ALIGNMENT = 8

ASSUME TraceAssumption == Indices \subseteq Nat /\ Sizes \subseteq Nat \ {0}

VARIABLES
  mem, brk,  \* the heap
  ranges,    \* the range list
  blocks,    \* trace->blocks and trace->block_sizes; ptr 0 for an unused index
  verdict    \* what eval_mm_valid has to say so far

vars == <<mem, brk, ranges, blocks, verdict>>

heap == [mem |-> mem, brk |-> brk]

Unused == [ptr |-> 0, size |-> 0]

Free == {i \in Indices : blocks[i] = Unused}

\* memset of a payload, word by word; the last, partial word is left out.
Value(i) == 1000 + i
Words(bp, size) == bp .. bp + (size \div 4) - 1
Fill(m, bp, size, i) == [p \in DOMAIN m |-> IF p \in Words(bp, size) THEN Value(i) ELSE m[p]]

TypeOK ==
  /\ mem \in [0 .. MAX_HEAP - 1 -> Nat]
  /\ brk \in 0 .. MAX_HEAP
  /\ \A k \in DOMAIN ranges : ranges[k].lo \in Nat /\ ranges[k].hi \in Nat
  /\ blocks \in [Indices -> [ptr : 0 .. MAX_HEAP - 1, size : Sizes \cup {0}]]
  /\ verdict \in {"ok", "failed", "range", "data"}

\* mem_init takes a new arena from malloc; what it holds does not matter.
Started == mm_init([p \in 0 .. MAX_HEAP - 1 |-> 999])

Init == /\ mem = Started.mem /\ brk = Started.brk
        /\ ranges = <<>>
        /\ blocks = [i \in Indices |-> Unused]
        /\ verdict = "ok"

\* The payload at bp in heap h is checked against rs and taken for index i.
Take(h, rs, i, bp, size) ==
  IF Accepts(rs, 4 * bp, size, 4 * h.brk - 1)
  THEN /\ mem' = Fill(h.mem, bp, size, i) /\ brk' = h.brk
       /\ ranges' = add_range(rs, 4 * bp, size)
       /\ blocks' = [blocks EXCEPT ![i] = [ptr |-> bp, size |-> size]]
       /\ UNCHANGED verdict
  ELSE /\ mem' = h.mem /\ brk' = h.brk
       /\ ranges' = rs
       /\ verdict' = "range"
       /\ UNCHANGED blocks

\* The request is refused; h is the heap that the refusal leaves.
Fail(h) == /\ mem' = h.mem /\ brk' = h.brk
           /\ verdict' = "failed"
           /\ UNCHANGED <<ranges, blocks>>

Alloc(i, size) ==
  LET r == mm_malloc(heap, size)
  IN  /\ verdict = "ok" /\ i \in Free
      /\ IF r.bp = 0 THEN Fail(r.heap) ELSE Take(r.heap, ranges, i, r.bp, size)

Realloc(i, size) ==
  LET old  == blocks[i]
      rest == remove_range(ranges, 4 * old.ptr)
  IN  /\ verdict = "ok" /\ i \notin Free
      /\ \E r \in {mm_realloc(heap, old.ptr, size)} :
           IF r.bp = 0 THEN Fail(r.heap)
           ELSE IF /\ Accepts(rest, 4 * r.bp, size, 4 * r.heap.brk - 1)
                   /\ \E p \in Words(r.bp, Min({size, old.size})) : r.heap.mem[p] # Value(i)
           THEN /\ mem' = r.heap.mem /\ brk' = r.heap.brk
                /\ ranges' = add_range(rest, 4 * r.bp, size)
                /\ verdict' = "data"
                /\ UNCHANGED blocks
           ELSE Take(r.heap, rest, i, r.bp, size)

Dealloc(i) ==
  /\ verdict = "ok" /\ i \notin Free
  /\ ranges' = remove_range(ranges, 4 * blocks[i].ptr)
  /\ mem' = mm_free(heap, blocks[i].ptr).mem
  /\ blocks' = [blocks EXCEPT ![i] = Unused]
  /\ UNCHANGED <<brk, verdict>>

\* The next trace starts on a new arena.
NewTrace == /\ mem' = Started.mem /\ brk' = Started.brk
            /\ ranges' = <<>>
            /\ blocks' = [i \in Indices |-> Unused]
            /\ verdict' = "ok"

\* An unused index is as good as any other.
Next == \/ \E size \in Sizes : Free # {} /\ Alloc(Min(Free), size)
        \/ \E i \in Indices : Dealloc(i) \/ \E size \in Sizes : Realloc(i, size)
        \/ NewTrace

Spec == Init /\ [][Next]_vars
-----------------------------------------------------------------------------
Held == Indices \ Free
FreeBlocks == {bp \in Walk(mem) : GET_ALLOC(mem, HDRP(bp)) = 0}
BlockSize(bp) == GET_SIZE(mem, HDRP(bp))

(* The blocks tile the heap: walking by their headers leads from the       *)
(* prologue to the epilogue at the break, every footer repeats its header, *)
(* and no block is too small to hold the links of the free list.           *)
HeapTiled == /\ TypeOK
             /\ checkheap(mem)
             /\ \A bp \in Walk(mem) \ {heap_listp} : BlockSize(bp) >= 4
             /\ NEXT_BLKP(mem, Max(Walk(mem))) = brk

\* Coalescing is complete: two free blocks are never neighbours.
NoFreeNeighbours == \A bp \in FreeBlocks : NEXT_BLKP(mem, bp) \notin FreeBlocks

(* The free list holds the free blocks, all of them and nothing else, in   *)
(* address order and linked both ways, and no two of them are neighbours,  *)
(* whatever mix of splits and merges led there.                            *)
FreeListExact ==
  /\ NoFreeNeighbours
  /\ \A p \in FreeBlocks \cup {starter} :
       LET above == {q \in FreeBlocks : q > p}
       IN  IF above = {} THEN GET_SUCC(mem, p) = 0
           ELSE GET_SUCC(mem, p) = Min(above) /\ GET_PREV(mem, Min(above)) = p

(* No block leaks and none is handed out twice: the allocated blocks are   *)
(* those the client holds, each with room for what it asked for.           *)
HeldAreAllocated ==
  /\ {blocks[i].ptr : i \in Held} = Walk(mem) \ (FreeBlocks \cup {heap_listp})
  /\ \A i, k \in Held : blocks[i].ptr = blocks[k].ptr => i = k
  /\ \A i \in Held : blocks[i].size <= 4 * (BlockSize(blocks[i].ptr) - 2)

(* A payload keeps what the client wrote, through every other call.        *)
DataKept == \A i \in Held : \A p \in Words(blocks[i].ptr, blocks[i].size) :
              mem[p] = Value(i)

(* eval_mm_valid accepts the allocator: it finds no payload misplaced and  *)
(* no data lost by realloc.  All it may report is that the heap is full.   *)
DriverAccepts == verdict \in {"ok", "failed"}

(* The range list is what the client holds: remove_range and add_range     *)
(* follow the blocks through realloc, and a call that fails leaves both.   *)
RangesAreHeld ==
  verdict \in {"ok", "failed"} =>
    /\ Len(ranges) = Cardinality(Held)
    /\ \A i \in Held : \E k \in DOMAIN ranges :
         /\ ranges[k].lo = 4 * blocks[i].ptr
         /\ ranges[k].hi = 4 * blocks[i].ptr + blocks[i].size - 1

(* The search is first fit by address, and the heap grows only when no     *)
(* free block would do.                                                    *)
FirstFit ==
  [][\A i \in Free \ Free' :
       LET fits == {bp \in FreeBlocks : BlockSize(bp) >= Adjusted(blocks'[i].size)}
       IN  IF fits = {} THEN brk' > brk
           ELSE blocks'[i].ptr = Min(fits) /\ brk' = brk]_vars
=============================================================================
