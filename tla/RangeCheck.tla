----------------------------- MODULE RangeCheck -----------------------------
(***************************************************************************)
(* The range list of mdriver.c by itself, before an allocator that may     *)
(* hand out any address: what the driver accepts, and what that says of    *)
(* the payloads it has accepted.                                           *)
(***************************************************************************)
EXTENDS RangeList

CONSTANTS HeapHi,    \* mem_heap_hi, the last byte of the heap
          Sizes,     \* request sizes, in bytes
          MaxRanges  \* model bound: payloads held at once

ASSUME RequestAssumption == HeapHi \in Nat /\ Sizes \subseteq Nat \ {0} /\ MaxRanges \in Nat

VARIABLE ranges

TypeOK == ranges \in Seq([lo : 0 .. HeapHi, hi : 0 .. HeapHi])

Init == ranges = <<>>

\* A malloc, or the second half of a realloc, that the driver accepts.
Accept(lo, size) == /\ Len(ranges) < MaxRanges
                    /\ Accepts(ranges, lo, size, HeapHi)
                    /\ ranges' = add_range(ranges, lo, size)

\* A free, or the first half of a realloc.
Release(k) == ranges' = remove_range(ranges, ranges[k].lo)

Next == \/ \E lo \in 0 .. HeapHi, size \in Sizes : Accept(lo, size)
        \/ \E k \in DOMAIN ranges : Release(k)

Spec == Init /\ [][Next]_ranges
-----------------------------------------------------------------------------
Disjoint(p, q) == p.hi < q.lo \/ q.hi < p.lo

(* "The payload must not overlap any other payloads", says add_range, but  *)
(* it looks only at the two ends of the new payload.  What that test gives *)
(* is that of two payloads the later one neither starts nor ends inside    *)
(* the earlier one, so that it can only overlap by swallowing.             *)
SwallowsOrDisjoint ==
  \A k, l \in DOMAIN ranges : k < l =>
    \/ Disjoint(ranges[k], ranges[l])
    \/ ranges[k].lo < ranges[l].lo /\ ranges[l].hi < ranges[k].hi
=============================================================================
