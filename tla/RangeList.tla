------------------------------ MODULE RangeList ------------------------------
(***************************************************************************)
(* The range list of mdriver.c: the payloads a trace holds, newest first,  *)
(* as the driver checks each new one.  Addresses are in bytes from the     *)
(* start of the heap.                                                      *)
(***************************************************************************)
EXTENDS Integers, Sequences, SequencesExt

CONSTANT ALIGNMENT

ASSUME AlignmentAssumption == ALIGNMENT \in Nat \ {0}

\* Seeded fault: only the first byte of the payload is tested.
Overlaps_fault(lo, hi, p) == lo >= p.lo /\ lo <= p.hi

\* The test of add_range for two ranges that overlap.
Overlaps(lo, hi, p) == \/ lo >= p.lo /\ lo <= p.hi
                       \/ hi >= p.lo /\ hi <= p.hi

Accepts(ranges, lo, size, heap_hi) ==
  LET hi == lo + size - 1
  IN  /\ lo % ALIGNMENT = 0
      /\ {lo, hi} \subseteq 0 .. heap_hi
      /\ \A k \in DOMAIN ranges : ~Overlaps(lo, hi, ranges[k])

add_range(ranges, lo, size) == <<[lo |-> lo, hi |-> lo + size - 1]>> \o ranges

\* Seeded fault: the newest range is removed, whatever its address.
remove_range_fault(ranges, lo) == IF ranges = <<>> THEN ranges ELSE Tail(ranges)

\* The first range that starts at lo is unlinked.
remove_range(ranges, lo) ==
  LET at == {k \in DOMAIN ranges : ranges[k].lo = lo}
  IN  IF at = {} THEN ranges ELSE RemoveAt(ranges, Min(at))
=============================================================================
