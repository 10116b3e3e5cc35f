-------------------------------- MODULE Csim --------------------------------
(***************************************************************************)
(* The cache simulator of csim.c: it reads a trace line by line and counts *)
(* hits, misses and evictions of a cache of 2^s sets of E lines, each line *)
(* with a valid bit, a tag and a time stamp that counts the trace lines    *)
(* since its last use.                                                     *)
(***************************************************************************)
EXTENDS Integers, FiniteSets, FiniteSetsExt

CONSTANTS s, E, b,   \* set index bits, lines for each set, block bits
          AddrBits,  \* bits of an unsigned int
          Addresses, \* the addresses of the trace
          MaxLines   \* model bound: trace lines read

\* With s = 0 the mask of update is a shift by 32 bits, undefined in C; with
\* addresses of more than s + b bits a tag is never the -1 of an unused line.
ASSUME GeometryAssumption ==
  /\ s \in Nat \ {0} /\ E \in Nat \ {0} /\ b \in Nat
  /\ AddrBits \in Nat /\ AddrBits >= s + b

\* Powers of two are positive: arithmetic that the provers do not have.
ASSUME PowerAssumption == \A n \in {s, b, s + b, AddrBits} : 2^n \in Nat \ {0}

ASSUME TraceAssumption == Addresses \subseteq Nat /\ MaxLines \in Nat

VARIABLES cache, number_hits, number_miss, number_eviction,
          lines, \* trace lines read so far
          used   \* of the last line: set, tag and number of its updates; <<>> if none

vars == <<cache, number_hits, number_miss, number_eviction, lines, used>>

Sets == 0 .. 2^s - 1
Ways == 0 .. E - 1

cache_line == [valid_bit : BOOLEAN, tag : Nat \cup {-1}, stamp : -1 .. MaxLines]

TypeOK == /\ cache \in [Sets -> [Ways -> cache_line]]
          /\ number_hits \in Nat /\ number_miss \in Nat /\ number_eviction \in Nat
          /\ lines \in 0 .. MaxLines
          /\ used = <<>> \/ used \in Sets \X Nat \X {1, 2}

Init == /\ cache = [i \in Sets |-> [j \in Ways |->
                      [valid_bit |-> FALSE, tag |-> -1, stamp |-> -1]]]
        /\ number_hits = 0 /\ number_miss = 0 /\ number_eviction = 0
        /\ lines = 0 /\ used = <<>>

\* An address is cut to the width of an unsigned int when it is read.
Read(a) == a % 2^AddrBits
SetOf(a) == (Read(a) \div 2^b) % 2^s
TagOf(a) == Read(a) \div 2^(s + b)

\* Lines of a set that hold the tag, that are unused, that are oldest.
Matching(set, tag) == {i \in Ways : set[i].tag = tag}
Empty(set) == {i \in Ways : ~set[i].valid_bit}
Oldest(set) == {i \in Ways : \A j \in Ways : set[j].stamp <= set[i].stamp}

Fresh(tag) == [valid_bit |-> TRUE, tag |-> tag, stamp |-> 0]

\* The cache with its counters, which update changes.
State(c, hits, miss, eviction) ==
  [cache |-> c, hits |-> hits, miss |-> miss, eviction |-> eviction]

\* The part of update after the search for the tag.
Miss(c, i, tag) ==
  LET set == c.cache[i]
      way == Min(IF Empty(set) # {} THEN Empty(set) ELSE Oldest(set))
  IN  State([c.cache EXCEPT ![i][way] = Fresh(tag)],
            c.hits, c.miss + 1,
            IF Empty(set) # {} THEN c.eviction ELSE c.eviction + 1)

\* Seeded fault: a hit does not renew the stamp.
update_fault(c, a) ==
  IF Matching(c.cache[SetOf(a)], TagOf(a)) # {}
  THEN State(c.cache, c.hits + 1, c.miss, c.eviction)
  ELSE Miss(c, SetOf(a), TagOf(a))

update(c, a) ==
  LET i   == SetOf(a)
      tag == TagOf(a)
      hit == Matching(c.cache[i], tag)
  IN  IF hit # {} THEN State([c.cache EXCEPT ![i][Min(hit)].stamp = 0],
                             c.hits + 1, c.miss, c.eviction)
      ELSE Miss(c, i, tag)

\* Seeded fault: time stands still.
update_time_none(c) == c

update_time(c) ==
  [i \in Sets |-> [j \in Ways |->
     IF c[i][j].valid_bit THEN [c[i][j] EXCEPT !.stamp = @ + 1] ELSE c[i][j]]]

Now == State(cache, number_hits, number_miss, number_eviction)

\* Every line of the trace, of whatever type, ends with update_time.
ReadLine(c) == /\ lines < MaxLines /\ lines' = lines + 1
               /\ cache' = update_time(c.cache)
               /\ number_hits' = c.hits
               /\ number_miss' = c.miss
               /\ number_eviction' = c.eviction

\* What a line of its type asks for, noted for Lru: M is a load and a store.
Asks(a, times) == used' = <<SetOf(a), TagOf(a), times>>

\* Seeded fault: L falls through as M does.
LoadOrStore_fault(a) == ReadLine(update(update(Now, a), a)) /\ Asks(a, 1)

LoadOrStore(a) == ReadLine(update(Now, a)) /\ Asks(a, 1)
Modify(a) == ReadLine(update(update(Now, a), a)) /\ Asks(a, 2)
Instruction == ReadLine(Now) /\ used' = <<>>

Next == \/ \E a \in Addresses : LoadOrStore(a) \/ Modify(a)
        \/ Instruction

Spec == Init /\ [][Next]_vars
-----------------------------------------------------------------------------
Valid(i) == {j \in Ways : cache[i][j].valid_bit}

(* The used lines of a set differ in tag and in stamp: no address has two  *)
(* lines, and the oldest is never a matter of position.                    *)
LinesDistinct ==
  \A i \in Sets : \A j, k \in Valid(i) :
    cache[i][j].tag = cache[i][k].tag \/ cache[i][j].stamp = cache[i][k].stamp => j = k

(* A match is never with an unused line, though update does not look at    *)
(* the valid bit, and time passes for used lines only.                     *)
UnusedNeverMatch ==
  \A i \in Sets : \A j \in Ways :
    IF j \in Valid(i) THEN cache[i][j].tag \in Nat /\ cache[i][j].stamp >= 1
    ELSE cache[i][j].tag = -1 /\ cache[i][j].stamp = -1

(* Each miss either fills an unused line or evicts: what was missed and    *)
(* not evicted is what is in the cache.                                    *)
UsedLines == {p \in Sets \X Ways : p[2] \in Valid(p[1])}

MissesAccounted == number_miss - number_eviction = Cardinality(UsedLines)

(* csim.c is an LRU cache: the recency of a set's tags, which the stamps   *)
(* encode, decides every eviction, and after every line of the trace all   *)
(* three counts are the same, L and S being one use and M two.             *)
CachedTags == [i \in Sets |-> {cache[i][j].tag : j \in Valid(i)}]

NewerTags ==
  [i \in Sets |-> {p \in CachedTags[i] \X CachedTags[i] : \E j, k \in Valid(i) :
     /\ p = <<cache[i][j].tag, cache[i][k].tag>>
     /\ cache[i][j].stamp < cache[i][k].stamp}]

Lru == INSTANCE Lru WITH
  Tags <- {TagOf(a) : a \in Addresses}, ways <- E,
  line <- lines, last <- used, cached <- CachedTags, newer <- NewerTags,
  hits <- number_hits, misses <- number_miss, evictions <- number_eviction
LruSpec == Lru!Spec
=============================================================================
