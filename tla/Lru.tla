--------------------------------- MODULE Lru ---------------------------------
(***************************************************************************)
(* What a set-associative LRU cache promises.  A set is the tags it holds  *)
(* and the order in which they were last used; a miss in a full set evicts *)
(* the tag that every other tag is newer than.                             *)
(***************************************************************************)
EXTENDS Integers, FiniteSets

CONSTANTS Sets, Tags, ways

VARIABLES line,    \* lines of the trace read
          last,    \* of the last of them: set, tag and number of its uses; <<>> for none
          cached,  \* the tags of each set
          newer,   \* pairs <<t, u>> of tags of a set, t used after u
          hits, misses, evictions

vars == <<line, last, cached, newer, hits, misses, evictions>>

Init == /\ line = 0 /\ last = <<>>
        /\ cached = [i \in Sets |-> {}]
        /\ newer = [i \in Sets |-> {}]
        /\ hits = 0 /\ misses = 0 /\ evictions = 0

\* Tag t of set i is used: of the others, those in kept stay, behind it.
Renew(i, kept, t) ==
  /\ cached' = [cached EXCEPT ![i] = kept \cup {t}]
  /\ newer' = [newer EXCEPT ![i] =
                 {p \in @ : {p[1], p[2]} \subseteq kept} \cup ({t} \X kept)]

\* A line of the trace uses a tag once or twice, each time a hit but for a first miss.
Hit(i, t, times) == /\ t \in cached[i]
                    /\ Renew(i, cached[i] \ {t}, t)
                    /\ hits' = hits + times
                    /\ UNCHANGED <<misses, evictions>>

Fill(i, t, times) == /\ t \notin cached[i]
                     /\ Cardinality(cached[i]) < ways
                     /\ Renew(i, cached[i], t)
                     /\ hits' = hits + times - 1
                     /\ misses' = misses + 1
                     /\ UNCHANGED evictions

Evict(i, t, u, times) == /\ t \notin cached[i]
                         /\ Cardinality(cached[i]) = ways
                         /\ u \in cached[i]
                         /\ \A v \in cached[i] \ {u} : <<v, u>> \in newer[i]
                         /\ Renew(i, cached[i] \ {u}, t)
                         /\ hits' = hits + times - 1
                         /\ misses' = misses + 1
                         /\ evictions' = evictions + 1

\* A line that uses a tag; one that is only read.
Use(i, t, times) == /\ last' = <<i, t, times>>
                    /\ \/ Hit(i, t, times) \/ Fill(i, t, times)
                       \/ \E u \in cached[i] : Evict(i, t, u, times)

Skip == last' = <<>> /\ UNCHANGED <<cached, newer, hits, misses, evictions>>

Next == /\ line' = line + 1
        /\ \/ \E i \in Sets, t \in Tags, times \in {1, 2} : Use(i, t, times)
           \/ Skip

Spec == Init /\ [][Next]_vars
=============================================================================
