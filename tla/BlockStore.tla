------------------------------ MODULE BlockStore ------------------------------
(***************************************************************************)
(* What MSDFManager promises its callers, without slots, handles or the    *)
(* shortcut to the last block: a coherent, bounded, read-through cache of  *)
(* glyph block files.  served[k] is the version of block file k a hit      *)
(* would be answered from, 0 when k is not cached; disk[k] is the version  *)
(* of the file itself, 0 when there is none.                               *)
(***************************************************************************)
EXTENDS Naturals, FiniteSets

CONSTANTS Keys,       \* block keys: (fontId, blockId) pairs
          Capacity,   \* blocks that can be mapped at a time
          MaxVersion  \* bound on the rewrites of one block file

VARIABLES disk, served

Cached == {k \in Keys : served[k] # 0}

Init ==
    /\ disk \in [Keys -> 0..1]
    /\ served = [k \in Keys |-> 0]

Empty == [k \in Keys |-> 0]

\* A miss is filled with the file as it is now; a full cache is emptied first.
Fill(k) ==
    /\ served[k] = 0
    /\ disk[k] # 0
    /\ served' = IF Cardinality(Cached) = Capacity
                   THEN [Empty EXCEPT ![k] = disk[k]]
                   ELSE [served EXCEPT ![k] = disk[k]]
    /\ UNCHANGED disk

\* A rewrite of k, or an attempt at one, leaves k uncached.  Reading the old
\* content first may have emptied the cache.
Rewrite(k) ==
    /\ disk' \in {disk, [disk EXCEPT ![k] = @ + 1]}
    /\ disk'[k] <= MaxVersion
    /\ served' \in {[served EXCEPT ![k] = 0], Empty}

\* Everything is dropped: on a flush, or by a miss that then fails to load.
Drop ==
    /\ served' = Empty
    /\ UNCHANGED disk

Next ==
    \/ \E k \in Keys : Fill(k) \/ Rewrite(k)
    \/ Drop

Spec == Init /\ [][Next]_<<disk, served>>

(***************************************************************************)
(* A hit is never answered from a file that has been replaced since.       *)
(***************************************************************************)
Coherent == \A k \in Keys : served[k] \in {0, disk[k]}
===============================================================================
