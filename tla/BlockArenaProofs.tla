--------------------------- MODULE BlockArenaProofs ---------------------------
(***************************************************************************)
(* For any number of slots and any set of blocks: the arena is well typed, *)
(* serves only current blocks and accounts for every slot.                 *)
(*                                                                         *)
(* ServesCurrentBlock is not inductive: it speaks of the slot a lookup     *)
(* finds, and says nothing of the slot FreeBlock would give back or of the *)
(* key it would erase.  Coherent adds that each block in the table knows   *)
(* its own key and slot, and that the shortcut agrees with the table; each *)
(* operator of the module preserves it (one lemma per operator).           *)
(***************************************************************************)
EXTENDS BlockArena, FiniteSetTheorems, TLAPS

\* Each block in the table is mapped, current, and knows its key and slot.
TableCoherent(a, d) ==
    \A k \in Keys : a.cache[k] # NoSlot =>
        /\ a.cache[k] \notin a.free
        /\ d[k] # 0
        /\ a.blocks[a.cache[k]].key = k
        /\ a.blocks[a.cache[k]].slotIndex = a.cache[k]
        /\ a.region[a.cache[k]] = [key |-> k, version |-> d[k]]

\* The shortcut to the last block names an entry of the table.
LastCoherent(a) ==
    a.last.index # NoSlot => a.last.key \in Keys /\ a.cache[a.last.key] = a.last.index

\* With memory, an occupied slot holds a block of the table; without, no block is.
Accounted(a, m) ==
    /\ m => \A s \in Slots \ a.free : \E k \in Keys : a.cache[k] = s
    /\ ~m => \A k \in Keys : a.cache[k] = NoSlot

Coherent(a, d, m) ==
    a \in Arena /\ TableCoherent(a, d) /\ LastCoherent(a) /\ Accounted(a, m)

\* The inductive invariant.
IInv == TypeOK /\ Coherent(arena, disk, base)

-------------------------------------------------------------------------------
LEMMA SlotFacts == NoSlot \notin Slots
  BY ArenaAssumption DEF NoSlot, Slots

\* An arena is well typed when each of its parts is.
LEMMA ArenaIntro ==
    ASSUME NEW f \in SUBSET Slots,
           NEW r \in [Slots -> Image],
           NEW b \in [Slots -> MappedBlock],
           NEW c \in [Keys -> Slots \cup {NoSlot}],
           NEW l \in [index : Slots \cup {NoSlot}, key : Keys \cup {NoKey}]
    PROVE  [free |-> f, region |-> r, blocks |-> b, cache |-> c, last |-> l] \in Arena
  BY DEF Arena

\* An arena that has just been emptied is coherent with any disk.
LEMMA FlushAllCoherent ==
    ASSUME NEW a, NEW d
    PROVE  Coherent(FlushAll(a), d, base)
  BY SlotFacts, ArenaAssumption
     DEF Coherent, FlushAll, EmptyArena, Arena, TableCoherent, LastCoherent, Accounted,
         MappedBlock, ClosedBlock, Image, NoImage, NoLast

\* FreeBlock on a block of the table takes out that block and nothing else.
LEMMA FreeBlockEffect ==
    ASSUME NEW a, NEW d, Coherent(a, d, base),
           NEW k \in Keys, NEW s \in Slots, s = a.cache[k]
    PROVE  FreeBlock(a, s) =
             [free   |-> a.free \cup {s},
              region |-> [a.region EXCEPT ![s] = NoImage],
              blocks |-> [a.blocks EXCEPT ![s] = ClosedBlock],
              cache  |-> [a.cache EXCEPT ![k] = NoSlot],
              last   |-> IF a.last.index = s THEN NoLast ELSE a.last]
  <1>1. s \notin a.free /\ a.blocks[s].key = k /\ a.blocks[s].slotIndex = s
    BY SlotFacts DEF Coherent, TableCoherent
  <1>2. FreeSlot(a, a.blocks[s].slotIndex) =
           [free |-> a.free \cup {s}, region |-> [a.region EXCEPT ![s] = NoImage],
            blocks |-> a.blocks, cache |-> a.cache, last |-> a.last]
    BY <1>1 DEF FreeSlot
  <1>3. [j \in Keys |-> IF j = a.blocks[s].key THEN NoSlot ELSE a.cache[j]]
           = [a.cache EXCEPT ![k] = NoSlot]
    BY <1>1 DEF Coherent, Arena
  <1>4. /\ FreeSlot(a, a.blocks[s].slotIndex).free = a.free \cup {s}
        /\ FreeSlot(a, a.blocks[s].slotIndex).region = [a.region EXCEPT ![s] = NoImage]
    BY <1>2
  <1>5. QED
    BY <1>3, <1>4, Zenon DEF FreeBlock

LEMMA FreeBlockCoherent ==
    ASSUME NEW a, NEW d, Coherent(a, d, base),
           NEW k \in Keys, NEW s \in Slots, s = a.cache[k]
    PROVE  Coherent(FreeBlock(a, s), d, base)
  <1>0. a \in Arena /\ TableCoherent(a, d) /\ LastCoherent(a) /\ Accounted(a, base)
    BY DEF Coherent
  <1>1. PICK l : l = IF a.last.index = s THEN NoLast ELSE a.last
    OBVIOUS
  <1> DEFINE b == [free   |-> a.free \cup {s},
                   region |-> [a.region EXCEPT ![s] = NoImage],
                   blocks |-> [a.blocks EXCEPT ![s] = ClosedBlock],
                   cache  |-> [a.cache EXCEPT ![k] = NoSlot],
                   last   |-> l]
  <1>2. FreeBlock(a, s) = b
    BY <1>1, FreeBlockEffect
  <1>3. l \in [index : Slots \cup {NoSlot}, key : Keys \cup {NoKey}]
    BY <1>0, <1>1 DEF Arena, NoLast
  <1>4. b \in Arena
    <2>1. NoImage \in Image /\ ClosedBlock \in MappedBlock
      BY DEF NoImage, Image, ClosedBlock, MappedBlock
    <2>2. [a.region EXCEPT ![s] = NoImage] \in [Slots -> Image]
      BY <1>0, <2>1 DEF Arena
    <2>3. [a.blocks EXCEPT ![s] = ClosedBlock] \in [Slots -> MappedBlock]
      BY <1>0, <2>1 DEF Arena
    <2>4. [a.cache EXCEPT ![k] = NoSlot] \in [Keys -> Slots \cup {NoSlot}]
      BY <1>0 DEF Arena
    <2>5. a.free \cup {s} \in SUBSET Slots
      BY <1>0 DEF Arena
    <2>6. QED
      BY <1>3, <2>2, <2>3, <2>4, <2>5, ArenaIntro
  <1>5. ASSUME NEW j \in Keys, j # k
        PROVE  a.cache[j] # s
    <2>1. a.blocks[s].key = k
      BY <1>0, SlotFacts DEF TableCoherent
    <2>2. a.cache[j] # NoSlot => a.blocks[a.cache[j]].key = j
      BY <1>0 DEF TableCoherent
    <2>3. QED
      BY <1>5, <2>1, <2>2, SlotFacts
  <1>6. TableCoherent(b, d)
    BY <1>0, <1>5, SlotFacts DEF TableCoherent, Arena
  <1>7. LastCoherent(b)
    BY <1>0, <1>1, <1>5, SlotFacts DEF LastCoherent, Arena, NoLast
  <1>8. Accounted(b, base)
    BY <1>0, <1>5, SlotFacts DEF Accounted, Arena
  <1>9. QED
    BY <1>2, <1>4, <1>6, <1>7, <1>8 DEF Coherent

-------------------------------------------------------------------------------
\* Without memory GetFreeSlot takes a slot for nothing; the next flush frees it.
LEMMA TakenCoherent ==
    ASSUME NEW a, NEW d, Coherent(a, d, base), NEW s \in a.free, ~base
    PROVE  Coherent(GetFreeSlot(a, s), d, base)
  <1>0. a \in Arena /\ TableCoherent(a, d) /\ LastCoherent(a) /\ Accounted(a, base)
    BY DEF Coherent
  <1> DEFINE b == GetFreeSlot(a, s)
  <1>1. b \in Arena
    <2>1. /\ a.free \ {s} \in SUBSET Slots
          /\ a.region \in [Slots -> Image]
          /\ a.blocks \in [Slots -> MappedBlock]
          /\ a.cache \in [Keys -> Slots \cup {NoSlot}]
          /\ a.last \in [index : Slots \cup {NoSlot}, key : Keys \cup {NoKey}]
      BY <1>0 DEF Arena
    <2>2. QED
      BY <2>1, ArenaIntro DEF GetFreeSlot
  <1>2. TableCoherent(b, d) /\ LastCoherent(b) /\ Accounted(b, base)
    BY <1>0 DEF GetFreeSlot, TableCoherent, LastCoherent, Accounted
  <1>3. QED
    BY <1>1, <1>2 DEF Coherent

\* A load that fails gives its slot back and disturbs no other block.
LEMMA FailedLoadCoherent ==
    ASSUME NEW a, NEW d, Coherent(a, d, base), NEW s \in a.free,
           NEW b \in FailedLoads(GetFreeSlot(a, s), s)
    PROVE  Coherent(b, d, base)
  <1>0. a \in Arena /\ TableCoherent(a, d) /\ LastCoherent(a) /\ Accounted(a, base) /\ s \in Slots
    BY DEF Coherent, Arena
  <1>1. PICK m \in [Slots -> MappedBlock] :
          /\ \A t \in Slots : t # s => m[t] = a.blocks[t]
          /\ b = [free   |-> a.free,
                  region |-> [a.region EXCEPT ![s] = NoImage],
                  blocks |-> m, cache |-> a.cache, last |-> a.last]
    <2>1. (a.free \ {s}) \cup {s} = a.free
      OBVIOUS
    <2>2. FreeSlot(GetFreeSlot(a, s), s) =
            [free |-> a.free, region |-> [a.region EXCEPT ![s] = NoImage],
             blocks |-> a.blocks, cache |-> a.cache, last |-> a.last]
      BY <1>0, <2>1 DEF FreeSlot, GetFreeSlot
    <2> DEFINE n == [a.blocks EXCEPT ![s] = [key |-> @.key, slotIndex |-> s]]
    <2>3. FreeSlot(NotedSlot(GetFreeSlot(a, s), s), s) =
            [free |-> a.free, region |-> [a.region EXCEPT ![s] = NoImage],
             blocks |-> n, cache |-> a.cache, last |-> a.last]
      BY <1>0, <2>1 DEF FreeSlot, NotedSlot, GetFreeSlot
    <2>4. a.blocks \in [Slots -> MappedBlock]
      BY <1>0 DEF Arena
    <2>5. n \in [Slots -> MappedBlock] /\ \A t \in Slots : t # s => n[t] = a.blocks[t]
      BY <1>0, <2>4 DEF MappedBlock
    <2>6. QED
      BY <2>2, <2>3, <2>4, <2>5 DEF FailedLoads
  <1>2. b \in Arena
    <2>1. NoImage \in Image
      BY DEF NoImage, Image
    <2>2. /\ a.free \in SUBSET Slots
          /\ [a.region EXCEPT ![s] = NoImage] \in [Slots -> Image]
          /\ a.cache \in [Keys -> Slots \cup {NoSlot}]
          /\ a.last \in [index : Slots \cup {NoSlot}, key : Keys \cup {NoKey}]
      BY <1>0, <2>1 DEF Arena
    <2>3. QED
      BY <1>1, <2>2, ArenaIntro
  <1>3. TableCoherent(b, d) /\ LastCoherent(b) /\ Accounted(b, base)
    BY <1>0, <1>1 DEF TableCoherent, LastCoherent, Accounted, Arena
  <1>4. QED
    BY <1>2, <1>3 DEF Coherent

\* A load that succeeds adds its block, current and alone in its slot.
LEMMA LoadedCoherent ==
    ASSUME NEW a, Coherent(a, disk, base), NEW s \in a.free, base,
           NEW k \in Keys, a.cache[k] = NoSlot, disk \in [Keys -> Nat], disk[k] # 0
    PROVE  Coherent(Loaded(GetFreeSlot(a, s), s, k), disk, base)
  <1>0. /\ a \in Arena /\ TableCoherent(a, disk) /\ LastCoherent(a) /\ Accounted(a, base)
        /\ s \in Slots
    BY DEF Coherent, Arena
  <1> DEFINE b == [free   |-> a.free \ {s},
                   region |-> [a.region EXCEPT ![s] = [key |-> k, version |-> disk[k]]],
                   blocks |-> [a.blocks EXCEPT ![s] = [key |-> k, slotIndex |-> s]],
                   cache  |-> [a.cache EXCEPT ![k] = s],
                   last   |-> [index |-> s, key |-> k]]
  <1>1. Loaded(GetFreeSlot(a, s), s, k) = b
    BY DEF Loaded, GetFreeSlot
  <1>2. b \in Arena
    <2>1. [key |-> k, version |-> disk[k]] \in Image /\ [key |-> k, slotIndex |-> s] \in MappedBlock
      BY <1>0 DEF Image, MappedBlock
    <2>2. /\ a.free \ {s} \in SUBSET Slots
          /\ [a.region EXCEPT ![s] = [key |-> k, version |-> disk[k]]] \in [Slots -> Image]
          /\ [a.blocks EXCEPT ![s] = [key |-> k, slotIndex |-> s]] \in [Slots -> MappedBlock]
          /\ [a.cache EXCEPT ![k] = s] \in [Keys -> Slots \cup {NoSlot}]
          /\ [index |-> s, key |-> k] \in [index : Slots \cup {NoSlot}, key : Keys \cup {NoKey}]
      BY <1>0, <2>1 DEF Arena
    <2>3. QED
      BY <2>2, ArenaIntro
  <1>3. ASSUME NEW j \in Keys
        PROVE  a.cache[j] # s
    <2>1. a.cache[j] # NoSlot => a.cache[j] \notin a.free
      BY <1>0 DEF TableCoherent
    <2>2. QED
      BY <1>0, <2>1, SlotFacts
  <1>4. TableCoherent(b, disk)
    BY <1>0, <1>3 DEF TableCoherent, Arena
  <1>5. LastCoherent(b)
    BY <1>0 DEF LastCoherent, Arena
  <1>6. Accounted(b, base)
    <2>1. b.cache \in [Keys -> Slots \cup {NoSlot}] /\ b.cache[k] = s
          /\ \A j \in Keys : j # k => b.cache[j] = a.cache[j]
      BY <1>0 DEF Arena
    <2>2. ASSUME NEW t \in Slots \ b.free
          PROVE  \E j \in Keys : b.cache[j] = t
      <3>1. CASE t = s
        BY <2>1, <3>1
      <3>2. CASE t # s
        <4>1. PICK j \in Keys : a.cache[j] = t
          BY <1>0, <2>2, <3>2 DEF Accounted
        <4>2. j # k
          BY <2>2, <4>1, SlotFacts
        <4>3. QED
          BY <2>1, <4>1, <4>2
      <3>3. QED
        BY <3>1, <3>2
    <2>3. QED
      BY <2>2 DEF Accounted
  <1>7. QED
    BY <1>1, <1>2, <1>4, <1>5, <1>6 DEF Coherent

-------------------------------------------------------------------------------
\* The shortcut only ever repeats what the table says.
LEMMA LookupIsTable ==
    ASSUME NEW a, NEW d, Coherent(a, d, base), NEW k \in Keys
    PROVE  Lookup(a, k) = a.cache[k]
  BY DEF Coherent, LastCoherent, Lookup, LastHit

LEMMA HitCoherent ==
    ASSUME NEW a, NEW d, Coherent(a, d, base), NEW k \in Keys, Lookup(a, k) # NoSlot
    PROVE  Coherent(Hit(a, k), d, base)
  <1>0. a \in Arena /\ TableCoherent(a, d) /\ Accounted(a, base)
    BY DEF Coherent
  <1>1. PICK s \in Slots : s = a.cache[k] /\ s = Lookup(a, k)
    BY <1>0, LookupIsTable DEF Arena
  <1>2. Hit(a, k) = [free |-> a.free, region |-> a.region, blocks |-> a.blocks,
                     cache |-> a.cache, last |-> [index |-> s, key |-> k]]
    BY <1>1 DEF Hit
  <1>3. /\ a.free \in SUBSET Slots
        /\ a.region \in [Slots -> Image]
        /\ a.blocks \in [Slots -> MappedBlock]
        /\ a.cache \in [Keys -> Slots \cup {NoSlot}]
        /\ [index |-> s, key |-> k] \in [index : Slots \cup {NoSlot}, key : Keys \cup {NoKey}]
    BY <1>0 DEF Arena
  <1>4. Hit(a, k) \in Arena
    BY <1>2, <1>3, ArenaIntro
  <1>5. /\ Hit(a, k).cache = a.cache
        /\ Hit(a, k).free = a.free
        /\ Hit(a, k).region = a.region
        /\ Hit(a, k).blocks = a.blocks
        /\ Hit(a, k).last.index = s
        /\ Hit(a, k).last.key = k
    BY <1>2
  <1>6. TableCoherent(Hit(a, k), d) /\ LastCoherent(Hit(a, k)) /\ Accounted(Hit(a, k), base)
    <2>1. TableCoherent(Hit(a, k), d)
      BY <1>0, <1>5 DEF TableCoherent
    <2>2. LastCoherent(Hit(a, k))
      BY <1>1, <1>5 DEF LastCoherent
    <2>3. Accounted(Hit(a, k), base)
      BY <1>0, <1>5 DEF Accounted
    <2>4. QED
      BY <2>1, <2>2, <2>3
  <1>7. QED
    BY <1>4, <1>6 DEF Coherent

\* Whatever GetOrLoadMappedBlock does, it leaves a coherent arena.
LEMMA GetOrLoadCoherent ==
    ASSUME NEW a, Coherent(a, disk, base), NEW k \in Keys, disk \in [Keys -> Nat],
           NEW b \in GetOrLoad(a, k)
    PROVE  Coherent(b, disk, base)
  <1>1. CASE Lookup(a, k) # NoSlot
    BY <1>1, HitCoherent DEF GetOrLoad
  <1>2. CASE Lookup(a, k) = NoSlot
    <2>1. PICK r : r = Room(a)
      OBVIOUS
    <2>2. Coherent(r, disk, base) /\ r.cache[k] = NoSlot
      <3>1. a.cache[k] = NoSlot
        BY <1>2, LookupIsTable
      <3>2. EmptyArena.cache[k] = NoSlot
        BY DEF EmptyArena
      <3>3. QED
        BY <2>1, <3>1, <3>2, FlushAllCoherent DEF Room, FlushAll
    <2>3. PICK s \in r.free : b \in Misses(a, k, s)
      BY <1>2, <2>1 DEF GetOrLoad, IsLowestFree
    <2>4. CASE ~base
      BY <2>1, <2>2, <2>3, <2>4, TakenCoherent DEF Misses
    <2>5. CASE base /\ b \in FailedLoads(GetFreeSlot(r, s), s)
      BY <2>2, <2>5, FailedLoadCoherent
    <2>6. CASE base /\ disk[k] # 0 /\ b = Loaded(GetFreeSlot(r, s), s, k)
      BY <2>2, <2>6, LoadedCoherent
    <2>7. QED
      BY <2>1, <2>3, <2>4, <2>5, <2>6 DEF Misses
  <1>3. QED
    BY <1>1, <1>2

\* FreeBlockByKey takes k out of the table, and only k.
LEMMA FreeBlockByKeyCoherent ==
    ASSUME NEW a, NEW d, Coherent(a, d, base), NEW k \in Keys
    PROVE  /\ Coherent(FreeBlockByKey(a, k), d, base)
           /\ FreeBlockByKey(a, k).cache[k] = NoSlot
  <1>1. CASE a.cache[k] = NoSlot
    BY <1>1 DEF FreeBlockByKey
  <1>2. CASE a.cache[k] # NoSlot
    <2>1. PICK s \in Slots : s = a.cache[k]
      BY <1>2 DEF Coherent, Arena
    <2>2. FreeBlock(a, s).cache = [a.cache EXCEPT ![k] = NoSlot]
      BY <2>1, FreeBlockEffect
    <2>3. FreeBlock(a, s).cache[k] = NoSlot
      BY <2>2 DEF Coherent, Arena
    <2>4. QED
      BY <1>2, <2>1, <2>3, FreeBlockCoherent DEF FreeBlockByKey
  <1>3. QED
    BY <1>1, <1>2

\* The file of a block that is not mapped can be replaced.
LEMMA RewriteCoherent ==
    ASSUME NEW a, NEW d \in [Keys -> Nat], Coherent(a, d, base), NEW k \in Keys, a.cache[k] = NoSlot,
           NEW n
    PROVE  Coherent(a, [d EXCEPT ![k] = n], base)
  BY DEF Coherent, TableCoherent

-------------------------------------------------------------------------------
LEMMA InitIInv == Init => IInv
  <1> SUFFICES ASSUME Init PROVE IInv
    OBVIOUS
  <1>1. disk \in [Keys -> 0..MaxVersion]
    BY ArenaAssumption DEF Init
  <1>2. Coherent(arena, disk, base)
    BY FlushAllCoherent DEF Init, FlushAll
  <1>3. QED
    BY <1>1, <1>2 DEF IInv, TypeOK, Init, Coherent

LEMMA NextIInv == IInv /\ [Next]_vars => IInv'
  <1> SUFFICES ASSUME IInv, [Next]_vars PROVE IInv'
    OBVIOUS
  <1>1. disk \in [Keys -> 0..MaxVersion] /\ base \in BOOLEAN /\ Coherent(arena, disk, base)
    BY DEF IInv, TypeOK
  <1>2. disk \in [Keys -> Nat]
    BY <1>1, ArenaAssumption
  <1>3. SUFFICES base' = base /\ disk' \in [Keys -> 0..MaxVersion] /\ Coherent(arena', disk', base)
    BY <1>1 DEF IInv, TypeOK, Coherent
  <1>4. ASSUME NEW k \in Keys, LoadGlyph(k)
        PROVE  base' = base /\ disk' \in [Keys -> 0..MaxVersion] /\ Coherent(arena', disk', base)
    BY <1>1, <1>2, <1>4, GetOrLoadCoherent DEF LoadGlyph
  <1>5. ASSUME NEW k \in Keys, WriteBlockFile(k)
        PROVE  base' = base /\ disk' \in [Keys -> 0..MaxVersion] /\ Coherent(arena', disk', base)
    <2>1. CASE arena' \in GetOrLoad(arena, k) /\ disk' = disk
      BY <1>1, <1>2, <1>5, <2>1, GetOrLoadCoherent DEF WriteBlockFile
    <2>2. CASE arena' \in {FreeBlockByKey(a, k) : a \in GetOrLoad(arena, k)}
      <3>1. PICK a \in GetOrLoad(arena, k) : arena' = FreeBlockByKey(a, k)
        BY <2>2
      <3>2. Coherent(arena', disk, base) /\ arena'.cache[k] = NoSlot
        BY <1>1, <1>2, <3>1, GetOrLoadCoherent, FreeBlockByKeyCoherent
      <3>3. CASE disk[k] < MaxVersion /\ disk' = [disk EXCEPT ![k] = @ + 1]
        <4>1. disk[k] + 1 \in 0..MaxVersion
          BY <1>1, <3>3, ArenaAssumption
        <4>2. disk' \in [Keys -> 0..MaxVersion]
          BY <1>1, <3>3, <4>1
        <4>3. Coherent(arena', disk', base)
          BY <1>2, <3>2, <3>3, RewriteCoherent
        <4>4. QED
          BY <1>5, <4>2, <4>3 DEF WriteBlockFile
      <3>4. CASE disk' = disk
        BY <1>1, <1>5, <3>2, <3>4 DEF WriteBlockFile
      <3>5. QED
        BY <1>5, <2>2, <3>3, <3>4 DEF WriteBlockFile
    <2>3. QED
      BY <1>5, <2>1, <2>2 DEF WriteBlockFile
  <1>6. CASE DestroyCache
    BY <1>1, <1>6, FlushAllCoherent DEF DestroyCache
  <1>7. CASE UNCHANGED vars
    BY <1>1, <1>7 DEF vars
  <1>8. QED
    BY <1>4, <1>5, <1>6, <1>7 DEF Next

THEOREM Invariance == Spec => []IInv
  BY InitIInv, NextIInv, PTL DEF Spec

(***************************************************************************)
(* The arena of MSDFManager always has the shape its declarations give it. *)
(***************************************************************************)
THEOREM TypeCorrect == Spec => []TypeOK
  BY Invariance, PTL DEF IInv

(***************************************************************************)
(* GetOrLoadMappedBlock, for any number of slots and blocks, answers from  *)
(* mapped memory that holds the requested block as its file is now.        *)
(***************************************************************************)
THEOREM CurrentBlock == Spec => []ServesCurrentBlock
  <1>1. IInv => ServesCurrentBlock
    BY LookupIsTable DEF IInv, Coherent, TableCoherent, ServesCurrentBlock
  <1>2. QED
    BY <1>1, Invariance, PTL

(***************************************************************************)
(* No sequence of loads, failed loads, rewrites and flushes loses a slot   *)
(* or puts two blocks in one.                                              *)
(***************************************************************************)
THEOREM NoSlotLost == Spec => []SlotsAccounted
  <1>1. IInv => SlotsAccounted
    <2> SUFFICES ASSUME IInv PROVE SlotsAccounted
      OBVIOUS
    <2>1. arena \in Arena /\ TableCoherent(arena, disk) /\ Accounted(arena, base)
      BY DEF IInv, Coherent
    <2>2. ASSUME base
          PROVE  Slots \ arena.free = {arena.cache[k] : k \in Keys} \ {NoSlot}
      <3>1. ASSUME NEW k \in Keys, arena.cache[k] # NoSlot
            PROVE  arena.cache[k] \in Slots /\ arena.cache[k] \notin arena.free
        <4>1. arena.cache[k] \notin arena.free
          BY <2>1, <3>1 DEF TableCoherent
        <4>2. arena.cache[k] \in Slots \cup {NoSlot}
          BY <2>1 DEF Arena
        <4>3. QED
          BY <3>1, <4>1, <4>2
      <3>2. \A s \in Slots \ arena.free : \E k \in Keys : arena.cache[k] = s
        BY <2>1, <2>2 DEF Accounted
      <3>3. ASSUME NEW s \in Slots \ arena.free
            PROVE  s \in {arena.cache[k] : k \in Keys} \ {NoSlot}
        <4>1. PICK k \in Keys : arena.cache[k] = s
          BY <3>2
        <4>2. s # NoSlot
          BY SlotFacts
        <4>3. QED
          BY <4>1, <4>2, Zenon
      <3>4. ASSUME NEW s \in {arena.cache[k] : k \in Keys} \ {NoSlot}
            PROVE  s \in Slots \ arena.free
        BY <3>1
      <3>5. QED
        BY <3>3, <3>4, Zenon
    <2>3. ASSUME NEW j \in Keys, NEW k \in Keys, arena.cache[j] = arena.cache[k], j # k
          PROVE  arena.cache[k] = NoSlot
      BY <2>1, <2>3 DEF TableCoherent
    <2>4. QED
      BY <2>2, <2>3 DEF SlotsAccounted
  <1>2. QED
    BY <1>1, Invariance, PTL

-------------------------------------------------------------------------------
(* MSDFManager implements BlockStore.                                      *)

Mapped(a) == {k \in Keys : a.cache[k] # NoSlot}

\* What the table serves: the file as it is, or nothing.
ServedBy(a, d) == [k \in Keys |-> IF k \in Mapped(a) THEN d[k] ELSE 0]

LEMMA ServedIsServedBy ==
    IInv => /\ served = ServedBy(arena, disk)
            /\ Store!Cached = Mapped(arena)
  <1> SUFFICES ASSUME IInv
               PROVE  served = ServedBy(arena, disk) /\ Store!Cached = Mapped(arena)
    OBVIOUS
  <1>1. Coherent(arena, disk, base) /\ TableCoherent(arena, disk)
    BY DEF IInv, Coherent
  <1>2. ASSUME NEW k \in Keys
        PROVE  served[k] = ServedBy(arena, disk)[k]
    <2>1. Lookup(arena, k) = arena.cache[k]
      BY <1>1, LookupIsTable
    <2>2. arena.cache[k] # NoSlot => arena.region[arena.cache[k]] = [key |-> k, version |-> disk[k]]
      BY <1>1 DEF TableCoherent
    <2>3. QED
      BY <2>1, <2>2 DEF served, ServedBy, Mapped
  <1>3. served = ServedBy(arena, disk)
    BY <1>2 DEF served, ServedBy
  <1>4. ASSUME NEW k \in Keys
        PROVE  ServedBy(arena, disk)[k] # 0 <=> arena.cache[k] # NoSlot
    <2>1. arena.cache[k] # NoSlot => disk[k] # 0
      BY <1>1 DEF TableCoherent
    <2>2. QED
      BY <2>1 DEF ServedBy, Mapped
  <1>5. QED
    BY <1>3, <1>4 DEF Store!Cached, Mapped

\* The arena is full exactly when as many blocks are mapped as it has slots.
LEMMA FullIffCapacity ==
    ASSUME NEW a, NEW d, Coherent(a, d, TRUE)
    PROVE  Cardinality(Mapped(a)) = MAX_ARENA_SLOTS <=> a.free = {}
  <1>0. a \in Arena /\ TableCoherent(a, d) /\ Accounted(a, TRUE)
    BY DEF Coherent
  <1> DEFINE Used == Slots \ a.free
             f == [s \in Used |-> a.blocks[s].key]
  <1>1. IsFiniteSet(Slots) /\ Cardinality(Slots) = MAX_ARENA_SLOTS
    <2>1. 0 \in Int /\ MAX_ARENA_SLOTS - 1 \in Int /\ 0 <= MAX_ARENA_SLOTS - 1
      BY ArenaAssumption
    <2>2. QED
      BY <2>1, FS_Interval, ArenaAssumption DEF Slots
  <1>2. IsFiniteSet(Used)
        /\ (Cardinality(Used) = MAX_ARENA_SLOTS <=> a.free = {})
    <2>1. Used \in SUBSET Slots
      OBVIOUS
    <2>2. IsFiniteSet(Used) /\ (Cardinality(Slots) = Cardinality(Used) => Slots = Used)
      BY <1>1, <2>1, FS_Subset
    <2>3. a.free = {} <=> Slots = Used
      BY <1>0 DEF Arena
    <2>4. QED
      BY <1>1, <2>2, <2>3
  <1>3. f \in Bijection(Used, Mapped(a))
    <2>1. ASSUME NEW s \in Used
          PROVE  f[s] \in Mapped(a) /\ a.cache[f[s]] = s
      <3>1. PICK k \in Keys : a.cache[k] = s
        BY <1>0 DEF Accounted
      <3>2. a.cache[k] # NoSlot
        BY <3>1, SlotFacts
      <3>3. a.blocks[s].key = k
        BY <1>0, <3>1, <3>2 DEF TableCoherent
      <3>4. QED
        BY <3>1, <3>2, <3>3 DEF Mapped
    <2>2. ASSUME NEW k \in Mapped(a)
          PROVE  a.cache[k] \in Used /\ f[a.cache[k]] = k
      <3>1. a.cache[k] \in Slots \cup {NoSlot} /\ a.cache[k] # NoSlot /\ k \in Keys
        BY <1>0 DEF Mapped, Arena
      <3>2. a.cache[k] \notin a.free /\ a.blocks[a.cache[k]].key = k
        BY <1>0, <3>1 DEF TableCoherent
      <3>3. QED
        BY <3>1, <3>2
    <2>3. f \in [Used -> Mapped(a)]
      BY <2>1
    <2>4. \A s, t \in Used : f[s] = f[t] => s = t
      BY <2>1
    <2>5. \A k \in Mapped(a) : \E s \in Used : f[s] = k
      BY <2>2
    <2>6. QED
      BY <2>3, <2>4, <2>5 DEF Bijection, Injection, Surjection, IsInjective
  <1>4. ExistsBijection(Used, Mapped(a))
    BY <1>3 DEF ExistsBijection
  <1>5. Cardinality(Mapped(a)) = Cardinality(Used)
    BY <1>2, <1>4, FS_Bijection
  <1>6. QED
    BY <1>2, <1>5

\* What GetOrLoadMappedBlock does to the set of mapped blocks.
LEMMA GetOrLoadMapped ==
    ASSUME NEW a, Coherent(a, disk, base), NEW k \in Keys, NEW b \in GetOrLoad(a, k)
    PROVE  \/ Mapped(b) = Mapped(a)
           \/ Mapped(b) = {}
           \/ /\ base /\ k \notin Mapped(a) /\ disk[k] # 0
              /\ Mapped(b) = IF a.free = {} THEN {k} ELSE Mapped(a) \cup {k}
  <1>0. a \in Arena /\ Mapped(EmptyArena) = {} /\ EmptyArena \in Arena
    BY FlushAllCoherent DEF Coherent, Mapped, EmptyArena, FlushAll
  <1>1. CASE Lookup(a, k) # NoSlot
    BY <1>1 DEF GetOrLoad, Hit, Mapped
  <1>2. CASE Lookup(a, k) = NoSlot
    <2>1. PICK r : r = Room(a)
      OBVIOUS
    <2>2. /\ r \in Arena
          /\ Mapped(r) = IF a.free = {} THEN {} ELSE Mapped(a)
      BY <1>0, <2>1 DEF Room, FlushAll
    <2>3. PICK s \in Slots : s \in r.free /\ b \in Misses(a, k, s)
      BY <1>2, <2>1 DEF GetOrLoad, IsLowestFree
    <2>4. CASE b.cache = r.cache
      BY <2>2, <2>4 DEF Mapped
    <2>5. CASE base /\ disk[k] # 0 /\ b = Loaded(GetFreeSlot(r, s), s, k)
      <3>1. b.cache = [r.cache EXCEPT ![k] = s]
        BY <2>5 DEF Loaded, GetFreeSlot
      <3>2. Mapped(b) = Mapped(r) \cup {k}
        BY <2>2, <2>3, <3>1, SlotFacts DEF Mapped, Arena
      <3>3. k \notin Mapped(a)
        BY <1>2, LookupIsTable DEF Mapped
      <3>4. QED
        BY <2>2, <2>5, <3>2, <3>3
    <2>6. b.cache = r.cache \/ (base /\ disk[k] # 0 /\ b = Loaded(GetFreeSlot(r, s), s, k))
      BY <2>1, <2>3 DEF Misses, FailedLoads, FreeSlot, NotedSlot, GetFreeSlot
    <2>7. QED
      BY <2>4, <2>5, <2>6
  <1>3. QED
    BY <1>1, <1>2

LEMMA FreeBlockByKeyMapped ==
    ASSUME NEW a, NEW d, Coherent(a, d, base), NEW k \in Keys
    PROVE  Mapped(FreeBlockByKey(a, k)) = Mapped(a) \ {k}
  <1>1. CASE a.cache[k] = NoSlot
    BY <1>1 DEF FreeBlockByKey, Mapped
  <1>2. CASE a.cache[k] # NoSlot
    <2>1. PICK s \in Slots : s = a.cache[k]
      BY <1>2 DEF Coherent, Arena
    <2>2. FreeBlockByKey(a, k).cache = [a.cache EXCEPT ![k] = NoSlot]
      BY <1>2, <2>1, FreeBlockEffect DEF FreeBlockByKey
    <2>3. QED
      BY <2>2 DEF Mapped, Coherent, Arena
  <1>3. QED
    BY <1>1, <1>2

\* The step of BlockStore that answers a change of the mapped blocks.
LEMMA LookupStep ==
    ASSUME IInv, IInv', NEW k \in Keys, arena' \in GetOrLoad(arena, k), disk' = disk
    PROVE  [Store!Next]_<<disk, served>>
  <1>1. /\ Coherent(arena, disk, base)
        /\ served = ServedBy(arena, disk)
        /\ served' = ServedBy(arena', disk')
        /\ Store!Cached = Mapped(arena)
    <2>1. served = ServedBy(arena, disk) /\ Store!Cached = Mapped(arena)
      BY ServedIsServedBy
    <2>2. (IInv => /\ served = ServedBy(arena, disk)
                   /\ Store!Cached = Mapped(arena))'
      BY ServedIsServedBy, PTL
    <2>3. served' = ServedBy(arena', disk')
      BY <2>2
    <2>4. Coherent(arena, disk, base)
      BY DEF IInv
    <2>5. QED
      BY <2>1, <2>3, <2>4
  <1>2. CASE Mapped(arena') = Mapped(arena)
    <2>1. served' = served
      BY <1>1, <1>2 DEF ServedBy
    <2>2. <<disk, served>>' = <<disk, served>>
      BY <2>1, Zenon
    <2>3. QED
      BY <2>2, Zenon
  <1>3. CASE Mapped(arena') = {}
    <2>1. served' = [j \in Keys |-> 0]
      BY <1>1, <1>3 DEF ServedBy
    <2>2. QED
      BY <2>1 DEF Store!Next, Store!Drop, Store!Empty
  <1>4. CASE /\ base /\ k \notin Mapped(arena) /\ disk[k] # 0
             /\ Mapped(arena') = IF arena.free = {} THEN {k} ELSE Mapped(arena) \cup {k}
    <2>1. served[k] = 0
      BY <1>1, <1>4 DEF ServedBy
    <2>2. Cardinality(Store!Cached) = MAX_ARENA_SLOTS <=> arena.free = {}
      BY <1>1, <1>4, FullIffCapacity
    <2>3. served' = IF Cardinality(Store!Cached) = MAX_ARENA_SLOTS
                      THEN [Store!Empty EXCEPT ![k] = disk[k]]
                      ELSE [served EXCEPT ![k] = disk[k]]
      <3>1. CASE arena.free = {}
        <4>1. served' = [j \in Keys |-> IF j = k THEN disk[k] ELSE 0]
          BY <1>1, <1>4, <3>1 DEF ServedBy
        <4>2. [Store!Empty EXCEPT ![k] = disk[k]] = [j \in Keys |-> IF j = k THEN disk[k] ELSE 0]
          BY DEF Store!Empty
        <4>3. QED
          BY <2>2, <3>1, <4>1, <4>2
      <3>2. CASE arena.free # {}
        <4>1. PICK f : f = served
          OBVIOUS
        <4>2. f = [j \in Keys |-> IF j \in Mapped(arena) THEN disk[j] ELSE 0]
          BY <1>1, <4>1 DEF ServedBy
        <4>3. served' = [j \in Keys |-> IF j \in Mapped(arena) \cup {k} THEN disk[j] ELSE 0]
          BY <1>1, <1>4, <3>2 DEF ServedBy
        <4>4. [f EXCEPT ![k] = disk[k]]
                = [j \in Keys |-> IF j \in Mapped(arena) \cup {k} THEN disk[j] ELSE 0]
          BY <4>2
        <4>5. QED
          BY <2>2, <3>2, <4>1, <4>3, <4>4
      <3>3. QED
        BY <3>1, <3>2
    <2>4. Store!Cardinality(Store!Cached) = Cardinality(Store!Cached)
      BY DEF Store!Cardinality, Cardinality
    <2>5. Store!Fill(k)
      BY <1>4, <2>1, <2>3, <2>4 DEF Store!Fill
    <2>6. QED
      BY <2>5 DEF Store!Next
  <1>5. QED
    BY <1>1, <1>2, <1>3, <1>4, GetOrLoadMapped

LEMMA RewriteStep ==
    ASSUME IInv, IInv', NEW k \in Keys, WriteBlockFile(k)
    PROVE  [Store!Next]_<<disk, served>>
  <1>1. /\ served = ServedBy(arena, disk)
        /\ Coherent(arena, disk, base)
        /\ disk \in [Keys -> 0..MaxVersion]
    BY ServedIsServedBy DEF IInv, TypeOK
  <1>2. (IInv => /\ served = ServedBy(arena, disk)
                 /\ Store!Cached = Mapped(arena))'
    BY ServedIsServedBy, PTL
  <1>3. /\ served' = ServedBy(arena', disk')
        /\ disk' \in [Keys -> 0..MaxVersion]
    BY <1>2 DEF IInv, TypeOK
  <1>4. CASE arena' \in GetOrLoad(arena, k) /\ UNCHANGED disk
    BY <1>4, LookupStep
  <1>5. CASE /\ arena' \in {FreeBlockByKey(a, k) : a \in GetOrLoad(arena, k)}
             /\ \/ disk' = [disk EXCEPT ![k] = @ + 1]
                \/ UNCHANGED disk
    <2>1. PICK b \in GetOrLoad(arena, k) : arena' = FreeBlockByKey(b, k)
      BY <1>5
    <2>2. Mapped(arena') = Mapped(b) \ {k}
      BY <1>1, <2>1, GetOrLoadCoherent, FreeBlockByKeyMapped
    <2>3. Mapped(arena') = Mapped(arena) \ {k} \/ Mapped(arena') = {}
      BY <1>1, <2>1, <2>2, GetOrLoadMapped
    <2>4. \A j \in Keys : j # k => disk'[j] = disk[j]
      BY <1>1, <1>5
    <2>5. served' \in {[served EXCEPT ![k] = 0], Store!Empty}
      <3>1. CASE Mapped(arena') = Mapped(arena) \ {k}
        <4>1. PICK f : f = served
          OBVIOUS
        <4>2. f = [j \in Keys |-> IF j \in Mapped(arena) THEN disk[j] ELSE 0]
          BY <1>1, <4>1 DEF ServedBy
        <4>3. served' = [j \in Keys |-> IF j \in Mapped(arena) \ {k} THEN disk[j] ELSE 0]
          BY <1>3, <2>4, <3>1 DEF ServedBy
        <4>4. [f EXCEPT ![k] = 0]
                = [j \in Keys |-> IF j \in Mapped(arena) \ {k} THEN disk[j] ELSE 0]
          BY <4>2
        <4>5. QED
          BY <4>1, <4>3, <4>4
      <3>2. CASE Mapped(arena') = {}
        BY <1>3, <3>2 DEF ServedBy, Store!Empty
      <3>3. QED
        BY <2>3, <3>1, <3>2
    <2>6. disk'[k] <= MaxVersion
      BY <1>3, ArenaAssumption
    <2>7. disk' \in {disk, [disk EXCEPT ![k] = @ + 1]}
      BY <1>5
    <2>8. Store!Rewrite(k)
      BY <2>5, <2>6, <2>7 DEF Store!Rewrite
    <2>9. QED
      BY <2>8 DEF Store!Next
  <1>6. QED
    BY <1>4, <1>5 DEF WriteBlockFile

(***************************************************************************)
(* MSDFManager is a coherent bounded read-through cache of the block files:*)
(* slots, the table, the last-block shortcut, failed loads and flushes show*)
(* its callers nothing BlockStore does not.                                *)
(***************************************************************************)
THEOREM Refinement == Spec => ImplementsStore
  <1>1. Init => Store!Init
    <2> SUFFICES ASSUME Init PROVE Store!Init
      OBVIOUS
    <2>1. IInv
      BY InitIInv
    <2>2. served = ServedBy(arena, disk)
      BY <2>1, ServedIsServedBy
    <2>3. served = [k \in Keys |-> 0]
      BY <2>2 DEF ServedBy, Mapped, Init, EmptyArena
    <2>4. QED
      BY <2>3 DEF Init, Store!Init
  <1>2. IInv /\ IInv' /\ [Next]_vars => [Store!Next]_<<disk, served>>
    <2> SUFFICES ASSUME IInv, IInv', [Next]_vars
                 PROVE  [Store!Next]_<<disk, served>>
      OBVIOUS
    <2>1. ASSUME NEW k \in Keys, LoadGlyph(k)
          PROVE  [Store!Next]_<<disk, served>>
      BY <2>1, LookupStep DEF LoadGlyph
    <2>2. ASSUME NEW k \in Keys, WriteBlockFile(k)
          PROVE  [Store!Next]_<<disk, served>>
      BY <2>2, RewriteStep
    <2>3. CASE DestroyCache
      <3>1. (IInv => /\ served = ServedBy(arena, disk)
                     /\ Store!Cached = Mapped(arena))'
        BY ServedIsServedBy, PTL
      <3>2. served' = [k \in Keys |-> 0]
        BY <2>3, <3>1 DEF DestroyCache, FlushAll, EmptyArena, ServedBy, Mapped
      <3>3. QED
        BY <2>3, <3>2 DEF DestroyCache, Store!Next, Store!Drop, Store!Empty
    <2>4. CASE UNCHANGED vars
      <3>1. served' = served
        BY <2>4 DEF vars, served, Lookup, LastHit
      <3>2. <<disk, served>>' = <<disk, served>>
        BY <2>4, <3>1 DEF vars
      <3>3. QED
        BY <3>2, Zenon
    <2>5. QED
      BY <2>1, <2>2, <2>3, <2>4 DEF Next
  <1>3. QED
    BY <1>1, <1>2, Invariance, PTL DEF Spec, ImplementsStore, Store!Spec
===============================================================================
