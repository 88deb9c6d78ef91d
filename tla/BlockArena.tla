------------------------------ MODULE BlockArena ------------------------------
(***************************************************************************)
(* MSDFManager: the process-wide arena of address-space slots into which   *)
(* glyph block files are mapped, the table from block key to slot, and the *)
(* shortcut to the block used last.  All of it runs on the game's main     *)
(* thread, so each entry point is one action; its state is the record      *)
(* `arena', and the functions of MSDFManager are operators from one arena  *)
(* to the next, so that a handler is the composition of the calls it makes.*)
(*                                                                         *)
(* A block file is abstracted to its version: disk[k] counts the times the *)
(* file that BlockWrap.path names has been replaced, 0 when it is absent.  *)
(***************************************************************************)
EXTENDS Naturals

CONSTANTS Keys,             \* block keys in use: (fontId, blockId)
          NoKey,            \* BlockKey(), both halves 0xFFFFFFFF
          MAX_ARENA_SLOTS,  \* 16 in the code
          MaxVersion        \* bound on the rewrites of one block file

ASSUME ArenaAssumption ==
    /\ MAX_ARENA_SLOTS \in Nat \ {0}
    /\ MaxVersion \in Nat \ {0}
    /\ NoKey \notin Keys

Slots == 0..(MAX_ARENA_SLOTS - 1)
NoSlot == MAX_ARENA_SLOTS           \* 0xFFFFFFFF: an index outside Slots

VARIABLES base,   \* the address range was reserved (VirtualAlloc2 succeeded)
          arena,  \* s_arena, s_mappedBlocks, s_blockCache, s_lastBlock*
          disk    \* version of the file of each block

vars == <<base, arena, disk>>

-------------------------------------------------------------------------------
(* The state of MSDFManager.                                               *)

\* The view pointer of s_mappedBlocks[s] is the address of slot s or null, so
\* what it reads is arena.region[s] and the pointer itself is left out.
MappedBlock == [key : Keys \cup {NoKey}, slotIndex : Slots \cup {NoSlot}]
ClosedBlock == [key |-> NoKey, slotIndex |-> NoSlot]

\* What the operating system has mapped at the address of a slot.
Image == [key : Keys \cup {NoKey}, version : Nat]
NoImage == [key |-> NoKey, version |-> 0]

NoLast == [index |-> NoSlot, key |-> NoKey]

Arena == [free   : SUBSET Slots,                       \* freeMask
          region : [Slots -> Image],                   \* the slots' memory
          blocks : [Slots -> MappedBlock],             \* s_mappedBlocks
          cache  : [Keys -> Slots \cup {NoSlot}],      \* s_blockCache
          last   : [index : Slots \cup {NoSlot}, key : Keys \cup {NoKey}]]

EmptyArena == [free   |-> Slots,
               region |-> [s \in Slots |-> NoImage],
               blocks |-> [s \in Slots |-> ClosedBlock],
               cache  |-> [k \in Keys |-> NoSlot],
               last   |-> NoLast]

Init ==
    /\ base \in BOOLEAN
    /\ arena = EmptyArena
    /\ disk \in [Keys -> 0..1]

-------------------------------------------------------------------------------
(* The functions of MSDFManager.                                           *)

\* Unmaps whatever the slot holds and gives it back, unless it is free already.
FreeSlot(a, s) ==
    IF s \notin Slots \/ s \in a.free
      THEN a
      ELSE [free   |-> a.free \cup {s},
            region |-> [a.region EXCEPT ![s] = NoImage],
            blocks |-> a.blocks, cache |-> a.cache, last |-> a.last]

FreeBlockKeepsLast(a, s) ==   \* mutant: the shortcut survives the block
    LET freed == FreeSlot(a, a.blocks[s].slotIndex)
    IN  [free   |-> freed.free,
         region |-> freed.region,
         blocks |-> [a.blocks EXCEPT ![s] = ClosedBlock],
         cache  |-> [k \in Keys |-> IF k = a.blocks[s].key THEN NoSlot ELSE a.cache[k]],
         last   |-> a.last]

FreeBlock(a, s) ==
    LET freed == FreeSlot(a, a.blocks[s].slotIndex)
    IN  [free   |-> freed.free,
         region |-> freed.region,
         blocks |-> [a.blocks EXCEPT ![s] = ClosedBlock],
         cache  |-> [k \in Keys |-> IF k = a.blocks[s].key THEN NoSlot ELSE a.cache[k]],
         last   |-> IF a.last.index = s THEN NoLast ELSE a.last]

FreeBlockByKey(a, k) == IF a.cache[k] = NoSlot THEN a ELSE FreeBlock(a, a.cache[k])

\* mutant: the mask is set to ~0ULL, which has bits for slots that are not there
FlushAllSetsEveryBit(a) == [EmptyArena EXCEPT !.free = 0..63]

\* Every MappedBlock is closed, which unmaps its view, then every slot freed.
FlushAll(a) == EmptyArena

\* GetFreeSlot takes the lowest free slot, even when the arena has no memory.
IsLowestFree(a, s) == s \in a.free /\ \A t \in a.free : s <= t
GetFreeSlot(a, s) == [free   |-> a.free \ {s}, region |-> a.region,
                      blocks |-> a.blocks, cache |-> a.cache, last |-> a.last]

\* LoadMappedBlock maps file k into slot s.  It fails before it has noted the
\* slot (no such file, or one larger than a slot) or after (no section or view
\* can be made, a header or an entry is not valid); every failure frees the slot
\* and leaves the MappedBlock as far as it got.
NotedSlot(a, s) == [free   |-> a.free, region |-> a.region,
                    blocks |-> [a.blocks EXCEPT ![s] = [key |-> @.key, slotIndex |-> s]],
                    cache  |-> a.cache, last |-> a.last]

FailedLoadKeepsSlot(a, s) ==  \* mutant: an early return without FreeSlot
    {a, FreeSlot(NotedSlot(a, s), s)}

FailedLoads(a, s) == {FreeSlot(a, s), FreeSlot(NotedSlot(a, s), s)}

\* A successful load, recorded in the table and as the last block.
Loaded(a, s, k) == [free   |-> a.free,
                    region |-> [a.region EXCEPT ![s] = [key |-> k, version |-> disk[k]]],
                    blocks |-> [a.blocks EXCEPT ![s] = [key |-> k, slotIndex |-> s]],
                    cache  |-> [a.cache EXCEPT ![k] = s],
                    last   |-> [index |-> s, key |-> k]]

\* The slot a lookup of k is answered from: the last block, or the table's.
LastHit(a, k) == a.last.index # NoSlot /\ a.last.key = k
Lookup(a, k) == IF LastHit(a, k) THEN a.last.index ELSE a.cache[k]

\* GetOrLoadMappedBlock: the arenas it can leave behind.
Hit(a, k) == [free |-> a.free, region |-> a.region, blocks |-> a.blocks, cache |-> a.cache,
              last |-> [index |-> Lookup(a, k), key |-> k]]
Room(a) == IF a.free = {} THEN FlushAll(a) ELSE a
Misses(a, k, s) ==
    LET taken == GetFreeSlot(Room(a), s)
    IN  IF ~base THEN {taken}
        ELSE FailedLoads(taken, s)
               \cup (IF disk[k] = 0 THEN {} ELSE {Loaded(taken, s, k)})
GetOrLoad(a, k) ==
    IF Lookup(a, k) # NoSlot
      THEN {Hit(a, k)}
      ELSE UNION {Misses(a, k, s) : s \in {t \in Slots : IsLowestFree(Room(a), t)}}

-------------------------------------------------------------------------------
(* The entry points other components call.                                 *)

\* MSDFManager::LoadGlyph, on behalf of MSDFCache::TryLoadGlyph.
LoadGlyph(k) ==
    /\ arena' \in GetOrLoad(arena, k)
    /\ UNCHANGED <<base, disk>>

\* MSDFCache::WriteBlockFile reads the old block, unmaps it and replaces the
\* file.  A block that would overflow returns before it is unmapped; the write
\* or the rename can fail, which leaves the file as it was.
WriteKeepsMapping(k) ==       \* mutant: the old block stays mapped over the rename
    /\ UNCHANGED base
    /\ arena' \in GetOrLoad(arena, k)
    /\ \/ disk[k] < MaxVersion /\ disk' = [disk EXCEPT ![k] = @ + 1]
       \/ UNCHANGED disk

WriteBlockFile(k) ==
    /\ UNCHANGED base
    /\ \/ /\ arena' \in GetOrLoad(arena, k)
          /\ arena'.cache[k] # NoSlot
          /\ UNCHANGED disk
       \/ /\ arena' \in {FreeBlockByKey(a, k) : a \in GetOrLoad(arena, k)}
          /\ \/ disk[k] < MaxVersion /\ disk' = [disk EXCEPT ![k] = @ + 1]
             \/ UNCHANGED disk

\* The destructor of any MSDFCache flushes the arena of all of them.
DestroyCache ==
    /\ arena' = FlushAll(arena)
    /\ UNCHANGED <<base, disk>>

Next ==
    \/ \E k \in Keys : LoadGlyph(k) \/ WriteBlockFile(k)
    \/ DestroyCache

Spec == Init /\ [][Next]_vars

-------------------------------------------------------------------------------
TypeOK ==
    /\ base \in BOOLEAN
    /\ arena \in Arena
    /\ disk \in [Keys -> 0..MaxVersion]

(***************************************************************************)
(* A block handed out by GetOrLoadMappedBlock, through the table or the    *)
(* last-block shortcut, reads memory that is mapped, holds the block that  *)
(* was asked for, and shows the file as it is now: no dangling view, no    *)
(* other font's block, no mapping from before a rewrite.                   *)
(***************************************************************************)
ServesCurrentBlock ==
    \A k \in Keys : Lookup(arena, k) # NoSlot =>
        arena.region[Lookup(arena, k)] = [key |-> k, version |-> disk[k]]

(***************************************************************************)
(* The arena never loses a slot: with its memory reserved, exactly the     *)
(* slots the table refers to are occupied, whatever loads failed before,   *)
(* and no two blocks share one.                                            *)
(***************************************************************************)
SlotsAccounted ==
    /\ base => Slots \ arena.free = {arena.cache[k] : k \in Keys} \ {NoSlot}
    /\ \A j, k \in Keys : arena.cache[j] = arena.cache[k] /\ j # k => arena.cache[k] = NoSlot

\* The abstract cache BlockArena implements.
served == [k \in Keys |-> IF Lookup(arena, k) = NoSlot THEN 0
                          ELSE arena.region[Lookup(arena, k)].version]
Store == INSTANCE BlockStore WITH Capacity <- MAX_ARENA_SLOTS

(***************************************************************************)
(* MSDFManager implements the coherent bounded cache of BlockStore.        *)
(***************************************************************************)
ImplementsStore == Store!Spec
===============================================================================
