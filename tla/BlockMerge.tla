------------------------------ MODULE BlockMerge ------------------------------
(***************************************************************************)
(* The content of glyph block files: how MSDFCache::WriteBlockFile merges  *)
(* the pending glyphs of a block with those of its file, lays out entries, *)
(* hash table and payload, and how MSDFManager::LoadGlyph reads a glyph    *)
(* back.  One cache owns the directory; locks and I/O may fail.  The order *)
(* of the files and crashes between the steps are GlyphCache's.            *)
(*                                                                         *)
(* Pixel data is a sequence of <<codepoint, position>> bytes, so that a    *)
(* copy from a wrong offset shows.  Sequences count from 1 where the arrays*)
(* of the code count from 0, and a hash cell of 0 stands for 0xFFFFFFFF.   *)
(***************************************************************************)
EXTENDS Naturals, Sequences, FiniteSets, SequencesExt

CONSTANTS Codepoints,        \* the glyphs the texts use
          DataSize,          \* bytes of pixel data of each, 0 without outline
          BLOCK_SIZE,        \* 512 in the code, a power of two
          WRITE_BATCH_SIZE   \* 64 in the code

ASSUME MergeAssumption ==
    /\ Codepoints \subseteq Nat
    /\ DataSize \in [Codepoints -> Nat]
    /\ BLOCK_SIZE \in Nat \ {0}
    /\ WRITE_BATCH_SIZE \in Nat \ {0}

VARIABLES base,      \* blocks can be mapped: the arena has its address range
          files,     \* the file of each block
          manifest,  \* m_manifest: the codepoints recorded as stored
          pending    \* m_pendingWrites

vars == <<base, files, manifest, pending>>

GetBlockId(cp) == cp \div BLOCK_SIZE
BlockIds == {GetBlockId(cp) : cp \in Codepoints}

\* A byte of no glyph: the buffer's initial content and the file's padding.
Zero == <<0, 0>>

GlyphEntry == [codepoint : Codepoints, dataOffset : Nat, dataSize : Nat]
BlockFile == [entries   : Seq(GlyphEntry),
              hashTable : [0..(BLOCK_SIZE - 1) -> 0..BLOCK_SIZE],
              payload   : Seq((Codepoints \X Nat) \cup {Zero})]

\* A block with no file, and one that cannot be mapped, reads as no entries.
NoFile == [entries |-> <<>>, hashTable |-> [h \in 0..(BLOCK_SIZE - 1) |-> 0], payload |-> <<>>]

\* What GenerateMSDF draws for a codepoint.
Pixels(cp) == [i \in 1..DataSize[cp] |-> <<cp, i>>]

-------------------------------------------------------------------------------
(* Reading: MSDFManager::LoadGlyph.                                        *)

\* The entry of a codepoint, 0 when the block has none.
Lookup(file, cp) ==
    LET i == file.hashTable[cp % BLOCK_SIZE]
    IN  IF i # 0 /\ i <= Len(file.entries) /\ file.entries[i].codepoint = cp THEN i ELSE 0

\* size bytes of the payload, which is padded with zeros.
Slice(file, offset, size) ==
    [i \in 1..size |-> IF offset + i <= Len(file.payload) THEN file.payload[offset + i] ELSE Zero]

\* TryLoadGlyph finds the glyph in the manifest and in the block.
Readable(cp) == base /\ cp \in manifest /\ Lookup(files[GetBlockId(cp)], cp) # 0

PixelData(cp) ==
    LET file == files[GetBlockId(cp)]
        entry == file.entries[Lookup(file, cp)]
    IN  Slice(file, entry.dataOffset, entry.dataSize)

-------------------------------------------------------------------------------
(* Writing: MSDFCache::WriteBlockFile.                                     *)

Entry(cp) == [codepoint |-> cp, dataOffset |-> 0, dataSize |-> DataSize[cp]]

\* The merging loop's indices of the next old entry and the next pending glyph,
\* and mergedEntries.
LoopStart == [i |-> 1, j |-> 1, merged |-> <<>>]

RoundTiesTwice(old, new, s) ==   \* mutant: a tie does not step over the old entry
    LET oldLeft == s.i <= Len(old)
        newLeft == s.j <= Len(new)
    IN  IF oldLeft /\ (~newLeft \/ old[s.i].codepoint < new[s.j])
          THEN [i |-> s.i + 1, j |-> s.j, merged |-> Append(s.merged, old[s.i])]
        ELSE IF newLeft
          THEN [i |-> s.i, j |-> s.j + 1, merged |-> Append(s.merged, Entry(new[s.j]))]
          ELSE s

\* A round of the loop: the smaller codepoint goes first, and a pending glyph
\* replaces the entry it ties with.
Round(old, new, s) ==
    LET oldLeft == s.i <= Len(old)
        newLeft == s.j <= Len(new)
    IN  IF oldLeft /\ (~newLeft \/ old[s.i].codepoint < new[s.j])
          THEN [i |-> s.i + 1, j |-> s.j, merged |-> Append(s.merged, old[s.i])]
        ELSE IF newLeft
          THEN [i      |-> IF oldLeft /\ new[s.j] = old[s.i].codepoint THEN s.i + 1 ELSE s.i,
                j      |-> s.j + 1,
                merged |-> Append(s.merged, Entry(new[s.j]))]
          ELSE s

MergeStopsEarly(old, new) ==     \* mutant: && for || in the loop condition
    LET loop[k \in 0..(Len(old) + Len(new))] ==
          IF k = 0 THEN LoopStart
          ELSE IF old # <<>> /\ (loop[k - 1].i > Len(old) \/ loop[k - 1].j > Len(new))
            THEN loop[k - 1]
            ELSE Round(old, new, loop[k - 1])
    IN  loop[Len(old) + Len(new)].merged

\* The entries of the file and the pending codepoints, both sorted, merged: as
\* many rounds as could be needed, those after the loop's end changing nothing.
Merge(old, new) ==
    LET loop[k \in 0..(Len(old) + Len(new))] ==
          IF k = 0 THEN LoopStart ELSE Round(old, new, loop[k - 1])
    IN  loop[Len(old) + Len(new)].merged

\* totalPayloadSize after each entry.
Ends(entries) ==
    LET end[i \in 0..Len(entries)] == IF i = 0 THEN 0 ELSE end[i - 1] + entries[i].dataSize
    IN  end

\* Each entry's data follows that of the entries before it.
Laid(entries) ==
    [i \in DOMAIN entries |-> [entries[i] EXCEPT !.dataOffset = Ends(entries)[i - 1]]]

HashTableOffByOne(entries) ==    \* mutant: the last entry is not entered
    [h \in 0..(BLOCK_SIZE - 1) |->
        Max({0} \cup {i \in 1..(Len(entries) - 1) : entries[i].codepoint % BLOCK_SIZE = h})]

HashTable(entries) ==
    [h \in 0..(BLOCK_SIZE - 1) |->
        Max({0} \cup {i \in DOMAIN entries : entries[i].codepoint % BLOCK_SIZE = h})]

SourceAtNewOffset(file, new, e) ==   \* mutant: the old payload read at the new offset
    IF Contains(new, e.codepoint) THEN Pixels(e.codepoint)
    ELSE Slice(file, e.dataOffset, e.dataSize)

\* The pixel data of a merged entry: from the pending glyph, else from the file.
Source(file, new, e) ==
    LET i == Lookup(file, e.codepoint)
    IN  IF Contains(new, e.codepoint) THEN Pixels(e.codepoint)
        ELSE IF i = 0 THEN [n \in 1..e.dataSize |-> Zero]
        ELSE Slice(file, file.entries[i].dataOffset, e.dataSize)

\* The payload after each entry's data has been copied.
Copied(file, new, entries) ==
    LET copied[i \in 0..Len(entries)] ==
          IF i = 0 THEN <<>> ELSE copied[i - 1] \o Source(file, new, entries[i])
    IN  copied

Written(file, new) ==
    LET entries == Laid(Merge(file.entries, new))
    IN  [entries   |-> entries,
         hashTable |-> HashTable(entries),
         payload   |-> Copied(file, new, entries)[Len(entries)]]

\* The pending glyphs of a block, sorted: the k-th is the one with k - 1 before it.
PendingOf(queue, b) ==
    LET mine == {n \in DOMAIN queue : GetBlockId(queue[n]) = b}
        Rank(n) == Cardinality({m \in mine : \/ queue[m] < queue[n]
                                             \/ queue[m] = queue[n] /\ m <= n})
    IN  [k \in 1..Cardinality(mine) |-> queue[CHOOSE n \in mine : Rank(n) = k]]

\* The block as WriteBlockFile sees it.
Old(b) == IF base THEN files[b] ELSE NoFile

Overflows(queue, b) == Len(Merge(Old(b).entries, PendingOf(queue, b))) > BLOCK_SIZE

-------------------------------------------------------------------------------
Init ==
    /\ base \in BOOLEAN
    /\ files = [b \in BlockIds |-> NoFile]
    /\ manifest = {}
    /\ pending = <<>>

\* FlushPendingWrites.  A block is skipped when its lock times out, when it
\* overflows or when the write fails; nothing is recorded when the manifest's
\* lock or journal fails.  What was pending is dropped in any case.
FlushPendingWrites(queue) ==
    \E locked \in SUBSET {GetBlockId(cp) : cp \in ToSet(queue)}, recorded \in BOOLEAN :
        LET written == {b \in locked : ~Overflows(queue, b)}
        IN  /\ files' = [b \in BlockIds |->
                            IF b \in written THEN Written(Old(b), PendingOf(queue, b)) ELSE files[b]]
            /\ manifest' = IF recorded
                             THEN manifest \cup {cp \in ToSet(queue) : GetBlockId(cp) \in written}
                             ELSE manifest
            /\ pending' = <<>>

StoreGlyphLate(cp) ==            \* mutant: > for >= in the test of the batch size
    /\ ~Readable(cp)
    /\ UNCHANGED base
    /\ IF Len(pending) + 1 > WRITE_BATCH_SIZE
         THEN FlushPendingWrites(Append(pending, cp))
         ELSE pending' = Append(pending, cp) /\ UNCHANGED <<files, manifest>>

\* MSDFFont::GetGlyph of a glyph that is not in its pool: it is loaded from its
\* block, or drawn and handed to StoreGlyph.
TryLoadGlyph(cp) == Readable(cp) /\ UNCHANGED vars

StoreGlyph(cp) ==
    /\ ~Readable(cp)
    /\ UNCHANGED base
    /\ IF Len(pending) + 1 >= WRITE_BATCH_SIZE
         THEN FlushPendingWrites(Append(pending, cp))
         ELSE pending' = Append(pending, cp) /\ UNCHANGED <<files, manifest>>

\* The cache is destroyed, and made again for the same font.
Reopen ==
    /\ pending # <<>>
    /\ UNCHANGED base
    /\ FlushPendingWrites(pending)

Next ==
    \/ \E cp \in Codepoints : TryLoadGlyph(cp) \/ StoreGlyph(cp)
    \/ Reopen

Spec == Init /\ [][Next]_vars

-------------------------------------------------------------------------------
TypeOK ==
    /\ base \in BOOLEAN
    /\ files \in [BlockIds -> BlockFile]
    /\ manifest \subseteq Codepoints
    /\ pending \in Seq(Codepoints) /\ Len(pending) < WRITE_BATCH_SIZE

Glyphs(b) == {e.codepoint : e \in ToSet(files[b].entries)}

(***************************************************************************)
(* LoadGlyph gives every glyph the manifest names the pixels it was drawn  *)
(* with, however many merges have moved its entry and its payload since.   *)
(* It takes mapped blocks: without the arena a rewrite forgets the file.   *)
(***************************************************************************)
ManifestReadable ==
    base => \A cp \in manifest : Readable(cp) /\ PixelData(cp) = Pixels(cp)

(***************************************************************************)
(* Entries stay sorted, which the next merge relies on, in the block that  *)
(* GetBlockId gives them, no more than a hash table can index, and each is *)
(* found through the hash table although later entries overwrite its cells.*)
(***************************************************************************)
SortedAndIndexed ==
    \A b \in BlockIds :
        /\ Len(files[b].entries) <= BLOCK_SIZE
        /\ IsSorted(files[b].entries, LAMBDA d, e : d.codepoint <= e.codepoint)
        /\ \A cp \in Glyphs(b) : GetBlockId(cp) = b /\ Lookup(files[b], cp) # 0

(***************************************************************************)
(* The merge against its definition: a rewritten block holds the glyphs of *)
(* its file and the pending ones, and nothing else.                        *)
(***************************************************************************)
MergeIsUnion ==
    [][base => \A b \in BlockIds : files'[b] # files[b] =>
         \E new \in SUBSET Codepoints :
            /\ \A cp \in new : GetBlockId(cp) = b
            /\ ToSet(pending) \cap {cp \in Codepoints : GetBlockId(cp) = b} \subseteq new
            /\ Cardinality(new \ ToSet(pending)) <= 1
            /\ Glyphs(b)' = Glyphs(b) \cup new]_vars

(***************************************************************************)
(* Two entries for one glyph, which fill a block for good, come only from  *)
(* a glyph drawn twice before a flush: merging never doubles a glyph the   *)
(* file already holds.                                                     *)
(***************************************************************************)
DuplicatesOnlyFromPending ==
    [][\A b \in BlockIds : \A cp \in Glyphs(b) :
         LET Count(es) == Cardinality({i \in DOMAIN es : es[i].codepoint = cp})
             queued == Cardinality({i \in DOMAIN pending : pending[i] = cp})
         IN  queued = 0 => Count(files[b].entries)' <= Count(files[b].entries)]_vars
===============================================================================
