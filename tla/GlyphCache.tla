------------------------------ MODULE GlyphCache ------------------------------
(***************************************************************************)
(* The on-disk glyph cache of one font, MSDFCache, and the game clients    *)
(* that share its directory: block files replaced under a lock per block,  *)
(* a manifest with a journal under a lock of its own, temporary files, the *)
(* .old file a block is diverted to while its file cannot be replaced, and *)
(* a clean-up that takes no lock.  Clients interleave at every file        *)
(* operation and can die at each of them.                                  *)
(*                                                                         *)
(* The content of a file is the set of codepoints it holds (BlockMerge has *)
(* its layout), a client is a game process with one MSDFCache for the font *)
(* (BlockArena has the sharing of the arena inside a process).  Any lock,  *)
(* read, write, move or removal of a file may fail, but the directory is   *)
(* there: without it StoreGlyph has no manifest's lock and queues nothing. *)
(***************************************************************************)
EXTENDS Naturals, FiniteSets

CONSTANTS Clients, NoClient,
          Codepoints,
          BLOCK_SIZE,        \* 512 in the code
          WRITE_BATCH_SIZE,  \* 64 in the code
          MaxLives           \* bound on the times a client opens the cache

ASSUME CacheAssumption ==
    /\ NoClient \notin Clients
    /\ Codepoints \subseteq Nat /\ Codepoints # {}
    /\ BLOCK_SIZE \in Nat \ {0}
    /\ WRITE_BATCH_SIZE \in Nat \ {0}
    /\ MaxLives \in Nat

VARIABLES dat, old, tmp,          \* block_N.dat, .old and .tmp of each block
          manifestDat, manifestTmp, journal,
          blockLock, manifestLock,  \* the holder of each lock file
          pc,         \* where a client is in its flush
          loaded,     \* m_manifestLoaded
          manifest,   \* m_manifest
          pending,    \* m_pendingWrites
          path,       \* m_blockWrap: the file a client reads a block from
          view,       \* what a client has mapped of a block
          todo,       \* the blocks a flush has still to write
          cur, merged,  \* the block being written, and what with
          stored,     \* newEntries: written, not yet in the manifest
          closing,    \* the flush is the destructor's
          lives,      \* how often the cache has been opened
          basis,      \* history: what the merge of a client started from
          spoiled,    \* history: blocks replaced unread, or left for .old
          partial     \* history: a client could not read all of the manifest

files == <<dat, old, tmp, manifestDat, manifestTmp, journal>>
locks == <<blockLock, manifestLock>>
memory == <<loaded, manifest, pending, path, view>>
flush == <<todo, cur, merged, stored, closing>>
history == <<basis, spoiled, partial>>
vars == <<files, locks, pc, memory, flush, lives, history>>

GetBlockId(cp) == cp \div BLOCK_SIZE
BlockIds == {GetBlockId(cp) : cp \in Codepoints}
InBlock(S, b) == {cp \in S : GetBlockId(cp) = b}

SomeBlock == CHOOSE b \in BlockIds : TRUE   \* cur between two blocks

\* A file is missing, cut short while it was written, or whole.
Contents == SUBSET Codepoints
NoFile == [state |-> "none", content |-> {}]
Torn == [state |-> "torn", content |-> {}]
Whole(S) == [state |-> "whole", content |-> S]
File == {NoFile, Torn} \cup {Whole(S) : S \in Contents}

View == [file : {"dat", "old"}, content : Contents]
NoView == [file |-> "none", content |-> {}]

PCs == {"down", "idle", "flush", "merge", "write", "rename", "record", "append",
        "save", "publish", "clear", "cleanup"}

\* A merge starts from the .dat file as it is under the lock, from a block mapped
\* before or a file it was diverted to, or from nothing although there is a file.
Bases == {"none", "file", "other", "nothing"}

-------------------------------------------------------------------------------
Init ==
    /\ dat = [b \in BlockIds |-> NoFile]
    /\ old = [b \in BlockIds |-> NoFile]
    /\ tmp = [b \in BlockIds |-> NoFile]
    /\ manifestDat = NoFile /\ manifestTmp = NoFile /\ journal = NoFile
    /\ blockLock = [b \in BlockIds |-> NoClient]
    /\ manifestLock = NoClient
    /\ pc = [c \in Clients |-> "down"]
    /\ loaded = [c \in Clients |-> FALSE]
    /\ manifest = [c \in Clients |-> {}]
    /\ pending = [c \in Clients |-> {}]
    /\ path = [c \in Clients |-> [b \in BlockIds |-> "dat"]]
    /\ view = [c \in Clients |-> [b \in BlockIds |-> NoView]]
    /\ todo = [c \in Clients |-> {}]
    /\ cur = [c \in Clients |-> SomeBlock]
    /\ merged = [c \in Clients |-> {}]
    /\ stored = [c \in Clients |-> {}]
    /\ closing = [c \in Clients |-> FALSE]
    /\ lives = 0
    /\ basis = [c \in Clients |-> "none"]
    /\ spoiled = {}
    /\ partial = [c \in Clients |-> FALSE]

Goto(c, label) == pc' = [pc EXCEPT ![c] = label]

\* The cache object of c is gone, and what it had in memory with it.
Forget(c) ==
    /\ Goto(c, "down")
    /\ loaded' = [loaded EXCEPT ![c] = FALSE]
    /\ manifest' = [manifest EXCEPT ![c] = {}]
    /\ pending' = [pending EXCEPT ![c] = {}]
    /\ path' = [path EXCEPT ![c] = [b \in BlockIds |-> "dat"]]
    /\ view' = [view EXCEPT ![c] = [b \in BlockIds |-> NoView]]
    /\ todo' = [todo EXCEPT ![c] = {}]
    /\ merged' = [merged EXCEPT ![c] = {}]
    /\ stored' = [stored EXCEPT ![c] = {}]
    /\ closing' = [closing EXCEPT ![c] = FALSE]
    /\ cur' = [cur EXCEPT ![c] = SomeBlock]
    /\ basis' = [basis EXCEPT ![c] = "none"]
    /\ partial' = [partial EXCEPT ![c] = FALSE]
    /\ UNCHANGED spoiled

Open(c) ==
    /\ pc[c] = "down" /\ lives < MaxLives
    /\ lives' = lives + 1
    /\ Goto(c, "idle")
    /\ UNCHANGED <<files, locks, memory, flush, history>>

-------------------------------------------------------------------------------
(* Reading.                                                                *)

PathFile(c, b) == IF path[c][b] = "dat" THEN dat[b] ELSE old[b]

\* GetOrLoadMappedBlock: the view c has of b, or one of the file as it is now.
\* There is none of a whole file either without an arena (before Windows 10),
\* or when the file cannot be opened or mapped.
Loads(c, b) ==
    IF view[c][b] # NoView THEN {view[c][b]}
    ELSE {NoView} \cup
         {[file |-> path[c][b], content |-> f.content] :
             f \in {g \in {PathFile(c, b)} : g.state = "whole"}}

\* MSDFFont::GetGlyph of a glyph the font has not in its pool.  TryLoadGlyph
\* goes to the block only for a glyph in the manifest.
Consulted(c, cp) ==
    IF cp \in manifest[c] THEN Loads(c, GetBlockId(cp)) ELSE {view[c][GetBlockId(cp)]}

Consult(c, cp, hit) ==
    \E v \in Consulted(c, cp) :
        /\ hit = (cp \in manifest[c] /\ cp \in v.content)
        /\ view' = [view EXCEPT ![c][GetBlockId(cp)] = v]

TryLoadGlyph(c, cp) ==
    /\ pc[c] = "idle"
    /\ Consult(c, cp, TRUE)
    /\ UNCHANGED <<files, locks, pc, loaded, manifest, pending, path, flush, history>>

\* What LoadManifest puts together; a journal cut short is passed over.
DiskManifest == manifestDat.content \cup journal.content

LoadManifestOnly(c) ==          \* mutant: the journal is not applied
    \/ loaded[c] /\ UNCHANGED <<loaded, manifest, partial>>
    \/ /\ ~loaded[c] /\ manifestLock = NoClient /\ manifestDat # Torn
       /\ loaded' = [loaded EXCEPT ![c] = TRUE]
       /\ manifest' = [manifest EXCEPT ![c] = manifestDat.content]
       /\ UNCHANGED partial

\* LoadManifest waits 10 s for a shared lock; StoreGlyph gives up without it.
\* A manifest whose existence cannot be told and a journal that cannot be opened
\* are passed over, and what is left counts as loaded.
LoadManifest(c) ==
    \/ loaded[c] /\ UNCHANGED <<loaded, manifest, partial>>
    \/ /\ ~loaded[c] /\ manifestLock = NoClient /\ manifestDat # Torn
       /\ loaded' = [loaded EXCEPT ![c] = TRUE]
       /\ \E m \in {manifestDat.content, {}}, j \in {journal.content, {}} :
             /\ manifest' = [manifest EXCEPT ![c] = m \cup j]
             /\ partial' = [partial EXCEPT ![c] = m \cup j # DiskManifest]

StoreGlyph(c, cp) ==
    LET queue == pending[c] \cup {cp}
    IN  /\ pc[c] = "idle"
        /\ cp \notin pending[c]
        /\ Consult(c, cp, FALSE)
        /\ LoadManifest(c)
        /\ pending' = [pending EXCEPT ![c] = queue]
        /\ IF Cardinality(queue) >= WRITE_BATCH_SIZE
             THEN /\ Goto(c, "flush")
                  /\ todo' = [todo EXCEPT ![c] = {GetBlockId(q) : q \in queue}]
             ELSE UNCHANGED <<pc, todo>>
        /\ UNCHANGED <<files, locks, path, cur, merged, stored, closing, basis, spoiled>>

\* A load finds the arena full and unmaps every block of the process: another
\* font's load, or the one a merge is about to make.
FlushArena(c) ==
    /\ pc[c] = "idle" \/ (pc[c] = "merge" /\ view[c][cur[c]] = NoView)
    /\ view' = [view EXCEPT ![c] = [b \in BlockIds |-> NoView]]
    /\ UNCHANGED <<files, locks, pc, loaded, manifest, pending, path, flush, history>>

-------------------------------------------------------------------------------
(* FlushPendingWrites: the blocks.                                         *)

LockBlockUnchecked(c, b) ==     \* mutant: the lock is not waited for
    /\ pc[c] = "flush" /\ b \in todo[c]
    /\ blockLock' = [blockLock EXCEPT ![b] = c]
    /\ cur' = [cur EXCEPT ![c] = b]
    /\ Goto(c, "merge")
    /\ UNCHANGED <<files, manifestLock, memory, todo, merged, stored, closing, history>>

LockBlock(c, b) ==
    /\ pc[c] = "flush" /\ b \in todo[c]
    /\ blockLock[b] = NoClient
    /\ blockLock' = [blockLock EXCEPT ![b] = c]
    /\ cur' = [cur EXCEPT ![c] = b]
    /\ Goto(c, "merge")
    /\ UNCHANGED <<files, manifestLock, memory, todo, merged, stored, closing, history>>

\* The block is skipped when another client holds its lock for a second, or the
\* lock file cannot be opened.
BlockLockTimeout(c, b) ==
    /\ pc[c] = "flush" /\ b \in todo[c]
    /\ todo' = [todo EXCEPT ![c] = @ \ {b}]
    /\ UNCHANGED <<files, locks, pc, memory, cur, merged, stored, closing, history>>

Basis(c, b, v) ==
    IF v = NoView /\ dat[b] # NoFile THEN "nothing"
    ELSE IF view[c][b] = NoView /\ path[c][b] = "dat" THEN "file" ELSE "other"

MergeKeepsView(c) ==            \* mutant: the block stays mapped over the rename
    LET b == cur[c]
    IN  /\ pc[c] = "merge"
        /\ \E v \in Loads(c, b) :
              /\ merged' = [merged EXCEPT ![c] = v.content \cup InBlock(pending[c], b)]
              /\ basis' = [basis EXCEPT ![c] = Basis(c, b, v)]
              /\ view' = [view EXCEPT ![c][b] = v]
        /\ Goto(c, "write")
        /\ UNCHANGED <<files, locks, loaded, manifest, pending, path, todo, cur, stored, closing>>
        /\ UNCHANGED <<spoiled, partial>>

\* WriteBlockFile up to FreeBlockByKey.
MergeBlock(c) ==
    LET b == cur[c]
    IN  /\ pc[c] = "merge"
        /\ \E v \in Loads(c, b) :
              /\ merged' = [merged EXCEPT ![c] = v.content \cup InBlock(pending[c], b)]
              /\ basis' = [basis EXCEPT ![c] = Basis(c, b, v)]
        /\ view' = [view EXCEPT ![c][b] = NoView]
        /\ Goto(c, "write")
        /\ UNCHANGED <<files, locks, loaded, manifest, pending, path, todo, cur, stored, closing>>
        /\ UNCHANGED <<spoiled, partial>>

\* WriteBlockFile returns, and the lock on the block is released.
LeaveBlock(c) ==
    /\ blockLock' = [blockLock EXCEPT ![cur[c]] = NoClient]
    /\ todo' = [todo EXCEPT ![c] = @ \ {cur[c]}]
    /\ merged' = [merged EXCEPT ![c] = {}]
    /\ basis' = [basis EXCEPT ![c] = "none"]
    /\ cur' = [cur EXCEPT ![c] = SomeBlock]
    /\ Goto(c, "flush")
    /\ UNCHANGED <<manifestLock, loaded, manifest, pending, view, closing, partial>>

WriteTmp(c) ==
    /\ pc[c] = "write"
    /\ tmp' = [tmp EXCEPT ![cur[c]] = Whole(merged[c])]
    /\ Goto(c, "rename")
    /\ UNCHANGED <<dat, old, manifestDat, manifestTmp, journal, locks, memory, flush, history>>

\* The file cannot be created, or the disk is full.
WriteTmpFails(c) ==
    /\ pc[c] = "write"
    /\ \/ tmp' = [tmp EXCEPT ![cur[c]] = Torn]
       \/ UNCHANGED tmp
    /\ LeaveBlock(c)
    /\ UNCHANGED <<dat, old, manifestDat, manifestTmp, journal, path, stored, spoiled>>

Report(c) == stored' = [stored EXCEPT ![c] = @ \cup InBlock(pending[c], cur[c])]

Spoil(b) == spoiled' = spoiled \cup {b}

RenameBlock(c) ==
    LET b == cur[c]
    IN  /\ pc[c] = "rename" /\ tmp[b] # NoFile
        /\ dat' = [dat EXCEPT ![b] = tmp[b]]
        /\ tmp' = [tmp EXCEPT ![b] = NoFile]
        /\ IF basis[c] = "nothing" THEN Spoil(b) ELSE UNCHANGED spoiled
        /\ Report(c)
        /\ LeaveBlock(c)
        /\ UNCHANGED <<old, manifestDat, manifestTmp, journal, path>>

\* The file cannot be replaced, as when a client has it mapped: it stays, and the
\* content goes to .old, which c reads from then on.
DivertBlock(c) ==
    LET b == cur[c]
    IN  /\ pc[c] = "rename" /\ tmp[b] # NoFile
        /\ old' = [old EXCEPT ![b] = tmp[b]]
        /\ tmp' = [tmp EXCEPT ![b] = NoFile]
        /\ path' = [path EXCEPT ![c][b] = "old"]
        /\ Spoil(b)
        /\ Report(c)
        /\ LeaveBlock(c)
        /\ UNCHANGED <<dat, manifestDat, manifestTmp, journal>>

\* Neither move succeeds: an .old file of before is taken for the new one.
MovesFail(c) ==
    LET b == cur[c]
    IN  /\ pc[c] = "rename"
        /\ IF old[b] # NoFile
             THEN path' = [path EXCEPT ![c][b] = "old"] /\ Spoil(b) /\ Report(c)
             ELSE UNCHANGED <<path, spoiled, stored>>
        /\ LeaveBlock(c)
        /\ UNCHANGED files

FinishKeepsPending(c) ==        \* mutant: m_pendingWrites is not cleared
    /\ pc[c] = "flush" /\ todo[c] = {}
    /\ Goto(c, "record")
    /\ UNCHANGED <<files, locks, memory, flush, history>>

\* Every pending glyph is dropped, written or not.
FinishBlocks(c) ==
    /\ pc[c] = "flush" /\ todo[c] = {}
    /\ pending' = [pending EXCEPT ![c] = {}]
    /\ Goto(c, "record")
    /\ UNCHANGED <<files, locks, loaded, manifest, path, view, flush, history>>

-------------------------------------------------------------------------------
(* FlushPendingWrites: the manifest.                                       *)

\* The flush returns, to StoreGlyph or to the destructor.
EndFlush(c) ==
    /\ stored' = [stored EXCEPT ![c] = {}]
    /\ closing' = [closing EXCEPT ![c] = FALSE]
    /\ Goto(c, IF closing[c] THEN "cleanup" ELSE "idle")
    /\ UNCHANGED <<loaded, pending, path, view, todo, cur, merged, history>>

\* There is nothing to record, another client holds the lock for a second, or the
\* lock file cannot be opened.
SkipManifest(c) ==
    /\ pc[c] = "record"
    /\ EndFlush(c)
    /\ UNCHANGED <<files, locks, manifest>>

LockManifest(c) ==
    /\ pc[c] = "record" /\ stored[c] # {} /\ manifestLock = NoClient
    /\ manifestLock' = c
    /\ Goto(c, "append")
    /\ UNCHANGED <<files, blockLock, memory, flush, history>>

ReleaseManifest(c) == manifestLock' = NoClient /\ UNCHANGED blockLock

AppendManifestJournal(c) ==
    /\ pc[c] = "append"
    /\ journal' = IF journal = Torn THEN Torn ELSE Whole(journal.content \cup stored[c])
    /\ manifest' = [manifest EXCEPT ![c] = @ \cup stored[c]]
    /\ Goto(c, "save")
    /\ UNCHANGED <<dat, old, tmp, manifestDat, manifestTmp, locks, loaded, pending, path, view>>
    /\ UNCHANGED <<flush, history>>

AppendFails(c) ==
    /\ pc[c] = "append"
    /\ journal' \in {journal, Torn}
    /\ ReleaseManifest(c)
    /\ EndFlush(c)
    /\ UNCHANGED <<dat, old, tmp, manifestDat, manifestTmp, manifest>>

\* SaveManifest writes what this client knows, beside the manifest.
SaveManifest(c) ==
    /\ pc[c] = "save"
    /\ manifestTmp' = Whole(manifest[c])
    /\ Goto(c, "publish")
    /\ UNCHANGED <<dat, old, tmp, manifestDat, journal, locks, memory, flush, history>>

SaveFails(c) ==
    /\ pc[c] = "save"
    /\ manifestTmp' \in {manifestTmp, Torn}
    /\ ReleaseManifest(c)
    /\ EndFlush(c)
    /\ UNCHANGED <<dat, old, tmp, manifestDat, journal, manifest>>

PublishManifest(c) ==
    /\ pc[c] = "publish" /\ manifestTmp # NoFile
    /\ manifestDat' = manifestTmp
    /\ manifestTmp' = NoFile
    /\ Goto(c, "clear")
    /\ UNCHANGED <<dat, old, tmp, journal, locks, memory, flush, history>>

PublishFails(c) ==
    /\ pc[c] = "publish"
    /\ ReleaseManifest(c)
    /\ EndFlush(c)
    /\ UNCHANGED <<files, manifest>>

ClearJournal(c) ==
    /\ pc[c] = "clear"
    /\ journal' \in {NoFile, journal}
    /\ ReleaseManifest(c)
    /\ EndFlush(c)
    /\ UNCHANGED <<dat, old, tmp, manifestDat, manifestTmp, manifest>>

-------------------------------------------------------------------------------
(* Destruction and death.                                                  *)

Close(c) ==
    /\ pc[c] = "idle"
    /\ IF pending[c] = {}
         THEN Goto(c, "cleanup") /\ UNCHANGED <<todo, closing>>
         ELSE /\ Goto(c, "flush")
              /\ todo' = [todo EXCEPT ![c] = {GetBlockId(q) : q \in pending[c]}]
              /\ closing' = [closing EXCEPT ![c] = TRUE]
    /\ UNCHANGED <<files, locks, memory, cur, merged, stored, history>>

\* Every .old and .tmp file goes, whoever wrote it, but those that are mapped,
\* open or cannot be deleted.
Deleted(f, S) == [b \in BlockIds |-> IF b \in S THEN NoFile ELSE f[b]]

CleanupOrphans(c) ==
    /\ pc[c] = "cleanup"
    /\ \E S \in SUBSET BlockIds : tmp' = Deleted(tmp, S)
    /\ \E S \in SUBSET BlockIds : old' = Deleted(old, S)
    /\ manifestTmp' \in {manifestTmp, NoFile}
    /\ Forget(c)
    /\ UNCHANGED <<dat, manifestDat, journal, locks>>

\* The process dies: what it was writing is cut short, its locks are released.
Crash(c) ==
    /\ pc[c] # "down"
    /\ \/ pc[c] = "write" /\ tmp' = [tmp EXCEPT ![cur[c]] = Torn] /\ UNCHANGED <<journal, manifestTmp>>
       \/ pc[c] = "append" /\ journal' = Torn /\ UNCHANGED <<tmp, manifestTmp>>
       \/ pc[c] = "save" /\ manifestTmp' = Torn /\ UNCHANGED <<tmp, journal>>
       \/ UNCHANGED <<tmp, journal, manifestTmp>>
    /\ blockLock' = [b \in BlockIds |-> IF blockLock[b] = c THEN NoClient ELSE blockLock[b]]
    /\ manifestLock' = IF manifestLock = c THEN NoClient ELSE manifestLock
    /\ Forget(c)
    /\ UNCHANGED <<dat, old, manifestDat>>

-------------------------------------------------------------------------------
\* The steps of a flush or a destructor that has begun.
Continue(c) ==
    \/ \E b \in BlockIds : LockBlock(c, b) \/ BlockLockTimeout(c, b)
    \/ MergeBlock(c)
    \/ WriteTmp(c) \/ WriteTmpFails(c)
    \/ RenameBlock(c) \/ DivertBlock(c) \/ MovesFail(c)
    \/ FinishBlocks(c)
    \/ SkipManifest(c) \/ LockManifest(c)
    \/ AppendManifestJournal(c) \/ AppendFails(c)
    \/ SaveManifest(c) \/ SaveFails(c)
    \/ PublishManifest(c) \/ PublishFails(c)
    \/ ClearJournal(c)
    \/ CleanupOrphans(c)

Live(c) ==
    \/ Close(c) \/ Crash(c) \/ FlushArena(c)
    \/ \E cp \in Codepoints : TryLoadGlyph(c, cp) \/ StoreGlyph(c, cp)
    \/ Continue(c)

Next == \E c \in Clients : Open(c) \/ (Live(c) /\ UNCHANGED lives)

Spec == Init /\ [][Next]_vars
-------------------------------------------------------------------------------
TypeOK ==
    /\ dat \in [BlockIds -> File] /\ old \in [BlockIds -> File] /\ tmp \in [BlockIds -> File]
    /\ manifestDat \in File /\ manifestTmp \in File /\ journal \in File
    /\ blockLock \in [BlockIds -> Clients \cup {NoClient}]
    /\ manifestLock \in Clients \cup {NoClient}
    /\ pc \in [Clients -> PCs]
    /\ loaded \in [Clients -> BOOLEAN]
    /\ manifest \in [Clients -> Contents]
    /\ pending \in [Clients -> Contents]
    /\ \A c \in Clients : pc[c] = "idle" => Cardinality(pending[c]) < WRITE_BATCH_SIZE
    /\ path \in [Clients -> [BlockIds -> {"dat", "old"}]]
    /\ view \in [Clients -> [BlockIds -> View \cup {NoView}]]
    /\ todo \in [Clients -> SUBSET BlockIds]
    /\ cur \in [Clients -> BlockIds]
    /\ merged \in [Clients -> Contents]
    /\ stored \in [Clients -> Contents]
    /\ closing \in [Clients -> BOOLEAN]
    /\ lives \in 0..MaxLives
    /\ basis \in [Clients -> Bases]
    /\ spoiled \subseteq BlockIds
    /\ partial \in [Clients -> BOOLEAN]

(***************************************************************************)
(* A file that is read is never one whose writing was cut short, though    *)
(* all clients write a block through one .tmp name, which a client that    *)
(* dies or runs out of disk leaves behind, and .tmp files are deleted by   *)
(* whoever closes.                                                         *)
(***************************************************************************)
FilesComplete ==
    /\ \A b \in BlockIds : dat[b] # Torn /\ old[b] # Torn
    /\ manifestDat # Torn

(***************************************************************************)
(* WriteBlockFile reads the block, merges and replaces the file in steps:  *)
(* when it has read the file as it was under the lock, nobody has replaced *)
(* the file by the time it does, so the rename drops no glyph.  Glyphs are *)
(* lost when it starts from a block mapped before or from an .old file, or *)
(* from nothing because the file that is there could not be mapped.        *)
(***************************************************************************)
LockedMergeIsCurrent ==
    \A c \in Clients : pc[c] \in {"write", "rename"} /\ basis[c] = "file" =>
        dat[cur[c]].content \subseteq merged[c]

(***************************************************************************)
(* The manifest a client finds when it starts names no glyph that is not   *)
(* in its block, at whatever file operation the client before it died and  *)
(* whichever lock or write failed, in the manifest and journal too.  Two   *)
(* failures break it and are excepted with the blocks they struck: a move  *)
(* that left the glyphs in an .old file, which the clean-up deletes, and a *)
(* read that found no view of a file, which the merge then replaced.  One  *)
(* client at a time.                                                       *)
(***************************************************************************)
ManifestBacked ==
    \A cp \in DiskManifest :
        GetBlockId(cp) \notin spoiled => cp \in dat[GetBlockId(cp)].content

(***************************************************************************)
(* What is recorded stays recorded: neither replacing the manifest nor     *)
(* deleting the journal after it forgets a glyph.  Only a journal cut      *)
(* short does, because LoadManifest passes over all of it, and a client    *)
(* that could not read the manifest or the journal when it loaded them and *)
(* replaces both by what it knows.  One client at a time.                  *)
(***************************************************************************)
RecordsKept ==
    [][journal' # Torn /\ (\A c \in Clients : ~partial[c])
         => DiskManifest \subseteq DiskManifest']_vars
===============================================================================
