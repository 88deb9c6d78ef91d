---------------------------- MODULE GlyphCacheProofs ---------------------------
(***************************************************************************)
(* For any number of clients, blocks and glyphs: the shared cache is well  *)
(* typed, no file that is read was cut short, and no rename drops a glyph  *)
(* of a file that was read under the lock.  For one client at a time: the  *)
(* manifest names only glyphs that are in their blocks, unless a move or a *)
(* read of the block has failed, and what is recorded stays recorded by a  *)
(* client that could read the manifest.                                    *)
(*                                                                         *)
(* None of these is inductive.  IInv adds who holds the locks at which     *)
(* point of a flush and what the .tmp files written under them can be, and *)
(* SoloInv what one client, by itself, knows of the files.  There is one   *)
(* lemma per conjunct, with one step per action.                           *)
(***************************************************************************)
EXTENDS GlyphCache, FiniteSetTheorems, TLAPS

Committing == {"append", "save", "publish", "clear"}   \* with the manifest's lock
Emptied == {"down", "record", "cleanup"} \cup Committing

\* A queue is finite, and empty once its glyphs are dropped.
Queues ==
    \A c \in Clients : IsFiniteSet(pending[c]) /\ (pc[c] \in Emptied => pending[c] = {})

\* A client that replaces a file holds its lock.
Locking ==
    \A c \in Clients :
        /\ pc[c] \in {"merge", "write", "rename"} => blockLock[cur[c]] = c
        /\ pc[c] \in Committing => manifestLock = c

\* When it comes to the move, the .tmp file is the client's own and whole, or
\* another client's clean-up has taken it.
Temporaries ==
    \A c \in Clients :
        /\ pc[c] = "rename" => tmp[cur[c]] \in {NoFile, Whole(merged[c])}
        /\ pc[c] = "publish" => manifestTmp \in {NoFile, Whole(manifest[c])}

\* The inductive invariant, for any clients.
IInv == TypeOK /\ Queues /\ Locking /\ Temporaries /\ FilesComplete /\ LockedMergeIsCurrent

-------------------------------------------------------------------------------
\* An empty directory and no client.
LEMMA InitHolds == Init => IInv
  <1> SUFFICES ASSUME Init PROVE IInv
    OBVIOUS
  <1>1. TypeOK
    <2>1. SomeBlock \in BlockIds
      BY CacheAssumption DEF SomeBlock, BlockIds
    <2>2. Cardinality({}) = 0
      BY FS_EmptySet
    <2> QED
      BY <2>1, <2>2, CacheAssumption DEF Init, TypeOK, File, Contents, NoFile, PCs, NoView, Bases
  <1>2. Queues
    BY FS_EmptySet DEF Init, Queues
  <1> QED
    BY <1>1, <1>2 DEF Init, IInv, Locking, Committing, Temporaries, FilesComplete,
                      LockedMergeIsCurrent, NoFile, Torn

\* A file is one of three kinds, and only a whole one has content.
LEMMA FileFacts ==
    /\ NoFile \in File /\ Torn \in File
    /\ \A S \in Contents : Whole(S) \in File
    /\ \A f \in File : /\ f.content \in Contents
                       /\ f.state = "whole" => f = Whole(f.content)
                       /\ f.state # "whole" => f.content = {}
  <1>1. /\ NoFile \in File /\ Torn \in File
        /\ \A S \in Contents : Whole(S) \in File
    BY DEF File
  <1>2. ASSUME NEW f \in File
        PROVE  /\ f.content \in Contents
               /\ f.state = "whole" => f = Whole(f.content)
               /\ f.state # "whole" => f.content = {}
    <2>1. CASE f \in {NoFile, Torn}
      BY <2>1 DEF NoFile, Torn, Contents
    <2>2. ASSUME NEW S \in Contents, f = Whole(S)
          PROVE  f.state = "whole" /\ f.content \in Contents /\ f = Whole(f.content)
      BY <2>2 DEF Whole
    <2> QED
      BY <2>1, <2>2 DEF File
  <1> QED
    BY <1>1, <1>2

\* The blocks of some glyphs are blocks.
LEMMA BlocksOf ==
    /\ \A cp \in Codepoints : GetBlockId(cp) \in BlockIds
    /\ \A S \in Contents : {GetBlockId(cp) : cp \in S} \in SUBSET BlockIds
  BY DEF BlockIds, Contents

\* There is a block.
LEMMA SomeBlockType == SomeBlock \in BlockIds
  BY CacheAssumption DEF SomeBlock, BlockIds

\* What a load gives is a view.
LEMMA LoadsType ==
    ASSUME TypeOK, NEW c \in Clients, NEW b \in BlockIds, NEW v \in Loads(c, b)
    PROVE  /\ v \in View \cup {NoView}
           /\ v.content \in Contents
  <1>1. view[c][b] \in View \cup {NoView} /\ path[c][b] \in {"dat", "old"}
    BY DEF TypeOK
  <1>2. PathFile(c, b) \in File
    BY <1>1 DEF TypeOK, PathFile
  <1>3. v \in View \cup {NoView}
    BY <1>1, <1>2, FileFacts DEF Loads, View
  <1> QED
    BY <1>3 DEF View, NoView, Contents

\* A lookup leaves the views well typed.
LEMMA ConsultType ==
    ASSUME TypeOK, NEW c \in Clients, NEW cp \in Codepoints, NEW hit, Consult(c, cp, hit)
    PROVE  view' \in [Clients -> [BlockIds -> View \cup {NoView}]]
  <1>1. GetBlockId(cp) \in BlockIds
    BY BlocksOf
  <1>2. PICK v \in Consulted(c, cp) : view' = [view EXCEPT ![c][GetBlockId(cp)] = v]
    BY DEF Consult
  <1>3. v \in View \cup {NoView}
    BY <1>1, LoadsType DEF TypeOK, Consulted
  <1> QED
    BY <1>1, <1>2, <1>3 DEF TypeOK

\* What a client forgets when it ends leaves its memory well typed.
LEMMA ForgetTypes ==
    ASSUME TypeOK, NEW c \in Clients, Forget(c)
    PROVE  /\ pc' \in [Clients -> PCs]
           /\ loaded' \in [Clients -> BOOLEAN]
           /\ manifest' \in [Clients -> Contents]
           /\ pending' \in [Clients -> Contents]
           /\ \A d \in Clients : pc'[d] = "idle" => Cardinality(pending'[d]) < WRITE_BATCH_SIZE
           /\ path' \in [Clients -> [BlockIds -> {"dat", "old"}]]
           /\ view' \in [Clients -> [BlockIds -> View \cup {NoView}]]
           /\ todo' \in [Clients -> SUBSET BlockIds]
           /\ cur' \in [Clients -> BlockIds]
           /\ merged' \in [Clients -> Contents]
           /\ stored' \in [Clients -> Contents]
           /\ closing' \in [Clients -> BOOLEAN]
           /\ basis' \in [Clients -> Bases]
           /\ spoiled' \subseteq BlockIds
           /\ partial' \in [Clients -> BOOLEAN]
  BY SomeBlockType DEF TypeOK, Forget, Goto, PCs, Contents, Bases

\* So does the end of a write.
LEMMA LeaveBlockTypes ==
    ASSUME TypeOK, NEW c \in Clients, LeaveBlock(c)
    PROVE  /\ blockLock' \in [BlockIds -> Clients \cup {NoClient}]
           /\ manifestLock' \in Clients \cup {NoClient}
           /\ pc' \in [Clients -> PCs]
           /\ loaded' \in [Clients -> BOOLEAN]
           /\ manifest' \in [Clients -> Contents]
           /\ pending' \in [Clients -> Contents]
           /\ \A d \in Clients : pc'[d] = "idle" => Cardinality(pending'[d]) < WRITE_BATCH_SIZE
           /\ view' \in [Clients -> [BlockIds -> View \cup {NoView}]]
           /\ todo' \in [Clients -> SUBSET BlockIds]
           /\ cur' \in [Clients -> BlockIds]
           /\ merged' \in [Clients -> Contents]
           /\ closing' \in [Clients -> BOOLEAN]
           /\ basis' \in [Clients -> Bases]
           /\ partial' \in [Clients -> BOOLEAN]
  BY SomeBlockType DEF TypeOK, LeaveBlock, Goto, PCs, Contents, Bases

\* The glyphs a write reports are glyphs.
LEMMA ReportType ==
    ASSUME TypeOK, NEW c \in Clients, Report(c)
    PROVE  stored' \in [Clients -> Contents]
  BY DEF TypeOK, Report, InBlock, Contents

\* When a flush returns, its queue is empty and the batch has room again.
LEMMA EndFlushTypes ==
    ASSUME TypeOK, Queues, NEW c \in Clients, pc[c] \in {"record"} \cup Committing,
    EndFlush(c)
    PROVE  /\ pc' \in [Clients -> PCs]
           /\ loaded' \in [Clients -> BOOLEAN]
           /\ pending' \in [Clients -> Contents]
           /\ \A d \in Clients : pc'[d] = "idle" => Cardinality(pending'[d]) < WRITE_BATCH_SIZE
           /\ path' \in [Clients -> [BlockIds -> {"dat", "old"}]]
           /\ view' \in [Clients -> [BlockIds -> View \cup {NoView}]]
           /\ todo' \in [Clients -> SUBSET BlockIds]
           /\ cur' \in [Clients -> BlockIds]
           /\ merged' \in [Clients -> Contents]
           /\ stored' \in [Clients -> Contents]
           /\ closing' \in [Clients -> BOOLEAN]
           /\ basis' \in [Clients -> Bases]
           /\ spoiled' \subseteq BlockIds
           /\ partial' \in [Clients -> BOOLEAN]
  <1>1. pending[c] = {} /\ Cardinality({}) < WRITE_BATCH_SIZE
    BY FS_EmptySet, CacheAssumption DEF Queues, Emptied
  <1> QED
    BY <1>1 DEF TypeOK, EndFlush, history, Goto, PCs, Contents

\* Every step of a client that has opened the cache keeps the types.
LEMMA TypesKept ==
    ASSUME IInv, NEW c \in Clients, Live(c), UNCHANGED lives
    PROVE  TypeOK'
  <1> USE DEF history, Goto
  <1>0. TypeOK /\ Queues
    BY DEF IInv
  <1>1. CASE Close(c)
    <2>1. pending[c] \in Contents
      BY <1>0 DEF TypeOK
    <2>2. todo' \in [Clients -> SUBSET BlockIds]
      <3>1. {GetBlockId(q) : q \in pending[c]} \in SUBSET BlockIds
        BY <2>1, BlocksOf
      <3> QED
        BY <1>0, <1>1, <3>1 DEF TypeOK, Close
    <2> QED
      BY <1>0, <1>1, <2>2 DEF TypeOK, Close, files, locks, memory, PCs
  <1>2. CASE Crash(c)
    <2>1. Forget(c) /\ UNCHANGED <<dat, old, manifestDat>>
      BY <1>2 DEF Crash
    <2>2. tmp' \in [BlockIds -> File] /\ journal' \in File /\ manifestTmp' \in File
      BY <1>0, <1>2, FileFacts DEF TypeOK, Crash
    <2>3. /\ blockLock' \in [BlockIds -> Clients \cup {NoClient}]
          /\ manifestLock' \in Clients \cup {NoClient}
      BY <1>0, <1>2 DEF TypeOK, Crash
    <2> QED
      BY <1>0, <2>1, <2>2, <2>3, ForgetTypes DEF TypeOK
  <1>3. CASE FlushArena(c)
    BY <1>0, <1>3 DEF TypeOK, FlushArena, files, locks, flush
  <1>4. ASSUME NEW cp \in Codepoints, TryLoadGlyph(c, cp) PROVE TypeOK'
    <2>1. view' \in [Clients -> [BlockIds -> View \cup {NoView}]]
      BY <1>0, <1>4, ConsultType DEF TryLoadGlyph
    <2> QED
      BY <1>0, <1>4, <2>1 DEF TypeOK, TryLoadGlyph, files, locks, flush
  <1>5. ASSUME NEW cp \in Codepoints, StoreGlyph(c, cp) PROVE TypeOK'
    <2> DEFINE queue == pending[c] \cup {cp}
    <2>1. view' \in [Clients -> [BlockIds -> View \cup {NoView}]]
      BY <1>0, <1>5, ConsultType DEF StoreGlyph
    <2>2. /\ manifest' \in [Clients -> Contents] /\ loaded' \in [Clients -> BOOLEAN]
          /\ partial' \in [Clients -> BOOLEAN]
      <3>1. /\ loaded \in [Clients -> BOOLEAN] /\ manifest \in [Clients -> Contents]
            /\ partial \in [Clients -> BOOLEAN]
        BY <1>0 DEF TypeOK
      <3>2. LoadManifest(c)
        BY <1>5 DEF StoreGlyph
      <3>3. CASE UNCHANGED <<loaded, manifest, partial>>
        BY <3>1, <3>3
      <3>4. CASE \E m \in {manifestDat.content, {}}, j \in {journal.content, {}} :
                   /\ loaded' = [loaded EXCEPT ![c] = TRUE]
                   /\ manifest' = [manifest EXCEPT ![c] = m \cup j]
                   /\ partial' = [partial EXCEPT ![c] = m \cup j # DiskManifest]
        <4>1. \A m \in {manifestDat.content, {}}, j \in {journal.content, {}} :
                m \cup j \in Contents
          BY <1>0, FileFacts DEF TypeOK, Contents
        <4>2. PICK m \in {manifestDat.content, {}}, j \in {journal.content, {}} :
                   /\ loaded' = [loaded EXCEPT ![c] = TRUE]
                   /\ manifest' = [manifest EXCEPT ![c] = m \cup j]
                   /\ partial' = [partial EXCEPT ![c] = m \cup j # DiskManifest]
          BY <3>4
        <4>3. m \cup j \in Contents /\ (m \cup j # DiskManifest) \in BOOLEAN
          BY <4>1
        <4> QED
          BY <3>1, <4>2, <4>3, Zenon
      <3> QED
        BY <3>2, <3>3, <3>4, Zenon DEF LoadManifest
    <2>3. queue \in Contents /\ IsFiniteSet(queue) /\ Cardinality(queue) \in Nat
      BY <1>0, FS_AddElement, FS_CardinalityType, ZenonT(60) DEF TypeOK, Queues, Contents
    <2>4. {GetBlockId(q) : q \in queue} \in SUBSET BlockIds
      BY <2>3, BlocksOf
    <2>5. pending' = [pending EXCEPT ![c] = queue]
      BY <1>5 DEF StoreGlyph
    <2> HIDE DEF queue
    <2>6. \/ pc' = [pc EXCEPT ![c] = "flush"]
          \/ pc' = pc /\ Cardinality(queue) < WRITE_BATCH_SIZE
      BY <1>5, <2>3, CacheAssumption DEF StoreGlyph, queue
    <2>7. todo' \in [Clients -> SUBSET BlockIds]
      BY <1>0, <1>5, <2>4 DEF TypeOK, StoreGlyph, queue
    <2> QED
      <3>1. pc' \in [Clients -> PCs] /\ pending' \in [Clients -> Contents]
        BY <1>0, <2>3, <2>5, <2>6 DEF TypeOK, PCs
      <3>2. \A d \in Clients : pc'[d] = "idle" => Cardinality(pending'[d]) < WRITE_BATCH_SIZE
        BY <1>0, <2>5, <2>6 DEF TypeOK
      <3> QED
        BY <1>0, <1>5, <2>1, <2>2, <2>7, <3>1, <3>2 DEF TypeOK, StoreGlyph, files, locks
  <1>6. ASSUME NEW b \in BlockIds, LockBlock(c, b) PROVE TypeOK'
    BY <1>0, <1>6 DEF TypeOK, LockBlock, files, memory, flush, PCs
  <1>7. ASSUME NEW b \in BlockIds, BlockLockTimeout(c, b) PROVE TypeOK'
    BY <1>0, <1>7 DEF TypeOK, BlockLockTimeout, files, locks, memory, flush
  <1>8. CASE MergeBlock(c)
    <2> DEFINE b == cur[c]
    <2>1. PICK v \in Loads(c, b) :
            /\ merged' = [merged EXCEPT ![c] = v.content \cup InBlock(pending[c], b)]
            /\ basis' = [basis EXCEPT ![c] = Basis(c, b, v)]
      BY <1>8 DEF MergeBlock
    <2>2. /\ b \in BlockIds /\ v.content \cup InBlock(pending[c], b) \in Contents
          /\ Basis(c, b, v) \in Bases
      BY <1>0, LoadsType DEF TypeOK, InBlock, Contents, Basis, Bases
    <2> HIDE DEF b
    <2>3. /\ view' = [view EXCEPT ![c][b] = NoView]
          /\ pc' = [pc EXCEPT ![c] = "write"]
          /\ UNCHANGED <<files, locks, loaded, manifest, pending, path, todo, cur, stored,
                         closing, spoiled, partial>>
      BY <1>8 DEF MergeBlock, b
    <2> QED
      BY <1>0, <2>1, <2>2, <2>3 DEF TypeOK, files, locks, PCs
  <1>9. CASE WriteTmp(c)
    BY <1>0, <1>9, FileFacts DEF TypeOK, WriteTmp, locks, memory, flush, PCs
  <1>10. CASE WriteTmpFails(c)
    <2>1. LeaveBlock(c) /\ UNCHANGED <<dat, old, manifestDat, manifestTmp, journal, path, stored, spoiled>>
      BY <1>10 DEF WriteTmpFails
    <2>2. tmp' \in [BlockIds -> File]
      BY <1>0, <1>10, FileFacts, ZenonT(60) DEF TypeOK, WriteTmpFails
    <2> QED
      BY <1>0, <2>1, <2>2, LeaveBlockTypes DEF TypeOK
  <1>11. CASE RenameBlock(c)
    BY <1>0, <1>11, LeaveBlockTypes, ReportType, FileFacts DEF TypeOK, RenameBlock, Spoil
  <1>12. CASE DivertBlock(c)
    BY <1>0, <1>12, LeaveBlockTypes, ReportType, FileFacts DEF TypeOK, DivertBlock, Spoil
  <1>13. CASE MovesFail(c)
    <2>1. LeaveBlock(c) /\ UNCHANGED files
      BY <1>13 DEF MovesFail
    <2>2. /\ path' \in [Clients -> [BlockIds -> {"dat", "old"}]]
          /\ stored' \in [Clients -> Contents] /\ spoiled' \subseteq BlockIds
      <3>1. CASE old[cur[c]] # NoFile
        <4>1. path' = [path EXCEPT ![c][cur[c]] = "old"] /\ Spoil(cur[c]) /\ Report(c)
          BY <1>13, <3>1 DEF MovesFail
        <4> QED
          BY <1>0, <4>1, ReportType DEF TypeOK, Spoil
      <3>2. CASE old[cur[c]] = NoFile
        BY <1>0, <1>13, <3>2 DEF TypeOK, MovesFail
      <3> QED
        BY <3>1, <3>2
    <2> QED
      BY <1>0, <2>1, <2>2, LeaveBlockTypes DEF TypeOK, files
  <1>14. CASE FinishBlocks(c)
    BY <1>0, <1>14, FS_EmptySet DEF TypeOK, FinishBlocks, files, locks, flush, PCs, Contents
  <1>15. CASE SkipManifest(c)
    BY <1>0, <1>15, EndFlushTypes DEF TypeOK, SkipManifest, files, locks
  <1>16. CASE LockManifest(c)
    BY <1>0, <1>16 DEF TypeOK, LockManifest, files, memory, flush, PCs
  <1>17. CASE AppendManifestJournal(c)
    <2>1. journal.content \in Contents /\ stored[c] \in Contents /\ manifest[c] \in Contents
      BY <1>0, FileFacts DEF TypeOK
    <2>2. journal' \in File
      BY <1>17, <2>1, FileFacts DEF AppendManifestJournal, Contents
    <2>3. manifest' \in [Clients -> Contents]
      BY <1>0, <1>17, <2>1 DEF TypeOK, AppendManifestJournal, Contents
    <2> QED
      BY <1>0, <1>17, <2>2, <2>3 DEF TypeOK, AppendManifestJournal, locks, flush, PCs
  <1>18. CASE AppendFails(c)
    BY <1>0, <1>18, EndFlushTypes, FileFacts
       DEF TypeOK, AppendFails, ReleaseManifest, Committing, files
  <1>19. CASE SaveManifest(c)
    BY <1>0, <1>19, FileFacts DEF TypeOK, SaveManifest, locks, memory, flush, PCs
  <1>20. CASE SaveFails(c)
    BY <1>0, <1>20, EndFlushTypes, FileFacts
       DEF TypeOK, SaveFails, ReleaseManifest, Committing, files
  <1>21. CASE PublishManifest(c)
    BY <1>0, <1>21, FileFacts DEF TypeOK, PublishManifest, locks, memory, flush, PCs
  <1>22. CASE PublishFails(c)
    BY <1>0, <1>22, EndFlushTypes, FileFacts
       DEF TypeOK, PublishFails, ReleaseManifest, Committing, files
  <1>23. CASE ClearJournal(c)
    BY <1>0, <1>23, EndFlushTypes, FileFacts
       DEF TypeOK, ClearJournal, ReleaseManifest, Committing, files
  <1>24. CASE CleanupOrphans(c)
    BY <1>0, <1>24, ForgetTypes, FileFacts DEF TypeOK, CleanupOrphans, Deleted, locks
  <1> QED
    BY <1>1, <1>2, <1>3, <1>4, <1>5, <1>6, <1>7, <1>8, <1>9, <1>10, <1>11, <1>12, <1>13,
       <1>14, <1>15, <1>16, <1>17, <1>18, <1>19, <1>20, <1>21, <1>22, <1>23, <1>24
       DEF Live, Continue
\* StoreGlyph alone lengthens a queue, and every flush ends with an empty one.
LEMMA QueuesKept == ASSUME IInv, NEW c \in Clients, Live(c) PROVE Queues'
  <1> USE DEF history, Goto, TypeOK, Queues, Emptied, Committing
  <1>0. TypeOK /\ Queues
    BY DEF IInv
  <1>1. CASE Close(c)
    <2>1. /\ pending' = pending
          /\ \/ pending[c] = {} /\ pc' = [pc EXCEPT ![c] = "cleanup"]
             \/ pc' = [pc EXCEPT ![c] = "flush"]
      BY <1>1 DEF Close, memory
    <2> QED
      BY <1>0, <2>1
  <1>2. CASE Crash(c)
    BY <1>0, <1>2, FS_EmptySet DEF Crash, Forget
  <1>3. CASE FlushArena(c)
    BY <1>0, <1>3 DEF FlushArena, files, locks, flush
  <1>4. ASSUME NEW cp \in Codepoints, TryLoadGlyph(c, cp) PROVE Queues'
    BY <1>0, <1>4 DEF TryLoadGlyph, Consult, files, locks, flush
  <1>5. ASSUME NEW cp \in Codepoints, StoreGlyph(c, cp) PROVE Queues'
    <2>1. /\ pending' = [pending EXCEPT ![c] = @ \cup {cp}]
          /\ pc[c] = "idle"
          /\ pc' = pc \/ pc' = [pc EXCEPT ![c] = "flush"]
      BY <1>5 DEF StoreGlyph
    <2>2. IsFiniteSet(pending[c] \cup {cp})
      BY <1>0, FS_AddElement
    <2> QED
      BY <1>0, <2>1, <2>2
  <1>6. ASSUME NEW b \in BlockIds, LockBlock(c, b) PROVE Queues'
    BY <1>0, <1>6 DEF LockBlock, files, memory, flush
  <1>7. ASSUME NEW b \in BlockIds, BlockLockTimeout(c, b) PROVE Queues'
    BY <1>0, <1>7 DEF BlockLockTimeout, files, locks, memory, flush
  <1>8. CASE MergeBlock(c)
    BY <1>0, <1>8 DEF MergeBlock, files, locks
  <1>9. CASE WriteTmp(c)
    BY <1>0, <1>9 DEF WriteTmp, locks, memory, flush
  <1>10. CASE WriteTmpFails(c)
    BY <1>0, <1>10 DEF WriteTmpFails, LeaveBlock, flush
  <1>11. CASE RenameBlock(c)
    BY <1>0, <1>11 DEF RenameBlock, LeaveBlock, Report, flush
  <1>12. CASE DivertBlock(c)
    BY <1>0, <1>12 DEF DivertBlock, LeaveBlock, Report, flush
  <1>13. CASE MovesFail(c)
    BY <1>0, <1>13 DEF MovesFail, LeaveBlock, Report, files, flush
  <1>14. CASE FinishBlocks(c)
    BY <1>0, <1>14, FS_EmptySet DEF FinishBlocks, files, locks, flush
  <1>15. CASE SkipManifest(c)
    BY <1>0, <1>15 DEF SkipManifest, EndFlush, files, locks
  <1>16. CASE LockManifest(c)
    BY <1>0, <1>16 DEF LockManifest, files, memory, flush
  <1>17. CASE AppendManifestJournal(c)
    BY <1>0, <1>17 DEF AppendManifestJournal, locks, flush
  <1>18. CASE AppendFails(c)
    BY <1>0, <1>18 DEF AppendFails, EndFlush, ReleaseManifest
  <1>19. CASE SaveManifest(c)
    BY <1>0, <1>19 DEF SaveManifest, locks, memory, flush
  <1>20. CASE SaveFails(c)
    BY <1>0, <1>20 DEF SaveFails, EndFlush, ReleaseManifest
  <1>21. CASE PublishManifest(c)
    BY <1>0, <1>21 DEF PublishManifest, locks, memory, flush
  <1>22. CASE PublishFails(c)
    BY <1>0, <1>22 DEF PublishFails, EndFlush, ReleaseManifest, files
  <1>23. CASE ClearJournal(c)
    BY <1>0, <1>23 DEF ClearJournal, EndFlush, ReleaseManifest
  <1>24. CASE CleanupOrphans(c)
    BY <1>0, <1>24, FS_EmptySet DEF CleanupOrphans, Deleted, Forget, locks
  <1> QED
    BY <1>1, <1>2, <1>3, <1>4, <1>5, <1>6, <1>7, <1>8, <1>9, <1>10, <1>11, <1>12, <1>13,
       <1>14, <1>15, <1>16, <1>17, <1>18, <1>19, <1>20, <1>21, <1>22, <1>23, <1>24
       DEF Live, Continue

\* A lock is taken when it is free, and its holder alone releases it.
LEMMA LockingKept == ASSUME IInv, NEW c \in Clients, Live(c) PROVE Locking'
  <1> USE DEF history, Goto, TypeOK, Locking, Committing
  <1>0. TypeOK /\ Locking
    BY DEF IInv
  <1>1. CASE Close(c)
    BY <1>0, <1>1 DEF Close, files, locks, memory, flush
  <1>2. CASE Crash(c)
    BY <1>0, <1>2 DEF Crash, Forget
  <1>3. CASE FlushArena(c)
    BY <1>0, <1>3 DEF FlushArena, files, locks, flush
  <1>4. ASSUME NEW cp \in Codepoints, TryLoadGlyph(c, cp) PROVE Locking'
    BY <1>0, <1>4 DEF TryLoadGlyph, Consult, files, locks, flush
  <1>5. ASSUME NEW cp \in Codepoints, StoreGlyph(c, cp) PROVE Locking'
    BY <1>0, <1>5 DEF StoreGlyph, Consult, LoadManifest, files, locks, flush
  <1>6. ASSUME NEW b \in BlockIds, LockBlock(c, b) PROVE Locking'
    BY <1>0, <1>6, CacheAssumption DEF LockBlock, files, memory, flush
  <1>7. ASSUME NEW b \in BlockIds, BlockLockTimeout(c, b) PROVE Locking'
    BY <1>0, <1>7 DEF BlockLockTimeout, files, locks, memory, flush
  <1>8. CASE MergeBlock(c)
    BY <1>0, <1>8 DEF MergeBlock, files, locks
  <1>9. CASE WriteTmp(c)
    BY <1>0, <1>9 DEF WriteTmp, locks, memory, flush
  <1>10. CASE WriteTmpFails(c)
    BY <1>0, <1>10 DEF WriteTmpFails, LeaveBlock, flush
  <1>11. CASE RenameBlock(c)
    BY <1>0, <1>11 DEF RenameBlock, LeaveBlock, Report, flush
  <1>12. CASE DivertBlock(c)
    BY <1>0, <1>12 DEF DivertBlock, LeaveBlock, Report, flush
  <1>13. CASE MovesFail(c)
    BY <1>0, <1>13 DEF MovesFail, LeaveBlock, Report, files, flush
  <1>14. CASE FinishBlocks(c)
    BY <1>0, <1>14 DEF FinishBlocks, files, locks, flush
  <1>15. CASE SkipManifest(c)
    BY <1>0, <1>15 DEF SkipManifest, EndFlush, files, locks
  <1>16. CASE LockManifest(c)
    BY <1>0, <1>16, CacheAssumption DEF LockManifest, files, memory, flush
  <1>17. CASE AppendManifestJournal(c)
    BY <1>0, <1>17 DEF AppendManifestJournal, locks, flush
  <1>18. CASE AppendFails(c)
    BY <1>0, <1>18 DEF AppendFails, EndFlush, ReleaseManifest
  <1>19. CASE SaveManifest(c)
    BY <1>0, <1>19 DEF SaveManifest, locks, memory, flush
  <1>20. CASE SaveFails(c)
    BY <1>0, <1>20 DEF SaveFails, EndFlush, ReleaseManifest
  <1>21. CASE PublishManifest(c)
    BY <1>0, <1>21 DEF PublishManifest, locks, memory, flush
  <1>22. CASE PublishFails(c)
    BY <1>0, <1>22 DEF PublishFails, EndFlush, ReleaseManifest, files
  <1>23. CASE ClearJournal(c)
    BY <1>0, <1>23 DEF ClearJournal, EndFlush, ReleaseManifest
  <1>24. CASE CleanupOrphans(c)
    BY <1>0, <1>24 DEF CleanupOrphans, Deleted, Forget, locks
  <1> QED
    BY <1>1, <1>2, <1>3, <1>4, <1>5, <1>6, <1>7, <1>8, <1>9, <1>10, <1>11, <1>12, <1>13,
       <1>14, <1>15, <1>16, <1>17, <1>18, <1>19, <1>20, <1>21, <1>22, <1>23, <1>24
       DEF Live, Continue

\* Only the holder of a lock writes the .tmp file it protects; anybody may
\* delete it.
LEMMA TemporariesKept == ASSUME IInv, NEW c \in Clients, Live(c) PROVE Temporaries'
  <1> USE DEF history, Goto, TypeOK, Locking, Temporaries, Committing
  <1>0. TypeOK /\ Locking /\ Temporaries
    BY DEF IInv
  <1>1. CASE Close(c)
    BY <1>0, <1>1 DEF Close, files, locks, memory, flush
  <1>2. CASE Crash(c)
    BY <1>0, <1>2 DEF Crash, Forget
  <1>3. CASE FlushArena(c)
    BY <1>0, <1>3 DEF FlushArena, files, locks, flush
  <1>4. ASSUME NEW cp \in Codepoints, TryLoadGlyph(c, cp) PROVE Temporaries'
    BY <1>0, <1>4 DEF TryLoadGlyph, Consult, files, locks, flush
  <1>5. ASSUME NEW cp \in Codepoints, StoreGlyph(c, cp) PROVE Temporaries'
    <2>1. /\ pc[c] = "idle" /\ (pc' = pc \/ pc' = [pc EXCEPT ![c] = "flush"])
          /\ \A d \in Clients \ {c} : manifest'[d] = manifest[d]
          /\ UNCHANGED <<tmp, manifestTmp, cur, merged>>
      BY <1>0, <1>5 DEF StoreGlyph, LoadManifest, files
    <2> QED
      BY <1>0, <2>1
  <1>6. ASSUME NEW b \in BlockIds, LockBlock(c, b) PROVE Temporaries'
    BY <1>0, <1>6 DEF LockBlock, files, memory, flush
  <1>7. ASSUME NEW b \in BlockIds, BlockLockTimeout(c, b) PROVE Temporaries'
    BY <1>0, <1>7 DEF BlockLockTimeout, files, locks, memory, flush
  <1>8. CASE MergeBlock(c)
    BY <1>0, <1>8 DEF MergeBlock, files, locks
  <1>9. CASE WriteTmp(c)
    BY <1>0, <1>9 DEF WriteTmp, locks, memory, flush
  <1>10. CASE WriteTmpFails(c)
    BY <1>0, <1>10, ZenonT(60) DEF WriteTmpFails, LeaveBlock, flush
  <1>11. CASE RenameBlock(c)
    BY <1>0, <1>11 DEF RenameBlock, LeaveBlock, Report, flush
  <1>12. CASE DivertBlock(c)
    BY <1>0, <1>12 DEF DivertBlock, LeaveBlock, Report, flush
  <1>13. CASE MovesFail(c)
    BY <1>0, <1>13 DEF MovesFail, LeaveBlock, Report, files, flush
  <1>14. CASE FinishBlocks(c)
    BY <1>0, <1>14 DEF FinishBlocks, files, locks, flush
  <1>15. CASE SkipManifest(c)
    BY <1>0, <1>15 DEF SkipManifest, EndFlush, files, locks
  <1>16. CASE LockManifest(c)
    BY <1>0, <1>16 DEF LockManifest, files, memory, flush
  <1>17. CASE AppendManifestJournal(c)
    BY <1>0, <1>17 DEF AppendManifestJournal, locks, flush
  <1>18. CASE AppendFails(c)
    BY <1>0, <1>18 DEF AppendFails, EndFlush, ReleaseManifest
  <1>19. CASE SaveManifest(c)
    BY <1>0, <1>19 DEF SaveManifest, locks, memory, flush
  <1>20. CASE SaveFails(c)
    BY <1>0, <1>20 DEF SaveFails, EndFlush, ReleaseManifest
  <1>21. CASE PublishManifest(c)
    BY <1>0, <1>21 DEF PublishManifest, locks, memory, flush
  <1>22. CASE PublishFails(c)
    BY <1>0, <1>22 DEF PublishFails, EndFlush, ReleaseManifest, files
  <1>23. CASE ClearJournal(c)
    BY <1>0, <1>23 DEF ClearJournal, EndFlush, ReleaseManifest
  <1>24. CASE CleanupOrphans(c)
    BY <1>0, <1>24 DEF CleanupOrphans, Deleted, Forget, locks
  <1> QED
    BY <1>1, <1>2, <1>3, <1>4, <1>5, <1>6, <1>7, <1>8, <1>9, <1>10, <1>11, <1>12, <1>13,
       <1>14, <1>15, <1>16, <1>17, <1>18, <1>19, <1>20, <1>21, <1>22, <1>23, <1>24
       DEF Live, Continue

\* What is moved into place was written whole.
LEMMA CompleteKept == ASSUME IInv, NEW c \in Clients, Live(c) PROVE FilesComplete'
  <1> USE DEF history, Goto, TypeOK, Temporaries, FilesComplete, NoFile, Torn, Whole
  <1>0. TypeOK /\ Temporaries /\ FilesComplete
    BY DEF IInv
  <1>1. CASE Close(c)
    BY <1>0, <1>1 DEF Close, files, locks, memory, flush
  <1>2. CASE Crash(c)
    BY <1>0, <1>2 DEF Crash, Forget
  <1>3. CASE FlushArena(c)
    BY <1>0, <1>3 DEF FlushArena, files, locks, flush
  <1>4. ASSUME NEW cp \in Codepoints, TryLoadGlyph(c, cp) PROVE FilesComplete'
    BY <1>0, <1>4 DEF TryLoadGlyph, Consult, files, locks, flush
  <1>5. ASSUME NEW cp \in Codepoints, StoreGlyph(c, cp) PROVE FilesComplete'
    BY <1>0, <1>5 DEF StoreGlyph, Consult, LoadManifest, files, locks, flush
  <1>6. ASSUME NEW b \in BlockIds, LockBlock(c, b) PROVE FilesComplete'
    BY <1>0, <1>6 DEF LockBlock, files, memory, flush
  <1>7. ASSUME NEW b \in BlockIds, BlockLockTimeout(c, b) PROVE FilesComplete'
    BY <1>0, <1>7 DEF BlockLockTimeout, files, locks, memory, flush
  <1>8. CASE MergeBlock(c)
    BY <1>0, <1>8 DEF MergeBlock, files, locks
  <1>9. CASE WriteTmp(c)
    BY <1>0, <1>9 DEF WriteTmp, locks, memory, flush
  <1>10. CASE WriteTmpFails(c)
    BY <1>0, <1>10 DEF WriteTmpFails, LeaveBlock, flush
  <1>11. CASE RenameBlock(c)
    <2>1. pc[c] = "rename" /\ tmp[cur[c]] # NoFile
      BY <1>11, Zenon DEF RenameBlock
    <2>2. tmp[cur[c]] = Whole(merged[c])
      BY <1>0, <2>1, Zenon DEF Temporaries
    <2>3. tmp[cur[c]].state = "whole"
      BY <2>2
    <2> QED
      BY <1>0, <1>11, <2>3 DEF RenameBlock
  <1>12. CASE DivertBlock(c)
    <2>1. pc[c] = "rename" /\ tmp[cur[c]] # NoFile
      BY <1>12, Zenon DEF DivertBlock
    <2>2. tmp[cur[c]] = Whole(merged[c])
      BY <1>0, <2>1, Zenon DEF Temporaries
    <2>3. tmp[cur[c]].state = "whole"
      BY <2>2
    <2> QED
      BY <1>0, <1>12, <2>3 DEF DivertBlock
  <1>13. CASE MovesFail(c)
    BY <1>0, <1>13 DEF MovesFail, LeaveBlock, Report, files, flush
  <1>14. CASE FinishBlocks(c)
    BY <1>0, <1>14 DEF FinishBlocks, files, locks, flush
  <1>15. CASE SkipManifest(c)
    BY <1>0, <1>15 DEF SkipManifest, EndFlush, files, locks
  <1>16. CASE LockManifest(c)
    BY <1>0, <1>16 DEF LockManifest, files, memory, flush
  <1>17. CASE AppendManifestJournal(c)
    BY <1>0, <1>17 DEF AppendManifestJournal, locks, flush
  <1>18. CASE AppendFails(c)
    BY <1>0, <1>18 DEF AppendFails, EndFlush, ReleaseManifest
  <1>19. CASE SaveManifest(c)
    BY <1>0, <1>19 DEF SaveManifest, locks, memory, flush
  <1>20. CASE SaveFails(c)
    BY <1>0, <1>20 DEF SaveFails, EndFlush, ReleaseManifest
  <1>21. CASE PublishManifest(c)
    BY <1>0, <1>21 DEF PublishManifest, locks, memory, flush
  <1>22. CASE PublishFails(c)
    BY <1>0, <1>22 DEF PublishFails, EndFlush, ReleaseManifest, files
  <1>23. CASE ClearJournal(c)
    BY <1>0, <1>23 DEF ClearJournal, EndFlush, ReleaseManifest
  <1>24. CASE CleanupOrphans(c)
    BY <1>0, <1>24 DEF CleanupOrphans, Deleted, Forget, locks
  <1> QED
    BY <1>1, <1>2, <1>3, <1>4, <1>5, <1>6, <1>7, <1>8, <1>9, <1>10, <1>11, <1>12, <1>13,
       <1>14, <1>15, <1>16, <1>17, <1>18, <1>19, <1>20, <1>21, <1>22, <1>23, <1>24
       DEF Live, Continue

\* Only the holder of a block's lock replaces its file.
LEMMA CurrentKept ==
    ASSUME IInv, NEW c \in Clients, Live(c)
    PROVE  LockedMergeIsCurrent'
  <1> USE DEF history, Goto, TypeOK, Locking, Temporaries, LockedMergeIsCurrent, Whole, NoFile
  <1>0. TypeOK /\ Locking /\ Temporaries /\ LockedMergeIsCurrent
    BY DEF IInv
  <1>1. CASE Close(c)
    <2>1. /\ UNCHANGED <<dat, cur, merged, basis>>
          /\ pc' \in {[pc EXCEPT ![c] = "cleanup"], [pc EXCEPT ![c] = "flush"]}
      BY <1>1 DEF Close, files
    <2> QED
      BY <1>0, <2>1
  <1>2. CASE Crash(c)
    BY <1>0, <1>2 DEF Crash, Forget
  <1>3. CASE FlushArena(c)
    BY <1>0, <1>3 DEF FlushArena, files, locks, flush
  <1>4. ASSUME NEW cp \in Codepoints, TryLoadGlyph(c, cp) PROVE LockedMergeIsCurrent'
    BY <1>0, <1>4 DEF TryLoadGlyph, Consult, files, locks, flush
  <1>5. ASSUME NEW cp \in Codepoints, StoreGlyph(c, cp) PROVE LockedMergeIsCurrent'
    BY <1>0, <1>5, SMTT(20) DEF StoreGlyph, Consult, LoadManifest, files, locks, flush
  <1>6. ASSUME NEW b \in BlockIds, LockBlock(c, b) PROVE LockedMergeIsCurrent'
    BY <1>0, <1>6 DEF LockBlock, files, memory, flush
  <1>7. ASSUME NEW b \in BlockIds, BlockLockTimeout(c, b) PROVE LockedMergeIsCurrent'
    BY <1>0, <1>7 DEF BlockLockTimeout, files, locks, memory, flush
  <1>8. CASE MergeBlock(c)
    <2> DEFINE b == cur[c]
    <2>1. b \in BlockIds /\ dat[b] \in File
      BY <1>0
    <2>2. PICK v \in Loads(c, b) :
            /\ merged' = [merged EXCEPT ![c] = v.content \cup InBlock(pending[c], b)]
            /\ basis' = [basis EXCEPT ![c] = Basis(c, b, v)]
      BY <1>8 DEF MergeBlock
    <2>3. Basis(c, b, v) = "file" => dat[b].content \subseteq v.content
      <3>1. SUFFICES ASSUME view[c][b] = NoView, path[c][b] = "dat",
                            v # NoView \/ dat[b] = NoFile
                     PROVE  dat[b].content \subseteq v.content
        BY DEF Basis
      <3>2. v = NoView \/ v.content = dat[b].content
        BY <3>1 DEF Loads, PathFile
      <3> QED
        BY <3>1, <3>2
    <2>4. UNCHANGED <<dat, cur>> /\ pc' = [pc EXCEPT ![c] = "write"]
      BY <1>8 DEF MergeBlock, files
    <2> HIDE DEF b
    <2>5. /\ cur[c] = b
          /\ \A d \in Clients \ {c} : pc'[d] = pc[d] /\ basis'[d] = basis[d] /\ merged'[d] = merged[d]
          /\ basis'[c] = Basis(c, b, v) /\ merged'[c] = v.content \cup InBlock(pending[c], b)
      BY <1>0, <2>2, <2>4 DEF b
    <2> QED
      BY <1>0, <2>3, <2>4, <2>5
  <1>9. CASE WriteTmp(c)
    BY <1>0, <1>9 DEF WriteTmp, locks, memory, flush
  <1>10. CASE WriteTmpFails(c)
    BY <1>0, <1>10 DEF WriteTmpFails, LeaveBlock, flush
  <1>11. CASE RenameBlock(c)
    BY <1>0, <1>11 DEF RenameBlock, LeaveBlock, Report, flush
  <1>12. CASE DivertBlock(c)
    BY <1>0, <1>12 DEF DivertBlock, LeaveBlock, Report, flush
  <1>13. CASE MovesFail(c)
    BY <1>0, <1>13 DEF MovesFail, LeaveBlock, Report, files, flush
  <1>14. CASE FinishBlocks(c)
    BY <1>0, <1>14 DEF FinishBlocks, files, locks, flush
  <1>15. CASE SkipManifest(c)
    BY <1>0, <1>15 DEF SkipManifest, EndFlush, files, locks
  <1>16. CASE LockManifest(c)
    BY <1>0, <1>16 DEF LockManifest, files, memory, flush
  <1>17. CASE AppendManifestJournal(c)
    BY <1>0, <1>17 DEF AppendManifestJournal, locks, flush
  <1>18. CASE AppendFails(c)
    BY <1>0, <1>18 DEF AppendFails, EndFlush, ReleaseManifest
  <1>19. CASE SaveManifest(c)
    BY <1>0, <1>19 DEF SaveManifest, locks, memory, flush
  <1>20. CASE SaveFails(c)
    BY <1>0, <1>20 DEF SaveFails, EndFlush, ReleaseManifest
  <1>21. CASE PublishManifest(c)
    BY <1>0, <1>21 DEF PublishManifest, locks, memory, flush
  <1>22. CASE PublishFails(c)
    BY <1>0, <1>22 DEF PublishFails, EndFlush, ReleaseManifest, files
  <1>23. CASE ClearJournal(c)
    BY <1>0, <1>23 DEF ClearJournal, EndFlush, ReleaseManifest
  <1>24. CASE CleanupOrphans(c)
    BY <1>0, <1>24 DEF CleanupOrphans, Deleted, Forget, locks
  <1> QED
    BY <1>1, <1>2, <1>3, <1>4, <1>5, <1>6, <1>7, <1>8, <1>9, <1>10, <1>11, <1>12, <1>13,
       <1>14, <1>15, <1>16, <1>17, <1>18, <1>19, <1>20, <1>21, <1>22, <1>23, <1>24
       DEF Live, Continue

\* A client opens the cache with nothing in memory.
LEMMA OpenKeeps == ASSUME IInv, NEW c \in Clients, Open(c) PROVE IInv'
  <1>0. TypeOK /\ Queues
    BY DEF IInv
  <1>1. /\ pc[c] = "down" /\ pc' = [pc EXCEPT ![c] = "idle"] /\ lives' = lives + 1
        /\ lives < MaxLives /\ UNCHANGED <<files, locks, memory, flush, history>>
    BY DEF Open, Goto
  <1>2. TypeOK'
    <2>1. lives' \in 0..MaxLives
      BY <1>0, <1>1, CacheAssumption DEF TypeOK
    <2>2. pending[c] = {} /\ Cardinality({}) < WRITE_BATCH_SIZE
      BY <1>0, <1>1, FS_EmptySet, CacheAssumption DEF Queues, Emptied
    <2> QED
      BY <1>0, <1>1, <2>1, <2>2 DEF TypeOK, files, locks, memory, flush, history, PCs
  <1>3. Queues' /\ Locking' /\ Temporaries' /\ FilesComplete' /\ LockedMergeIsCurrent'
    BY <1>0, <1>1 DEF IInv, TypeOK, Queues, Emptied, Locking, Committing, Temporaries,
                      FilesComplete, LockedMergeIsCurrent, files, locks, memory, flush, history
  <1> QED
    BY <1>2, <1>3 DEF IInv

\* Every step preserves the invariant.
LEMMA StepKeeps == IInv /\ [Next]_vars => IInv'
  <1> SUFFICES ASSUME IInv, [Next]_vars PROVE IInv'
    OBVIOUS
  <1>1. ASSUME NEW c \in Clients, Live(c), UNCHANGED lives PROVE IInv'
    BY <1>1, TypesKept, QueuesKept, LockingKept, TemporariesKept, CompleteKept, CurrentKept
       DEF IInv
  <1>2. CASE UNCHANGED vars
    BY <1>2 DEF IInv, TypeOK, Queues, Locking, Temporaries, FilesComplete,
       LockedMergeIsCurrent,
                vars, files, locks, memory, flush, history
  <1> QED
    BY <1>1, <1>2, OpenKeeps DEF Next

\* The inductive invariant of the shared cache (MSDFCache.cpp:258-456).
THEOREM Invariance == Spec => []IInv
  BY InitHolds, StepKeeps, PTL DEF Spec

\* Files, locks and the memory of every client are well typed, and a batch that
\* is full is never left unflushed (MSDFCache.cpp:103-112).
THEOREM TypeCorrect == Spec => []TypeOK
  <1>1. IInv => TypeOK
    BY DEF IInv
  <1> QED
    BY Invariance, <1>1, PTL

\* No .dat or .old file and no manifest that is read was cut short while it was
\* written, whoever crashed or ran out of disk (MSDFCache.cpp:258-286, 389-456).
THEOREM WholeFilesOnly == Spec => []FilesComplete
  <1>1. IInv => FilesComplete
    BY DEF IInv
  <1> QED
    BY Invariance, <1>1, PTL

\* The rename of a merge that has read the file under the lock drops no glyph of
\* it, whoever crashes, diverts or cleans up meanwhile; a merge that found no view
\* of the file, or had one from before, is not spoken of (MSDFCache.cpp:288-428).
THEOREM NoGlyphOverwritten == Spec => []LockedMergeIsCurrent
  <1>1. IInv => LockedMergeIsCurrent
    BY DEF IInv
  <1> QED
    BY Invariance, <1>1, PTL

-------------------------------------------------------------------------------
\* One game client uses the directory, as often as it likes.
OneClient == \A c, d \in Clients : c = d

\* Each glyph of S is in its block.
Backed(S) ==
    \A cp \in S : GetBlockId(cp) \notin spoiled => cp \in dat[GetBlockId(cp)].content

\* Of a block that is not spoiled a single client reads the .dat file only, and
\* what it has mapped is what the file holds now.
Undiverted ==
    \A c \in Clients : \A b \in BlockIds \ spoiled :
        /\ path[c][b] = "dat"
        /\ view[c][b] # NoView => view[c][b] = [file |-> "dat", content |-> dat[b].content]

\* A block is unmapped while it is replaced, and what replaces it holds the queued
\* glyphs, and the old content unless the file could not be read.
Writing ==
    \A c \in Clients :
        /\ pc[c] \in {"write", "rename"} =>
              /\ view[c][cur[c]] = NoView
              /\ cur[c] \notin spoiled /\ basis[c] # "nothing"
                    => dat[cur[c]].content \subseteq merged[c]
              /\ InBlock(pending[c], cur[c]) \subseteq merged[c]
        /\ pc[c] = "rename" => tmp[cur[c]] = Whole(merged[c])

\* A client that writes the manifest has loaded it, knows all of it if it could
\* read all of it, and moves into place, or clears the journal for, what it knows.
Knowing ==
    \A c \in Clients :
        /\ loaded[c] /\ ~partial[c] => DiskManifest \subseteq manifest[c]
        /\ pending[c] # {} \/ pc[c] \notin {"down", "idle", "cleanup"} => loaded[c]
        /\ pc[c] = "publish" => manifestTmp = Whole(manifest[c])
        /\ pc[c] = "clear" => manifestDat = Whole(manifest[c])

\* What any copy of the manifest names is in its block.
Recorded ==
    /\ ManifestBacked
    /\ \A c \in Clients : Backed(manifest[c]) /\ Backed(stored[c])

\* What holds besides IInv when there is one client.
SoloInv == Undiverted /\ Writing /\ Knowing /\ Recorded

\* Nothing is stored, and nothing is recorded.
LEMMA SoloInit == Init => SoloInv
  BY DEF Init, SoloInv, Undiverted, Writing, Knowing, Recorded, ManifestBacked, Backed,
         DiskManifest, NoFile

\* What a client reads of a block is what is in its file, or it is not read.
LEMMA LoadsSolo ==
    ASSUME TypeOK, Undiverted, NEW c \in Clients, NEW b \in BlockIds \ spoiled,
           NEW v \in Loads(c, b)
    PROVE  v # NoView => v = [file |-> "dat", content |-> dat[b].content]
  <1>1. /\ path[c][b] = "dat"
        /\ view[c][b] # NoView => view[c][b] = [file |-> "dat", content |-> dat[b].content]
    BY DEF TypeOK, Undiverted
  <1>2. CASE view[c][b] # NoView
    BY <1>1, <1>2 DEF Loads
  <1>3. CASE view[c][b] = NoView
    BY <1>1, <1>3 DEF Loads, PathFile
  <1> QED
    BY <1>2, <1>3

\* A lookup maps the file as it is.
LEMMA ConsultSolo ==
    ASSUME TypeOK, Undiverted, NEW c \in Clients, NEW cp \in Codepoints, NEW hit,
           Consult(c, cp, hit), \A d \in Clients : d = c, UNCHANGED <<dat, path, spoiled>>
    PROVE  Undiverted'
  <1> DEFINE b == GetBlockId(cp)
  <1>1. b \in BlockIds
    BY BlocksOf
  <1>2. PICK v \in Consulted(c, cp) : view' = [view EXCEPT ![c][b] = v]
    BY DEF Consult
  <1>3. b \notin spoiled /\ v # NoView => v = [file |-> "dat", content |-> dat[b].content]
    BY <1>1, LoadsSolo DEF Consulted, Undiverted
  <1> HIDE DEF b
  <1> QED
    BY <1>1, <1>2, <1>3 DEF TypeOK, Undiverted

\* The file changes only under a block that is not mapped.
LEMMA UndivertedKept ==
    ASSUME OneClient, IInv, SoloInv, NEW c \in Clients, Live(c)
    PROVE  Undiverted'
  <1> USE DEF history, Goto, TypeOK, Undiverted, Writing, Whole, NoView
  <1>0. TypeOK /\ Undiverted /\ Writing /\ \A d \in Clients : d = c
    BY DEF IInv, SoloInv, OneClient
  <1>1. CASE Close(c)
    BY <1>0, <1>1 DEF Close, files, locks, memory, flush
  <1>2. CASE Crash(c)
    BY <1>0, <1>2 DEF Crash, Forget
  <1>3. CASE FlushArena(c)
    BY <1>0, <1>3 DEF FlushArena, files, locks, flush
  <1>4. ASSUME NEW cp \in Codepoints, TryLoadGlyph(c, cp) PROVE Undiverted'
    <2>1. Consult(c, cp, TRUE) /\ UNCHANGED <<dat, path, spoiled>>
      BY <1>4 DEF TryLoadGlyph, files
    <2> QED
      BY <1>0, <2>1, ConsultSolo
  <1>5. ASSUME NEW cp \in Codepoints, StoreGlyph(c, cp) PROVE Undiverted'
    <2>1. Consult(c, cp, FALSE) /\ UNCHANGED <<dat, path, spoiled>>
      BY <1>5 DEF StoreGlyph, files
    <2> QED
      BY <1>0, <2>1, ConsultSolo
  <1>6. ASSUME NEW b \in BlockIds, LockBlock(c, b) PROVE Undiverted'
    BY <1>0, <1>6 DEF LockBlock, files, memory, flush
  <1>7. ASSUME NEW b \in BlockIds, BlockLockTimeout(c, b) PROVE Undiverted'
    BY <1>0, <1>7 DEF BlockLockTimeout, files, locks, memory, flush
  <1>8. CASE MergeBlock(c)
    BY <1>0, <1>8 DEF MergeBlock, files, locks
  <1>9. CASE WriteTmp(c)
    BY <1>0, <1>9 DEF WriteTmp, locks, memory, flush
  <1>10. CASE WriteTmpFails(c)
    BY <1>0, <1>10 DEF WriteTmpFails, LeaveBlock, flush
  <1>11. CASE RenameBlock(c)
    <2>1. view[c][cur[c]] = NoView /\ cur[c] \in BlockIds
      BY <1>0, <1>11 DEF RenameBlock
    <2>2. /\ \A b \in BlockIds \ {cur[c]} : dat'[b] = dat[b]
          /\ spoiled \subseteq spoiled' /\ UNCHANGED <<path, view>>
      BY <1>0, <1>11 DEF RenameBlock, Spoil, LeaveBlock
    <2>3. SUFFICES ASSUME NEW d \in Clients, NEW b \in BlockIds, b \notin spoiled'
                   PROVE  /\ path[d][b] = "dat"
                          /\ view[d][b] # NoView
                                => view[d][b] = [file |-> "dat", content |-> dat'[b].content]
      BY <2>2
    <2>4. /\ b \notin spoiled /\ d = c
      BY <1>0, <2>2, <2>3
    <2>5. path[d][b] = "dat"
      BY <1>0, <2>4
    <2>6. CASE b = cur[c]
      BY <2>1, <2>4, <2>5, <2>6
    <2>7. CASE b # cur[c]
      <3>1. dat'[b] = dat[b]
        BY <2>2, <2>7
      <3> QED
        BY <1>0, <2>4, <2>5, <3>1
    <2> QED
      BY <2>6, <2>7
  <1>12. CASE DivertBlock(c)
    BY <1>0, <1>12 DEF DivertBlock, Spoil, LeaveBlock, Report, flush
  <1>13. CASE MovesFail(c)
    BY <1>0, <1>13 DEF MovesFail, Spoil, LeaveBlock, Report, files, flush
  <1>14. CASE FinishBlocks(c)
    BY <1>0, <1>14 DEF FinishBlocks, files, locks, flush
  <1>15. CASE SkipManifest(c)
    BY <1>0, <1>15 DEF SkipManifest, EndFlush, files, locks
  <1>16. CASE LockManifest(c)
    BY <1>0, <1>16 DEF LockManifest, files, memory, flush
  <1>17. CASE AppendManifestJournal(c)
    BY <1>0, <1>17 DEF AppendManifestJournal, locks, flush
  <1>18. CASE AppendFails(c)
    BY <1>0, <1>18 DEF AppendFails, EndFlush, ReleaseManifest
  <1>19. CASE SaveManifest(c)
    BY <1>0, <1>19 DEF SaveManifest, locks, memory, flush
  <1>20. CASE SaveFails(c)
    BY <1>0, <1>20 DEF SaveFails, EndFlush, ReleaseManifest
  <1>21. CASE PublishManifest(c)
    BY <1>0, <1>21 DEF PublishManifest, locks, memory, flush
  <1>22. CASE PublishFails(c)
    BY <1>0, <1>22 DEF PublishFails, EndFlush, ReleaseManifest, files
  <1>23. CASE ClearJournal(c)
    BY <1>0, <1>23 DEF ClearJournal, EndFlush, ReleaseManifest
  <1>24. CASE CleanupOrphans(c)
    BY <1>0, <1>24 DEF CleanupOrphans, Deleted, Forget, locks
  <1> QED
    BY <1>1, <1>2, <1>3, <1>4, <1>5, <1>6, <1>7, <1>8, <1>9, <1>10, <1>11, <1>12, <1>13,
       <1>14, <1>15, <1>16, <1>17, <1>18, <1>19, <1>20, <1>21, <1>22, <1>23, <1>24
       DEF Live, Continue

\* The merge takes the file's content and the queue's, and nothing changes
\* either before the move.
LEMMA WritingKept ==
    ASSUME OneClient, IInv, SoloInv, NEW c \in Clients, Live(c)
    PROVE  Writing'
  <1> USE DEF history, Goto, TypeOK, Undiverted, Writing, Whole, NoView
  <1>0. TypeOK /\ Undiverted /\ Writing /\ \A d \in Clients : d = c
    BY DEF IInv, SoloInv, OneClient
  <1>1. CASE Close(c)
    BY <1>0, <1>1 DEF Close, files, locks, memory, flush
  <1>2. CASE Crash(c)
    BY <1>0, <1>2 DEF Crash, Forget
  <1>3. CASE FlushArena(c)
    BY <1>0, <1>3 DEF FlushArena, files, locks, flush
  <1>4. ASSUME NEW cp \in Codepoints, TryLoadGlyph(c, cp) PROVE Writing'
    BY <1>0, <1>4 DEF TryLoadGlyph, Consult, files, locks, flush
  <1>5. ASSUME NEW cp \in Codepoints, StoreGlyph(c, cp) PROVE Writing'
    BY <1>0, <1>5 DEF StoreGlyph, Consult, LoadManifest, files, locks, flush
  <1>6. ASSUME NEW b \in BlockIds, LockBlock(c, b) PROVE Writing'
    BY <1>0, <1>6 DEF LockBlock, files, memory, flush
  <1>7. ASSUME NEW b \in BlockIds, BlockLockTimeout(c, b) PROVE Writing'
    BY <1>0, <1>7 DEF BlockLockTimeout, files, locks, memory, flush
  <1>8. CASE MergeBlock(c)
    <2> DEFINE b == cur[c]
    <2>1. PICK v \in Loads(c, b) :
            /\ merged' = [merged EXCEPT ![c] = v.content \cup InBlock(pending[c], b)]
            /\ basis' = [basis EXCEPT ![c] = Basis(c, b, v)]
      BY <1>8 DEF MergeBlock
    <2>2. b \in BlockIds
      BY <1>0
    <2>3. b \notin spoiled /\ Basis(c, b, v) # "nothing" => dat[b].content \subseteq v.content
      <3>1. b \notin spoiled /\ v # NoView => v.content = dat[b].content
        BY <1>0, <2>2, LoadsSolo
      <3> QED
        BY <3>1 DEF Basis, NoFile
    <2>4. /\ view' = [view EXCEPT ![c][b] = NoView] /\ pc' = [pc EXCEPT ![c] = "write"]
          /\ UNCHANGED <<dat, cur, pending, spoiled>>
      BY <1>8 DEF MergeBlock, files
    <2> HIDE DEF b
    <2>5. /\ cur'[c] = b /\ basis'[c] = Basis(c, b, v) /\ view'[c][b] = NoView
          /\ merged'[c] = v.content \cup InBlock(pending[c], b) /\ pc'[c] = "write"
      BY <1>0, <2>1, <2>2, <2>4 DEF b
    <2> QED
      BY <1>0, <2>3, <2>4, <2>5 DEF InBlock
  <1>9. CASE WriteTmp(c)
    BY <1>0, <1>9 DEF WriteTmp, locks, memory, flush
  <1>10. CASE WriteTmpFails(c)
    BY <1>0, <1>10 DEF WriteTmpFails, LeaveBlock, flush
  <1>11. CASE RenameBlock(c)
    BY <1>0, <1>11 DEF RenameBlock, LeaveBlock, Report, flush
  <1>12. CASE DivertBlock(c)
    BY <1>0, <1>12 DEF DivertBlock, LeaveBlock, Report, flush
  <1>13. CASE MovesFail(c)
    BY <1>0, <1>13 DEF MovesFail, LeaveBlock, Report, files, flush
  <1>14. CASE FinishBlocks(c)
    BY <1>0, <1>14 DEF FinishBlocks, files, locks, flush
  <1>15. CASE SkipManifest(c)
    BY <1>0, <1>15 DEF SkipManifest, EndFlush, files, locks
  <1>16. CASE LockManifest(c)
    BY <1>0, <1>16 DEF LockManifest, files, memory, flush
  <1>17. CASE AppendManifestJournal(c)
    BY <1>0, <1>17 DEF AppendManifestJournal, locks, flush
  <1>18. CASE AppendFails(c)
    BY <1>0, <1>18 DEF AppendFails, EndFlush, ReleaseManifest
  <1>19. CASE SaveManifest(c)
    BY <1>0, <1>19 DEF SaveManifest, locks, memory, flush
  <1>20. CASE SaveFails(c)
    BY <1>0, <1>20 DEF SaveFails, EndFlush, ReleaseManifest
  <1>21. CASE PublishManifest(c)
    BY <1>0, <1>21 DEF PublishManifest, locks, memory, flush
  <1>22. CASE PublishFails(c)
    BY <1>0, <1>22 DEF PublishFails, EndFlush, ReleaseManifest, files
  <1>23. CASE ClearJournal(c)
    BY <1>0, <1>23 DEF ClearJournal, EndFlush, ReleaseManifest
  <1>24. CASE CleanupOrphans(c)
    BY <1>0, <1>24 DEF CleanupOrphans, Deleted, Forget, locks
  <1> QED
    BY <1>1, <1>2, <1>3, <1>4, <1>5, <1>6, <1>7, <1>8, <1>9, <1>10, <1>11, <1>12, <1>13,
       <1>14, <1>15, <1>16, <1>17, <1>18, <1>19, <1>20, <1>21, <1>22, <1>23, <1>24
       DEF Live, Continue

\* The manifest on disk grows only by what its writer knows.
LEMMA KnowingKept ==
    ASSUME OneClient, IInv, SoloInv, NEW c \in Clients, Live(c)
    PROVE  Knowing'
  <1> USE DEF history, Goto, TypeOK, Queues, Emptied, Committing, Knowing, DiskManifest, Whole,
     NoFile, Torn
  <1>0. TypeOK /\ Queues /\ Undiverted /\ Writing /\ Knowing /\ \A d \in Clients : d = c
    BY DEF IInv, SoloInv, OneClient
  <1>1. CASE Close(c)
    BY <1>0, <1>1 DEF Close, files, locks, memory, flush
  <1>2. CASE Crash(c)
    BY <1>0, <1>2 DEF Crash, Forget
  <1>3. CASE FlushArena(c)
    BY <1>0, <1>3 DEF FlushArena, files, locks, flush
  <1>4. ASSUME NEW cp \in Codepoints, TryLoadGlyph(c, cp) PROVE Knowing'
    BY <1>0, <1>4 DEF TryLoadGlyph, Consult, files, locks, flush
  <1>5. ASSUME NEW cp \in Codepoints, StoreGlyph(c, cp) PROVE Knowing'
    <2>1. /\ pc[c] = "idle" /\ UNCHANGED <<manifestDat, manifestTmp, journal>>
          /\ pc' = pc \/ pc' = [pc EXCEPT ![c] = "flush"]
      BY <1>5 DEF StoreGlyph, files
    <2>2. /\ loaded'[c]
          /\ partial'[c] \/ DiskManifest \subseteq manifest'[c]
      <3>1. LoadManifest(c)
        BY <1>5 DEF StoreGlyph
      <3>2. CASE loaded[c] /\ UNCHANGED <<loaded, manifest, partial>>
        BY <1>0, <3>2
      <3>3. ASSUME NEW m, NEW j, loaded' = [loaded EXCEPT ![c] = TRUE],
                   manifest' = [manifest EXCEPT ![c] = m \cup j],
                   partial' = [partial EXCEPT ![c] = m \cup j # DiskManifest]
            PROVE  loaded'[c] /\ (partial'[c] \/ DiskManifest \subseteq manifest'[c])
        <4>1. /\ loaded'[c] /\ manifest'[c] = m \cup j
              /\ partial'[c] = (m \cup j # DiskManifest)
          BY <1>0, <3>3, Zenon
        <4> QED
          BY <4>1
      <3> QED
        BY <3>1, <3>2, <3>3, Zenon DEF LoadManifest
    <2> QED
      BY <1>0, <2>1, <2>2
  <1>6. ASSUME NEW b \in BlockIds, LockBlock(c, b) PROVE Knowing'
    BY <1>0, <1>6 DEF LockBlock, files, memory, flush
  <1>7. ASSUME NEW b \in BlockIds, BlockLockTimeout(c, b) PROVE Knowing'
    BY <1>0, <1>7 DEF BlockLockTimeout, files, locks, memory, flush
  <1>8. CASE MergeBlock(c)
    BY <1>0, <1>8 DEF MergeBlock, files, locks
  <1>9. CASE WriteTmp(c)
    BY <1>0, <1>9 DEF WriteTmp, locks, memory, flush
  <1>10. CASE WriteTmpFails(c)
    BY <1>0, <1>10 DEF WriteTmpFails, LeaveBlock, flush
  <1>11. CASE RenameBlock(c)
    BY <1>0, <1>11 DEF RenameBlock, LeaveBlock, Report, flush
  <1>12. CASE DivertBlock(c)
    BY <1>0, <1>12 DEF DivertBlock, LeaveBlock, Report, flush
  <1>13. CASE MovesFail(c)
    BY <1>0, <1>13 DEF MovesFail, LeaveBlock, Report, files, flush
  <1>14. CASE FinishBlocks(c)
    BY <1>0, <1>14 DEF FinishBlocks, files, locks, flush
  <1>15. CASE SkipManifest(c)
    BY <1>0, <1>15 DEF SkipManifest, EndFlush, files, locks
  <1>16. CASE LockManifest(c)
    BY <1>0, <1>16 DEF LockManifest, files, memory, flush
  <1>17. CASE AppendManifestJournal(c)
    BY <1>0, <1>17 DEF AppendManifestJournal, locks, flush
  <1>18. CASE AppendFails(c)
    BY <1>0, <1>18 DEF AppendFails, EndFlush, ReleaseManifest
  <1>19. CASE SaveManifest(c)
    BY <1>0, <1>19 DEF SaveManifest, locks, memory, flush
  <1>20. CASE SaveFails(c)
    BY <1>0, <1>20 DEF SaveFails, EndFlush, ReleaseManifest
  <1>21. CASE PublishManifest(c)
    BY <1>0, <1>21 DEF PublishManifest, locks, memory, flush
  <1>22. CASE PublishFails(c)
    BY <1>0, <1>22 DEF PublishFails, EndFlush, ReleaseManifest, files
  <1>23. CASE ClearJournal(c)
    BY <1>0, <1>23 DEF ClearJournal, EndFlush, ReleaseManifest
  <1>24. CASE CleanupOrphans(c)
    BY <1>0, <1>24 DEF CleanupOrphans, Deleted, Forget, locks
  <1> QED
    BY <1>1, <1>2, <1>3, <1>4, <1>5, <1>6, <1>7, <1>8, <1>9, <1>10, <1>11, <1>12, <1>13,
       <1>14, <1>15, <1>16, <1>17, <1>18, <1>19, <1>20, <1>21, <1>22, <1>23, <1>24
       DEF Live, Continue

\* Only the move of a block changes what is in it, and it takes nothing out.
LEMMA RecordedKept ==
    ASSUME OneClient, IInv, SoloInv, NEW c \in Clients, Live(c)
    PROVE  Recorded'
  <1> USE DEF history, Goto, TypeOK, Writing, Knowing, Recorded, ManifestBacked, Backed,
     DiskManifest, InBlock, Whole, NoFile, Torn
  <1>0. TypeOK /\ Undiverted /\ Writing /\ Knowing /\ Recorded /\ \A d \in Clients : d = c
    BY DEF IInv, SoloInv, OneClient
  <1>1. CASE Close(c)
    BY <1>0, <1>1 DEF Close, files, locks, memory, flush
  <1>2. CASE Crash(c)
    BY <1>0, <1>2 DEF Crash, Forget
  <1>3. CASE FlushArena(c)
    BY <1>0, <1>3 DEF FlushArena, files, locks, flush
  <1>4. ASSUME NEW cp \in Codepoints, TryLoadGlyph(c, cp) PROVE Recorded'
    BY <1>0, <1>4 DEF TryLoadGlyph, Consult, files, locks, flush
  <1>5. ASSUME NEW cp \in Codepoints, StoreGlyph(c, cp) PROVE Recorded'
    BY <1>0, <1>5 DEF StoreGlyph, Consult, LoadManifest, files, locks, flush
  <1>6. ASSUME NEW b \in BlockIds, LockBlock(c, b) PROVE Recorded'
    BY <1>0, <1>6 DEF LockBlock, files, memory, flush
  <1>7. ASSUME NEW b \in BlockIds, BlockLockTimeout(c, b) PROVE Recorded'
    BY <1>0, <1>7 DEF BlockLockTimeout, files, locks, memory, flush
  <1>8. CASE MergeBlock(c)
    BY <1>0, <1>8 DEF MergeBlock, files, locks
  <1>9. CASE WriteTmp(c)
    BY <1>0, <1>9 DEF WriteTmp, locks, memory, flush
  <1>10. CASE WriteTmpFails(c)
    BY <1>0, <1>10 DEF WriteTmpFails, LeaveBlock, flush
  <1>11. CASE RenameBlock(c)
    <2> DEFINE b == cur[c]
    <2>1. /\ b \in BlockIds /\ pc[c] = "rename" /\ tmp[b] = Whole(merged[c])
          /\ dat' = [dat EXCEPT ![b] = tmp[b]]
          /\ stored' = [stored EXCEPT ![c] = @ \cup InBlock(pending[c], b)]
          /\ UNCHANGED <<manifestDat, journal, manifest>>
          /\ IF basis[c] = "nothing" THEN Spoil(b) ELSE UNCHANGED spoiled
      BY <1>0, <1>11 DEF RenameBlock, LeaveBlock, Report
    <2>2. dat'[b].content = merged[c]
      BY <1>0, <2>1
    <2>3. /\ spoiled \subseteq spoiled'
          /\ \A d \in BlockIds \ spoiled' : dat[d].content \subseteq dat'[d].content
      BY <1>0, <2>1, <2>2 DEF Spoil
    <2>4. InBlock(pending[c], b) \subseteq dat'[b].content
      BY <1>0, <2>1, <2>2
    <2>5. /\ manifestDat.content \in Contents /\ journal.content \in Contents
          /\ manifest[c] \in Contents /\ stored[c] \in Contents /\ pending[c] \in Contents
      BY <1>0, FileFacts
    <2> HIDE DEF b
    <2>6. \A S \in Contents : Backed(S) => Backed(S)'
      BY <2>3, BlocksOf DEF Contents
    <2>7. \A cp \in InBlock(pending[c], b) : cp \in dat'[GetBlockId(cp)].content
      BY <2>4
    <2>8. Backed(stored[c])'
      <3>1. \A cp \in stored[c] :
              GetBlockId(cp) \notin spoiled' => cp \in dat'[GetBlockId(cp)].content
        BY <1>0, <2>5, <2>6
      <3>2. stored'[c] = stored[c] \cup InBlock(pending[c], b)
        BY <1>0, <2>1
      <3> QED
        BY <2>7, <3>1, <3>2
    <2>9. Backed(manifest[c])' /\ ManifestBacked'
      BY <1>0, <2>1, <2>5, <2>6
    <2> QED
      BY <1>0, <2>8, <2>9
  <1>12. CASE DivertBlock(c)
    BY <1>0, <1>12 DEF DivertBlock, Spoil, LeaveBlock, Report, flush
  <1>13. CASE MovesFail(c)
    BY <1>0, <1>13 DEF MovesFail, Spoil, LeaveBlock, Report, files, flush
  <1>14. CASE FinishBlocks(c)
    BY <1>0, <1>14 DEF FinishBlocks, files, locks, flush
  <1>15. CASE SkipManifest(c)
    BY <1>0, <1>15 DEF SkipManifest, EndFlush, files, locks
  <1>16. CASE LockManifest(c)
    BY <1>0, <1>16 DEF LockManifest, files, memory, flush
  <1>17. CASE AppendManifestJournal(c)
    BY <1>0, <1>17 DEF AppendManifestJournal, locks, flush
  <1>18. CASE AppendFails(c)
    BY <1>0, <1>18 DEF AppendFails, EndFlush, ReleaseManifest
  <1>19. CASE SaveManifest(c)
    BY <1>0, <1>19 DEF SaveManifest, locks, memory, flush
  <1>20. CASE SaveFails(c)
    BY <1>0, <1>20 DEF SaveFails, EndFlush, ReleaseManifest
  <1>21. CASE PublishManifest(c)
    BY <1>0, <1>21 DEF PublishManifest, locks, memory, flush
  <1>22. CASE PublishFails(c)
    BY <1>0, <1>22 DEF PublishFails, EndFlush, ReleaseManifest, files
  <1>23. CASE ClearJournal(c)
    BY <1>0, <1>23 DEF ClearJournal, EndFlush, ReleaseManifest
  <1>24. CASE CleanupOrphans(c)
    BY <1>0, <1>24 DEF CleanupOrphans, Deleted, Forget, locks
  <1> QED
    BY <1>1, <1>2, <1>3, <1>4, <1>5, <1>6, <1>7, <1>8, <1>9, <1>10, <1>11, <1>12, <1>13,
       <1>14, <1>15, <1>16, <1>17, <1>18, <1>19, <1>20, <1>21, <1>22, <1>23, <1>24
       DEF Live, Continue

\* Publishing and clearing the journal leave the recorded glyphs as they were.
LEMMA RecordsStep ==
    ASSUME OneClient, IInv, SoloInv, NEW c \in Clients, Live(c)
    PROVE  journal' # Torn /\ (\A d \in Clients : ~partial[d])
             => DiskManifest \subseteq DiskManifest'
  <1> DEFINE Grows == journal' # Torn /\ (\A d \in Clients : ~partial[d])
                        => DiskManifest \subseteq DiskManifest'
  <1> SUFFICES Grows
    OBVIOUS
  <1> USE DEF history, Goto, TypeOK, Knowing, DiskManifest, Committing, Whole, NoFile, Torn
  <1>0. TypeOK /\ Knowing
    BY DEF IInv, SoloInv, OneClient
  <1>1. CASE Close(c)
    BY <1>0, <1>1 DEF Close, files, locks, memory, flush
  <1>2. CASE Crash(c)
    BY <1>0, <1>2 DEF Crash, Forget
  <1>3. CASE FlushArena(c)
    BY <1>0, <1>3 DEF FlushArena, files, locks, flush
  <1>4. ASSUME NEW cp \in Codepoints, TryLoadGlyph(c, cp) PROVE Grows
    BY <1>0, <1>4 DEF TryLoadGlyph, Consult, files, locks, flush
  <1>5. ASSUME NEW cp \in Codepoints, StoreGlyph(c, cp) PROVE Grows
    BY <1>0, <1>5 DEF StoreGlyph, Consult, LoadManifest, files, locks, flush
  <1>6. ASSUME NEW b \in BlockIds, LockBlock(c, b) PROVE Grows
    BY <1>0, <1>6 DEF LockBlock, files, memory, flush
  <1>7. ASSUME NEW b \in BlockIds, BlockLockTimeout(c, b) PROVE Grows
    BY <1>0, <1>7 DEF BlockLockTimeout, files, locks, memory, flush
  <1>8. CASE MergeBlock(c)
    BY <1>0, <1>8 DEF MergeBlock, files, locks
  <1>9. CASE WriteTmp(c)
    BY <1>0, <1>9 DEF WriteTmp, locks, memory, flush
  <1>10. CASE WriteTmpFails(c)
    BY <1>0, <1>10 DEF WriteTmpFails, LeaveBlock, flush
  <1>11. CASE RenameBlock(c)
    BY <1>0, <1>11 DEF RenameBlock, LeaveBlock, Report, flush
  <1>12. CASE DivertBlock(c)
    BY <1>0, <1>12 DEF DivertBlock, LeaveBlock, Report, flush
  <1>13. CASE MovesFail(c)
    BY <1>0, <1>13 DEF MovesFail, LeaveBlock, Report, files, flush
  <1>14. CASE FinishBlocks(c)
    BY <1>0, <1>14 DEF FinishBlocks, files, locks, flush
  <1>15. CASE SkipManifest(c)
    BY <1>0, <1>15 DEF SkipManifest, EndFlush, files, locks
  <1>16. CASE LockManifest(c)
    BY <1>0, <1>16 DEF LockManifest, files, memory, flush
  <1>17. CASE AppendManifestJournal(c)
    BY <1>0, <1>17 DEF AppendManifestJournal, locks, flush
  <1>18. CASE AppendFails(c)
    BY <1>0, <1>18 DEF AppendFails, EndFlush, ReleaseManifest
  <1>19. CASE SaveManifest(c)
    BY <1>0, <1>19 DEF SaveManifest, locks, memory, flush
  <1>20. CASE SaveFails(c)
    BY <1>0, <1>20 DEF SaveFails, EndFlush, ReleaseManifest
  <1>21. CASE PublishManifest(c)
    <2>1. loaded[c] /\ manifestTmp = Whole(manifest[c])
      BY <1>0, <1>21 DEF PublishManifest
    <2>2. manifestDat'.content = manifest[c] /\ journal' = journal
      BY <1>21, <2>1 DEF PublishManifest
    <2> QED
      BY <1>0, <2>1, <2>2
  <1>22. CASE PublishFails(c)
    BY <1>0, <1>22 DEF PublishFails, EndFlush, ReleaseManifest, files
  <1>23. CASE ClearJournal(c)
    <2>1. loaded[c] /\ manifestDat = Whole(manifest[c])
      BY <1>0, <1>23 DEF ClearJournal
    <2>2. manifestDat.content = manifest[c] /\ manifestDat' = manifestDat
      BY <1>23, <2>1 DEF ClearJournal
    <2> QED
      BY <1>0, <2>1, <2>2
  <1>24. CASE CleanupOrphans(c)
    BY <1>0, <1>24 DEF CleanupOrphans, Deleted, Forget, locks
  <1> QED
    BY <1>1, <1>2, <1>3, <1>4, <1>5, <1>6, <1>7, <1>8, <1>9, <1>10, <1>11, <1>12, <1>13,
       <1>14, <1>15, <1>16, <1>17, <1>18, <1>19, <1>20, <1>21, <1>22, <1>23, <1>24
       DEF Live, Continue

\* Opening the cache reads nothing yet.
LEMMA SoloOpen ==
    ASSUME OneClient, IInv, SoloInv, NEW c \in Clients, Open(c)
    PROVE  SoloInv'
  <1>1. /\ pc[c] = "down" /\ pc' = [pc EXCEPT ![c] = "idle"]
        /\ UNCHANGED <<files, locks, memory, flush, history>>
    BY DEF Open, Goto
  <1>2. pc \in [Clients -> PCs]
    BY DEF IInv, TypeOK
  <1> QED
    BY <1>1, <1>2 DEF SoloInv, Undiverted, Writing, Knowing, Recorded, ManifestBacked,
       Backed,
                      DiskManifest, files, memory, flush, history

\* Every step of the one client preserves what it alone can rely on.
LEMMA SoloStep == OneClient /\ IInv /\ SoloInv /\ [Next]_vars => SoloInv'
  <1> SUFFICES ASSUME OneClient, IInv, SoloInv, [Next]_vars PROVE SoloInv'
    OBVIOUS
  <1>1. ASSUME NEW c \in Clients, Live(c) PROVE SoloInv'
    BY <1>1, UndivertedKept, WritingKept, KnowingKept, RecordedKept DEF SoloInv
  <1>2. CASE UNCHANGED vars
    BY <1>2 DEF SoloInv, Undiverted, Writing, Knowing, Recorded, ManifestBacked, Backed,
                DiskManifest, vars, files, memory, flush, history
  <1> QED
    BY <1>1, <1>2, SoloOpen DEF Next

\* One client's invariant, from IInv and what holds besides.
LEMMA SoloInvariance == OneClient => (Spec => []SoloInv)
  <1> SUFFICES ASSUME OneClient PROVE Spec => []SoloInv
    OBVIOUS
  <1>1. IInv /\ SoloInv /\ [Next]_vars => SoloInv'
    BY SoloStep
  <1> QED
    BY SoloInit, Invariance, <1>1, PTL DEF Spec

\* With one client at a time, no record points at a glyph that is not in its block,
\* at whatever file operation the client before it died, unless the block was
\* diverted to .old or replaced without having been read (MSDFCache.cpp:274-428).
THEOREM OwnManifestBacked == OneClient => (Spec => []ManifestBacked)
  <1> SUFFICES ASSUME OneClient PROVE Spec => []ManifestBacked
    OBVIOUS
  <1>1. Spec => []SoloInv
    BY SoloInvariance
  <1>2. SoloInv => ManifestBacked
    BY DEF SoloInv, Recorded
  <1> QED
    BY <1>1, <1>2, PTL

\* With one client at a time, no step forgets a recorded glyph but a crash or
\* failure that cuts the journal short, and the steps of a client that could not
\* read all of what it replaces (MSDFCache.cpp:135-166, 215-272).
THEOREM OwnRecordsKept == OneClient => (Spec => RecordsKept)
  <1> SUFFICES ASSUME OneClient PROVE Spec => RecordsKept
    OBVIOUS
  <1>1. Spec => []SoloInv
    BY SoloInvariance
  <1>2. IInv /\ SoloInv /\ [Next]_vars
          => [journal' # Torn /\ (\A c \in Clients : ~partial[c])
                => DiskManifest \subseteq DiskManifest']_vars
    <2> SUFFICES ASSUME IInv, SoloInv, Next
                 PROVE  journal' # Torn /\ (\A c \in Clients : ~partial[c])
                          => DiskManifest \subseteq DiskManifest'
      OBVIOUS
    <2>1. ASSUME NEW c \in Clients, Open(c) PROVE DiskManifest \subseteq DiskManifest'
      BY <2>1 DEF Open, files, DiskManifest
    <2> QED
      BY <2>1, RecordsStep DEF Next
  <1> QED
    BY <1>1, <1>2, Invariance, PTL DEF Spec, RecordsKept
===============================================================================
