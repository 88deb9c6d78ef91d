# A TLA+ model of awesome_wotlk

awesome_wotlk is a DLL that is loaded into the 3.3.5a game client and hooks it: it
replaces bitmap fonts by MSDF fonts with an on-disk glyph cache, keeps a registry of
nameplates and reports them to add-ons, adds text to speech, camera, interaction and
highlight features, and configures all of it through CVars. This directory models the
parts of it that keep state, checks the models with TLC, and proves with TLAPS every safety
property of the runs that pass (two of them for one client of the cache). Paths are relative to `src/`, file names without a path are in
`src/src/AwesomeWotlkLib`.

## Inventory

| Component | State | Operations | Interacts with | Hard because | Correct when |
|---|---|---|---|---|---|
| Block arena (MSDFManager) | 16 address slots, `s_mappedBlocks`, `s_blockCache`, last-block shortcut | GetOrLoadMappedBlock, LoadGlyph, FreeBlockByKey, FlushAll | called by every MSDFCache of the process | a slot limit, failing loads, a file replaced under a mapping | what it serves is the block asked for, as its file is now; no slot is lost |
| Glyph cache (MSDFCache) | block files, `.tmp`, `.old`, manifest, journal, two kinds of lock files; in memory `m_manifest`, `m_pendingWrites`, `m_blockWrap` | TryLoadGlyph, StoreGlyph, FlushPendingWrites, WriteBlockFile, SaveManifest, CleanupOrphans | the arena; other game clients on the same directory | processes interleave at each file operation and die at any of them; writes and moves fail; locks time out | published files are whole, records lead to glyphs, records survive |
| Block contents | sorted entries, hash table, payload | the merge in WriteBlockFile, LoadGlyph | cache, arena | index arithmetic over three moving layouts, repeated drawings | every recorded glyph reads back its own pixels |
| Glyph pool and atlas (MSDFFont, MSDF) | pool of metrics, atlas pages, eviction count, geometry versions | GetGlyph, UploadGlyphToAtlas, ProcessGeometry, CheckGeometryHk | cache, D3D | eviction during an insertion, a 7-bit version | geometry that counts as current shows its own glyphs |
| Font engine (MSDF, MSDFFont) | mode, redirection, libraries, faces, `s_fontHandles` | CVarHandler_MSDFMode, the FreeType hooks, Register, Shutdown | the client's FreeType, its own FreeType and msdfgen | two libraries behind one set of functions, a mode changed between their calls | no library gets another one's handle |
| Font validator | none | FlattenMsdfContour, HasSelfIntersections | font engine | which pairs of edges may be left out | an accepted outline does not cross itself |
| Direct3D | managed resources, their pointers | create, release, reset and restore hooks | MSDF | resources fail one by one, a reset in the middle of use | nothing registered is alive at a reset |
| Nameplates: registry | `byId`, `entries`, `pending`, flags per entry | UpdateNamePlatePositionsHk, UpdateReactionHk, CVar and Lua handlers, clearAll | engine plates and units; add-ons through events | plates are recycled between frames; handlers run inside the frame | events alternate and agree with lists and look-ups |
| Nameplates: layout, focus, alpha | offsets, pair states, order of `entries`, focus, alpha | the frame's sorts and pushes, PairsManager, SetNamePlateFocusHk, SetFrameAlpha hook | cursor, target, units | what one frame decides is the input of the next | plates do not overlap, forget old units, keep the mouse, finish fading |
| Voice chat: utterances | `g_streamMap`, `g_pendingEvents`, the voice object, two mutexes | SpeakText, StopSpeakingText, OnSpeechNotifyCallback, OnUpdate, enter and leave world | SAPI, add-ons | callbacks, a detached thread, handlers called under a lock | each utterance ends in one event |
| Voice chat: voices | `g_cachedVoices`, references on tokens, voice id | RefreshVoices, the settings | SAPI, CVars | voices come and go at any time, references by hand | a cached voice can be used |
| Highlight (Misc) | mode, attached hook, lit objects | CVar handler, CheckForPassiveHighlightHk | engine objects | objects before and after the switch, repeated attaches | what is lit is what the mode names |
| Interaction (Misc) | queued guid, keyword flags | lua_QueueInteract, ProcessQueuedInteraction, /interact, @cursor, @playerlocation | engine objects, add-ons | a guid used later, a callback registered at every UI load | one click per request, on what it chose |
| Camera | four tables of obstructing models | IntersectHk, two CVar handlers | engine models | timers outlive the obstruction, repeated attaches, models unload | a faded model is restored |
| Command line | options, two `once` flags | login and character screens' hooks | engine's glue screens | the screens come back | each option acts once and gets its own value |
| Patcher | the executable on disk | find, patch, write back, copy the library | file system | failing writes, kills, reruns | patched as a whole or not at all |
| Hooks | registries of callbacks, events, CVars, tokens | register*, FireOnUpdateHk, On{Enter,Leave}WorldHk | everybody | registration at each UI load | (through the components above) |
| Unit, spell, item, inventory API; Lua binding; declarations | none | Lua queries | engine memory | - | - |
| AwesomeCVar add-on | Lua panel | display | CVars | - | - |

`MSDFPregen` is not in `CMakeLists.txt`; neither is `CombatLog`, whose `initialize` `Entry.cpp:48-61`
does not call; `VFX.cpp` is empty.

Almost everything runs on the game's main thread. The interleavings that matter are
between *processes* (several clients share the glyph cache), between the engine's frames
and the plates' life, between a handler and the add-on code it calls, between the main
thread and SAPI or a detached thread, and between CVar handlers and the engine's calls of
the hooks they switch.

## Modules

| Module | Models |
|---|---|
| `BlockStore` | abstract: a bounded cache of block files that never serves an old version |
| `BlockArena`, `BlockArenaProofs` | `MSDFManager`, with `WriteBlockFile`'s calls into it; its invariants and the refinement, proved |
| `BlockMerge`, `BlockMergeProofs` | the contents of block files through merges and reads; its five properties, proved |
| `Induction` | lemmas: induction over numbers, least and greatest members, functions by recursion |
| `GlyphCache`, `GlyphCacheProofs` | files, locks, failures and crashes of `MSDFCache`, for several clients; its invariants and `RecordsKept`, proved |
| `GlyphAtlas` | pool, pages, eviction and text geometry (`MSDFFont`, `MSDF`) |
| `FontEngine` | MSDFMode, the FreeType hooks, the life of `MSDFFont` handles |
| `ContourCheck` | `MSDFValidator` |
| `D3DResources` | managed resources of `D3D` over resets and device loss |
| `NamePlates`, `NamePlatesProofs` | registry, frame hook, events, tokens, stacking flags; its invariants and `EventsAlternate`, proved |
| `PlateLayout` | the pushes of the stacking and their limits |
| `PairMemory` | what `PairsManager` remembers of two plates |
| `PlateFocus` | which plate has the mouse |
| `PlateAlpha` | a plate's transparency |
| `VoiceChat`, `VoiceChatProofs` | an utterance's way through SAPI to the add-ons; its invariants proved |
| `VoiceList` | cached voices, token references, the chosen voice |
| `ObjectHighlight` | objectHighlightMode |
| `Interaction` | QueueInteract, /interact, @cursor, @playerlocation |
| `CameraFade` | cameraIndirectVisibility |
| `CommandLine` | login from the command line |
| `Patcher` | the tool in `AwesomeWotlkPatch` |
| `Features`, `FeaturesProofs` | the sum of eight of these (see Sums): `ObjectHighlight`, `VoiceList`, `Interaction`, `PlateLayout`, `PairMemory`, `Patcher`, `FontEngine`, `D3DResources`; its invariants, proved |
| `Loops`, `LoopsProofs` | the sum of six: `CameraFade`, `PlateFocus`, `PlateAlpha`, `GlyphAtlas`, `ContourCheck`, `CommandLine`; its invariants and `FocusSticks`, proved |

`MC*.tla` and `MC*.cfg` give the constants of a run. The glyph cache is split over three
modules because three questions are independent: *which file operation happens when*
(`GlyphCache`, where a file is the set of its glyphs), *what is inside a file* (`BlockMerge`,
where a flush is one step) and *which mapping is served* (`BlockArena`, where a file is its
version). The nameplates are split likewise: `NamePlates` decides which plates are listed for
whom, and the four others what is done with the listed ones.

Definitions named `... \* mutant:` are deliberate bugs. No specification uses them;
they are there to show that a property notices the bug.

**Sums.** Components that share no state are instantiated side by side, in `Features` and in `Loops`,
which has the ones that go over something again and again: models in the camera's way, plates under the
cursor, glyphs and quads, edges, words. Two of the six are live, and the sum has their fairness. The
constants are given by `MCFeatures`, `MCLoops` and their configurations. The variable `part`
names the one a behaviour is about; the others rest in one initial state. So the states add up
instead of multiplying, each component is explored as fully as it would be alone, and one model
shows them all. Deadlock checking sees each part, and a fairness condition is about the part's own
action and variables, `WF_cameraVars(part = "camera" /\ Camera!Intersect)`.

### BlockArena

`arena` is the record of MSDFManager's static state: `free` (freeMask), `region` (what
Windows has mapped at each slot's address), `blocks` (s_mappedBlocks), `cache`
(s_blockCache) and `last` (s_lastBlockIndex, s_lastBlockKey). `disk[k]` counts the
replacements of block k's file. The functions of MSDFManager are operators from one arena to
the next, so `WriteBlockFile` is GetOrLoad, then FreeBlockByKey, then perhaps a new version,
in the code's order. `base` is FALSE where the address range could not be reserved (before
Windows 10): then nothing is ever mapped.

### BlockMerge

`files[b]` has the sorted `entries`, the `hashTable` (0 for empty, where the code has
0xFFFFFFFF) and the `payload`, a sequence of marked bytes so that a wrong offset shows. The
merge loop is a function of its rounds (`Round`, `Merge`), the running totals of its offsets and of
the payload functions of the entry (`Ends`, `Copied`); the sort by codepoint puts each pending
glyph at its rank (`PendingOf`). StoreGlyph may draw a glyph that is already pending: the font's
pool forgets glyphs when a page is evicted, and the queue is not searched.

### GlyphCache

A client's `pc` names the file operation it is about to do; each file operation of
FlushPendingWrites, WriteBlockFile, SaveManifest, the destructor and CleanupOrphans is an
action, with its failure beside it. `dat`, `old`, `tmp`, `manifestDat`, `manifestTmp` and
`journal` are the files, `Torn` one that was cut short. `view` is what a client has mapped,
`path` the file BlockWrap points to. Any lock, load, write, move or removal may fail. A load
(`Loads`) may give no view of a whole file: there is no arena before Windows 10, and opening the
file, its section or its view may fail; the merge then starts from nothing. Any failing move, of
a file that another client has mapped or for any other reason, diverts the block to `.old`, and if
that fails too an `.old` of before is taken for the new one. A lock file's handle is closed by the
system when its process dies. `Crash` is possible before every file operation; the write under way
may leave a torn file. Three histories say what the properties except: `basis`, what a merge started
from; `spoiled`, the blocks that were replaced unread or whose glyphs went to `.old`; `partial`, that a
client could not read all of the manifest when it loaded it.

### GlyphAtlas

`font` is an `MSDFFont`'s texture side: the pool, the pages with the row being filled, the page to
be evicted next, the eviction count. Of a page, `placed` is what was copied to it since it was last
emptied, `left` what its texture still shows from before: a page that is evicted while its texture
cannot be locked keeps its old pixels (MSDFFont.cpp:164-168). A string has its text, its
quads (raw, empty, or a place on a page) and the high byte of its flags; `since` notes the eviction
count at which its quads got their places. A frame is BeginFrame
(CheckGeometryHk and the engine's rebuilding for a batch of strings, then the prefetch of their
bytes) and one ProcessGeometry per string. The bit of the flags that marks raw geometry is also
the highest bit of the version (`MSDF.cpp:144`): `Version` writes both. Erasing glyphs of an
evicted page moves the last element of the pool, the one being inserted, so the caller's
reference is to freed or moved memory; `UploadGlyphToAtlas` follows where the metrics end up, and
takes the caller to read them where they were. That it reads anything there is undefined
behaviour no property covers (a hazard in `PROJECT.json`). `CurrentIsRight` makes two more
exceptions: the old pixels of a page that could not be cleared may show within the gutter of a new
glyph (`Soiled`), and a string not drawn for 128 evictions finds its version in use again (`Recent`).
The device may lose the power to create or to lock textures, and may be destroyed.

### FontEngine

`attached` counts the attaches of the MSDFMode handler, which detaches never. The first call of
the hook latches `initialized`, `unsafe` and `redirected`. `library` and each face's `maker` tell the
client's FreeType from the linked one, `msdf` numbers msdfgen's libraries, and `fonts` is
`s_fontHandles`, by face. The client may close its library without closing its faces, and a
face's address may be reused: those are what the two halves of `HandlesStayHome` are about.
`s_cachedPS` and `s_cachedVS` are not in the model: they are never reset when the device goes
(`MSDF.cpp:504`), and whether the engine keeps its shaders is not in the repository.

### ContourCheck

Points on an integer grid, so that orientation is exact; FLATTEN_EPS is half a unit. An outline
is checked in one step; the constants range over *all* polygons of a grid, degenerate ones too,
so the run is an exhaustive comparison of the loop and its exceptions with the definition of
a crossing. Outlines that pass a corner twice, or touch themselves there, are accepted.

### D3DResources

`managed` is the registry by the address of the caller's pointer, `held` and `surfaced` the
pointers that are not null, `alive` the references Direct3D counts. Each resource may fail to be
created or restored on its own, and a texture that cannot be locked to be cleared stays
unregistered. The engine is assumed to release before it destroys its device. No caller in the
compiled program asks for autoCleanup yet; the model is of what the interface promises to one
that does.

### NamePlates

The engine's side is `shown`, `owner` (m_ownerGuid), `plateOf` (m_nameplate), `alive`,
`named`, `friends`; it moves only between frames (`phase = "idle"`). The module's side is
`id` (byId), `guid`, `active` (IS_ACTIVE), `friendly`, `transient`, `stacks`, `entries` (how
often the vector holds a plate) and `pending`. A frame is BeginFrame, one ScanPlate per child
in any order, FlushRemoved, one FlushAdded per pending plate in the order of ids, ClearPending.
`event` is the event whose handlers are running; while there is one, `AddonStep` lets an
add-on hide plates, override stacking and set the CVar. NAME_PLATE_CREATED is delivered before
the entry is filled in, so it is a step of its own. `told` is history: what add-ons were last
told about a plate.

Two facts about the engine are assumed, because the hook relies on them. A plate
taken back from a living unit is hidden in the same frame, and a unit that left does not come
back while its old plate is still shown. Without them a plate can be active with guid 0 (a
hazard in `PROJECT.json`).

GetNamePlateTokenByGUID, GetNamePlateByGUID and GetNamePlates are operators over
that state; `ListsWhatWasTold` and the two `...Resolves` properties compare them with `told`.

### PlateLayout, PairMemory, PlateFocus, PlateAlpha

*Layout.* A frame sinks last frame's offsets back, sorts from the bottom up, goes through the
pairs in the order of the code's two loops and limits the result, as `updVis` does: upwards by the
greatest raise and, for clamped plates, the upper edge; downwards by the lower edge, in the clamp
modes for all edges (`edges`, chosen each frame). Which plates come too close
is chosen anew each frame (`near`), since horizontal pulls and hysteresis only change that. In
the smart modes a plate may let another pass; which one is chosen (`Throughs`). `StacksApart` makes
two exceptions, which the code has, because the loops do not come back to a pair in that frame: the
limits may lower the upper plate of two into the lower, or lift the lower into the upper (`Brought`);
and when a third plate outranks the lower of the two, it may move either of them after they have been
settled. Heights are whole numbers, coarser than the comparator's EPS, so that its order is not
transitive on nearly equal heights is not covered (a hazard in `PROJECT.json`).
The run's ranks, one plate below two of the same rank, have the case where that third is no higher
than the upper one.

*Pairs.* Only whether a stamp is of this frame's instant matters, so times are "now", "old" and
"none"; two frames may share a millisecond (`tick`). A pair that both plates have marked is
settled twice in a frame. `MaxSteps` is not a bound of the model: the code's effect ends at five.
`Retarget` is a listed plate that has another unit than in the last frame: NamePlates.cpp:800-803
announce it again and settle none of its pairs, the same path as in the finding `nameplates_sides`. So
`MemoryIsTheirs` is twofold: a memory of two listed plates began with their present units (`theirs`),
or was taken over from a unit that stood there before, and then only while the two are laid out
together at every instant (`heirs`).

*Focus.* The frame's order stands until the next frame, while the engine asks for the focus with
each move of the cursor. After the target changed and before the next frame, the old target
can take the focus from the raised plate; `FocusSticks` is about the time after that frame.

*Alpha.* Integer arithmetic as in the code, steps in hundredths cut to a byte. `FadesToTarget` is
what the cutting could break: a step of less than one, or one that overshoots.

### VoiceChat, VoiceList

`sapi` is the voice object: its queue, what it speaks, the events it has posted. SAPI delivers
notifications through the message loop of the thread that registered the callback, so
OnSpeechNotifyCallback comes between calls, never inside one. SpeakText that fails tells
PLAYBACK_FAILED under `g_streamMx`: while those handlers run (`failing`), calling SpeakText
locks a `std::mutex` its thread holds, which is undefined (it blocks, or throws): `gone`, and
nothing is claimed afterwards. StopSpeakingText starts a detached thread (`stops`) that purges
when it gets to run. `g_streamMap` survives the world and keeps entries of purged streams, while
stream numbers start again with each voice: `EventsTellAStory` shows that no event is told of the
wrong utterance nonetheless. `MaxInt = 2` lets the id counter wrap, where two calls get id 1.

`VoiceList` counts the references on each token. Three of the settings enumerate the voices only to
count them and never release what they enumerated; that leak is in the model (`Leaks`, bounded
by `MaxRefs`). The voice id is an index: after an uninstall it names another voice.

### ObjectHighlight, Interaction, CameraFade

*Highlight.* Each non-zero value of the CVar attaches once more, 0 detaches once; Detours hooks
the trampoline of the first, and a call passes the hook once. The same counting is in
`CameraFade` and `FontEngine`; `nameplateClamp`'s hook is switched the same way
(`NamePlates.cpp:1274-1284`). With the
mode back at 0 a hook that was attached twice goes on lighting objects, so `LitAsAsked` claims
nothing of mode 0.

*Interaction.* `registered` counts how often lua_openmisclib has registered
ProcessQueuedInteraction, all of which run in each update. OnRightClick may run add-on code that
queues again in the middle of a click: its request is wiped, and `due` follows that.

*Camera.* Alphas are levels. `way` is what lies between player and camera, `wall` something that
stops it; FindModel and EndRound are the two outcomes of a call of the intersection test.
`originals` outlives the obstruction and must not be noted anew while the model is still fading.
The value 0 writes the alphas back without the IsBadReadPtr test that the clean-up makes
(`Camera.cpp:200`); the model writes them to freed models too, and claims nothing of those.

### CommandLine, Patcher

A launch is a sequence of options; its words keep whether they start with a dash. A value that
itself does is taken for an option by getParam, and such launches are left out. Screens come
in the order the client allows: login, characters, world, and back.

The patcher's image is as many pieces as there are of it; a write may stop after any of them
(what `ofstream::write` could not put there goes unnoticed and is reported as success), and the
tool may be killed at any step and run again on what it left. `AllOrNothing` speaks of
executables that are whole: the tool makes no backup, so a torn one stays torn, and on a torn one
a patch's address may lie behind the image's end. Original bytes are not compared.

## Runs

| Run | Shows | Bounds |
|---|---|---|
| `block_arena` | `TypeOK`, `ServesCurrentBlock` (also through the shortcut), `SlotsAccounted`, `ImplementsStore` | 3 keys for 2 slots, so that a load must flush the others; 3 versions, so that an old mapping could be two rewrites behind |
| `block_merge` | `ManifestReadable`, `SortedAndIndexed`, `MergeIsUnion`, `DuplicatesOnlyFromPending`, `TypeOK` | blocks of 4, glyphs 0, 1, 3 in one and 6 in another, of different sizes and one empty; batches of 3, room for duplicates and for overflow |
| `cache_solo` | `ManifestBacked`, `RecordsKept`, `TypeOK` | one client at a time, two lives, three glyphs in two blocks, batches of 2, at most one spoiled block |
| `cache_pair` | `FilesComplete`, `LockedMergeIsCurrent` | two clients, two lives in all, one block of two glyphs, each flushed; at most one client reads an `.old`, both can read the manifest |
| `nameplates` | `ListsWhatWasTold`, `RemovedStillResolves`, `AddedResolves`, `StacksAsAsked`, `EventsAlternate`, `TypeOK` | two plates and two units, enough to swap; modes 0 and 2 |
| `nameplates_live` | `ShownIsAnnounced` | one plate and two units, every fair behaviour |
| `nameplates_sides` | a violation, see below | one plate, two units |
| `voice` | `EventsTellAStory`, `EveryCallAnswered`, `TypeOK` | three calls (one speaking, one queued, one of a handler), two sessions, one stop thread at a time, ids up to 2 |
| `voice_stop` | a violation, see below | the same in one session |
| `features` | `LitAsAsked`, `CachedTokensHeld`, `ClicksAsAsked`, `StacksApart`, `MemoryIsTheirs`, `AllOrNothing`, `HandlesStayHome`, `NothingAliveAtReset`, `TypeOK` | five kinds of objects; three voices, one of them without a description; two objects at four places; three plates of two ranks; one pair of plates, since pairs do not affect each other; two file names and two patches; two faces and libraries; two resources |
| `loops` | `CurrentIsRight`, `AcceptedIsSimple`, `LaunchAsMeant`, `OutOfTheWayRestored`, `FocusSticks`, `FadesToTarget`, `TypeOK` | two models and a wall; three plates, two of them friends, three mouse modes; alphas 0..8 with the slowest and a fast speed, three occlusion settings; two atlas pages of at most three glyphs for four glyphs that have pixels, versions of two bits, four evictions, so that the version comes round; all triangles and quadrangles of a 3x3 grid; four launches |
| `text_evict` | a violation, see below | as `loops` |

The cache runs view a state without what a `.tmp` file holds, unless that file is about to be moved:
it is written anew before each move, so nothing else ever depends on it (`cache_pair` also leaves out the
histories its properties do not mention). Their constraints, one spoiled block and one diverted client,
leave to each failure its consequences; a second one of the same kind meets the same code. The
proofs have neither the view nor the constraints.

Deadlock is checked except in `cache_solo` and `cache_pair`, where the last life ends the game. In
`loops` a step that changes nothing (`Over`) stands for the two ends it has: an outline's check
is over with its verdict, and `MaxEvictions` may end a behaviour in the middle of a frame; in
`voice` it stands for the end of the last session.

The bounds the code does not have are `MaxVersion`, `MaxLives`, `MaxCalls`, `MaxSessions`,
`MaxStops`, `MaxAttached`, `MaxRefs`, `MaxLoads`, `MaxEvictions` and `MaxLibraries`; each is large
enough for its second and third occurrence to meet the first one's remains. `MAX_ARENA_SLOTS`,
`BLOCK_SIZE`, `WRITE_BATCH_SIZE`, `ATLAS_SIZE`, `MAX_ATLAS_PAGES`, `MaxInt` and `Half` are constants
of the code, made small. Symmetry is used for clients, plates and units in runs without temporal
properties; the models do not order them (plates are ordered by `id`, which permutes with them).

`cache_pair` claims less than `cache_solo` on purpose. With two clients the code does lose
records (SaveManifest publishes only its own) and glyphs (a merge that starts from an old view,
from an `.old` file, or from nothing because the file could not be mapped). `LockedMergeIsCurrent` is
what the lock does give: a merge that has read the file under it drops no glyph of it. One client loses
something only by the failures that `ManifestBacked` and `RecordsKept` except. Each loss costs a second
drawing, never a wrong glyph, and no document promises more.

**Fairness.** `NamePlates`: `WF_vars(Frame)`. The hook sets
`m_renderDirtyFlags |= 1` at its end and patches out the site that clears it
(`CGWorldFrame__UpdateNamePlatePositions_siteHk`), so the engine calls it every frame, and a
frame that has begun finishes, since handlers return. `VoiceChat`: SAPI speaks its queue, the
message loop dispatches its notifications, the game updates every frame, and handlers return;
nothing is assumed of the stop threads or of the add-ons. `CameraFade`: the engine tests the camera's
line of sight in each frame, while the hook is attached. `PlateAlpha`: the engine sets a shown
plate's alpha in each update. No other property is temporal, and no other fairness is assumed.

## Findings

`nameplates_sides`: `docs/api_reference.md:125` documents `nameplateStacking` 2 as "Enemy
Only (Standard)". When a plate goes from one unit to another between two frames, the hook
fires REMOVED and ADDED (NamePlates.cpp:800-803) but recomputes neither reaction nor
classification nor flags, as it does for a plate it finds inactive (809-821). A friendly
unit's plate that was an enemy's stacks in mode 2 until `UpdateReaction` is called for its
unit. The trace has an enemy, a friend and one plate; the first frame announces it for the
enemy, the second for the friend.

`voice_stop`: `docs/api_reference.md:320` says StopSpeakingText "Stops all queued or currently
playing utterances." The purge happens on a detached thread (VoiceChat.cpp:210-220): an
utterance requested after the call has returned is purged when the thread runs late.

`text_evict`: the comment at MSDF.cpp:152 says "force re-calc geometry if any msdf page was
evicted". ProcessGeometry reads the eviction count at its end, so a string whose own later glyphs
evict the page of an earlier one is stamped as current although it refers to an emptied page.
`CurrentIsRight` is what does hold: geometry whose frame evicted nothing is right as long as it
counts as current, with the exceptions named above under GlyphAtlas.

Two more things met on the way, which no run is needed for: SpeakText returns nothing, though
`docs/api_reference.md:306` says "**Returns:** `utteranceID` (number)"; and a Lua caller cannot
match events to calls after the id counter has wrapped.

## Proofs

**`BlockArenaProofs`** proves for any set of keys, any number of slots and any bound on versions,
under `ArenaAssumption` only:

- `Invariance`: `Spec => []IInv`. `ServesCurrentBlock` is not inductive: that a key's slot holds
  the key's current file is preserved only if the table, the mapped blocks, the slots' memory
  and the shortcut fit together. `IInv` adds: a table entry's slot is taken, its block has
  that key and slot index and its region that key's current version; a slot that is not free holds
  a block of the table, and without address range the table is empty; the shortcut, if set, is
  an entry of the table. It is stated of an
  arbitrary arena record, so that each operator (FreeBlock, FlushAll, GetOrLoad, ...) has its
  own lemma and a handler's step is the composition of lemmas, as the handler is of calls.
- `TypeCorrect`, `CurrentBlock`, `NoSlotLost`: the invariants of the run `block_arena`.
- `Refinement`: `Spec => ImplementsStore`. Loads map to Fill, rewrites to Rewrite, flushes
  and frees to Drop, or to a stutter.

**`BlockMergeProofs`** proves all five properties of `BlockMerge` for any codepoints, pixel sizes,
block and batch sizes, under `MergeAssumption`:

- `TypeCorrect`, `SortedAndFound`, `ReadsBack` from one invariant, `IInv`: `TypeOK`, the file of each
  block is in order (`FilesOK`), and with mapped blocks the manifest names glyphs their files hold
  (`ManifestStored`). "In order" (`FileOK`) is what the next merge relies on and no property says:
  each entry has its glyph's size and its pixels behind its offset, and the hash table is the one
  of the entries. Two entries of a block in the same cell have the same codepoint, so the entry
  that overwrote the cell serves as well.
- `MergesAreUnions` and `NoDuplicatesByMerging`, the action properties. The second counts entries
  through the loop (`Counted`): a glyph that is pending once at most ties with its first entry,
  which it replaces.
- The loops are functions of the round, and what a loop keeps (`Merging`: sorted, no glyph lost,
  nothing merged exceeds what comes next, one index moved) is an induction over rounds. tlapm cannot
  instantiate the library's induction rules, so **`Induction`** states induction of sets: one that
  has 0 and the successors of its members has every number, since adding 1 would otherwise map
  a finite set into itself without 0. From it follow least and greatest members and the
  existence of a function defined by recursion (`Recursion`), which is needed before its
  equations may be used.

**`GlyphCacheProofs`** proves for any clients, blocks, glyphs, batch and block sizes, under
`CacheAssumption`:

- `Invariance`: `Spec => []IInv`. To `TypeOK`, `FilesComplete` and `LockedMergeIsCurrent` it adds
  that a queue is finite, and empty once its glyphs are dropped (`Queues`); that a client between
  the merge and the move holds the block's lock, and one between journal and clean-up the
  manifest's (`Locking`); and that the `.tmp` file about to be moved is the mover's own and whole,
  or gone: another client's CleanupOrphans may take it, nobody else writes it (`Temporaries`).
- `TypeCorrect`, `WholeFilesOnly`, `NoGlyphOverwritten`: `TypeOK`, `FilesComplete` and
  `LockedMergeIsCurrent` for any number of clients that fail and crash at any file operation.
- `OwnManifestBacked`, `OwnRecordsKept`: `ManifestBacked` and `RecordsKept` if `OneClient`
  (`\A c, d \in Clients : c = d`). The hypothesis is the code's limit, not the proof's: with two
  clients both are false, see Runs. `SoloInv` is what a client by itself knows of the files: of a
  block that is not spoiled it reads the `.dat`, and what it has mapped is what the file holds
  (`Undiverted`); what it merged has the queued glyphs and, if it read the file, all the file has
  (`Writing`); its manifest covers the one on disk if it could read that (`Knowing`); and disk and memory
  record only glyphs that are in their blocks, spoiled ones excepted (`Recorded`). A block is
  spoiled by the very move that breaks the rest for it, which is why nothing has to be assumed of which
  operations fail. Lives follow one another, so this holds across crashes.

**`NamePlatesProofs`** proves for any finite pool of plates and any units, under `PlatesAssumption`:

- `Invariance`: `Spec => []IInv`. The properties speak of the moments between frames or of
  the moment of one event, so `IInv` says how far a frame has come: what holds of a plate the scan
  has visited and of one it has not (`InScan`), of those whose ADDED is due and of the others
  (`InFlush`), of the plate of the event being handled (`Delivering`), and between frames
  (`BetweenFrames`). `Numbering` has ids that count the registered plates, `Links` what the engine
  keeps true of units and plates, `Stacking` extends `StacksAsAsked` into the frame.
- `TypeCorrect`, `ListedAsTold`, `RemovedResolved`, `AddedResolved`, `StackedAsAsked`: the
  invariants of the run `nameplates`; `EventsInTurn`: its action property `EventsAlternate`.
  `AddedResolved` rests on FlushAdded going by id: other plates may still carry the unit's guid,
  but only ones with a higher id, and the look-up takes the first.

**`VoiceChatProofs`** proves for any bounds, under `VoiceAssumption`:

- `Invariance`: `Spec => []IInv`. An utterance is known in three places that change at
  different times: SAPI's queue and posted notifications (`Speaking`, `Posting`), `g_streamMap`
  (`Mapping`) and the events due (`Queueing`). `IInv` says they agree on how far each utterance of
  this session has come, and that what add-ons have heard is a beginning of its story (`Telling`).
  `Mapping` speaks of streams up to the voice object's last only: that is why
  entries left from an earlier session, under numbers that will be used again, do no harm.
- `TypeCorrect` and `StoriesTold`: `TypeOK` and `EventsTellAStory`.

A step of a sum is a step of one component and a stutter of the others (the lemmas `HighlightOnly`,
`CameraOnly` and so on), so each component has an invariant of its own.

**`FeaturesProofs`** proves the nine invariants of `features`, under `FeaturesAssumption`:

- of the pairs' memories `MemoryIsTheirs` is about two listed plates; `Remembered` adds what a memory
  rests on while one of them is hidden: both have marked it, and it is of this instant while either is
  listed. A plate that gets another unit turns what was `theirs` into what the `heirs` have, which ends
  at the first instant at which the two are not laid out together, since then the mark has it settled;
- in the highlight the hook is attached whenever the mode is on (`Lighting`, whence `LitAsAsked`);
- in the interaction queue what is requested is due (`Due`, whence `ClicksAsAsked`);
- in the patcher an image that is written, if it is all there, has every patch, and a file is such
  an image, cut short, or untouched (`Patching`, whence `AllOrNothing`);
- in the font engine each half of `HandlesStayHome` needs the other's history: that a face is of the
  FreeType its functions belong to survives the redirection only because no face outlives its
  library, and that a font's msdfgen library is the open one survives Done_FreeType only because there
  are no fonts before the redirection. Those two facts complete `EngineInv`;
- of the Direct3D resources `ResourcesInv` is an account: at each address the references alive are one
  for the pointer and one for the surface pointer, and between release and restore neither of a
  registered address is set (`NothingAliveAtReset`);
- in the stacking `StacksApart` is about the frame just done, so nothing is carried from frame to frame
  but types (`LayoutInv`); the invariant is that of the two loops. When the row of the lower of two
  colliding plates has come to the other, they are `Settled`: the upper one has room, or it outranks the
  lower and has made it go above. No later push undoes that (`PushKeeps`): the lower one is in none, and
  the upper one can only be raised, by a third plate of its rank or a higher one, which in the second
  case outranks the lower: that is where the exception comes from. Limits that leave the
  lower where it is or lower it, and the upper where it is or raise it, leave the two apart
  (`LimitedApart`). The order of a frame exists because a
  finite set whose members an order tells apart can be listed in it (`Induction`'s `Listings`);
- of the voices `VoicesInv` says of *every* token, whether installed or not, that the references held on it
  are at least the entries of `g_cachedVoices` with it (the choices leave more behind); a refresh gives
  back what the old list held after it has taken what the new one does. That `Found` is a list of voices
  is an induction along the enumeration (`FoundIs`);
- `TypeCorrect`: to the invariants above each component's `...Rest` adds what types they left open. Two
  of them say more than where a variable ranges: whatever the pushes of a frame did, no listed plate
  ends it raised beyond `MaxRaise` (`LayoutRest`), and on no token more references are held than
  `MaxRefs` and the one entry the list may have of it (`VoicesRest`). That it is one entry rests on what an enumeration finds: some of
  SAPI's tokens in SAPI's order, each by its own index (`FoundTells`, `HeldOnce`).

**`LoopsProofs`** proves the four invariants and `FocusSticks` of `loops`, and the safety half of its two
liveness properties, under `LoopsAssumption`:

- in the glyph atlas `AtlasInv` joins three things that change at different times. A page is `Packed`: its
  glyphs lie inside and apart, each in a row above the current one or in this row before the place where
  it goes on. A font (`FontOK`) has at most one page with a glyph's pixels, and its pool says which, so a
  page that is emptied takes no glyph of another page with it. And strings lag behind the font: one that
  is not in this frame's batch (`Rests`) carries the count of evictions of some earlier moment, and if
  none came since, every quad of it still lies where the page has its glyph, since without an eviction
  nothing ever leaves a page (`Stays`, `After`); one still to be processed (`Waits`) is raw, or of the
  count at which the frame began. Both have the version of the count they noted (`Dated`).
  `CurrentShowsItsOwn` follows because counts less than 128 apart that have the same seven bits
  are the same (`VersionsDiffer`): beyond that, see the hazards, old geometry can count as current, and
  the property excepts it (`Recent`). Nothing bounds the evictions of a session. What a page's texture
  kept from before needs no invariant, the property excepts it (`Soiled`). The loops over the
  codepoints and the quads (`PrefetchKeeps`, `ResolveKeeps`) are inductions;
- of the command line `Understood` says that what `GetParam` finds in the words is what the launch gives:
  each option begins at its own word, its value is the next one, and no other word is an option
  (`Spelled`, an induction along the launch). `LoginInv` adds that the character's list has been there
  exactly if the client has entered by itself (`LaunchAsMeant`);
- in the font validator a verdict is about an outline that stays (`ContourInv`), and the work is in the
  geometry. By Cramer's rule, where two edges cross inside, the ends of each lie strictly on two sides of
  the other (`Areas`, `Sides`), so the orientation test sees the pair (`CrossingIsSeen`), and both edges
  have a length and no end in common (`CrossingIsInside`): a pair the loop passes over because it is next
  to another, of no length or excused for a shared corner cannot be one. `AcceptedAreSimple` holds of
  outlines of any length anywhere on the grid, the run has those of a 3x3 grid. That the points the test
  is given are points at all is `FlattenSeqIs`: the community module's recursive function, joined piece
  by piece;
- of the mouse `RaisedKeepsMouse` states `FocusSticks`, a property of steps. The search and the
  frame's sort are different handlers with different ideas of which plate comes first; `FocusInv` is what
  the one leaves to the other: of the order still in use only the target is before the raised plate, so
  it is the first of any choice of plates that has it and not the target (`RaisedIsFirst`);
- of the camera `OwnAlphasKept` is what makes `OutOfTheWayRestored` worth having: a model that is
  there shows its own alpha, or is being faded with that alpha noted, so what is restored in the end is
  right. No note may be taken of a half-faded model, and none dropped early, while models unload, come back
  and the option is switched;
- of a plate's fade `FadesNearer` is the measure `FadesToTarget` needs: each step leads nearer to the
  alpha asked for and never past it, although the step is cut to a byte. That the fade arrives then follows
  from fairness, which is left to TLC;
- `TypeCorrect`: a page's place to go on stays on the page because a glyph that does not fit there starts
  a row below or a page, which it fits (`NewPageFits`); and the login and the character are each used once
  however often their screens come back (`LoginTypes`).

`FeaturesAssumption` says that SAPI has finitely many voices, objects are of the kinds the highlight tells
apart, no object has guid 0, rates and bounds are not negative, the patches lie in the executable, and the
nameplates of the stacking are finitely many, with whole numbers for ranks, heights and edges.
`LoopsAssumption` says that there are finitely many models and plates, alphas, percentages and speeds are
in the ranges the CVars clamp them to and include the defaults, outlines lie on the integer grid, an option of the command
line that is looked up has a value unless it is the last word (otherwise the next option is taken for it),
and every glyph with its gutters fits an empty atlas page (64 pixels and twice the spread of 8, against
2048: MSDF.h:37-42).

Every inductive invariant was checked by TLC on the run's constants besides (of the atlas without the
infinite type of the font).

Model-checked only are the four liveness properties `ShownIsAnnounced`, `EveryCallAnswered`,
`OutOfTheWayRestored` and `FadesToTarget`: tlapm cannot reason about ENABLED, so not about fairness. Every
other property of a passing run is a theorem, of two of them (`ManifestBacked`, `RecordsKept`) under the
hypothesis `OneClient`.

## Not modelled

- Drawing and floating point: glyph generation, shaders, vertex arithmetic, and of the nameplates
  the momentum that moves a plate towards its place (`updVis`) and the horizontal pull, which are
  filters without decisions. SHOULD_CLAMP changes with the handlers that change SHOULD_STACK.
- Settings that are one assignment: TTS rate and volume, the FoV patch.
- The rest of `Misc.cpp`: the portrait resolution (rounded up to a power of two once), the chat and
  combat log session keys (a memory patch and a stamp built once), window and clipboard functions
  (`BugFixes` has the other two).
- `Hooks.cpp`'s registries beyond what the components use of them: vectors filled once at start, or
  again at each UI load (`Interaction` has the one where that matters). `CVar::Sync`'s clamping is
  part of each handler that uses it.
- `UnitAPI`, `Spell`, `Item`, `Inventory`: stateless reads of engine memory. `GameClient.h`, `Types.h`, `Enums.h`: declarations of the engine's layout.
- `MSDFPregen`, `CombatLog`, `VFX`: not in the program. The AwesomeCVar add-on: display.
- D3D's callbacks on device creation, reset and present: nobody registers one.
- Memory layout, handles and the engine's own functions, except where their effect decides
  what the code does next (a mapped file cannot be replaced; a crash releases locks).
- `VirtualFree` and reserve in `FreeSlot` are one step; the address space is not shared
  with other threads.
- lua_openmisclib's and the plates' ids over a UI reload are modelled as the code's comment has
  it (`NamePlates.cpp:685`, "cleared on reload"): whether the engine keeps plates with ids of a
  wiped `byId` is not in the repository (a hazard in `PROJECT.json`).
