------------------------------ MODULE GlyphAtlas ------------------------------
(***************************************************************************)
(* The texture side of an MSDF font: the pool of glyph metrics, the atlas  *)
(* pages, and the text geometry that refers to them.                       *)
(*                                                                         *)
(* A frame's batch of strings is checked (stale geometry is dropped and    *)
(* built anew, with raw code points for coordinates), the code points are  *)
(* prefetched, and then each string's raw quads get atlas coordinates.  A  *)
(* page that is needed when all are full is evicted; the number of         *)
(* evictions, kept in seven bits of a string's flags, tells old geometry.  *)
(* The highest of these bits is also the engine-side mark "still raw".     *)
(***************************************************************************)
EXTENDS Naturals, Sequences, FiniteSets, FiniteSetsExt

CONSTANTS
    Codepoints,       \* numbers
    Width, Height,    \* of each code point's field; 0 for an empty glyph
    Unloadable,       \* code points FreeType fails on
    Bytes,            \* the code points a character's bytes are prefetched as
    Strings, Texts,   \* CGxStrings, and what may be written in them
    ATLAS_SIZE, ATLAS_GUTTER, MAX_ATLAS_PAGES,
    Half,             \* 2^6 in the code: the versions below the highest bit
    MaxEvictions      \* bound on the evictions of a behaviour

VARIABLES
    font,      \* [pool, pages, oldest, evictions] of the MSDFFont
    device,    \* "up"; "lost": no texture is created; "stuck": none is locked
    strings,   \* [text, quads, mark] of each string
    todo,      \* strings of this frame's batch still to be processed
    began,     \* history: the eviction count at the start of the frame
    tainted,   \* history: strings processed after an eviction of that frame
    since      \* history: the eviction count when a string's quads got places

vars == <<font, device, strings, todo, began, tainted, since>>

NoRect == [page |-> 0, x |-> 0, y |-> 0]
Rects == [page : 1..MAX_ATLAS_PAGES, x : 0..ATLAS_SIZE, y : 0..ATLAS_SIZE]
RawRect == [page |-> 0, x |-> 1, y |-> 1]   \* u = 1 + codepoint
Quads == [cp : Codepoints, at : Rects \cup {NoRect, RawRect}]

\* The high byte of m_flags: stamped (0x80), raw (0x40), and six bits more.
\* A stamped string's version is made of `raw' and `low'.
Marks == [stamped : BOOLEAN, raw : BOOLEAN, low : 0..(Half - 1)]
NoMark == [stamped |-> FALSE, raw |-> FALSE, low |-> 0]
Version(n) == [stamped |-> TRUE, raw |-> (n \div Half) % 2 = 1, low |-> n % Half]

TypeOK ==
    /\ \A cp \in DOMAIN font.pool : font.pool[cp] \in Rects \cup {NoRect}
    /\ DOMAIN font.pool \subseteq Codepoints \ Unloadable
    /\ Len(font.pages) <= MAX_ATLAS_PAGES
    /\ \A i \in DOMAIN font.pages : /\ font.pages[i].nextX \in 0..ATLAS_SIZE
                                    /\ font.pages[i].nextY \in 0..ATLAS_SIZE
    /\ font.oldest \in 1..MAX_ATLAS_PAGES
    /\ font.evictions \in 0..MaxEvictions
    /\ device \in {"up", "lost", "stuck"}
    /\ \A s \in Strings : /\ strings[s].text \in Texts /\ strings[s].mark \in Marks
                          /\ \A i \in DOMAIN strings[s].quads : strings[s].quads[i] \in Quads
    /\ todo \subseteq Strings /\ tainted \subseteq Strings
    /\ \A s \in Strings : since[s] \in 0..font.evictions

NewPage == [nextX |-> ATLAS_GUTTER, nextY |-> ATLAS_GUTTER, rowHeight |-> 0,
            placed |-> {}, left |-> {}]
NewFont == [pool |-> <<>>, pages |-> <<>>, oldest |-> 1, evictions |-> 0]

Init ==
    /\ font = NewFont /\ device = "up"
    /\ strings \in [Strings -> {[text |-> t, quads |-> <<>>, mark |-> NoMark] : t \in Texts}]
    /\ todo = {} /\ began = 0 /\ tainted = {}
    /\ since = [s \in Strings |-> 0]

-------------------------------------------------------------------------------
\* MSDFFont.  `placed' has a page's codepoints with the places they were copied
\* to, `left' what its texture still shows of glyphs it was emptied of.

FitsRow(p, cp) == /\ p.nextX + Width[cp] + ATLAS_GUTTER <= ATLAS_SIZE
                  /\ p.nextY + Height[cp] + ATLAS_GUTTER <= ATLAS_SIZE
RowBelow(p) == p.nextY + p.rowHeight + ATLAS_GUTTER
FitsBelow(p, cp) == RowBelow(p) + Height[cp] + ATLAS_GUTTER <= ATLAS_SIZE

Row(p, cp) == IF FitsRow(p, cp) THEN p
              ELSE [p EXCEPT !.nextX = ATLAS_GUTTER, !.nextY = RowBelow(p), !.rowHeight = 0]

\* The pixels are copied to the row's end.
Copy(p, cp) ==
    [nextX |-> p.nextX + Width[cp] + ATLAS_GUTTER, nextY |-> p.nextY,
     rowHeight |-> IF Height[cp] > p.rowHeight THEN Height[cp] ELSE p.rowHeight,
     placed |-> p.placed \cup {[cp |-> cp, x |-> p.nextX, y |-> p.nextY]},
     left |-> p.left]

Put(f, i, cp) ==
    LET p == Row(f.pages[i], cp) IN
    [f EXCEPT !.pages[i] = IF device = "stuck" THEN p ELSE Copy(p, cp),
              !.pool[cp] = IF device = "stuck" THEN NoRect
                           ELSE [page |-> i, x |-> p.nextX, y |-> p.nextY]]

\* A page starts anew; its texture is cleared only if it can be locked.
Emptied(p) ==
    [NewPage EXCEPT !.left = IF device = "stuck" THEN p.left \cup p.placed ELSE {}]

\* The oldest page is emptied and its glyphs leave the pool.
Evict(f) ==
    LET gone == {g.cp : g \in f.pages[f.oldest].placed} IN
    [pool |-> [cp \in DOMAIN f.pool \ gone |-> f.pool[cp]],
     pages |-> [f.pages EXCEPT ![f.oldest] = Emptied(@)],
     oldest |-> (f.oldest % MAX_ATLAS_PAGES) + 1,
     evictions |-> f.evictions + 1]

\* UploadGlyphToAtlas, as what becomes of the font and what the caller's
\* metrics say.  Erasing from the pool moves its last element, the glyph at
\* hand, so that the metrics are written to where it was: the caller still
\* reads them there, but the pool's entry never gets them.
UploadGlyphToAtlas(f, cp) ==
    LET open == {i \in DOMAIN f.pages : FitsRow(f.pages[i], cp) \/ FitsBelow(f.pages[i], cp)}
        full == Len(f.pages) = MAX_ATLAS_PAGES
        made == [f EXCEPT !.pages = Append(@, NewPage)]
        put == IF open # {} THEN Put(f, Min(open), cp)
               ELSE IF full THEN Put(Evict(f), f.oldest, cp)
               ELSE IF device = "lost" THEN f ELSE Put(made, Len(made.pages), cp)
    IN  [font |-> [put EXCEPT !.pool[cp] = IF open = {} /\ full THEN NoRect ELSE @],
         at |-> put.pool[cp]]

\* GetGlyph: a pooled glyph is returned as it is, also when its upload failed.
GetGlyph(f, cp) ==
    IF cp \in DOMAIN f.pool THEN [font |-> f, at |-> f.pool[cp]]
    ELSE IF cp \in Unloadable THEN [font |-> f, at |-> RawRect]   \* nullptr
    ELSE LET g == [f EXCEPT !.pool = [c \in DOMAIN @ \cup {cp} |->
                                        IF c = cp THEN NoRect ELSE @[c]]]
         IN  IF Width[cp] = 0 THEN [font |-> g, at |-> NoRect] ELSE UploadGlyphToAtlas(g, cp)

\* mutant: the page count restarts but not the versions
ClearAllKeepsCount(f) == [f EXCEPT !.pool = <<>>, !.pages = <<>>, !.oldest = 1]

ClearAllCache(f) ==
    [pool |-> <<>>, pages |-> <<>>, oldest |-> 1, evictions |-> f.evictions + 1]

-------------------------------------------------------------------------------
\* A frame.

\* CheckGeometryHk, up to the engine's own check.
Checked(s) == IF s.mark.stamped /\ s.mark # Version(font.evictions)
              THEN [s EXCEPT !.quads = <<>>, !.mark = NoMark] ELSE s

\* The engine builds missing geometry; InitializeTextLineHk marks it raw.
IsBuilt(s) == Checked(s).quads = <<>>
Built(s) ==
    IF ~IsBuilt(s) THEN Checked(s)
    ELSE [text |-> s.text,
          quads |-> [i \in DOMAIN s.text |-> [cp |-> s.text[i], at |-> RawRect]],
          mark |-> [Checked(s).mark EXCEPT !.raw = TRUE]]

\* ... and notes its bytes, unless it was marked before.
Noted(s) == IF IsBuilt(s) /\ ~Checked(s).mark.raw
            THEN UNION {Bytes[s.text[i]] : i \in DOMAIN s.text} ELSE {}

\* PrefetchCodepoints: what was noted, in order.
Prefetched(cps) ==
    LET loop[cp \in 0..Max(Codepoints)] ==
          IF cp = 0 THEN font
          ELSE IF cp \in cps THEN GetGlyph(loop[cp - 1], cp).font ELSE loop[cp - 1]
    IN  loop[Max(Codepoints)]

BeginFrame(batch) ==
    /\ todo = {} /\ batch # {}
    /\ todo' = batch
    /\ strings' = [s \in Strings |-> IF s \in batch THEN Built(strings[s]) ELSE strings[s]]
    /\ font' = Prefetched(UNION {Noted(strings[s]) : s \in batch})
    /\ font'.evictions <= MaxEvictions
    /\ began' = font.evictions
    /\ UNCHANGED <<device, tainted, since>>

\* The loop over the quads, from the state of the font before it.
Resolve(acc, q) ==
    IF q.at # RawRect THEN [acc EXCEPT !.quads = Append(@, q)]
    ELSE LET g == GetGlyph(acc.font, q.cp)
         IN  [font |-> g.font, quads |-> Append(acc.quads, [cp |-> q.cp, at |-> g.at])]

Resolved(quads) ==
    LET loop[q \in 0..Len(quads)] ==
          IF q = 0 THEN [font |-> font, quads |-> <<>>] ELSE Resolve(loop[q - 1], quads[q])
    IN  loop[Len(quads)]

ProcessGeometry(s) ==
    /\ s \in todo
    /\ todo' = todo \ {s}
    /\ IF strings[s].mark.raw
       THEN LET r == Resolved(strings[s].quads) IN
            /\ font' = r.font
            /\ strings' = [strings EXCEPT ![s].quads = r.quads,
                                          ![s].mark = Version(r.font.evictions)]
            /\ tainted' = IF r.font.evictions # began THEN tainted \cup {s}
                          ELSE IF r.quads # strings[s].quads THEN tainted \ {s} ELSE tainted
            /\ since' = IF r.quads # strings[s].quads
                          THEN [since EXCEPT ![s] = r.font.evictions] ELSE since
       ELSE UNCHANGED <<font, strings, tainted, since>>
    /\ font'.evictions <= MaxEvictions
    /\ UNCHANGED <<device, began>>

-------------------------------------------------------------------------------
\* Between frames.

\* The engine drops a string's geometry with its text; the mark stays.
SetText(s, t) ==
    /\ todo = {} /\ t # strings[s].text
    /\ strings' = [strings EXCEPT ![s].text = t, ![s].quads = <<>>]
    /\ UNCHANGED <<font, device, todo, began, tainted, since>>

DeviceChanges(d) ==
    /\ d # device
    /\ device' = d
    /\ UNCHANGED <<font, strings, todo, began, tainted, since>>

\* IDestroyD3d: the atlases go with the device.
DestroyDevice ==
    /\ todo = {} /\ font.evictions < MaxEvictions
    /\ font' = ClearAllCache(font) /\ device' = "lost"
    /\ UNCHANGED <<strings, todo, began, tainted, since>>

Next ==
    \/ \E batch \in SUBSET Strings : BeginFrame(batch)
    \/ \E s \in Strings : ProcessGeometry(s) \/ \E t \in Texts : SetText(s, t)
    \/ \E d \in {"up", "lost", "stuck"} : DeviceChanges(d)
    \/ DestroyDevice

Spec == Init /\ [][Next]_vars

-------------------------------------------------------------------------------
\* Properties.

\* What a glyph takes of a page, and its gutter.
Right(g) == g.x + Width[g.cp] + ATLAS_GUTTER
Bottom(g) == g.y + Height[g.cp] + ATLAS_GUTTER
Apart(g, h) == Right(g) <= h.x \/ Right(h) <= g.x \/ Bottom(g) <= h.y \/ Bottom(h) <= g.y
At(at, cp) == [cp |-> cp, x |-> at.x, y |-> at.y]

\* The glyph was copied to the place, inside the page, and no other one since
\* the page was emptied over it or nearer than the gutter.
Shows(at, cp) ==
    /\ at.page \in DOMAIN font.pages
    /\ LET placed == font.pages[at.page].placed
           g == At(at, cp)
       IN  /\ g \in placed /\ Right(g) <= ATLAS_SIZE /\ Bottom(g) <= ATLAS_SIZE
           /\ \A h \in placed \ {g} : Apart(g, h)

\* Nor do pixels from before the page was emptied lie there.
Clear(at, cp) == \A h \in font.pages[at.page].left : Apart(At(at, cp), h)

\* The page's texture could not be cleared when it was emptied.
Soiled(at) == font.pages[at.page].left # {}

Current(s) == strings[s].mark = Version(font.evictions)
Wrong(s) == \E q \in Range(strings[s].quads) :
                /\ q.at \notin {NoRect, RawRect}
                /\ ~Shows(q.at, q.cp) \/ (~Clear(q.at, q.cp) /\ ~Soiled(q.at))

\* Seven bits tell a count from the 2 * Half - 1 before it.
Recent(s) == font.evictions - since[s] < 2 * Half

\* Geometry that counts as current shows its own glyphs or nothing, if the
\* frame that gave it its places evicted no page: also after its text changed,
\* after frames it was not drawn in, after new rows and evictions, after the
\* device was replaced.  Three things are excepted.  A page that was evicted
\* while its texture could not be locked is used again with the old pixels in
\* it, which may show within the gutter of a new glyph (Soiled).  A string that
\* is not drawn for 2 * Half evictions or more finds its version in use again
\* (Recent).  And a caller whose upload evicted a page reads the metrics where
\* they were before the pool moved them; they are taken to be there still.
CurrentIsRight ==
    todo = {} => \A s \in Strings \ tainted : Current(s) /\ Recent(s) => ~Wrong(s)

\* What MSDF.cpp:152 says of the check ("force re-calc geometry if any msdf
\* page was evicted"): geometry that refers to an evicted page does not
\* count as current when the next frame begins.
EvictionForcesRecalc == todo = {} => \A s \in Strings : Current(s) => ~Wrong(s)
===============================================================================
