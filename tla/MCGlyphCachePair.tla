--------------------------- MODULE MCGlyphCachePair ---------------------------
(* Two clients, one life each or two for one, that share one block of two  *)
(* glyphs and flush each glyph.  At most one of them reads an .old file,   *)
(* and both can read the manifest.                                         *)
EXTENDS GlyphCache, TLC

Symmetry == Permutations(Clients)

Diverted == {c \in Clients : \E b \in BlockIds : path[c][b] = "old"}
Bounded == Cardinality(Diverted) <= 1 /\ \A c \in Clients : ~partial[c]

\* What a .tmp file holds matters when it is about to be moved, and then alone:
\* it is written anew before that.  The history of spoiled blocks is not this
\* run's.
TmpOf(b) == IF \E c \in Clients : pc[c] = "rename" /\ cur[c] = b THEN tmp[b] ELSE NoFile
TmpOfManifest == IF \E c \in Clients : pc[c] = "publish" THEN manifestTmp ELSE NoFile

Matters ==
    <<dat, old, [b \in BlockIds |-> TmpOf(b)], manifestDat, TmpOfManifest, journal,
      locks, pc, memory, flush, lives, basis>>
===============================================================================
