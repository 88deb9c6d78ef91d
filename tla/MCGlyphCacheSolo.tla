--------------------------- MODULE MCGlyphCacheSolo ---------------------------
(* One client, two lives; a block of two glyphs and a block of one, and a  *)
(* batch of two that can be of one block or of both.  At most one block is *)
(* spoiled.                                                                *)
EXTENDS GlyphCache

OneSpoiled == Cardinality(spoiled) <= 1

\* What a .tmp file holds matters when it is about to be moved, and then alone:
\* it is written anew before that.
TmpOf(b) == IF \E c \in Clients : pc[c] = "rename" /\ cur[c] = b THEN tmp[b] ELSE NoFile
TmpOfManifest == IF \E c \in Clients : pc[c] = "publish" THEN manifestTmp ELSE NoFile

Matters ==
    <<dat, old, [b \in BlockIds |-> TmpOf(b)], manifestDat, TmpOfManifest, journal,
      locks, pc, memory, flush, lives, history>>
===============================================================================
