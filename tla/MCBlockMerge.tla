----------------------------- MODULE MCBlockMerge -----------------------------
(* Three glyphs of one block and one of another, with pixel data of several*)
(* sizes and a glyph without any; a batch of three can hold a glyph twice, *)
(* so a block of four can overflow.                                        *)
EXTENDS BlockMerge, TLC

MCDataSize == (0 :> 2) @@ (1 :> 0) @@ (3 :> 1) @@ (6 :> 3)
===============================================================================
