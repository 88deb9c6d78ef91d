----------------------------- MODULE MCBlockArena -----------------------------
(* Two slots and three blocks: the arena fills up and is flushed.          *)
EXTENDS BlockArena
===============================================================================
