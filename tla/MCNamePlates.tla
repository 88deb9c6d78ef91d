----------------------------- MODULE MCNamePlates -----------------------------
(* Two plates, two units.                                                  *)
EXTENDS NamePlates, TLC

Symmetry == Permutations(Plates) \cup Permutations(Units)
===============================================================================
