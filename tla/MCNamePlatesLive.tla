--------------------------- MODULE MCNamePlatesLive ---------------------------
(* One plate that two units share.                                         *)
EXTENDS NamePlates
===============================================================================
