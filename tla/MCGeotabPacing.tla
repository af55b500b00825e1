--------------------------- MODULE MCGeotabPacing ---------------------------
(* Small instances of GeotabPacing for TLC. *)
EXTENDS GeotabPacing
CONSTANTS c1, c2, my, my23
=============================================================================
