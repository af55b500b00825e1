--------------------------- MODULE MCFileAdapter ---------------------------
(* Small instances of FileAdapter for TLC. *)
EXTENDS FileAdapter
=============================================================================
