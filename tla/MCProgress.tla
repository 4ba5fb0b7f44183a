----------------------------- MODULE MCProgress -----------------------------
(***************************************************************************)
(* Values of Progress's constants for TLC: those of MCIndexer.             *)
(***************************************************************************)
EXTENDS MCIndexer, Progress

=============================================================================
