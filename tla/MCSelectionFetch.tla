-------------------------- MODULE MCSelectionFetch --------------------------
(* SelectionFetch for TLC: the constants are in the .cfg files.           *)
EXTENDS SelectionFetch
=============================================================================
