--------------------------- MODULE MCAlphaJournal ---------------------------
(* AlphaJournal on small instances. *)
EXTENDS AlphaJournal, TLC

WorkerSymmetry == Permutations(Workers)
=============================================================================
