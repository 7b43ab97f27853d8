-------------------------- MODULE MCScannerPeriods --------------------------
(* ScannerPeriods on small instances. *)
EXTENDS ScannerPeriods, TLC

WorkerSymmetry == Permutations(Workers)
=============================================================================
