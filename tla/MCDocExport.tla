---------------------------- MODULE MCDocExport ----------------------------
(* Small instances of DocExport: the clerks are interchangeable.             *)
EXTENDS DocExport, TLC

ClerkSymmetry == Permutations(Clerks)
=============================================================================
