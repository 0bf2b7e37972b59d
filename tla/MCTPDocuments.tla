--------------------------- MODULE MCTPDocuments ---------------------------
(* Two clerks, two documents, two records: the instance TLC checks.         *)
EXTENDS TPDocuments, TLC

ClerkSymmetry == Permutations(Clerks)
=============================================================================
