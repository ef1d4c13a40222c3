-------------------------- MODULE MCDocumentStore --------------------------
(* The callers of DocumentStore are alike. *)
EXTENDS DocumentStore, TLC

MCSymmetry == Permutations(Callers)
=============================================================================
