------------------------ MODULE MCDocumentProcessing ------------------------
(* TLC instances of DocumentProcessing. *)
EXTENDS DocumentProcessing, TLC

RequestSymmetry == Permutations(Requests)
=============================================================================
