------------------------- MODULE MCReviewProjection -------------------------
(***************************************************************************)
(* TLC instances of ReviewProjection.                                      *)
(***************************************************************************)
EXTENDS ReviewProjection, TLC

FieldSymmetry == Permutations(Submissions) \cup Permutations(Projections)
                 \cup Permutations(Fields)
ReviewSymmetry == FieldSymmetry \cup Permutations(Documents)
=============================================================================
