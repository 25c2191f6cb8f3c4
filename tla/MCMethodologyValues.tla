------------------------- MODULE MCMethodologyValues -------------------------
(* TLC instances of MethodologyValues. *)
EXTENDS MethodologyValues, TLC

CONSTANTS f1, f2, m1, m2

\* A field with two targets, one with a target and a deprecated one.
OneToTwo == {[field |-> f1, row |-> m1, status |-> "confirmed"],
             [field |-> f1, row |-> m2, status |-> "provisional"],
             [field |-> f2, row |-> m1, status |-> "deprecated"],
             [field |-> f2, row |-> m2, status |-> "needs_domain_review"]}

RequestSymmetry == Permutations(Requests) \cup Permutations(Aggregates)
=============================================================================
