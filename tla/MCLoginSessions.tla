--------------------------- MODULE MCLoginSessions ---------------------------
(* TLC instances of LoginSessions. *)
EXTENDS LoginSessions, TLC

RequestSymmetry == Permutations(Requests)
=============================================================================
