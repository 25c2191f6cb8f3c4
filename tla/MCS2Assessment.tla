---------------------------- MODULE MCS2Assessment ----------------------------
(* TLC instances of S2Assessment: a registry with every kind of row and rule, and *)
(* two rules with one id.                                                        *)
EXTENDS S2Assessment

\* fuel and amount are extracted, flag decides whether amount applies, total is
\* derived in its layer, gen across layers, loop from itself, stray from nothing.
MCRows == {"fuel", "amount", "flag", "total", "gen", "loop", "stray"}
MCRequired == {"fuel", "amount", "total", "gen"}
MCOrigin == [g \in MCRows |-> CASE g \in {"fuel", "amount", "flag"} -> "extracted"
                                [] g = "gen" -> "assigned"
                                [] g \in {"total", "loop", "stray"} -> "computed"]
MCLayer == [g \in MCRows |-> IF g = "gen" THEN "GEN" ELSE "S1"]
MCCondition == [g \in MCRows |-> CASE g = "amount" -> "flag"
                                   [] g = "total" -> "unsupported"
                                   [] g \notin {"amount", "total"} -> "blank"]
MCDerivedFrom == [g \in MCRows |-> CASE g = "total" -> {"fuel", "amount"}
                                     [] g = "gen" -> {"fuel"}
                                     [] g = "loop" -> {"loop", "fuel"}
                                     [] g = "stray" -> {"nowhere"}
                                     [] g \in {"fuel", "amount"} -> {}
                                     [] g = "flag" -> {"amount"}]
MCRules ==
    {[id |-> "V1", is_provisional |-> FALSE, rule_type |-> "guard",
      resolvable |-> <<"fuel", "amount">>, has_unresolved |-> FALSE],
     [id |-> "V2", is_provisional |-> FALSE, rule_type |-> "invariant",
      resolvable |-> <<"fuel">>, has_unresolved |-> TRUE],
     [id |-> "V2", is_provisional |-> FALSE, rule_type |-> "guard",
      resolvable |-> <<"fuel", "gen">>, has_unresolved |-> FALSE],
     [id |-> "V3", is_provisional |-> TRUE, rule_type |-> "gate",
      resolvable |-> <<"fuel">>, has_unresolved |-> FALSE],
     [id |-> "V4", is_provisional |-> FALSE, rule_type |-> "limit",
      resolvable |-> <<"gen">>, has_unresolved |-> FALSE],
     [id |-> "V5", is_provisional |-> FALSE, rule_type |-> "recompute",
      resolvable |-> <<"total">>, has_unresolved |-> FALSE],
     [id |-> "V6", is_provisional |-> FALSE, rule_type |-> "guard",
      resolvable |-> <<>>, has_unresolved |-> TRUE],
     [id |-> "V7", is_provisional |-> FALSE, rule_type |-> "guard",
      resolvable |-> <<>>, has_unresolved |-> FALSE]}
=============================================================================
