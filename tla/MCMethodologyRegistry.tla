------------------------- MODULE MCMethodologyRegistry -------------------------
(* TLC instance of MethodologyRegistry: workbooks of one to two rows in which ids *)
(* repeat, stand in the wrong layer or are missing, with one edge whose two sides *)
(* name fields, wildcards, both or neither, and a rule besides the two guards.    *)
EXTENDS MethodologyRegistry, TLC

G == <<"INV", 1>>
A == <<"S1-STC", 1>>
A2 == <<"S1-STC", 2>>
B == <<"S2-MTR", 1>>
AnyA == <<"S1-STC", 0>>
AnyB == <<"S2-MTR", 0>>
AnyG == <<"INV", 0>>
Prose == <<"prose", 0>>
MCScopeBlocks == {"S1-STC", "S2-MTR", "S2-EFS"}
MCExpectedCount == [r \in Roles |-> CASE r = "scope1_schema" -> 2
                                      [] r = "rules" -> 3
                                      [] OTHER -> 1]

Sheet(rows) == [found |-> TRUE, has_sheet |-> TRUE, has_columns |-> TRUE, rows |-> rows]
Line(content) == content @@ [empty |-> FALSE, has_required |-> TRUE]
Blank(line) == [line EXCEPT !.empty = TRUE, !.has_required = FALSE]
Row(id, fields, derived) == Line([id |-> id, fields |-> fields, derived_from |-> derived])
Edge(scope, gen, type) ==
  Line([id |-> "EDG-1", scope |-> scope, gen |-> gen, reference_type |-> type])
Rule(id, cell) == Line([id |-> id, applies_to |-> cell])

Book(gen, s1, s2, edge, rule, guard) ==
  [gen_schema |-> Sheet(<<gen>>), scope1_schema |-> Sheet(<<Row(A, {"amount"}, {}), s1>>),
   scope2_schema |-> Sheet(<<s2>>), edges |-> Sheet(<<edge>>),
   rules |-> Sheet(<<Rule("CX-01", {Prose}), Rule(guard, {G}), rule>>)]

GenRows == {Row(G, {"total"}, {}), Row(G, {"total"}, {A}), Row(B, {"total"}, {})}
S1Rows == {Row(A2, {"unit"}, {A}), Row(A, {"unit"}, {}), Row(A2, {"unit"}, {B})}
S2Rows == {Row(B, {"meter"}, {}), Row(A, {"meter"}, {})}
ScopeCells == {{}, {Prose}, {A}, {B}, {AnyA}, {A, AnyB}, {<<"S1-STC", 9>>}, {<<"S2-EFS", 0>>},
               {A, B}, {G}, {AnyB, Prose}}
GenCells == {{}, {G}, {AnyB}, {AnyG}, {B}, {G, AnyA}}
Edges == {Edge(c, d, t) : c \in ScopeCells, d \in GenCells, t \in {"fk", "rule_input", "new"}}
RuleRows == {Rule("R-1", {A, Prose}), Rule("R-1", {A2, B}), Rule("R-1", {})}

Complete == {Book(g, s1, s2, e, r, "CX-12") :
               g \in GenRows, s1 \in S1Rows, s2 \in S2Rows, e \in Edges, r \in RuleRows}
Plain(guard) == Book(Row(G, {"total"}, {}), Row(A2, {"unit"}, {A}), Row(B, {"meter"}, {}),
                     Edge({A}, {G}, "scope"), Rule("R-1", {AnyA}), guard)
(* A missing guard, file, sheet, column, or cell; an empty line; a row too few. *)
Damaged ==
  {Plain("R-2")}
  \cup UNION {{[Plain("CX-12") EXCEPT ![r].found = FALSE],
               [Plain("CX-12") EXCEPT ![r].has_sheet = FALSE],
               [Plain("CX-12") EXCEPT ![r].has_columns = FALSE],
               [Plain("CX-12") EXCEPT ![r].rows[1].has_required = FALSE],
               [Plain("CX-12") EXCEPT ![r].rows = Append(@, Blank(@[1]))],
               [Plain("CX-12") EXCEPT ![r].rows = Tail(@)]} : r \in Roles}
MCWorkbooks == Complete \cup Damaged

Mapping(type, f, field, status) ==
  [key |-> [canonical_type_id |-> type, approved_field_name |-> "activity_quantity",
            methodology_field_id |-> f, data_schema_field |-> field],
   status |-> status, has_required |-> TRUE]
M == Mapping("CT-FUEL", A, "amount", "provisional")
MCSeeds == {<<M, Mapping("CT-GAS", A, "amount", "deprecated")>>, <<M, M>>, <<>>,
            <<Mapping("CT-FUEL", A, "amount", "guessed")>>, <<[M EXCEPT !.has_required = FALSE]>>,
            <<Mapping("CT-FUEL", A, "meter", "confirmed")>>,
            <<Mapping("CT-FUEL", <<"S1-STC", 9>>, "amount", "confirmed")>>}
================================================================================
