-------------------------- MODULE MethodologyRegistry --------------------------
(*******************************************************************************)
(* How the S2 services come to their reference data                            *)
(* (build_default_s2_orchestration_service): five workbooks are loaded into a  *)
(* bundle, the registry indexes the bundle, the mappings of approved evidence  *)
(* are loaded and checked against the registry, and the rules of the bundle    *)
(* are made executable.  The integrity report on the bundle is a service of    *)
(* its own: nothing at start-up waits for it, so it may run at any time or     *)
(* never.  Integrity and registry read the references of the workbooks each    *)
(* with its own code, and EDGES are interpreted by a third.                    *)
(*                                                                             *)
(* A Field_ID is a pair of its block (INV, S1-STC, ...) and a number.  A cell  *)
(* that names fields is the set of what it names: Field_IDs, wildcards         *)
(* <<block, 0>> (S2-EFS-* ), and whatever else it says, as <<"prose", 0>>; each *)
(* part of a cell between semicolons is taken to name one thing.               *)
(*******************************************************************************)
EXTENDS Naturals, Sequences

CONSTANTS Workbooks,     \* the workbooks that may be found under reference-data
          Seeds,         \* the mapping seeds that may be found there
          ScopeBlocks,   \* blocks of the form S1-... and S2-..., which wildcards may name
          ExpectedCount  \* EXPECTED_ROW_COUNTS: [Roles -> number of rows]

None == [none |-> TRUE]

VARIABLES
    workbooks,  \* the five workbooks, by role
    seed,       \* the mapping seed
    at,         \* how far the start-up is
    bundle,     \* the methodology bundle, once loaded
    registry,   \* rules and edges by field, once indexed
    mappings,   \* the mappings, once loaded
    rules,      \* what each rule applies to at run time, once loaded
    report      \* the integrity report, once somebody asked for it

registryVars == <<workbooks, seed, at, bundle, registry, mappings, rules, report>>

--------------------------------------------------------------------------------
(* Loading.  Any missing file, sheet, column or required text, and any count of *)
(* rows but the expected one, stops the loading: which one only changes words.  *)

SchemaRoles == {"gen_schema", "scope1_schema", "scope2_schema"}
Roles == SchemaRoles \cup {"edges", "rules"}
LayerOf == [gen_schema |-> "GEN", scope1_schema |-> "S1", scope2_schema |-> "S2"]

(* A row whose cells are all empty is skipped. *)
DataRows(sheet) == SelectSeq(sheet.rows, LAMBDA row : ~row.empty)

Loadable(role, sheet) ==
  /\ sheet.found /\ sheet.has_sheet /\ sheet.has_columns
  /\ \A i \in DOMAIN DataRows(sheet) : DataRows(sheet)[i].has_required
  /\ Len(DataRows(sheet)) = ExpectedCount[role]

InLayer(sheet, layer) ==
  [i \in DOMAIN DataRows(sheet) |->
     [id |-> DataRows(sheet)[i].id, layer |-> layer,
      fields |-> DataRows(sheet)[i].fields, derived_from |-> DataRows(sheet)[i].derived_from]]

LoadMethodologyBundle(w) ==
  [rows |-> InLayer(w.gen_schema, "GEN") \o InLayer(w.scope1_schema, "S1")
              \o InLayer(w.scope2_schema, "S2"),
   edges |-> DataRows(w.edges), rules |-> DataRows(w.rules)]

--------------------------------------------------------------------------------
(* The bundle, and what a cell refers to. *)

FieldIds(b) == {b.rows[i].id : i \in DOMAIN b.rows}
LayerIds(b, layer) == {b.rows[i].id : i \in {k \in DOMAIN b.rows : b.rows[k].layer = layer}}

(* schema_by_field_id keeps the last row of a Field_ID. *)
SchemaByFieldId(b, f) ==
  b.rows[CHOOSE i \in DOMAIN b.rows :
           /\ b.rows[i].id = f
           /\ \A k \in DOMAIN b.rows : b.rows[k].id = f => k <= i]

FieldRefs(cell) == {ref \in cell : ref[2] > 0}
WildcardPrefixes(cell) == {ref[1] : ref \in {r \in cell : r[2] = 0 /\ r[1] \in ScopeBlocks}}
Matching(b, prefix) == {f \in FieldIds(b) : f[1] = prefix}

--------------------------------------------------------------------------------
(* MethodologyIntegrityService.validate. *)

Finding(check, severity, subject) ==
  [check_id |-> check, severity |-> severity, subject_id |-> subject]

CheckUniqueFieldIds(b) ==
  {Finding("unique_field_id", "error", f) :
     f \in {g \in FieldIds(b) : \E i, k \in DOMAIN b.rows :
                                  i # k /\ b.rows[i].id = g /\ b.rows[k].id = g}}

(* Variant: what a wildcard stands for is not checked with the other references. *)
ConcreteScopeRefs(b, e) == FieldRefs(e.scope)

ScopeRefs(b, e) ==
  FieldRefs(e.scope) \cup UNION {Matching(b, p) : p \in WildcardPrefixes(e.scope)}

LayersJoined(b, e) ==
  {SchemaByFieldId(b, f).layer : f \in (ScopeRefs(b, e) \cup FieldRefs(e.gen)) \cap FieldIds(b)}

CheckEdge(b, e) ==
  {Finding("edge_scope_field_wildcard_resolves", "error", e.id) :
     p \in {q \in WildcardPrefixes(e.scope) : Matching(b, q) = {}}}
  \cup {Finding("edge_scope_field_resolves", "error", e.id) : f \in ScopeRefs(b, e) \ FieldIds(b)}
  \cup {Finding("edge_scope_field_layer", "error", e.id) :
          f \in {g \in ScopeRefs(b, e) \cap FieldIds(b) :
                   SchemaByFieldId(b, g).layer \notin {"S1", "S2"}}}
  \cup {Finding("edge_gen_field_resolves", "error", e.id) :
          f \in FieldRefs(e.gen) \ LayerIds(b, "GEN")}
  \cup {Finding("no_direct_scope1_scope2_join", "error", e.id) :
          p \in {q \in {e.id} : {"S1", "S2"} \subseteq LayersJoined(b, e)}}

CheckRuleAppliesTo(b, r) ==
  {Finding("rule_applies_to_prose", "info", r.id) :
     c \in {d \in {r.applies_to} : d # {} /\ FieldRefs(d) = {}}}
  \cup {Finding("rule_applies_to_resolves", "error", r.id) :
          f \in FieldRefs(r.applies_to) \ FieldIds(b)}

CheckDerivedFrom(b, row) ==
  {Finding("derived_from_resolves", "error", row.id) :
     f \in FieldRefs(row.derived_from) \ FieldIds(b)}
  \cup {Finding("derived_from_cross_layer", "warning", row.id) :
          f \in (FieldRefs(row.derived_from) \cap FieldIds(b)) \ LayerIds(b, row.layer)}

CheckCxGuards(b) ==
  {Finding("guard_exists", "error", id) :
     id \in {"CX-01", "CX-12"} \ {b.rules[i].id : i \in DOMAIN b.rules}}

Findings(b) ==
  CheckUniqueFieldIds(b)
  \cup (UNION {CheckEdge(b, b.edges[i]) : i \in DOMAIN b.edges})
  \cup (UNION {CheckRuleAppliesTo(b, b.rules[i]) : i \in DOMAIN b.rules})
  \cup (UNION {CheckDerivedFrom(b, b.rows[i]) : i \in DOMAIN b.rows})
  \cup CheckCxGuards(b)

Severities(b) == {x.severity : x \in Findings(b)}
Validate(b) ==
  [status |-> IF "error" \in Severities(b) THEN "failed"
              ELSE IF "warning" \in Severities(b) THEN "passed_with_warnings"
              ELSE "passed",
   findings |-> Findings(b)]

--------------------------------------------------------------------------------
(* MethodologyRegistryService: the rules and edges by field. *)

IndexRulesByFieldId(b) ==
  [f \in FieldIds(b) |-> {i \in DOMAIN b.rules : f \in FieldRefs(b.rules[i].applies_to)}]

(* Variant: wildcards are left to whoever reads the edge. *)
IndexConcreteEdges(b) ==
  [f \in FieldIds(b) |->
     {i \in DOMAIN b.edges : f \in FieldRefs(b.edges[i].scope \cup b.edges[i].gen)}]

(* Wildcards are expanded on both sides of an edge. *)
IndexEdgesByFieldId(b) ==
  [f \in FieldIds(b) |->
     {i \in DOMAIN b.edges :
        LET cell == b.edges[i].scope \cup b.edges[i].gen
        IN f \in FieldRefs(cell) \/ f[1] \in WildcardPrefixes(cell)}]

(* EdgeResolutionService: only a foreign key is a join. *)
Treatment(type) ==
  CASE type = "fk" -> "foreign_key_join"
    [] type = "scope" -> "applicability_scope"
    [] type = "writes_to" -> "scope_writes_to_gen"
    [] type = "disclosed_via" -> "scope_disclosed_via_gen"
    [] type = "rule_input" -> "rule_input"
    [] OTHER -> "unsupported_reference_type"

JoinEdgesForField(f) ==
  {i \in registry.edges[f] : Treatment(bundle.edges[i].reference_type) = "foreign_key_join"}

--------------------------------------------------------------------------------
(* Mappings and executable rules. *)

AllowedMappingStatuses == {"confirmed", "provisional", "needs_domain_review", "deprecated"}

(* Structure only: at least one record, complete records, no key twice. *)
SeedIsSound(s) ==
  /\ s # <<>>
  /\ \A i \in DOMAIN s : s[i].has_required /\ s[i].status \in AllowedMappingStatuses
  /\ \A i, k \in DOMAIN s : s[i].key = s[k].key => i = k

MappingResolves(b, m) ==
  /\ m.key.methodology_field_id \in FieldIds(b)
  /\ m.key.data_schema_field \in SchemaByFieldId(b, m.key.methodology_field_id).fields

(* _runtime_rule. *)
RuntimeRule(b, r) ==
  [resolvable |-> FieldRefs(r.applies_to) \cap FieldIds(b),
   unresolved |-> {ref \in r.applies_to : ref[2] = 0} \cup (FieldRefs(r.applies_to) \ FieldIds(b))]

--------------------------------------------------------------------------------
RegistryInit ==
  /\ workbooks \in Workbooks /\ seed \in Seeds
  /\ at = "load"
  /\ bundle = None /\ registry = None /\ mappings = None /\ rules = None /\ report = None

(* load_default_methodology_bundle: all five workbooks or an exception. *)
LoadBundle ==
  /\ at = "load"
  /\ IF \A role \in Roles : Loadable(role, workbooks[role])
     THEN bundle' = LoadMethodologyBundle(workbooks) /\ at' = "index"
     ELSE at' = "failed" /\ UNCHANGED bundle
  /\ UNCHANGED <<workbooks, seed, registry, mappings, rules, report>>

BuildRegistry ==
  /\ at = "index"
  /\ registry' = [rules |-> IndexRulesByFieldId(bundle), edges |-> IndexEdgesByFieldId(bundle)]
  /\ at' = "map"
  /\ UNCHANGED <<workbooks, seed, bundle, mappings, rules, report>>

(* load_default_approved_evidence_mappings, then ApprovedEvidenceMappingService. *)
LoadMappings ==
  /\ at = "map"
  /\ IF SeedIsSound(seed) /\ \A i \in DOMAIN seed : MappingResolves(bundle, seed[i])
     THEN mappings' = seed /\ at' = "rules"
     ELSE at' = "failed" /\ UNCHANGED mappings
  /\ UNCHANGED <<workbooks, seed, bundle, registry, rules, report>>

LoadVerificationRules ==
  /\ at = "rules"
  /\ rules' = [i \in DOMAIN bundle.rules |-> RuntimeRule(bundle, bundle.rules[i])]
  /\ at' = "ready"
  /\ UNCHANGED <<workbooks, seed, bundle, registry, mappings, report>>

(* Nobody calls the integrity service on the way; a script or a test may. *)
CheckIntegrity ==
  /\ bundle # None /\ report = None
  /\ report' = Validate(bundle)
  /\ UNCHANGED <<workbooks, seed, at, bundle, registry, mappings, rules>>

RegistryNext == LoadBundle \/ BuildRegistry \/ LoadMappings \/ LoadVerificationRules \/ CheckIntegrity

RegistrySpec == RegistryInit /\ [][RegistryNext]_registryVars

--------------------------------------------------------------------------------
(* Properties. *)

Checked == at = "ready" /\ report # None /\ report.status # "failed"

(* Once the integrity report of the bundle has no error, no reference of the   *)
(* workbooks is lost on the way to the services: an edge is found under every   *)
(* field it names and under a field of every scope wildcard, a rule under every *)
(* field it names, in the registry and in its executable form alike, and what   *)
(* a row is derived from has a row.                                             *)
CheckedReferencesAreFound ==
  Checked =>
    /\ \A i \in DOMAIN bundle.edges :
         /\ \A f \in FieldRefs(bundle.edges[i].scope) \cup FieldRefs(bundle.edges[i].gen) :
              f \in FieldIds(bundle) /\ i \in registry.edges[f]
         /\ \A p \in WildcardPrefixes(bundle.edges[i].scope) :
              \E f \in FieldIds(bundle) : f[1] = p /\ i \in registry.edges[f]
    /\ \A i \in DOMAIN bundle.rules : \A f \in FieldRefs(bundle.rules[i].applies_to) :
         f \in FieldIds(bundle) /\ i \in registry.rules[f] /\ f \in rules[i].resolvable
    /\ \A i \in DOMAIN bundle.rows : FieldRefs(bundle.rows[i].derived_from) \subseteq FieldIds(bundle)

(* Once the report has no error, no edge that is listed as a join of a field of *)
(* Scope 1 is listed as a join of a field of Scope 2 too -- except through a     *)
(* wildcard on the GEN side, which the registry expands and integrity ignores.  *)
JoinsStayInOneScope ==
  Checked =>
    \A f, g \in FieldIds(bundle) : \A i \in JoinEdgesForField(f) \cap JoinEdgesForField(g) :
      \/ {SchemaByFieldId(bundle, f).layer, SchemaByFieldId(bundle, g).layer} # {"S1", "S2"}
      \/ WildcardPrefixes(bundle.edges[i].gen) # {}
================================================================================
