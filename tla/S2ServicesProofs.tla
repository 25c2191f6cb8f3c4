---------------------------- MODULE S2ServicesProofs ----------------------------
(* The services of the S2 methodology: what they are built on when they start     *)
(* (MethodologyRegistry), for every set of workbooks, every mapping seed and every *)
(* expected count, and the result of a completed run of theirs (S2Assessment), for *)
(* every registry and every list of values.                                        *)
EXTENDS MethodologyRegistry, S2Assessment, TLAPS

(* The registry, the executable rules and the report are about the loaded bundle: *)
(* nothing changes the bundle once it has been read by one of them.               *)
StartInv ==
  /\ at = "load" => bundle = None /\ report = None
  /\ report # None => report = Validate(bundle)
  /\ at \in {"map", "rules", "ready"} =>
       registry = [rules |-> IndexRulesByFieldId(bundle), edges |-> IndexEdgesByFieldId(bundle)]
  /\ at = "ready" => rules = [i \in DOMAIN bundle.rules |-> RuntimeRule(bundle, bundle.rules[i])]

LEMMA InitStartInv == RegistryInit => StartInv
  BY DEF RegistryInit, StartInv

LEMMA NextStartInv == StartInv /\ [RegistryNext]_registryVars => StartInv'
<1> SUFFICES ASSUME StartInv, [RegistryNext]_registryVars PROVE StartInv'
  OBVIOUS
<1>1. CASE LoadBundle
  <2>1. report' = None /\ at' \in {"index", "failed"}
    BY <1>1 DEF LoadBundle, StartInv
  <2> QED BY <2>1 DEF StartInv
<1>2. CASE BuildRegistry
  <2>1. at' = "map" /\ bundle' = bundle /\ report' = report
        /\ registry' = [rules |-> IndexRulesByFieldId(bundle), edges |-> IndexEdgesByFieldId(bundle)]
    BY <1>2 DEF BuildRegistry
  <2>2. /\ Validate(bundle)' = Validate(bundle)
        /\ IndexRulesByFieldId(bundle)' = IndexRulesByFieldId(bundle)
        /\ IndexEdgesByFieldId(bundle)' = IndexEdgesByFieldId(bundle)
    BY <2>1
  <2> QED BY <2>1, <2>2 DEF StartInv
<1>3. CASE LoadMappings
  <2>1. /\ at = "map" /\ at' \in {"rules", "failed"}
        /\ bundle' = bundle /\ report' = report /\ registry' = registry
    BY <1>3 DEF LoadMappings
  <2> QED BY <2>1 DEF StartInv
<1>4. CASE LoadVerificationRules
  <2>1. /\ at = "rules" /\ at' = "ready"
        /\ bundle' = bundle /\ report' = report /\ registry' = registry
        /\ rules' = [i \in DOMAIN bundle.rules |-> RuntimeRule(bundle, bundle.rules[i])]
    BY <1>4 DEF LoadVerificationRules
  <2> QED BY <2>1 DEF StartInv
<1>5. CASE CheckIntegrity
  <2>1. /\ bundle # None /\ report' = Validate(bundle)
        /\ at' = at /\ bundle' = bundle /\ registry' = registry /\ rules' = rules
    BY <1>5 DEF CheckIntegrity
  <2> QED BY <2>1 DEF StartInv
<1>6. CASE UNCHANGED registryVars
  BY <1>6 DEF registryVars, StartInv
<1> QED BY <1>1, <1>2, <1>3, <1>4, <1>5, <1>6 DEF RegistryNext

THEOREM ServicesAreAboutTheBundle == RegistrySpec => []StartInv
  BY InitStartInv, NextStartInv, PTL DEF RegistrySpec

--------------------------------------------------------------------------------
(* A report that has not failed holds no error.                                 *)
LEMMA NoErrors ==
  ASSUME NEW b, Validate(b).status # "failed", NEW x \in Findings(b)
  PROVE  x.severity # "error"
  BY DEF Validate, Severities

LEMMA NoEdgeErrors ==
  ASSUME NEW b, Validate(b).status # "failed", NEW i \in DOMAIN b.edges,
         NEW x \in CheckEdge(b, b.edges[i])
  PROVE  x.severity # "error"
<1>1. x \in Findings(b)
  BY DEF Findings
<1> QED BY <1>1, NoErrors

(* Without errors every scope reference and every GEN reference has a row.       *)
LEMMA EdgeReferencesResolve ==
  ASSUME NEW b, Validate(b).status # "failed", NEW i \in DOMAIN b.edges
  PROVE  /\ ScopeRefs(b, b.edges[i]) \subseteq FieldIds(b)
         /\ FieldRefs(b.edges[i].gen) \subseteq FieldIds(b)
         /\ \A p \in WildcardPrefixes(b.edges[i].scope) : Matching(b, p) # {}
<1> DEFINE e == b.edges[i]
<1> HIDE DEF e
<1>e. e = b.edges[i]
  BY DEF e
<1>1. ASSUME NEW f \in ScopeRefs(b, e), f \notin FieldIds(b) PROVE FALSE
  <2>1. Finding("edge_scope_field_resolves", "error", e.id) \in CheckEdge(b, e)
    BY <1>1 DEF CheckEdge
  <2> QED BY <2>1, <1>e, NoEdgeErrors DEF Finding
<1>2. ASSUME NEW f \in FieldRefs(e.gen), f \notin LayerIds(b, "GEN") PROVE FALSE
  <2>1. Finding("edge_gen_field_resolves", "error", e.id) \in CheckEdge(b, e)
    BY <1>2 DEF CheckEdge
  <2> QED BY <2>1, <1>e, NoEdgeErrors DEF Finding
<1>3. ASSUME NEW p \in WildcardPrefixes(e.scope), Matching(b, p) = {} PROVE FALSE
  <2>1. Finding("edge_scope_field_wildcard_resolves", "error", e.id) \in CheckEdge(b, e)
    BY <1>3 DEF CheckEdge
  <2> QED BY <2>1, <1>e, NoEdgeErrors DEF Finding
<1>4. LayerIds(b, "GEN") \subseteq FieldIds(b)
  BY DEF LayerIds, FieldIds
<1> QED BY <1>1, <1>2, <1>3, <1>4, <1>e

(* Without errors no edge touches rows of both scopes.                           *)
LEMMA EdgeLayersApart ==
  ASSUME NEW b, Validate(b).status # "failed", NEW i \in DOMAIN b.edges
  PROVE  ~ ({"S1", "S2"} \subseteq LayersJoined(b, b.edges[i]))
<1> DEFINE e == b.edges[i]
<1> HIDE DEF e
<1>e. e = b.edges[i]
  BY DEF e
<1>1. ASSUME {"S1", "S2"} \subseteq LayersJoined(b, e) PROVE FALSE
  <2>1. Finding("no_direct_scope1_scope2_join", "error", e.id) \in CheckEdge(b, e)
    BY <1>1 DEF CheckEdge
  <2> QED BY <2>1, <1>e, NoEdgeErrors DEF Finding
<1> QED BY <1>1, <1>e

LEMMA RuleReferencesResolve ==
  ASSUME NEW b, Validate(b).status # "failed", NEW i \in DOMAIN b.rules
  PROVE  FieldRefs(b.rules[i].applies_to) \subseteq FieldIds(b)
<1>1. SUFFICES ASSUME NEW f \in FieldRefs(b.rules[i].applies_to), f \notin FieldIds(b)
               PROVE FALSE
  OBVIOUS
<1> DEFINE x == Finding("rule_applies_to_resolves", "error", b.rules[i].id)
<1>2. x \in CheckRuleAppliesTo(b, b.rules[i])
  BY <1>1 DEF CheckRuleAppliesTo
<1>3. x \in Findings(b)
  BY <1>2 DEF Findings
<1>4. x.severity # "error"
  BY <1>3, NoErrors
<1> QED BY <1>4 DEF Finding

LEMMA DerivedReferencesResolve ==
  ASSUME NEW b, Validate(b).status # "failed", NEW i \in DOMAIN b.rows
  PROVE  FieldRefs(b.rows[i].derived_from) \subseteq FieldIds(b)
<1>1. SUFFICES ASSUME NEW f \in FieldRefs(b.rows[i].derived_from), f \notin FieldIds(b)
               PROVE FALSE
  OBVIOUS
<1> DEFINE x == Finding("derived_from_resolves", "error", b.rows[i].id)
<1>2. x \in CheckDerivedFrom(b, b.rows[i])
  BY <1>1 DEF CheckDerivedFrom
<1>3. x \in Findings(b)
  BY <1>2 DEF Findings
<1>4. x.severity # "error"
  BY <1>3, NoErrors
<1> QED BY <1>4 DEF Finding

--------------------------------------------------------------------------------
(* Every reference of a bundle without errors is found by the services that use  *)
(* it, however many rows, edges and rules the workbooks hold.                     *)
THEOREM ReferencesFound == RegistrySpec => []CheckedReferencesAreFound
<1>1. StartInv => CheckedReferencesAreFound
  <2> SUFFICES ASSUME StartInv, Checked
               PROVE  /\ \A i \in DOMAIN bundle.edges :
                           /\ \A f \in FieldRefs(bundle.edges[i].scope)
                                       \cup FieldRefs(bundle.edges[i].gen) :
                                f \in FieldIds(bundle) /\ i \in registry.edges[f]
                           /\ \A p \in WildcardPrefixes(bundle.edges[i].scope) :
                                \E f \in FieldIds(bundle) : f[1] = p /\ i \in registry.edges[f]
                      /\ \A i \in DOMAIN bundle.rules :
                           \A f \in FieldRefs(bundle.rules[i].applies_to) :
                             /\ f \in FieldIds(bundle) /\ i \in registry.rules[f]
                             /\ f \in rules[i].resolvable
                      /\ \A i \in DOMAIN bundle.rows :
                           FieldRefs(bundle.rows[i].derived_from) \subseteq FieldIds(bundle)
    BY DEF CheckedReferencesAreFound
  <2>1. /\ Validate(bundle).status # "failed"
        /\ registry.rules = IndexRulesByFieldId(bundle)
        /\ registry.edges = IndexEdgesByFieldId(bundle)
        /\ rules = [i \in DOMAIN bundle.rules |-> RuntimeRule(bundle, bundle.rules[i])]
    BY DEF StartInv, Checked
  <2>2. ASSUME NEW i \in DOMAIN bundle.edges,
               NEW f \in FieldRefs(bundle.edges[i].scope) \cup FieldRefs(bundle.edges[i].gen)
        PROVE  f \in FieldIds(bundle) /\ i \in registry.edges[f]
    <3>1. f \in FieldIds(bundle)
      BY <2>1, <2>2, EdgeReferencesResolve DEF ScopeRefs
    <3>2. f \in FieldRefs(bundle.edges[i].scope \cup bundle.edges[i].gen)
      BY <2>2 DEF FieldRefs
    <3> QED BY <2>1, <3>1, <3>2 DEF IndexEdgesByFieldId
  <2>3. ASSUME NEW i \in DOMAIN bundle.edges, NEW p \in WildcardPrefixes(bundle.edges[i].scope)
        PROVE  \E f \in FieldIds(bundle) : f[1] = p /\ i \in registry.edges[f]
    <3>1. PICK f \in FieldIds(bundle) : f[1] = p
      BY <2>1, EdgeReferencesResolve DEF Matching
    <3>2. p \in WildcardPrefixes(bundle.edges[i].scope \cup bundle.edges[i].gen)
      BY <2>3 DEF WildcardPrefixes
    <3>3. i \in registry.edges[f]
      BY <2>1, <3>1, <3>2 DEF IndexEdgesByFieldId
    <3> QED BY <3>1, <3>3
  <2>4. ASSUME NEW i \in DOMAIN bundle.rules, NEW f \in FieldRefs(bundle.rules[i].applies_to)
        PROVE  f \in FieldIds(bundle) /\ i \in registry.rules[f] /\ f \in rules[i].resolvable
    <3>1. f \in FieldIds(bundle)
      BY <2>1, RuleReferencesResolve
    <3> QED BY <2>1, <3>1 DEF IndexRulesByFieldId, RuntimeRule
  <2> QED BY <2>1, <2>2, <2>3, <2>4, DerivedReferencesResolve
<1> QED BY <1>1, ServicesAreAboutTheBundle, PTL

(* No join of a bundle without errors crosses from Scope 1 to Scope 2 but by a   *)
(* wildcard on the GEN side.                                                      *)
THEOREM JoinsApart == RegistrySpec => []JoinsStayInOneScope
<1>1. StartInv => JoinsStayInOneScope
  <2> SUFFICES ASSUME StartInv, Checked,
                      NEW f \in FieldIds(bundle), NEW g \in FieldIds(bundle),
                      NEW i \in JoinEdgesForField(f) \cap JoinEdgesForField(g),
                      {SchemaByFieldId(bundle, f).layer, SchemaByFieldId(bundle, g).layer}
                        = {"S1", "S2"},
                      WildcardPrefixes(bundle.edges[i].gen) = {}
               PROVE  FALSE
    BY DEF JoinsStayInOneScope
  <2>1. /\ Validate(bundle).status # "failed"
        /\ registry.edges = IndexEdgesByFieldId(bundle)
    BY DEF StartInv, Checked
  <2>2. i \in registry.edges[f] /\ i \in registry.edges[g]
    BY DEF JoinEdgesForField
  <2>3. i \in DOMAIN bundle.edges
    BY <2>1, <2>2 DEF IndexEdgesByFieldId
  <2>4. ASSUME NEW h \in FieldIds(bundle), i \in registry.edges[h]
        PROVE  SchemaByFieldId(bundle, h).layer \in LayersJoined(bundle, bundle.edges[i])
    <3> DEFINE cell == bundle.edges[i].scope \cup bundle.edges[i].gen
    <3>1. h \in FieldRefs(cell) \/ h[1] \in WildcardPrefixes(cell)
      BY <2>1, <2>4 DEF IndexEdgesByFieldId
    <3>2. CASE h \in FieldRefs(cell)
      <4>1. h \in FieldRefs(bundle.edges[i].scope) \cup FieldRefs(bundle.edges[i].gen)
        BY <3>2 DEF FieldRefs
      <4> QED BY <4>1 DEF LayersJoined, ScopeRefs
    <3>3. CASE h[1] \in WildcardPrefixes(cell)
      <4>1. h[1] \in WildcardPrefixes(bundle.edges[i].scope)
        BY <3>3 DEF WildcardPrefixes
      <4>2. h \in ScopeRefs(bundle, bundle.edges[i])
        BY <4>1 DEF ScopeRefs, Matching
      <4> QED BY <4>2 DEF LayersJoined
    <3> QED BY <3>1, <3>2, <3>3
  <2>5. {"S1", "S2"} \subseteq LayersJoined(bundle, bundle.edges[i])
    BY <2>2, <2>4
  <2> QED BY <2>1, <2>3, <2>5, EdgeLayersApart
<1> QED BY <1>1, ServicesAreAboutTheBundle, PTL

--------------------------------------------------------------------------------
(* A run of the services.                                                          *)

\* What the stages that have run returned: each result is the one its service
\* computes from the values and condition values of the request, which nothing
\* changes once the run has begun.
Computed ==
    /\ pc \in Tracked => completeness =
         [row \in RequiredRows |-> EvaluateRow(row, values, ConditionValues(values, runtime))]
    /\ pc \in Derived => derivations = [row \in DerivedRows |-> DeriveRow(row, values)]
    /\ pc \in Verified => verification = [rule \in Rules |-> EvaluateRule(rule, values)]
    /\ pc = "done" => gaps = {Gap(x) : x \in OpenFindings}

RunInv == /\ values \in Seq(Value)
       /\ runtime \in [Rows -> ConditionValue]
       /\ pc \in PC
       /\ Computed

-----------------------------------------------------------------------------
\* The five statuses of completeness are all EvaluateRow returns.
LEMMA EvaluateRowType ==
    ASSUME NEW row \in Rows, NEW vs, NEW cv
    PROVE  EvaluateRow(row, vs, cv) \in CompletenessStatus
<1>1. Condition[row] \in {"blank", "unsupported"} \cup Rows
  BY S2Assumption
<1>2. ConditionStatus(Condition[row], cv) \in
        {"applicable", "unknown", "unsupported_condition", "not_applicable"}
  BY <1>1, S2Assumption DEF ConditionStatus
<1> QED
  BY <1>2 DEF EvaluateRow, CompletenessStatus

\* So are the four statuses of a derivation.
LEMMA DeriveRowType ==
    ASSUME NEW row \in Rows, NEW vs
    PROVE  DeriveRow(row, vs) \in DerivationStatus
BY DEF DeriveRow, DerivationStatus

\* And the six statuses of a rule.
LEMMA EvaluateRuleType ==
    ASSUME NEW rule \in Rules, NEW vs
    PROVE  EvaluateRule(rule, vs) \in VerificationStatus
BY DEF EvaluateRule, VerificationStatus

-----------------------------------------------------------------------------
LEMMA InitRunInv == Init => RunInv
BY DEF Init, RunInv, Computed, PC, Tracked, Derived, Verified, ConditionValue, Content

LEMMA NextRunInv == RunInv /\ [Next]_vars => RunInv'
<1> SUFFICES ASSUME RunInv, [Next]_vars PROVE RunInv'
  OBVIOUS
<1> USE DEF RunInv, PC, Tracked, Derived, Verified
<1>1. ASSUME NEW v \in Value, Project(v) PROVE RunInv'
  BY <1>1 DEF Project, Computed
<1>2. ASSUME NEW g \in Rows, NEW c \in ConditionValue, Run(g, c) PROVE RunInv'
  BY <1>2 DEF Run, Computed
<1>3. CASE TrackCompleteness
  BY <1>3 DEF TrackCompleteness, Computed
<1>4. CASE DeriveAll
  BY <1>4 DEF DeriveAll, Computed
<1>5. CASE Verify
  BY <1>5 DEF Verify, Computed
<1>6. CASE EmitGaps
  <2>1. gaps' = {Gap(x) : x \in OpenFindings}'
    BY <1>6 DEF EmitGaps, OpenFindings
  <2> QED
    BY <2>1, <1>6 DEF EmitGaps, Computed
<1>7. CASE UNCHANGED vars
  <2>1. OpenFindings' = OpenFindings
    BY <1>7 DEF vars, OpenFindings
  <2> QED
    BY <2>1, <1>7 DEF vars, Computed
<1> QED
  BY <1>1, <1>2, <1>3, <1>4, <1>5, <1>6, <1>7 DEF Next

LEMMA RunInvAlways == Spec => []RunInv
BY InitRunInv, NextRunInv, PTL DEF Spec

-----------------------------------------------------------------------------
LEMMA InvTypeOK == RunInv => TypeOK
<1> SUFFICES ASSUME RunInv PROVE TypeOK
  OBVIOUS
<1>1. pc \in Tracked => completeness \in [RequiredRows -> CompletenessStatus]
  BY EvaluateRowType, S2Assumption DEF RunInv, Computed
<1>2. pc \in Derived => derivations \in [DerivedRows -> DerivationStatus]
  BY DeriveRowType DEF RunInv, Computed, DerivedRows
<1>3. pc \in Verified => verification \in [Rules -> VerificationStatus]
  BY EvaluateRuleType DEF RunInv, Computed
<1> QED
  BY <1>1, <1>2, <1>3 DEF RunInv, TypeOK

LEMMA InvStagesAgree == RunInv => StagesAgree
<1> SUFFICES ASSUME RunInv, pc = "done", NEW rule \in Rules
             PROVE  /\ verification[rule] = "passed" =>
                         \A g \in AppliesTo(rule) \cap RequiredRows :
                            completeness[g] \notin {"missing_required", "not_requestable_value_origin"}
                    /\ verification[rule] = "failed" =>
                         \E g \in AppliesTo(rule) :
                            g \in RequiredRows => completeness[g] # "complete"
  BY DEF StagesAgree
<1>1. verification[rule] = EvaluateRule(rule, values)
  BY DEF RunInv, Computed, Verified
<1> DEFINE cv == ConditionValues(values, runtime)
<1>2. \A g \in RequiredRows : completeness[g] = EvaluateRow(g, values, cv)
  BY DEF RunInv, Computed, Tracked
<1>3. \A g : TrackedValues(values, g) = VerifiedValues(values, g)
  BY DEF TrackedValues, VerifiedValues
<1> HIDE DEF cv
<1>4. \A g \in RequiredRows :
        ConditionStatus(Condition[g], cv) \in
          {"applicable", "unknown", "unsupported_condition", "not_applicable"}
  <2> TAKE g \in RequiredRows
  <2>1. Condition[g] \in {"blank", "unsupported"} \cup Rows
    BY S2Assumption
  <2> QED
    BY <2>1, S2Assumption DEF ConditionStatus
<1>5. ASSUME verification[rule] = "passed", NEW g \in AppliesTo(rule) \cap RequiredRows
      PROVE  completeness[g] \notin {"missing_required", "not_requestable_value_origin"}
  <2>1. VerifiedValues(values, g) # {}
    BY <1>1, <1>5 DEF EvaluateRule
  <2> QED
    BY <2>1, <1>2, <1>3, <1>4 DEF EvaluateRow
<1>6. ASSUME verification[rule] = "failed"
      PROVE  \E g \in AppliesTo(rule) : g \in RequiredRows => completeness[g] # "complete"
  <2>1. PICK g \in AppliesTo(rule) : VerifiedValues(values, g) = {}
    BY <1>1, <1>6 DEF EvaluateRule
  <2>2. ASSUME g \in RequiredRows PROVE completeness[g] # "complete"
    BY <2>1, <2>2, <1>2, <1>3, <1>4 DEF EvaluateRow
  <2> QED
    BY <2>2
<1> QED
  BY <1>5, <1>6

LEMMA InvUnknownStaysOpen == RunInv => UnknownConditionsStayOpen
<1> SUFFICES ASSUME RunInv, pc = "done", NEW g \in RequiredRows,
                    Condition[g] \in Rows,
                    runtime[Condition[g]] \in {"absent", "null"},
                    \A i \in On(values, Condition[g]) : values[i].content = "null"
             PROVE  /\ completeness[g] = "provisional_condition_unknown"
                    /\ \E x \in gaps : x.field_id = g /\ x.gap_type = completeness[g]
  BY DEF UnknownConditionsStayOpen
<1> DEFINE cv == ConditionValues(values, runtime)
<1>1. cv[Condition[g]] \in {"absent", "null"}
  BY DEF ConditionValues, FirstValue
<1>2. completeness[g] = EvaluateRow(g, values, cv)
  BY DEF RunInv, Computed, Tracked
<1> HIDE DEF cv
<1>3. ConditionStatus(Condition[g], cv) = "unknown"
  BY <1>1, S2Assumption DEF ConditionStatus
<1>4. completeness[g] = "provisional_condition_unknown"
  BY <1>2, <1>3 DEF EvaluateRow
<1> DEFINE x == [substage |-> "completeness", row |-> g, status |-> completeness[g]]
<1>5. x \in OpenFindings
  BY <1>4 DEF OpenFindings
<1>6. Gap(x) \in gaps
  BY <1>5 DEF RunInv, Computed
<1>7. Gap(x).field_id = g /\ Gap(x).gap_type = completeness[g]
  BY DEF Gap
<1> QED
  BY <1>4, <1>6, <1>7

\* A gap names its substage and its status, and in its substage the row or the
\* id of the rule with its first row.
LEMMA InvGapsAreDistinct == RunInv => GapsAreDistinct
<1> SUFFICES ASSUME RunInv, pc = "done", NEW x \in OpenFindings, NEW y \in OpenFindings,
                    Gap(x) = Gap(y)
             PROVE  \/ x = y
                    \/ /\ x.substage = "verification" /\ y.substage = "verification"
                       /\ x.rule.id = y.rule.id
                       /\ x.status = y.status
                       /\ x.rule.resolvable # <<>> /\ y.rule.resolvable # <<>> =>
                            Head(x.rule.resolvable) = Head(y.rule.resolvable)
  BY DEF GapsAreDistinct
<1>1. /\ Gap(x).substage = x.substage /\ Gap(y).substage = y.substage
      /\ Gap(x).gap_type = x.status /\ Gap(y).gap_type = y.status
      /\ Gap(x).rule_id = IF x.substage = "verification" THEN x.rule.id ELSE "none"
      /\ Gap(y).rule_id = IF y.substage = "verification" THEN y.rule.id ELSE "none"
  BY DEF Gap
<1>2. CASE x.substage = "completeness"
  <2>1. /\ x = [substage |-> "completeness", row |-> x.row, status |-> completeness[x.row]]
        /\ y = [substage |-> "completeness", row |-> y.row, status |-> completeness[y.row]]
    BY <1>1, <1>2 DEF OpenFindings
  <2>2. Gap(x).field_id = x.row /\ Gap(y).field_id = y.row
    BY <2>1 DEF Gap
  <2> QED
    BY <2>1, <2>2
<1>3. CASE x.substage = "derivation"
  <2>1. /\ x = [substage |-> "derivation", row |-> x.row, status |-> derivations[x.row]]
        /\ y = [substage |-> "derivation", row |-> y.row, status |-> derivations[y.row]]
    BY <1>1, <1>3 DEF OpenFindings
  <2>2. Gap(x).field_id = x.row /\ Gap(y).field_id = y.row
    BY <2>1 DEF Gap
  <2> QED
    BY <2>1, <2>2
<1>4. CASE x.substage = "verification"
  <2>1. y.substage = "verification" /\ x.rule.id = y.rule.id /\ x.status = y.status
    BY <1>1, <1>4
  <2>2. ASSUME x.rule.resolvable # <<>>, y.rule.resolvable # <<>>
        PROVE  Head(x.rule.resolvable) = Head(y.rule.resolvable)
    <3>1. /\ Gap(x).field_id = Head(x.rule.resolvable)
          /\ Gap(y).field_id = Head(y.rule.resolvable)
      BY <2>1, <2>2, <1>4 DEF Gap
    <3> QED
      BY <3>1
  <2> QED
    BY <2>1, <2>2, <1>4
<1> QED
  BY <1>2, <1>3, <1>4 DEF OpenFindings

-----------------------------------------------------------------------------
\* Every service of a run (completeness, derivation, verification) returns one of
\* its documented statuses for every row or rule it is asked about.
THEOREM S2TypeCorrect == Spec => []TypeOK
BY RunInvAlways, InvTypeOK, PTL

\* The completeness tracker and the verification engine, which index the values
\* on their own, never contradict each other about the rows of a rule.
THEOREM S2StagesAgree == Spec => []StagesAgree
BY RunInvAlways, InvStagesAgree, PTL

\* Nothing is reported missing or dropped on a condition whose row has no value.
THEOREM S2UnknownStaysOpen == Spec => []UnknownConditionsStayOpen
BY RunInvAlways, InvUnknownStaysOpen, PTL

\* Gap records of a run share an id only if they are of rules that share one, and
\* then they name one row and one status: without any premise on the rules' ids.
THEOREM S2GapsAreDistinct == Spec => []GapsAreDistinct
BY RunInvAlways, InvGapsAreDistinct, PTL
================================================================================
