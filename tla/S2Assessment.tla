---------------------------- MODULE S2Assessment ----------------------------
(***************************************************************************)
(* One run of the S2 methodology checks (s2_orchestration_service.py): the *)
(* values projected from approved evidence are checked for completeness,   *)
(* derived rows are computed, verification rules are applied, and what is  *)
(* open becomes gap records.  The three services index the values on their *)
(* own, and a reader of the result expects them to tell one story.         *)
(*                                                                         *)
(* The registry is a constant.  A condition is a comparison of one row     *)
(* with "yes" (ConditionEvaluator has the language), an approved value is  *)
(* null, blank, text or a number, and a number may have a unit.  A request *)
(* is served by one thread that shares nothing with others, so a step is   *)
(* one service call.  MaxValues bounds the values of a run.                *)
(***************************************************************************)
EXTENDS Naturals, Sequences, FiniteSets

CONSTANTS Rows,          \* Field_IDs of the registry
          Unresolved,    \* references that name no row
          RequiredRows,  \* rows of requirement level Core
          Origin, Layer, \* functions on Rows
          Condition,     \* [Rows -> "blank", "unsupported" or the row compared]
          DerivedFrom,   \* [Rows -> what the row is derived from, each named once]
          Rules,         \* runtime verification rules; an id may be repeated
          Units, MaxValues

NON_REQUESTABLE_VALUE_ORIGINS == {"computed", "verifier_determined", "assigned"}
ValueOrigin == {"extracted"} \cup NON_REQUESTABLE_VALUE_ORIGINS
RuleType == {"guard", "gate", "invariant", "limit", "recompute"}
Rule == [id : STRING, is_provisional : BOOLEAN, rule_type : RuleType,
         resolvable : Seq(Rows), has_unresolved : BOOLEAN]

ASSUME S2Assumption ==
    /\ {"blank", "unsupported"} \cap Rows = {}
    /\ Unresolved \cap Rows = {}
    /\ RequiredRows \subseteq Rows
    /\ Origin \in [Rows -> ValueOrigin]
    /\ DOMAIN Layer = Rows
    /\ Condition \in [Rows -> {"blank", "unsupported"} \cup Rows]
    /\ DerivedFrom \in [Rows -> SUBSET (Rows \cup Unresolved)]
    /\ \A x \in Rules : x \in Rule
    /\ \A x \in Rules : x.id # "none"
    /\ "none" \notin Units
    /\ MaxValues \in Nat

VARIABLES
    values,        \* Seq(Value), the methodology values of the projection
    runtime,       \* [Rows -> runtime condition value or "absent"]
    pc,            \* the next service call of the run
    completeness,  \* [RequiredRows -> status], once tracked
    derivations,   \* [DerivedRows -> status], once derived
    verification,  \* [Rules -> status], once verified
    gaps           \* the gap records

vars == <<values, runtime, pc, completeness, derivations, verification, gaps>>

-----------------------------------------------------------------------------
Content == {"null", "blank", "yes", "text", "number"}
Value == [row : Rows, content : Content, unit : Units \cup {"none"}]
ConditionValue == Content \cup {"absent"}

CompletenessStatus == {"complete", "missing_required", "not_applicable",
                       "provisional_condition_unknown", "not_requestable_value_origin"}
DerivationStatus == {"derived", "missing_dependency", "cross_layer_unsupported",
                     "unsupported_derivation"}
VerificationStatus == {"passed", "failed", "not_applicable", "provisional",
                       "unsupported", "cannot_verify"}

HasPopulatedValue(v) == v.content \notin {"null", "blank"}
On(vs, g) == {i \in DOMAIN vs : vs[i].row = g}

-----------------------------------------------------------------------------
(* Completeness.                                                           *)

\* _condition_values: the first value of a row that is not null.
FirstValue(vs, g) ==
    LET I == {i \in On(vs, g) : vs[i].content # "null"}
    IN IF I = {} THEN "absent"
       ELSE vs[CHOOSE i \in I : \A k \in I : i <= k].content

\* runtime_condition_values or _condition_values(methodology_values)
ConditionValues(vs, rt) ==
    IF \E g \in Rows : rt[g] # "absent" THEN rt ELSE [g \in Rows |-> FirstValue(vs, g)]

\* Variant: a condition on a row without a value is taken as true.
UnknownIsApplicable(g, cv) ==
    CASE g = "blank" -> "applicable"
      [] g = "unsupported" -> "unsupported_condition"
      [] g \in Rows -> IF cv[g] \in {"absent", "null", "yes"} THEN "applicable"
                       ELSE "not_applicable"

ConditionStatus(g, cv) ==
    CASE g = "blank" -> "applicable"
      [] g = "unsupported" -> "unsupported_condition"
      [] g \in Rows -> IF cv[g] \in {"absent", "null"} THEN "unknown"
                       ELSE IF cv[g] = "yes" THEN "applicable"
                       ELSE "not_applicable"

\* The tracker's _index_values.
TrackedValues(vs, g) == {i \in On(vs, g) : HasPopulatedValue(vs[i])}

EvaluateRow(row, vs, cv) ==
    LET status == ConditionStatus(Condition[row], cv)
    IN CASE status = "not_applicable" -> "not_applicable"
         [] status \in {"unknown", "unsupported_condition"} -> "provisional_condition_unknown"
         [] status = "applicable" /\ TrackedValues(vs, row) # {} -> "complete"
         [] status = "applicable" /\ TrackedValues(vs, row) = {} ->
              IF Origin[row] = "extracted" THEN "missing_required"
              ELSE "not_requestable_value_origin"

-----------------------------------------------------------------------------
(* Derivation.                                                             *)

DerivedRows == {row \in Rows : DerivedFrom[row] # {}}

Sources(row, vs) == {i \in DOMAIN vs : vs[i].row \in DerivedFrom[row]}

Summable(S, vs) ==
    /\ \A i \in S : vs[i].content = "number"
    /\ \A i, k \in S : vs[i].unit = vs[k].unit \/ "none" \in {vs[i].unit, vs[k].unit}

DeriveRow(row, vs) ==
    LET S == Sources(row, vs)
    IN CASE row \in DerivedFrom[row] -> "unsupported_derivation"
         [] row \notin DerivedFrom[row] /\ ~(DerivedFrom[row] \subseteq Rows) ->
              "missing_dependency"
         [] row \notin DerivedFrom[row] /\ DerivedFrom[row] \subseteq Rows ->
              IF \E g \in DerivedFrom[row] : Layer[g] # Layer[row]
              THEN "cross_layer_unsupported"
              ELSE IF \E g \in DerivedFrom[row] : On(vs, g) = {} THEN "missing_dependency"
              ELSE IF (\A i, k \in S : i = k) \/ Summable(S, vs) THEN "derived"
              ELSE "unsupported_derivation"

-----------------------------------------------------------------------------
(* Verification.                                                           *)

EXECUTABLE_RULE_TYPES == {"guard", "gate", "invariant"}
LIMIT_RULE_TYPES == {"limit"}

\* Variant: every value counts, null and blank ones too.
AnyValues(vs, g) == On(vs, g)

\* The engine's own _index_values.
VerifiedValues(vs, g) == {i \in On(vs, g) : HasPopulatedValue(vs[i])}

AppliesTo(rule) == {rule.resolvable[i] : i \in DOMAIN rule.resolvable}

EvaluateRule(rule, vs) ==
    IF rule.is_provisional THEN "provisional"
    ELSE IF rule.resolvable = <<>>
    THEN IF rule.has_unresolved THEN "not_applicable" ELSE "unsupported"
    ELSE IF rule.rule_type \in LIMIT_RULE_TYPES THEN "cannot_verify"
    ELSE IF rule.rule_type \notin EXECUTABLE_RULE_TYPES THEN "unsupported"
    ELSE IF \E g \in AppliesTo(rule) : VerifiedValues(vs, g) = {} THEN "failed"
    ELSE "passed"

-----------------------------------------------------------------------------
(* Gap records.                                                            *)

\* What the three from_..._result methods select.
OpenFindings ==
    {x \in {[substage |-> "completeness", row |-> g, status |-> completeness[g]] :
                g \in RequiredRows} :
        x.status \in {"missing_required", "provisional_condition_unknown"}}
    \cup {x \in {[substage |-> "derivation", row |-> g, status |-> derivations[g]] :
                g \in DerivedRows} : x.status # "derived"}
    \cup {x \in {[substage |-> "verification", rule |-> r, status |-> verification[r]] :
                r \in Rules} :
        x.status \in {"failed", "cannot_verify", "provisional", "unsupported"}}

\* Variant: the gap of a rule is identified by its field only.
GapByField(x) ==
    [substage |-> x.substage, gap_type |-> x.status, rule_id |-> "none",
     field_id |-> IF x.substage # "verification" THEN x.row
                  ELSE IF x.rule.resolvable = <<>> THEN "verification"
                  ELSE Head(x.rule.resolvable)]

\* _record: what a gap_record_id is made of; a run has one engagement and, as
\* far as it matters, one created_at.
Gap(x) ==
    [substage |-> x.substage, gap_type |-> x.status,
     rule_id |-> IF x.substage = "verification" THEN x.rule.id ELSE "none",
     field_id |-> IF x.substage # "verification" THEN x.row
                  ELSE IF x.rule.resolvable = <<>> THEN "verification"
                  ELSE Head(x.rule.resolvable)]

-----------------------------------------------------------------------------
Tracked == {"derive", "verify", "emit", "done"}
Derived == {"verify", "emit", "done"}
Verified == {"emit", "done"}
PC == {"evidence", "track"} \cup Tracked

TypeOK ==
    /\ values \in Seq(Value)
    /\ runtime \in [Rows -> ConditionValue]
    /\ pc \in PC
    /\ pc \in Tracked => completeness \in [RequiredRows -> CompletenessStatus]
    /\ pc \in Derived => derivations \in [DerivedRows -> DerivationStatus]
    /\ pc \in Verified => verification \in [Rules -> VerificationStatus]

Init ==
    /\ values = <<>>
    /\ runtime = [g \in Rows |-> "absent"]
    /\ pc = "evidence"
    /\ completeness = <<>>
    /\ derivations = <<>>
    /\ verification = <<>>
    /\ gaps = {}

\* The approved evidence of the request, projected to methodology values.
Project(v) ==
    /\ pc = "evidence"
    /\ Len(values) < MaxValues
    /\ v.unit = "none" \/ v.content = "number"
    /\ values' = Append(values, v)
    /\ UNCHANGED <<runtime, pc, completeness, derivations, verification, gaps>>

\* The request, with no runtime condition value or one of them.
Run(g, c) ==
    /\ pc = "evidence"
    /\ runtime' = [runtime EXCEPT ![g] = c]
    /\ pc' = "track"
    /\ UNCHANGED <<values, completeness, derivations, verification, gaps>>

TrackCompleteness ==
    /\ pc = "track"
    /\ LET cv == ConditionValues(values, runtime)
       IN completeness' = [row \in RequiredRows |-> EvaluateRow(row, values, cv)]
    /\ pc' = "derive"
    /\ UNCHANGED <<values, runtime, derivations, verification, gaps>>

DeriveAll ==
    /\ pc = "derive"
    /\ derivations' = [row \in DerivedRows |-> DeriveRow(row, values)]
    /\ pc' = "verify"
    /\ UNCHANGED <<values, runtime, completeness, verification, gaps>>

Verify ==
    /\ pc = "verify"
    /\ verification' = [rule \in Rules |-> EvaluateRule(rule, values)]
    /\ pc' = "emit"
    /\ UNCHANGED <<values, runtime, completeness, derivations, gaps>>

EmitGaps ==
    /\ pc = "emit"
    /\ gaps' = {Gap(x) : x \in OpenFindings}
    /\ pc' = "done"
    /\ UNCHANGED <<values, runtime, completeness, derivations, verification>>

Next ==
    \/ \E v \in Value : Project(v)
    \/ \E g \in Rows, c \in ConditionValue : Run(g, c)
    \/ TrackCompleteness \/ DeriveAll \/ Verify \/ EmitGaps

Spec == Init /\ [][Next]_vars

-----------------------------------------------------------------------------
(* Properties.                                                             *)

\* Completeness and verification agree about which rows have values: no row of
\* a rule that passed is reported as missing or as not requestable, and a rule
\* fails only if one of its rows is not complete.
StagesAgree ==
    pc = "done" => \A rule \in Rules :
        /\ verification[rule] = "passed" =>
             \A g \in AppliesTo(rule) \cap RequiredRows :
                completeness[g] \notin {"missing_required", "not_requestable_value_origin"}
        /\ verification[rule] = "failed" =>
             \E g \in AppliesTo(rule) :
                g \in RequiredRows => completeness[g] # "complete"

\* Evidence is only asked for when it is known to apply (CX-12): a required row
\* whose condition compares a row nobody gave a value is never reported missing
\* and never dropped as not applicable; it stays open, with a gap record.
UnknownConditionsStayOpen ==
    pc = "done" => \A g \in RequiredRows :
        (/\ Condition[g] \in Rows
         /\ runtime[Condition[g]] \in {"absent", "null"}
         /\ \A i \in On(values, Condition[g]) : values[i].content = "null")
        => /\ completeness[g] = "provisional_condition_unknown"
           /\ \E x \in gaps : x.field_id = g /\ x.gap_type = completeness[g]

\* Nothing but a repeated rule id makes two findings of a run share a
\* gap_record_id (s2_gap_record_service.py:117 hashes these fields into it), and
\* then they agree on what the gap says: no row's gap and no status is lost to S3.
\* Nothing that loads the rules refuses a repeated id.
GapsAreDistinct ==
    pc = "done" => \A x, y \in OpenFindings : Gap(x) = Gap(y) =>
        \/ x = y
        \/ /\ x.substage = "verification" /\ y.substage = "verification"
           /\ x.rule.id = y.rule.id
           /\ x.status = y.status
           /\ x.rule.resolvable # <<>> /\ y.rule.resolvable # <<>> =>
                Head(x.rule.resolvable) = Head(y.rule.resolvable)
=============================================================================
