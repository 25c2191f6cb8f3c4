--------------------------- MODULE EvidenceClassification ---------------------------
(* Classification of a parsed document against the vocabulary, and the extraction *)
(* targets its result calls for (services/classification_service.py,              *)
(* extraction_target_service.py and extraction_service.py).                       *)
(*                                                                                *)
(* A vocabulary variant names the words that speak for it in four groups.  Types  *)
(* and variants are numbers, in the order of their identifiers.  Confidences and  *)
(* thresholds are hundredths: the four weights and their sums are exact there.    *)
EXTENDS DocumentParsing, FiniteSets

SignalWeights == [filename_patterns |-> 35, header_terms |-> 25, key_phrases |-> 25,
                  layout_features |-> 15]
Groups == DOMAIN SignalWeights

(* The file name and every text of the parser output. *)
SearchText(fileName, output) ==
  LET texts == {TextOf(output.pages[i].text) : i \in DOMAIN output.pages}
               \cup {TextOf(output.blocks[i].text) : i \in DOMAIN output.blocks}
               \cup {TextOf(output.tables[i].rows) : i \in DOMAIN output.tables}
               \cup {output.pairs[i].key \o output.pairs[i].value : i \in DOMAIN output.pairs}
  IN  fileName \cup (UNION {ToSet(text) : text \in texts})

MatchedGroups(variant, text) == {g \in Groups : variant[g] \cap text # {}}

(* Variant: every matched term adds its group's weight. *)
PerTerm(variant, text) ==
  LET terms(g) == SignalWeights[g] * Cardinality(variant[g] \cap text)
  IN  terms("filename_patterns") + terms("header_terms") + terms("key_phrases")
      + terms("layout_features")

(* A group counts once, however many of its terms match. *)
ComputeConfidence(variant, text) ==
  LET part(g) == IF g \in MatchedGroups(variant, text) THEN SignalWeights[g] ELSE 0
  IN  part("filename_patterns") + part("header_terms") + part("key_phrases")
      + part("layout_features")

(* A set in the order that Precedes puts on it: at i is what i - 1 others precede. *)
InOrder(S, Precedes(_, _)) ==
  [i \in 1..Cardinality(S) |->
     CHOOSE x \in S : Cardinality({y \in S : Precedes(y, x)}) = i - 1]

(* The best confidence first, then the order of types and of variants. *)
Before(a, b) ==
  \/ a.confidence > b.confidence
  \/ a.confidence = b.confidence /\ a.type < b.type
  \/ a.confidence = b.confidence /\ a.type = b.type /\ a.variant < b.variant
ScoreCandidates(vocabulary, text) ==
  InOrder(
    {[type |-> v.type, variant |-> v.variant, threshold |-> v.threshold,
      multiType |-> v.multiType, confidence |-> ComputeConfidence(v, text)] :
        v \in {w \in vocabulary : ComputeConfidence(w, text) > 0}},
    Before)

NoResult == [status |-> "", type |-> None, confidence |-> 0, matches |-> <<>>]

(* Only the candidates that reach their own threshold are kept, if any does.      *)
Classify(vocabulary, loads, text) ==
  LET scored == ScoreCandidates(vocabulary, text)
      passing == Select(scored, LAMBDA c : c.confidence >= c.threshold)
      types == {passing[i].type : i \in DOMAIN passing}
      status == IF passing = <<>> THEN "low_confidence"
                ELSE IF Cardinality(types) = 1 THEN "classified"
                ELSE IF \E i \in DOMAIN passing : passing[i].multiType
                THEN "multi_type_candidate" ELSE "low_confidence"
      selected == IF passing = <<>> THEN scored ELSE passing
  IN  IF ~loads THEN [NoResult EXCEPT !.status = "failed"]
      ELSE IF scored = <<>> THEN [NoResult EXCEPT !.status = "unclassified"]
      ELSE [status |-> status, type |-> selected[1].type,
            confidence |-> selected[1].confidence, matches |-> selected]
--------------------------------------------------------------------------------
(* Targets: the configurations of a type, core fields first. *)
RequiredStatusOrder == [core |-> 0, conditional |-> 1, optional |-> 2, derived |-> 3]
TargetOrder(a, b) ==
  \/ RequiredStatusOrder[a.required] < RequiredStatusOrder[b.required]
  \/ RequiredStatusOrder[a.required] = RequiredStatusOrder[b.required] /\ a.rank < b.rank

TargetsForType(configs, type, includeOptional, includeDeprecated) ==
  InOrder(
    {c \in configs :
       /\ c.class = type
       /\ includeDeprecated \/ c.population \notin {"deprecated", "archived"}
       /\ includeOptional \/ c.required # "optional"},
    TargetOrder)

(* The primary type and those of the matches, once each, in the order of the      *)
(* matches.                                                                       *)
CandidateTypes(result) ==
  LET all == <<result.type>> \o [i \in DOMAIN result.matches |-> result.matches[i].type]
      firsts == Select([i \in DOMAIN all |-> i],
                          LAMBDA i : \A j \in 1..(i - 1) : all[j] # all[i])
  IN  [i \in DOMAIN firsts |-> all[firsts[i]]]

(* A target's identity is its type and field, so those of two types never clash.  *)
TargetsForResult(configs, result, includeOptional, includeDeprecated) ==
  CASE result.status = "classified" ->
         TargetsForType(configs, result.type, includeOptional, includeDeprecated)
    [] result.status = "multi_type_candidate" ->
         FlattenSeq([i \in DOMAIN CandidateTypes(result) |->
           TargetsForType(configs, CandidateTypes(result)[i], includeOptional,
                          includeDeprecated)])
    [] OTHER -> <<>>
================================================================================
