------------------------------ MODULE EvidenceStages ------------------------------
(* The stages of one pipeline run with their data: parse, classify, plan targets, *)
(* generate candidates (the try block of process_local_document).  What a run does *)
(* to documents and stored runs is DocumentProcessing's subject; here it is what  *)
(* the stages compute from the document and hand on to each other.                *)
EXTENDS ExtractionCandidates

CONSTANTS
  Documents,     \* files: extension, mimeType, name, parts, readable, layout, percent
  Settings,      \* [textract, override, includeOptional, includeDeprecated]
  Vocabulary,    \* the variants of the vocabulary workbook
  Configs        \* the extraction configurations

(* Text is cells of words, in rows, in parts; what is neither paged nor a workbook *)
(* is one part.  The number 0 is in a workbook's cells only, and two words that    *)
(* are of the code's making are in no document.                                    *)
ASSUME DocumentsAssumption ==
  \A d \in Documents :
    /\ d.parts \in Seq(Seq(Seq(Seq(STRING))))
    /\ DetectParserKind(d) \in {"text", "csv"} => Len(d.parts) = 1
    /\ \A p \in DOMAIN d.parts : \A r \in DOMAIN d.parts[p] :
         \A cell \in ToSet(d.parts[p][r]) :
           /\ "nought" \in ToSet(cell) => DetectParserKind(d) = "excel" /\ cell = <<"nought">>
           /\ ToSet(cell) \cap MadeWords = {}
ASSUME SettingsAssumption == \A s \in Settings : s.textract \in BOOLEAN
(* Variants have their own identifiers, and no terms of the code's making; no two  *)
(* configurations of a type have the same place in the order of their fields.      *)
ASSUME VocabularyAssumption ==
  /\ IsFiniteSet(Vocabulary)
  /\ \A v \in Vocabulary : /\ v.type \in Int /\ v.variant \in Int /\ v.threshold \in Int
                           /\ \A g \in Groups : v[g] \cap MadeWords = {}
  /\ \A v, w \in Vocabulary : v.type = w.type /\ v.variant = w.variant => v = w
ASSUME ConfigsAssumption ==
  /\ IsFiniteSet(Configs)
  /\ \A c \in Configs : /\ c.required \in DOMAIN RequiredStatusOrder /\ c.rank \in Int
                        /\ c.valuePatterns \in Seq(SUBSET STRING)
                        /\ c.unitPatterns \in Seq(STRING)
  /\ \A c, d \in Configs : c.class = d.class /\ c.rank = d.rank => c = d

VARIABLES doc, setting, step, output, result, targets, candidates
vars == <<doc, setting, step, output, result, targets, candidates>>

Init ==
  /\ doc \in Documents /\ setting \in Settings
  /\ step = "parse" /\ output = NoOutput /\ result = NoResult
  /\ targets = <<>> /\ candidates = <<>>

(* A failed parse ends the run. *)
Parse ==
  /\ step = "parse"
  /\ output' = ParseDocument(doc, setting.textract)
  /\ step' = IF output'.status = "failed" THEN "failed" ELSE "classify"
  /\ UNCHANGED <<doc, setting, result, targets, candidates>>

(* A vocabulary that cannot be loaded is a failed result, not a failed run. *)
ClassifyDocument ==
  /\ step = "classify"
  /\ \E loads \in BOOLEAN :
       result' = Classify(Vocabulary, loads, SearchText(doc.name, output))
  /\ step' = "plan"
  /\ UNCHANGED <<doc, setting, output, targets, candidates>>

(* The reviewer's type, or else the classifier's if it is confident. *)
PlanTargets ==
  /\ step = "plan"
  /\ LET planned == IF setting.override # None
                    THEN TargetsForType(Configs, setting.override,
                           setting.includeOptional, setting.includeDeprecated)
                    ELSE TargetsForResult(Configs, result,
                           setting.includeOptional, setting.includeDeprecated)
     IN  \/ targets' = planned /\ step' = IF planned = <<>> THEN "partial" ELSE "generate"
         \/ (* the configurations cannot be loaded *)
            targets' = <<>> /\ step' = "failed"
  /\ UNCHANGED <<doc, setting, output, result, candidates>>

Generate ==
  /\ step = "generate"
  /\ candidates' = GenerateCandidates(output, targets)
  /\ step' = "completed"
  /\ UNCHANGED <<doc, setting, output, result, targets>>

Next == Parse \/ ClassifyDocument \/ PlanTargets \/ Generate
Spec == Init /\ [][Next]_vars
--------------------------------------------------------------------------------
(* What the reader of the document sees, whatever the parsers make of it. *)
DocumentWords == doc.name \cup UNION {ToSet(TextOf(doc.parts[p])) : p \in DOMAIN doc.parts}
InWorkbook == DetectParserKind(doc) = "excel"

(* The words of a row as the file has it: with those that a CSV's commas make.    *)
RowWords(row) ==
  ToSet(WordsOf(row))
  \cup (IF DetectParserKind(doc) = "csv" THEN ToSet(CommaText(row)) ELSE {})
PartWords(p) == UNION {RowWords(row) : row \in ToSet(doc.parts[p])}

(* The place a reference cites: a cell, a page, a sheet. *)
CitedPart(reference) == IF reference.page # None THEN reference.page ELSE reference.sheet
Place(reference) ==
  IF reference.kind = "excel_cell"
  THEN ToSet(doc.parts[reference.sheet][reference.cell[1]][reference.cell[2]])
  ELSE IF CitedPart(reference) # None THEN PartWords(CitedPart(reference)) ELSE {}

(* The texts that stand alone: the cells of a workbook, the rows of the rest.     *)
Statements(reference) ==
  LET parts == IF reference.page # None THEN {doc.parts[reference.page]} ELSE ToSet(doc.parts)
      rows == UNION {ToSet(part) : part \in parts}
  IN  IF InWorkbook THEN UNION {ToSet(row) : row \in rows}
      ELSE {WordsOf(row) : row \in rows}

Found == {i \in DOMAIN candidates : candidates[i].raw # <<>>}

(* A reviewer is shown the value at the place it came from.  Every word of a      *)
(* found value stands at the page, sheet or cell that its reference cites, and so *)
(* does every word the reference quotes from there, but for what the cap cut; a   *)
(* quotation that was not cut has the value in it.  A candidate without a value   *)
(* cites nothing.                                                                 *)
ValueIsWhereCited ==
  \A i \in DOMAIN candidates :
    LET c == candidates[i]
        quoted == ToSet(c.reference.text)
    IN  IF c.raw = <<>> THEN c.reference = MissingReference
        ELSE /\ (ToSet(c.raw) \cup quoted) \ CutWords \subseteq Place(c.reference)
             /\ quoted # {} /\ quoted \cap CutWords = {} => ToSet(c.raw) \subseteq quoted

(* The confidence a document gives a variant, from the words a reader sees. *)
Support(v) ==
  LET weight(g) == IF v[g] \cap DocumentWords = {} THEN 0 ELSE SignalWeights[g]
  IN  weight("filename_patterns") + weight("header_terms") + weight("key_phrases")
      + weight("layout_features")

(* Nothing is extracted on a guess.  Unless a reviewer chose the type, a target   *)
(* is attempted only for a type one of whose variants has the support its         *)
(* threshold asks for, and targets of two types only if such a variant says that  *)
(* documents of its kind hold several.                                            *)
TargetsAreWarranted ==
  setting.override = None =>
    LET warranted == {v \in Vocabulary : Support(v) >= v.threshold /\ Support(v) > 0}
    IN  /\ {targets[i].class : i \in DOMAIN targets} \subseteq {v.type : v \in warranted}
        /\ Cardinality({targets[i].class : i \in DOMAIN targets}) > 1
           => \E v \in warranted : v.multiType

(* A unit is said, not chosen.  A unit that is not part of the value itself is    *)
(* not contradicted where the value was found: no statement about quantities or   *)
(* units there names another one first.                                           *)
UnitsDoNotConflict ==
  \A i \in Found :
    LET c == candidates[i]
        t == targets[i]
        about == {s \in Statements(c.reference) :
                    Mentions(s, QuantityKeywords \cup UnitKeys)
                    /\ DetectUnitCandidate(s, t) # NoUnit}
    IN  IsNumeric(t) /\ c.unit \notin ToSet(c.raw) \cup {NoUnit}
        => \A s \in about : DetectUnitCandidate(s, t) = c.unit

(* The flags a reviewer filters by are true of the candidate they are on.         *)
FlagsTellTheTruth ==
  \A i \in DOMAIN candidates :
    LET c == candidates[i]
        t == targets[i]
    IN  /\ "field_not_found" \in c.flags => c.raw = <<>>
        /\ c.raw = <<>> /\ t.required = "core" => c.flags # {}
        /\ "unit_missing" \in c.flags
             <=> c.raw # <<>> /\ IsNumeric(t) /\ t.expectedUnits # <<>> /\ c.unit = NoUnit

(* A number that a row states as such: no year, and no part of a date or a name   *)
(* beside it.                                                                     *)
IsPlainNumber(w, words) ==
  /\ w \in Numbers /\ Number[w] \notin 1900..2100
  /\ \A d \in words \cap DOMAIN DateParts : w \notin DateParts[d]
  /\ \A n \in words \cap DOMAIN NameParts : w \notin NameParts[n]

(* A row that states a number, and not as an identifier.  A zero of a workbook    *)
(* says nothing, and what stands in the first three rows, or in a sheet with      *)
(* headings in them, may be in a column the code does not look at.                *)
StatesNumber(p, r) ==
  LET row == ToSet(RowText(doc.parts[p][r]))
  IN  /\ \E w \in row : IsPlainNumber(w, row)
      /\ row \cap IdLabels # {} => row \cap QuantityKeywords # {}
      /\ InWorkbook => /\ r > 3
                       /\ \A h \in 1..3 : ToSet(WordsOf(doc.parts[p][h]))
                                           \cap ToSet(HeaderHints) = {}

(* A target bound to a record does not take another row's quantity when the       *)
(* record's own row, anywhere in the document, has one: its value is of a row     *)
(* that names the record, in the page or sheet it cites.                          *)
RecordRowComesFirst ==
  \A i \in Found :
    LET t == targets[i]
        c == candidates[i]
        cited == CitedPart(c.reference)
    IN  /\ IsActivityQuantity(t) /\ HasRecord(t) /\ t.record \notin Numbers
        /\ "table_lookup" \in t.methods
        /\ \E p \in DOMAIN doc.parts : \E r \in DOMAIN doc.parts[p] :
             t.record \in ToSet(RowText(doc.parts[p][r])) /\ StatesNumber(p, r)
        => \E row \in ToSet(doc.parts[cited]) :
             t.record \in ToSet(WordsOf(row)) /\ ToSet(c.raw) \subseteq RowWords(row)

(* A row that names a positive quantity. *)
ReportsQuantity ==
  \E p \in DOMAIN doc.parts : \E row \in ToSet(doc.parts[p]) :
    LET words == ToSet(WordsOf(row))
    IN  words \cap QuantityKeywords # {}
        /\ \E w \in words : IsPlainNumber(w, words) /\ Number[w] > 0
Suppressed == \E i \in DOMAIN candidates : ShouldSuppress(output, targets[i])

(* A statement of no activity does not hide a quantity that the same document     *)
(* reports, where lines are kept whole (everywhere but in a workbook).            *)
ReportedQuantityIsKept == ReportsQuantity /\ ~InWorkbook => ~Suppressed

================================================================================
