--------------------------- MODULE ExtractionCandidates ---------------------------
(* Candidate generation (services/extraction_candidate_service.py): for each      *)
(* target, the first value that its extraction methods find in the parser output, *)
(* with its unit, its confidence, its reference and its flags.                    *)
(*                                                                                *)
(* A method scans the output in a fixed order.  Here it is the sequence of its    *)
(* hits in that order; the code stops at the first.  Dates and booleans are       *)
(* left as their text, and a unit's plural is its singular.                       *)
EXTENDS EvidenceClassification

(* Words, by what the code takes them for. *)
QuantityKeywords == {"usage", "delivered"}
UnitKeys == {"unit"}
NoActivity == {"no activity"}
IdLabels == {"account", "ticket"}
HeaderHints == <<"delivered", "usage">>        \* in their order of preference

NumericTypes == {"quantity"}
IsNumeric(t) == t.type \in NumericTypes
IsActivityQuantity(t) == t.field = "activity_quantity"

MethodConfidence == [key_value_pair |-> 90, regex |-> 85, anchor_text |-> 80,
                     table_lookup |-> 75, excel_cell |-> 70]
Supported == DOMAIN MethodConfidence
MissingConfidence == 20
UnsupportedConfidence == 10
NoUnit == "no unit"
NoNumber == "no number"

Mentions(words, some) == \E w \in ToSet(words) : w \in some
FirstIn(words, some) == SelectInSeq(words, LAMBDA w : w \in some)
First(hits) == IF hits = <<>> THEN <<>> ELSE <<hits[1]>>

(* A bare number is not taken for an activity quantity if it looks like a year,   *)
(* is part of a date beside it, stands beside the label of an identifier on a     *)
(* text without a quantity keyword, or has its digits in a name beside it.        *)
IsLikelyBad(words, surrounding, t) ==
  /\ IsNumeric(t) /\ IsActivityQuantity(t)
  /\ Len(words) = 1 /\ words[1] \in Numbers
  /\ \/ Number[words[1]] \in 1900..2100
     \/ \E d \in ToSet(surrounding) \cap DOMAIN DateParts : words[1] \in DateParts[d]
     \/ Mentions(surrounding, IdLabels) /\ ~Mentions(surrounding, QuantityKeywords)
     \/ \E n \in ToSet(surrounding) \cap DOMAIN NameParts : words[1] \in NameParts[n]

(* The first word, in the order of the patterns, that one of them matches and the *)
(* guard lets pass.  The number pattern finds the numbers inside a date or a name *)
(* too, but the guard never lets those pass.                                      *)
Matches(words, patterns, t) ==
  FlattenSeq([i \in DOMAIN patterns |->
    Select(words, LAMBDA w : w \in patterns[i] /\ ~IsLikelyBad(<<w>>, words, t))])
--------------------------------------------------------------------------------
(* Where a value was found. *)
Inline(page, sheet, text) == Reference("inline", page, sheet, <<>>, Snippet(text))
MissingReference == Reference("missing", None, None, <<>>, <<>>)
BlockReference(output, b) ==
  IF b.ref # None THEN output.refs[b.ref] ELSE Inline(b.page, None, TextOf(b.text))
TableReference(table) == Inline(table.page, table.sheet, <<>>)

(* A table's row as text: a cell with the number 0 is an empty one to it, where   *)
(* the header and the cells beside a label are read as they are.                  *)
Shown(cell) == IF cell = <<"nought">> THEN <<>> ELSE cell
RowText(row) == FlattenSeq([i \in DOMAIN row |-> Shown(row[i])])

(* near: the texts around the value; unit: the one its row or header names. *)
Hit(method, raw, confidence, reference, page, near, unit) ==
  [method |-> method, raw |-> raw, confidence |-> confidence, reference |-> reference,
   page |-> page, near |-> near, unit |-> unit]

(* The first unit pattern that matches, then the units expected. *)
DetectUnit(words, t) ==
  LET found == Select(t.unitPatterns, LAMBDA u : u \in ToSet(words))
  IN  IF found # <<>> THEN found[1] ELSE NoUnit
DetectUnitCandidate(words, t) ==
  LET found == Select(t.unitPatterns \o t.expectedUnits, LAMBDA u : u \in ToSet(words))
  IN  IF found # <<>> THEN found[1] ELSE NoUnit

KeyValueHits(output, t) ==
  Each(output.pairs, LAMBDA pair :
    IF pair.key # <<>> /\ Head(pair.key) \in t.anchors
       /\ (IsNumeric(t) => Mentions(pair.value, DigitWords))
    THEN <<Hit("key_value_pair", pair.value, pair.confidence,
               Inline(pair.page, None, pair.key \o pair.value), pair.page,
               {pair.key, pair.value}, NoUnit)>>
    ELSE <<>>)

RegexHits(output, t) ==
  LET hitsOn(line, confidence, reference, page) ==
        LET found == Matches(WordsOf(line), t.valuePatterns, t)
        IN  [i \in DOMAIN found |->
               Hit("regex", <<found[i]>>, confidence, reference, page,
                   {WordsOf(line)}, NoUnit)]
  IN  Each(output.blocks, LAMBDA b :
        Each(b.text, LAMBDA line :
          hitsOn(line, b.confidence, BlockReference(output, b), b.page)))
      \o
      Each(output.pages, LAMBDA p :
        Each(p.text, LAMBDA line :
          hitsOn(line, Certain, Inline(p.page, None, TextOf(p.text)), p.page)))

(* Behind the first anchor: a pattern's match there, or anywhere in the text, or  *)
(* else all that follows.                                                         *)
ValueAfterAnchor(words, t) ==
  LET anchor == FirstIn(words, t.anchors)
      remainder == SubSeq(words, anchor + 1, Len(words))
      matches == FlattenSeq([i \in DOMAIN t.valuePatterns |->
                   Matches(remainder, <<t.valuePatterns[i]>>, t)
                   \o Matches(words, <<t.valuePatterns[i]>>, t)])
  IN  IF anchor = 0 THEN <<>>
      ELSE IF matches # <<>> THEN <<matches[1]>>
      ELSE IF IsLikelyBad(remainder, words, t) THEN <<>> ELSE remainder

AnchorHits(output, t) ==
  LET hitIn(words, confidence, reference, page) ==
        IF ValueAfterAnchor(words, t) = <<>> THEN <<>>
        ELSE <<Hit("anchor_text", ValueAfterAnchor(words, t), confidence, reference,
                   page, {words}, NoUnit)>>
  IN  Each(output.blocks, LAMBDA b :
        hitIn(TextOf(b.text), b.confidence, BlockReference(output, b), b.page))
      \o
      Each(output.pages, LAMBDA p :
        Each(p.text, LAMBDA line :
          hitIn(WordsOf(line), Certain, Inline(p.page, None, TextOf(p.text)), p.page)))

(* The next cell of the row that is not empty. *)
AdjacentValues(row, i) ==
  Select(SubSeq(row, i + 1, Len(row)), LAMBDA cell : cell # <<>>)
TableHits(output, t) ==
  Each(output.tables, LAMBDA table :
    Each(table.rows, LAMBDA row :
      FlattenSeq([i \in DOMAIN row |->
        IF Mentions(row[i], t.anchors) /\ AdjacentValues(row, i) # <<>>
        THEN <<Hit("table_lookup", AdjacentValues(row, i)[1], table.confidence,
                   TableReference(table), table.page, {RowText(row)}, NoUnit)>>
        ELSE <<>>])))

(* Variant: the reference is that of the label. *)
ExcelHitsCitingLabel(output, t) ==
  Each(output.refs, LAMBDA ref :
    LET right == Select(output.refs, LAMBDA other :
                   /\ ref.kind = "excel_cell" /\ other.sheet = ref.sheet
                   /\ other.cell = <<ref.cell[1], ref.cell[2] + 1>>)
    IN  IF Mentions(ref.text, t.anchors) /\ right # <<>>
        THEN <<Hit("excel_cell", right[1].text, Certain, ref, None, {}, NoUnit)>>
        ELSE <<>>)

(* The cell to the right of a label. *)
ExcelHits(output, t) ==
  Each(output.refs, LAMBDA ref :
    LET right == Select(output.refs, LAMBDA other :
                   /\ ref.kind = "excel_cell" /\ other.sheet = ref.sheet
                   /\ other.cell = <<ref.cell[1], ref.cell[2] + 1>>)
    IN  IF /\ Mentions(ref.text, t.anchors) /\ right # <<>>
           /\ t.sheetHints = {} \/ ref.sheet \in t.sheetHints
        THEN <<Hit("excel_cell", right[1].text, Certain, right[1], None, {}, NoUnit)>>
        ELSE <<>>)
--------------------------------------------------------------------------------
(* A target may be bound to a record: the quantity is then taken from a row that  *)
(* names it.                                                                      *)
QuantityTokens(words, surrounding, t) ==
  Select(words, LAMBDA w : w \in Numbers /\ ~IsLikelyBad(<<w>>, surrounding, t))

(* Among the first three rows, one that looks like a header; the first otherwise. *)
HeaderRow(rows) ==
  LET looks == {i \in 1..3 : i <= Len(rows)
                  /\ Mentions(WordsOf(rows[i]), {"ticket"} \cup ToSet(HeaderHints))}
  IN  IF looks = {} THEN 1 ELSE CHOOSE i \in looks : \A j \in looks : i <= j

(* The columns a hint names, hint by hint. *)
QuantityColumns(header) ==
  FlattenSeq([h \in DOMAIN HeaderHints |->
    Select([i \in DOMAIN header |-> i],
              LAMBDA i : HeaderHints[h] \in ToSet(header[i]))])

(* The header's unit, or else the row's. *)
RowUnit(header, row, t) ==
  IF DetectUnitCandidate(header, t) # NoUnit THEN DetectUnitCandidate(header, t)
  ELSE DetectUnitCandidate(row, t)

RowBoundTableHits(output, t) ==
  Each(output.tables, LAMBDA table :
    LET rows == table.rows
        head == HeaderRow(rows)
        columns == QuantityColumns(rows[head])
        tokens(row) ==
          LET order == IF columns = <<>> THEN [i \in DOMAIN row |-> i]
                       ELSE Select(columns, LAMBDA i : i <= Len(row))
          IN  Each(order, LAMBDA i : QuantityTokens(Shown(row[i]), RowText(row), t))
    IN  FlattenSeq([r \in DOMAIN rows |->
          IF r # head /\ t.record \in ToSet(RowText(rows[r])) /\ tokens(rows[r]) # <<>>
          THEN <<Hit("table_lookup", <<tokens(rows[r])[1]>>, table.confidence,
                     Inline(table.page, table.sheet, RowText(rows[r])), table.page,
                     {RowText(rows[r]), RowText(rows[head])},
                     RowUnit(RowText(rows[head]), RowText(rows[r]), t))>>
          ELSE <<>>]))

(* The line before counts as the header if it has cells; its columns are tried    *)
(* only if the line has them all, and then the whole line.                        *)
RowBoundLineHits(output, t) ==
  Each(output.pages, LAMBDA p :
    LET lines == NonBlank(p.text)
        header(l) == IF l > 1 THEN lines[l - 1] ELSE <<>>
        columns(l) == IF Len(header(l)) > 1 THEN QuantityColumns(header(l)) ELSE <<>>
        inColumns(l) == IF \A i \in ToSet(columns(l)) : i <= Len(lines[l])
                        THEN Each(columns(l), LAMBDA i :
                               QuantityTokens(lines[l][i], WordsOf(lines[l]), t))
                        ELSE <<>>
        tokens(l) == inColumns(l) \o QuantityTokens(WordsOf(lines[l]), WordsOf(lines[l]), t)
    IN  FlattenSeq([l \in DOMAIN lines |->
          IF t.record \in ToSet(WordsOf(lines[l])) /\ tokens(l) # <<>>
          THEN <<Hit("table_lookup", <<tokens(l)[1]>>, Certain,
                     Inline(p.page, None, WordsOf(lines[l])), p.page,
                     {WordsOf(lines[l]), WordsOf(header(l))},
                     RowUnit(WordsOf(header(l)), WordsOf(lines[l]), t))>>
          ELSE <<>>]))

HasRecord(t) == t.record # ""
RowBoundHits(output, t) ==
  IF IsActivityQuantity(t) /\ HasRecord(t)
  THEN RowBoundTableHits(output, t) \o RowBoundLineHits(output, t) ELSE <<>>

(* What a method finds, if anything: its first hit, dropped if its value is empty. *)
Dispatch(method, output, t) ==
  LET hits == CASE method = "key_value_pair" -> KeyValueHits(output, t)
                [] method = "regex" -> RowBoundHits(output, t) \o RegexHits(output, t)
                [] method = "anchor_text" -> RowBoundHits(output, t) \o AnchorHits(output, t)
                [] method = "table_lookup" -> RowBoundHits(output, t) \o TableHits(output, t)
                [] method = "excel_cell" -> ExcelHits(output, t)
  IN  Select(First(hits), LAMBDA hit : hit.raw # <<>>)

(* Variant: a record does not put tables first. *)
BasePriority(method, t) == MethodConfidence[method]

MethodPriority(method, t) ==
  MethodConfidence[method] + (IF HasRecord(t) /\ method = "table_lookup" THEN 30 ELSE 0)
OrderedMethods(t) ==
  InOrder(t.methods \cap Supported,
               LAMBDA a, b : MethodPriority(a, t) > MethodPriority(b, t))
--------------------------------------------------------------------------------
(* The lines around a value: of its page, or of everything without one. *)
On(page, thing) == page = None \/ thing.page = page
LinesOn(things, page) ==
  UNION {{WordsOf(things[i].text[l]) : l \in DOMAIN things[i].text} :
           i \in {j \in DOMAIN things : On(page, things[j])}}
ContextLines(output, page) ==
  {output.pairs[i].key \o output.pairs[i].value :
     i \in {j \in DOMAIN output.pairs : On(page, output.pairs[j])}}
  \cup LinesOn(output.blocks, page) \cup LinesOn(output.pages, page)

Corpus(output) ==
  LET tableLines == UNION {{RowText(output.tables[i].rows[r]) :
                              r \in DOMAIN output.tables[i].rows} : i \in DOMAIN output.tables}
  IN  UNION {ToSet(text) : text \in ContextLines(output, None) \cup tableLines}

(* Variant: only pairs are looked at. *)
PositivePair(output) ==
  \E i \in DOMAIN output.pairs :
    Mentions(output.pairs[i].key, QuantityKeywords)
    /\ Mentions(output.pairs[i].value, DigitWords \ {"zero"})

(* A quantity keyword and a positive number on one line, or in one pair. *)
HasPositiveQuantity(output) ==
  LET any == [field |-> "activity_quantity", type |-> "quantity"]
      positive(words) == \E w \in ToSet(words) \cap Numbers : Number[w] > 0
  IN  \/ \E i \in DOMAIN output.pairs :
           LET digits == FirstIn(output.pairs[i].value, DigitWords)
           IN  /\ Mentions(output.pairs[i].key, QuantityKeywords)
               /\ digits # 0 /\ output.pairs[i].value[digits] # "zero"
      \/ \E line \in ContextLines(output, None) :
           /\ Mentions(line, QuantityKeywords)
           /\ positive(QuantityTokens(line, line, any))

ShouldSuppress(output, t) ==
  /\ IsActivityQuantity(t) /\ Corpus(output) \cap NoActivity # {}
  /\ ~HasPositiveQuantity(output)

(* Variant: the first unit seen is taken. *)
AnyUnit(units) == IF units = {} THEN NoUnit ELSE CHOOSE u \in units : TRUE

ResolveSingleUnit(units) ==
  IF \E u \in units : units = {u} THEN CHOOSE u \in units : TRUE ELSE NoUnit

(* Every unit that the value, its row, a unit pair, or a line about quantities or *)
(* units on its page names.                                                       *)
UnitsAround(output, t, hit) ==
  LET pairs == {i \in DOMAIN output.pairs : On(hit.page, output.pairs[i])
                  /\ output.pairs[i].key # <<>> /\ Head(output.pairs[i].key) \in UnitKeys}
      texts == {hit.raw} \cup hit.near \cup {output.pairs[i].value : i \in pairs}
               \cup {line \in ContextLines(output, hit.page) :
                       Mentions(line, QuantityKeywords \cup UnitKeys)}
  IN  ({hit.unit} \cup {DetectUnitCandidate(text, t) : text \in texts}) \ {NoUnit}

InferUnit(output, t, hit, unit) ==
  IF unit # NoUnit THEN unit
  ELSE IF ~IsNumeric(t) \/ (t.expectedUnits = <<>> /\ t.unitPatterns = <<>>) THEN NoUnit
  ELSE ResolveSingleUnit(UnitsAround(output, t, hit))

(* The flags of a value are decided before its unit is inferred; an inferred unit *)
(* takes one back.                                                                *)
Normalize(raw, t) ==
  LET unit == DetectUnit(raw, t)
      number == Select(raw, LAMBDA w : w \in DigitWords)
      missing == IsNumeric(t) /\ t.expectedUnits # <<>> /\ unit = NoUnit
      foreign == IsNumeric(t) /\ unit # NoUnit /\ t.targetUnit # NoUnit /\ unit # t.targetUnit
  IN  [value |-> IF ~IsNumeric(t) THEN raw
                 ELSE IF number = <<>> THEN <<NoNumber>> ELSE <<number[1]>>,
       unit |-> unit,
       flags |-> (IF missing THEN {"unit_missing"} ELSE {})
                 \cup (IF foreign THEN {"unit_conversion_not_implemented"} ELSE {})]

Min2(a, b) == IF a < b THEN a ELSE b
CombineConfidence(method, confidence) == Min2(MethodConfidence[method], confidence)

Candidate(t, raw, value, unit, confidence, reference, flags) ==
  [field |-> t.field, type |-> t.type, raw |-> raw, value |-> value, unit |-> unit,
   confidence |-> confidence, reference |-> reference, flags |-> flags]
Unfound(t, confidence, flags) ==
  Candidate(t, <<>>, <<>>, NoUnit, confidence, MissingReference, flags)
NotFoundFlags(t) == IF t.required \in {"core", "conditional"} THEN {"field_not_found"} ELSE {}

(* Variant: the flag for a missing unit stays. *)
KeepsFlag(output, t, hit) ==
  LET plain == Normalize(hit.raw, t)
  IN  Candidate(t, hit.raw, plain.value, InferUnit(output, t, hit, plain.unit),
                CombineConfidence(hit.method, hit.confidence), hit.reference, plain.flags)

FoundCandidate(output, t, hit) ==
  LET plain == Normalize(hit.raw, t)
      unit == InferUnit(output, t, hit, plain.unit)
      flags == IF unit # NoUnit THEN plain.flags \ {"unit_missing"} ELSE plain.flags
  IN  Candidate(t, hit.raw, plain.value, unit,
                CombineConfidence(hit.method, hit.confidence), hit.reference, flags)

GenerateForTarget(output, t) ==
  LET methods == OrderedMethods(t)
      hits == Each(methods, LAMBDA m : Dispatch(m, output, t))
  IN  IF methods = <<>> THEN Unfound(t, UnsupportedConfidence, {"unsupported_extraction_method"})
      ELSE IF ShouldSuppress(output, t) \/ hits = <<>>
      THEN Unfound(t, MissingConfidence, NotFoundFlags(t))
      ELSE FoundCandidate(output, t, hits[1])

GenerateCandidates(output, targets) ==
  [i \in DOMAIN targets |-> GenerateForTarget(output, targets[i])]
================================================================================
