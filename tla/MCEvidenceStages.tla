---------------------------- MODULE MCEvidenceStages ----------------------------
(* TLC instance of EvidenceStages: documents of up to three rows drawn from a few *)
(* kinds of row, behind a heading, as every kind of file.                         *)
EXTENDS EvidenceStages, TLC

Rows == {
  <<>>,
  <<<<"usage">>, <<"five">>>>,
  <<<<"usage">>, <<"year">>>>,
  <<<<"usage", "eight", "gal">>>>,
  <<<<"usage">>, <<"fifth">>, <<"eight", "mmbtu">>>>,
  <<<<"unit">>, <<"mmbtu">>>>,
  <<<<"no activity">>>>,
  <<<<"account">>, <<"eight">>>>,
  <<<<"ticket">>, <<"delivered", "gal">>>>,
  <<<<"r12">>, <<"eight">>>>,
  <<<<"r34">>, <<"five">>>>,
  <<<<"usage", "r12">>, <<"twelve">>>>,
  <<<<"site">>, <<"plant", "usage", "twelve">>>>,
  <<<<"fuel receipt">>>> }

Firsts == {<<>>, <<<<"no activity">>>>, <<<<"ticket">>, <<"delivered", "gal">>>>}

(* The number 0 in a cell of its own. *)
Nought == <<<<"r12">>, <<"nought">>>>
RowsOf(kind) == IF kind[1] = "excel" THEN Rows \cup {Nought} ELSE Rows

(* A PDF, a scan or a workbook may put its last row on a part of its own. *)
Kinds == {<<"text", "form">>, <<"csv", "form">>, <<"excel", "form">>, <<"pdf", "form">>,
          <<"pdf", "table">>, <<"image", "form">>}
Parts(kind, rows) ==
  {<<rows>>} \cup (IF kind[1] \in {"text", "csv"} THEN {}
                   ELSE {<<SubSeq(rows, 1, 3), <<rows[4]>>>>})

Document(kind, name, parts, readable) ==
  [extension |-> kind[1], mimeType |-> "", name |-> name, parts |-> parts,
   readable |-> readable, layout |-> kind[2], percent |-> 50]
Readable ==
  UNION {{Document(k, n, parts, TRUE) :
            n \in {{}, {"bill.pdf"}},
            parts \in UNION {Parts(k, <<<<<<"gas bill">>>>, h, r, s>>) :
                               h \in Firsts, r \in RowsOf(k), s \in RowsOf(k)}} : k \in Kinds}
(* No text at all, and files that cannot be read or have no parser. *)
Others ==
  {Document(k, {}, <<<<<<>>>>>>, TRUE) : k \in Kinds}
  \cup {Document(k, {}, <<<<>>>>, FALSE) : k \in Kinds}
  \cup {[Document(<<"", "form">>, {}, <<<<>>>>, TRUE) EXCEPT !.mimeType = m] : m \in {"text", "zip"}}
MCDocuments == Readable \cup Others

MCSettings ==
  [textract : BOOLEAN, override : {0, 2}, includeOptional : {TRUE}, includeDeprecated : {FALSE}]

Variant(type, id, multi, fileName, header, phrases) ==
  [type |-> type, variant |-> id, threshold |-> 50, multiType |-> multi,
   filename_patterns |-> fileName, header_terms |-> header, key_phrases |-> phrases,
   layout_features |-> {"unit"}]
MCVocabulary ==
  {Variant(1, 1, TRUE, {"bill.pdf"}, {"gas bill", "account"}, {"usage", "site"}),
   Variant(1, 2, FALSE, {}, {"gas bill"}, {"r12"}),
   Variant(2, 3, FALSE, {}, {"fuel receipt"}, {"ticket", "usage"})}

Quantity(class, methods, record) ==
  [class |-> class, field |-> "activity_quantity", type |-> "quantity", required |-> "core",
   rank |-> 1, population |-> "active", methods |-> methods, anchors |-> {"usage", "delivered"},
   valuePatterns |-> <<Numbers>>, unitPatterns |-> <<"mmbtu", "gal">>,
   expectedUnits |-> <<"mmbtu", "gal">>, targetUnit |-> "mmbtu", record |-> record,
   sheetHints |-> {}]
MCConfigs ==
  {Quantity(1, {"anchor_text", "regex", "table_lookup", "key_value_pair", "llm_structured"}, ""),
   [Quantity(1, {"key_value_pair", "table_lookup", "regex"}, "r12") EXCEPT
      !.rank = 2, !.required = "conditional"],
   [Quantity(1, {"excel_cell", "manual_entry"}, "") EXCEPT
      !.field = "facility_name", !.type = "string", !.rank = 3, !.anchors = {"site"},
      !.valuePatterns = <<>>, !.required = "optional"],
   Quantity(2, {"excel_cell", "key_value_pair"}, ""),
   [Quantity(2, {"llm_structured"}, "") EXCEPT !.rank = 2, !.required = "conditional"],
   [Quantity(2, {"regex"}, "") EXCEPT !.rank = 3, !.population = "deprecated"]}
================================================================================
