----------------------------- MODULE DocumentParsing -----------------------------
(* The parsers (services/parser_service.py and adapters/parsers): from a stored   *)
(* file to a parser_output.                                                       *)
(*                                                                                *)
(* Text is a sequence of words; a word stands for a label, a number, a unit, a    *)
(* phrase.  A line is a sequence of cells (what stands between "|" marks), a cell *)
(* a sequence of words.  Case, blanks and punctuation are left out, but for the   *)
(* commas of a CSV file, which join numbers.  A document is its parts, each a     *)
(* sequence of rows: the pages of a PDF or scan, the sheets of a workbook, one    *)
(* part otherwise.                                                                *)
EXTENDS Integers, Sequences, SequencesExt

CONSTANT MaxSnippet          \* the words a snippet has room for

ASSUME SnippetAssumption == MaxSnippet \in Nat \ {0}

(* Words, by the digits in them.  "nought" is a workbook's cell with the number 0, *)
(* "joined" the number that two numbers on both sides of a CSV file's comma make;  *)
(* dates and names have numbers in them.                                           *)
Number == [five |-> 5, eight |-> 8, twelve |-> 12, zero |-> 0, nought |-> 0,
           year |-> 2024, joined |-> 128]
Numbers == DOMAIN Number
DateParts == [fifth |-> {"five"}]
NameParts == [r12 |-> {"twelve"}, r34 |-> {}]
DigitWords == Numbers \cup DOMAIN DateParts \cup DOMAIN NameParts \cup {"cut number"}

(* What a cap leaves of the word it falls in. *)
CutWords == {"cut", "cut number"}
MadeWords == {"joined"} \cup CutWords
ASSUME WordsAssumption == MadeWords \subseteq STRING  \* the provers take no literal for one
CutOf(word) == IF word \in DigitWords THEN "cut number" ELSE "cut"

(* The text of a reference. *)
Snippet(words) ==
  IF Len(words) <= MaxSnippet THEN words
  ELSE SubSeq(words, 1, MaxSnippet) \o <<CutOf(words[MaxSnippet + 1])>>

(* The parts of a sequence that pass a test, and what its parts make, in order. *)
Each(seq, Op(_)) == FlattenSeq([i \in DOMAIN seq |-> Op(seq[i])])
Select(seq, Test(_)) == Each(seq, LAMBDA x : IF Test(x) THEN <<x>> ELSE <<>>)

(* The words of a line, and of a sequence of lines. *)
WordsOf(line) == FlattenSeq(line)
TextOf(lines) == FlattenSeq([i \in DOMAIN lines |-> WordsOf(lines[i])])
IsBlank(line) == WordsOf(line) = <<>>
NonBlank(lines) == Select(lines, LAMBDA line : ~IsBlank(line))

None == 0          \* no page, sheet or reference
Certain == 100     \* a confidence that is not given never lowers one that is

(* A block and its reference are always built together, in the same order: the    *)
(* reference of the i-th block is the i-th.                                       *)
Block(page, text, confidence, ref) ==
  [page |-> page, text |-> text, confidence |-> confidence, ref |-> ref]
Reference(kind, page, sheet, cell, text) ==
  [kind |-> kind, page |-> page, sheet |-> sheet, cell |-> cell, text |-> text]
Table(page, sheet, rows, confidence) ==
  [page |-> page, sheet |-> sheet, rows |-> rows, confidence |-> confidence]

NoOutput == [status |-> "", pages |-> <<>>, blocks |-> <<>>, tables |-> <<>>,
             pairs |-> <<>>, refs |-> <<>>]
FailedOutput == [NoOutput EXCEPT !.status = "failed"]
EmptyOutput(pages) == [NoOutput EXCEPT !.status = "empty", !.pages = pages]

PagesOf(texts) == [p \in DOMAIN texts |-> [page |-> p, text |-> texts[p]]]

(* One block per non-blank line of a page; the page keeps its raw text.           *)
LineBlocks(lines, raw) ==
  [NoOutput EXCEPT
     !.status = "parsed", !.pages = PagesOf(<<raw>>),
     !.blocks = [i \in DOMAIN lines |-> Block(1, <<lines[i]>>, Certain, i)],
     !.refs = [i \in DOMAIN lines |->
                 Reference("page_text", 1, None, <<>>, Snippet(WordsOf(lines[i])))]]

TextParser(doc) ==
  LET lines == NonBlank(doc.parts[1])
  IN  IF lines = <<>> THEN EmptyOutput(PagesOf(<<doc.parts[1]>>))
      ELSE LineBlocks(lines, doc.parts[1])

(* A row as the file has it, its cells joined by commas.  A number pattern reads   *)
(* on over a comma: of two cells, one that ends in digits and one that begins with *)
(* them, it makes one number.                                                      *)
CommaText(row) ==
  LET cells == Select(row, LAMBDA cell : cell # <<>>)
      joins(i) == /\ i \in DOMAIN cells /\ i + 1 \in DOMAIN cells
                  /\ Last(cells[i]) \in DigitWords
                  /\ Head(cells[i + 1]) \in Numbers \cup DOMAIN DateParts
      before(i, j) == j = Len(cells[i]) /\ joins(i)
      after(i, j) == j = 1 /\ joins(i - 1)
      swallowed(i, j) == cells[i][j] \in Numbers /\ (before(i, j) \/ after(i, j))
  IN  FlattenSeq([i \in DOMAIN cells |->
        FlattenSeq([j \in DOMAIN cells[i] |->
          (IF after(i, j) THEN <<"joined">> ELSE <<>>)
          \o (IF swallowed(i, j) THEN <<>> ELSE <<cells[i][j]>>)])])

(* A row's cells are joined by "|" in its block, and by commas in the page.       *)
CsvParser(doc) ==
  LET rows == NonBlank(doc.parts[1])
      raw == [i \in DOMAIN doc.parts[1] |-> <<CommaText(doc.parts[1][i])>>]
  IN  IF rows = <<>> THEN EmptyOutput(PagesOf(<<raw>>))
      ELSE [LineBlocks(rows, raw) EXCEPT !.tables = <<Table(1, None, rows, Certain)>>]

(* One block per cell with content, without a page; one table per sheet that has  *)
(* any, with its blank rows.                                                      *)
ExcelParser(doc) ==
  LET cellsOf(s) == FlattenSeq([r \in DOMAIN doc.parts[s] |->
                      [c \in DOMAIN doc.parts[s][r] |->
                         [sheet |-> s, cell |-> <<r, c>>, text |-> doc.parts[s][r][c]]]])
      cells == Select(FlattenSeq([s \in DOMAIN doc.parts |-> cellsOf(s)]),
                         LAMBDA c : c.text # <<>>)
      sheets == Select([s \in DOMAIN doc.parts |-> s],
                          LAMBDA s : NonBlank(doc.parts[s]) # <<>>)
  IN  IF ~doc.readable THEN FailedOutput
      ELSE IF cells = <<>> THEN EmptyOutput(<<>>)
      ELSE [NoOutput EXCEPT
              !.status = "parsed",
              !.blocks = [i \in DOMAIN cells |->
                            Block(None, <<<<cells[i].text>>>>, Certain, i)],
              !.refs = [i \in DOMAIN cells |->
                          Reference("excel_cell", None, cells[i].sheet, cells[i].cell,
                                    Snippet(cells[i].text))],
              !.tables = [i \in DOMAIN sheets |->
                            Table(None, sheets[i], doc.parts[sheets[i]], Certain)]]

(* One block per page that has text; a page without any makes the parse partial.  *)
PdfParser(doc) ==
  LET withText == Select([p \in DOMAIN doc.parts |-> p],
                            LAMBDA p : NonBlank(doc.parts[p]) # <<>>)
  IN  IF ~doc.readable THEN FailedOutput
      ELSE IF withText = <<>> THEN EmptyOutput(PagesOf(doc.parts))
      ELSE [NoOutput EXCEPT
              !.status = IF Len(withText) = Len(doc.parts) THEN "parsed" ELSE "partial",
              !.pages = PagesOf(doc.parts),
              !.blocks = [i \in DOMAIN withText |->
                            Block(withText[i], doc.parts[withText[i]], Certain, i)],
              !.refs = [i \in DOMAIN withText |->
                          Reference("page_text", withText[i], None, <<>>,
                                    Snippet(TextOf(doc.parts[withText[i]])))]]

ImageParser(doc) == FailedOutput

(* What Textract reports of a part: its lines, the pairs it takes two-cell rows   *)
(* for if it sees a form, a table if it sees one; each with a percentage.         *)
Lines(part) == [i \in DOMAIN NonBlank(part) |-> <<WordsOf(NonBlank(part)[i])>>]
FormRows(doc, part) ==
  IF doc.layout = "form" THEN Select(part, LAMBDA row : Len(row) = 2) ELSE <<>>
TableRows(doc, part) == IF doc.layout = "table" THEN NonBlank(part) ELSE <<>>

(* A percentage above 1 becomes a fraction; 1 itself is taken for one.            *)
NormalizeConfidence(percent) == IF percent > 1 THEN percent ELSE 100 * percent

(* Pairs and tables carry no reference. *)
TextractParser(doc) ==
  LET conf == NormalizeConfidence(doc.percent)
      parts == DOMAIN doc.parts
      on(p, seq) == [i \in DOMAIN seq |-> <<p, seq[i]>>]
      lines == FlattenSeq([p \in parts |-> on(p, Lines(doc.parts[p]))])
      pairs == FlattenSeq([p \in parts |-> on(p, FormRows(doc, doc.parts[p]))])
      tabled == Select([p \in parts |-> p],
                          LAMBDA p : TableRows(doc, doc.parts[p]) # <<>>)
      paged == Select([p \in parts |-> p], LAMBDA p : Lines(doc.parts[p]) # <<>>)
  IN  IF lines = <<>> THEN EmptyOutput(<<>>)
      ELSE [status |-> "parsed",
            pages |-> [i \in DOMAIN paged |->
                         [page |-> paged[i], text |-> Lines(doc.parts[paged[i]])]],
            blocks |-> [i \in DOMAIN lines |->
                          Block(lines[i][1], <<lines[i][2]>>, conf, i)],
            refs |-> [i \in DOMAIN lines |->
                        Reference("page_text", lines[i][1], None, <<>>,
                                  Snippet(WordsOf(lines[i][2])))],
            pairs |-> [i \in DOMAIN pairs |->
                         [page |-> pairs[i][1], key |-> pairs[i][2][1],
                          value |-> pairs[i][2][2], confidence |-> conf]],
            tables |-> [i \in DOMAIN tabled |->
                          Table(tabled[i], None, TableRows(doc, doc.parts[tabled[i]]), conf)]]

(* A call that fails, for any reason, is a failed parse. *)
AwsTextractParser(doc) == IF doc.readable THEN TextractParser(doc) ELSE FailedOutput

(* By the extension of the file, then by the type the client gave. *)
DetectParserKind(doc) ==
  IF doc.extension \in {"text", "csv", "excel", "pdf", "image"} THEN doc.extension
  ELSE doc.mimeType

ParseDocument(doc, textractEnabled) ==
  LET kind == DetectParserKind(doc)
  IN  CASE kind = "text" -> TextParser(doc)
        [] kind = "csv" -> CsvParser(doc)
        [] kind = "excel" -> ExcelParser(doc)
        [] kind \in {"pdf", "image"} /\ textractEnabled -> AwsTextractParser(doc)
        [] kind = "pdf" /\ ~textractEnabled -> PdfParser(doc)
        [] kind = "image" /\ ~textractEnabled -> ImageParser(doc)
        [] OTHER -> FailedOutput
================================================================================
