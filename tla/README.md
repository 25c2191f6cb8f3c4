# A formal model of Sustentra's backend

Sustentra turns uploaded evidence documents into reviewed, approved values for
a sustainability methodology. This directory holds TLA+ modules translated from
the backend (`src/backend/app`), TLC configurations that check them on small
instances, and theorems about them whose proofs TLAPS checks for every value of
the constants. `PROJECT.json` relates every definition to the source lines it
translates, and lists the hazards that the properties are about.

## 1. The system

The backend is one FastAPI process. Most handlers are synchronous functions
that run on a thread pool; the stores of the S1/S2 part and of the local identity
service are JSONL files that are appended to and read whole, without any lock. The
newer authentication part uses Postgres, with one transaction per request.

| Component | State it keeps | Operations | Talks to | Hard behaviour | What makes it correct |
|---|---|---|---|---|---|
| Documents and local storage | files; `documents.jsonl`, one line per version of a document | upload, register metadata, process, read | pipeline | two requests on one document; failing writes; restart between two writes | a document's status follows the documented life cycle, is backed by a run record, and does not stay `in_progress` |
| Pipeline orchestration | `pipeline_runs.jsonl` | process a document file through four stages, evidence status | parser, classifier, targets, extraction, documents | any stage may raise; so may the save of the run itself | a run's status and stages tell one story |
| Parsing | none | a stored file to pages, blocks, tables, key-value pairs and source references | pipeline | seven parsers that build text, rows and references side by side | a value is shown where it came from |
| Classification and extraction | none | score types, plan targets, find one candidate per target | parser output, vocabulary, configurations | five methods in an order that depends on the target; units, flags and suppression decided in separate scans | targets are warranted, units and flags do not contradict the document, a record's own row wins |
| Review decisions | `review_decisions.jsonl` | submit, list, latest by field | projection | the stamp and the append are separate steps | the latest decision is well defined, and readers agree on it |
| Approved evidence | `approved_evidence.jsonl` | project one evidence item, list, latest | review decisions, S2 | a projection reads, computes, then appends: it may be overtaken | an aggregate is the newest-decision view of the ledger at some moment |
| Condition evaluator | none | evaluate a condition for given values | S2 checks | parsing and evaluating are one pass with short-circuit operators | a verdict is the meaning of the condition, and missing values are never false |
| Methodology value store | values in memory (as the application wires it) or `methodology_values.jsonl` | project an aggregate, replace its values | approved evidence, S2 | a replacement reads, filters, then installs and appends, or rewrites a whole file; a crash in the rewrite | values of other aggregates survive a replacement; one snapshot per aggregate |
| S2 methodology checks | none; a run returns its result | completeness, derivation, verification, gap records | values, registry, evaluator | three services index the same values on their own; missing against unknown against not applicable | the stages of a run agree, unknown conditions stay open, no finding is lost |
| Reference data, registry integrity, edges | the loaded bundle and its indexes | load workbooks, index, map, make rules executable, report on integrity, resolve edges | S2 checks | registry, integrity report and rule loader read the same references each with its own code; nothing waits for the report | a reference that was checked is found by every service |
| v1 authentication | users, sessions, auth_tokens tables | login, verify, resend, reset, use of a session, logout | Postgres, e-mail | READ COMMITTED transactions that read without locks, decide, and write | used codes and ended sessions stay so; a reset ends every session; failures are counted |
| Local identity store | users, clients, sessions, reset tokens and challenges as JSONL | accounts, login, second factor, reset, clients and their users | repositories | read-modify-append of whole records in several files; a handler that stops between its appends | no update is lost, tokens are good once, an account that was cut off has no session |
| Configuration, primitives, placeholders | settings | load at start-up, hash, sign | all | | outside this model |
| Frontend, infrastructure, deployment | none / cloud resources | pages, Terraform, a deployment script | the API | | outside this model |

How a document travels: `POST /documents/upload` stores bytes, then a metadata
line. `POST /documents/{id}/pipeline/process` writes `in_progress`, runs parse,
classify, target planning and candidate generation, saves a run record, and
writes the outcome on the document. Reviewers submit decisions on the
candidates' fields; `POST /evidence/{id}/approved/project` turns the newest
decision of each field into an aggregate, which S2 maps to methodology values
and checks against registry rows, whose applicability is a condition.

## 2. Modules

    DocumentLifecycle  <--implements--  DocumentProcessing  <--  MCDocumentProcessing
                                              ^------- DocumentProcessingProofs
    ApprovedView       <--implements--  ReviewProjection    <--  MCReviewProjection
                                              ^------- ReviewProjectionProofs
    DocumentParsing  <--  EvidenceClassification  <--  ExtractionCandidates
                                    <--  EvidenceStages  <--  MCEvidenceStages
                                               ^------- EvidenceStagesProofs
    MethodologyRegistry  <--  MCMethodologyRegistry     S2Assessment   <--  MCS2Assessment
          ^------------- S2ServicesProofs -------------------^
    AggregateSnapshots <--implements--  MethodologyValues   <--  MCMethodologyValues
                                              ^------- MethodologyValuesProofs
    ConditionEvaluator <------- ConditionEvaluatorProofs
    LoginSessions      <--  MCLoginSessions             IdentityStore  <--  MCIdentityStore
          ^------- LoginSessionsProofs                        ^------- IdentityStoreProofs

The components meet through data that is handed over (a parser output to the
classifier, a document's candidates to a reviewer, an aggregate to the value store,
values to a run), never through shared state that both sides write. Their modules
are composed where one computes on what another returns (`EvidenceStages` runs parser,
classifier, target planning and candidate generation one after the other) or
implements another's promise.

Definitions whose comment starts with "Variant:" are not used by any
specification. Each is a wrong form of a definition of the model, listed under
"mutants": put in its place, it makes the property named there fail, which shows
that the property depends on that piece of code.

### DocumentProcessing

One step is one repository call or one stage of a pipeline run.

| Variable | Code |
|---|---|
| `files`, `uploading` | the storage directory; uploads between `save_upload` and the metadata line |
| `versions` | the lines of `documents.jsonl` per document; the current record is the last |
| `runs` | the lines of `pipeline_runs.jsonl` |
| `pc`, `job`, `stages`, `source`, `result` | locals of a request: where its handler is, its parameters, `stage_statuses`, `canonical_type_source`, and how the pipeline call ended |
| `faults` | how often the environment failed so far |

| Action | Code |
|---|---|
| `StoreUpload`, `SaveUploadMetadata`, `CreateDocumentMetadata` | the upload handler's two writes; metadata for a document stored elsewhere |
| `ProcessUploadedDocument`, `ProcessLocalDocument` | the two endpoints up to the pipeline, with 404 and 400 |
| `MarkInProgress` | `update_processing_status(.., "in_progress")` |
| `FileMissing` | the guard before the try block: no run is recorded |
| `Parse`, `Classify`, `SkipTargets`, `PlanTargets`, `Extract` | the stages, with every early conclusion; `StageRaises` is the except handler |
| `PersistRun` | `_persist_if_needed`, on the normal path and in the except handler |
| `Settle` | the handler's last status update and its response |
| `PersistRunRaises`, `PersistFailedRunRaises`, `UpdateStatusRaises`, `SaveUploadMetadataRaises`, `LoseFile`, `Restart` | what the environment does wrong; `MaxFaults` bounds them |

The stages themselves are abstracted to the status they return or to an
exception (what they compute is `EvidenceStages`). That a save raises after the last
stage is kept: the except handler then overwrites a run that had completed.

### DocumentLifecycle

What a client is promised: a registered document is processed by attempts, its
status is that of the last attempt that began or ended, and only an active
attempt can end. An attempt may be abandoned. `DocumentProcessing` implements
it: the status is the last version's, the active attempts of a document are the
requests past `MarkInProgress`.

### DocumentParsing, EvidenceClassification, ExtractionCandidates, EvidenceStages

What the stages of one pipeline run compute. Text is words: a word stands for a
label, a number, a unit or a phrase; a line is a sequence of cells, a document a
sequence of parts (pages or sheets) of lines.

- `DocumentParsing`: which parser a file gets (`DetectParserKind`), and what each
  returns: pages, blocks, tables, key-value pairs, source references, status. The
  libraries that read a PDF, an image or a workbook are external. A reference quotes the
  first `MaxSnippet` words of its text and says so if there are more (`Snippet`); a cut may
  fall inside a number (`CutOf`). In the page text of a CSV the cells of a row are joined
  by commas, over which the number pattern reads on (`CommaText`): one number is made of two.
- `EvidenceClassification`: the weights of the matched groups, the ranking and
  the threshold per variant, one type, several, ambiguous or unknown; then the
  targets that a result, or a reviewer's override, calls for.
- `ExtractionCandidates`: per target the methods in the order of their priority,
  each as the sequence of its hits, of which the code takes the first; a target bound
  to a record goes to the record's row first; units are detected, inferred from
  around, or converted to "missing"; flags, confidence, suppression by a "no activity"
  phrase, the reference of the value. A bare number is refused as an activity quantity if
  it is a year, part of a date beside it, beside an identifier's label, or if its digits
  occur in a name beside it, such as `R12` for 12 (`IsLikelyBad`). A numeric 0 of a
  workbook ("nought") is an empty cell in the text of a row, not elsewhere (`Shown`).
- `EvidenceStages`: the state machine over a document `doc` and the reviewer's
  `setting`, one action per stage, with what can be missing (an unreadable file, a
  vocabulary or configurations that do not load).

### ReviewProjection and ApprovedView

| Variable | Code |
|---|---|
| `decisions`, `approved` | the lines of the two files, per evidence item |
| `sub`, `proj` | the requests that submit a decision or project an item, and what they read |
| `now` | the clock that stamps `reviewed_at` |

`SubmitDecision` validates and stamps, `SaveDecision` appends;
`StartProjection` reads, `SaveProjection` computes and appends, or refuses
decisions on two documents. `ApprovedView` says what may be published: the
newest-decision view of any prefix of the ledger. History fields (`seen`, `by`,
`base`, `alone`) record what a request saw; no guard reads them.

### ConditionEvaluator

The parser's methods call each other, so they are one recursive function `Parse` from
calls to results. A call is the method, the index of its first token and what its
loop has so far; a result is a value, or an exception, and the index of the next
token. Python's short-circuit `or`/`and` skips the call that would consume the right
operand (`Decides`). `MeaningOf` is the documented grammar, a recursive function on the
segments of a condition that splits them at their outermost operators. The state machine
enumerates conditions and valuations.

### MethodologyValues

A request of `POST /methodology/s2/run` with `persist_methodology_values`
projects an aggregate through the field mappings and replaces its values.

| Variable | Code |
|---|---|
| `durable` | whether the repository is the JSONL one or the one in memory |
| `approved` | the aggregates, with their approved fields |
| `store`, `torn` | the records; whether the file has a line cut by a crash |
| `pc`, `agg`, `kept`, `todo` | a request's step, its aggregate, the records it read and keeps, those it has to add |

`ReadKept` is the filter of both repositories. In memory `Install` replaces the
list and `AppendValue` adds one record at a time; in the file `Truncate` is
`open("w")` and `WriteBack` is the flush at close. `Crash` ends the process: the
memory is lost, a rewrite leaves any part of what it was writing. `ReadRaises` is
the reader that meets a torn line; `ProjectOnly` a request that does not persist.

`AggregateSnapshots` is what the store promises: a map from aggregates to snapshots,
of which a request replaces one at one moment. `MethodologyValues` implements it while
no two replacements have overlapped and nothing crashed (`Serial`). A snapshot is then
what the store has of the aggregate together with what the request in flight has still
to append or to write back (`Promised`), so it changes where the list is installed or
the file emptied, and the appends and the flush are stutters.

### S2Assessment

One run, one step per service call: `Project` and `Run` build the request,
`TrackCompleteness`, `DeriveAll` and `Verify` are the three services, each with
its own way to index the values (`TrackedValues`, `Sources`, `VerifiedValues`),
and `EmitGaps` turns what is open into gap records. The registry is constant:
rows with origin, layer, condition and dependencies, and runtime rules with the
fields their text resolves to. `EvaluateRow`, `DeriveRow` and `EvaluateRule` have the
decisions of the services in their order.

### MethodologyRegistry

How the S2 services come to their data. `LoadBundle` reads the five workbooks (a
missing file, sheet, column or cell, or a wrong count of rows, stops it);
`BuildRegistry` indexes rules and edges by field and expands wildcards; `LoadMappings`
checks the mappings of approved evidence against the bundle;
`LoadVerificationRules` makes rules executable; `CheckIntegrity` is the integrity
service, which the start-up does not call, so it may run at any time or never.
A cell that names fields is the set of what it names: Field_IDs, wildcards of a
block, prose.

### LoginSessions

One account. A request is one transaction: `Begin` reads the clock and the token
or session and applies the first guards (`Admitted`), `ReadUser` reads the user and
decides (`Decide`), `Write` executes the statements, which waits until no other
request holds a row it writes (`Locks`), and one action per outcome commits.
`StartUpdate` fixes the rows that the invalidating UPDATE of a sign-in or of a reset
request can see; `Touched` leaves out those that no longer meet its condition when
it gets them, as READ COMMITTED does.

| Variable | Code |
|---|---|
| `user` | failed_login_count, locked_until, status |
| `challenges`, `resets` | the rows of auth_tokens of the two types, by the request that inserted them |
| `sessions` | the rows of sessions |
| `pc`, `op`, `read`, `outcome`, `rows` | a request's step, input, what it read, decided and selected |

Values are computed from what was read (`FailedUser`, `WrongCode`), or by the
database (`ResendCode` increments in SQL), as in the code.

### IdentityStore

The identity service of the local build. A handler is its decision (one action per
handler: the lookups, the checks and the list of records it will write) followed by
its appends, one action each, so that handlers interleave between appends and may
stop between two of them. A refused call writes nothing but an audit event and is not
a step.

| Variable | Code |
|---|---|
| `accounts`, `clients` | every appended version of every user and client, oldest first |
| `sessions`, `resets`, `challenges` | the records of the three files; their one later version (ended, used, consumed) is a flag |
| `expired` | what ran out |
| `reqs` | the requests: the handler, what it still has to append (`todo`), and, for the properties only, whom it met (`met`), whose sessions it ended (`cut`), whether it died |

| Action | Code |
|---|---|
| `CreateSustentraUser`, `Login`, `CompleteMfaLogin`, `Logout`, `RequestPasswordReset`, `ConfirmPasswordReset`, `SetupMfa`, `ConfirmMfa`, `DisableMfa` | the handlers of an account itself; `IssueSession` saves the session and then the account as the login read it |
| `CreateClient`, `UpdateClient`, `DeleteClient`, `CreateClientUser`, `UpdateClientUser`, `DeleteClientUser` | the handlers of administrators |
| `WriteAccount`, `WriteClient`, `WriteSession`, `WriteReset`, `WriteChallenge`, `UseReset`, `ConsumeChallenge`, `EndSession` | the appends |
| `RevokeActorSessions`, `RevokeOne`, `Cascade`, `DeleteOne` | the loops: sessions of an account, users of a client, listed once and then worked through |
| `Stop`, `Expire` | a handler that raises or the process stopping; time |

`FindLatest` is kept as it is: the newest VERSION that matches, which may be a
superseded one. So is `RequireUniqueLogin`: it compares the id to exclude with both ids
of the record it finds, of which one is always missing. A creation excludes nothing and is
therefore never refused; an update is, if the record found is not the user's own.

## 3. What is checked

| Run | Instance | What it shows |
|---|---|---|
| `processing` | 1 document, 2 requests, 1 fault | outcomes backed by runs, coherent run records, ownership of `in_progress`, the life cycle |
| `processing_live` | 2 documents, 1 request, 2 faults, fairness | every started request is answered; without faults what it marked settles |
| `stages` | every document of a heading and up to three rows, from 13 kinds of row (14 in a workbook), as 6 kinds of file, snippets of 2 words | values stand where they are cited; targets are warranted; units, flags and suppression do not contradict the document; a record's row comes first |
| `review` | 2 submissions, 2 projections, 2 fields, 2 documents, 3 clock values, 1 restart | what is newest, when file order and `reviewed_at` may differ; each aggregate is a view of the ledger, about one document; serial projections advance |
| `rejected_field` | 2 submissions, 2 projections, 1 field | violated: finding 1 |
| `conditions` | all conditions of up to 7 tokens over 2 fields | verdicts are right, unknown is never false |
| `supported_condition` | all conditions of up to 6 tokens over 2 fields | violated: finding 2 |
| `values` | 3 requests, 2 aggregates, 2 fields, 4 mappings, 1 crash, either repository | a request disturbs no other aggregate's current values in memory; without overlap the store is exact and each replacement one atomic step of `AggregateSnapshots`; a crash never mixes two snapshots |
| `registry` | workbooks of 1 to 3 rows with everything that can be wrong in them | after a report without errors no reference is lost, and no join lies in both scopes |
| `assessment` | 7 rows, 7 rules, up to 2 values, 1 runtime value | the stages agree, unknown conditions stay open with a gap record, gap records are distinct |
| `login` | 3 requests of any kind beside an earlier code, link and session, 2 clock values | what is used up or ended stays so, codes coexist only for overlapping sign-ins, failures are counted, a reset leaves no session |
| `identity` | 2 to 3 calls of any kind on an empty store or after one of eight histories, 1 expiry, stops anywhere | a save changes only what its handler is for, tokens admit once, an account cut off has no old session, client codes identify, one first administrator, a deleted client has no users -- each with the overlaps and deaths that excuse it |

Why the bounds suffice. Requests interact only through a document, so two on
one document give every interleaving of their steps; independent documents add
none, and `processing_live` has a second for the file faults. One fault in the
middle of two requests reaches every error path; two faults in a row (a
save that raises, and the save of the failed run as well) are reached by
`processing_live`. Overtaking needs two decisions on one field; with a
second field and document they may also differ in both; two projections of one item
suffice for an old one that saves last. Three clock values give earlier, equal and
later. Seven tokens hold an operator on each side of another and a parenthesised
operation beside an operator. Three replacements on two aggregates have two that
overlap on one aggregate or on different ones, and one before or after; the
mappings have a field with two rows, a row of two fields and a deprecated mapping.
The registry of `assessment` has every origin, condition, dependency and rule
the code distinguishes, and two values give a row none, one, or two of them. Three
requests on an account have one that ends before, beside or after two that
overlap; the limits are the smallest with a step below them, and the lifetimes let
codes, links, lockouts and sessions be fresh, expired or at the boundary within
two clock values.

`stages` draws rows that name a quantity with and without unit, as pair, as cell
and in a line, a year, a date, an account number, two records (one with its number's digits
in its name), a numeric 0, a unit on its own, a statement of no activity, and phrases of
two types, with the last row on the same
page or sheet or on its own: every method, and every pair of rows that may compete, is
there. Snippets of two words cut some texts and leave others whole. `registry` has one edge whose two sides name fields, wildcards, both, prose
or nothing, in every layer, and rows that repeat an id, stand in a wrong layer or
derive from another layer; every check of the report looks at one edge, rule or row
at a time. The `identity` run would spend its calls on setting the stage: it
therefore starts from the empty store or from one of eight stores that served calls
leave behind (`MCIdentityStore`), and numbers requests on from there (up to 10, that is
two calls after a history and three on an empty store). Five of the stores come from
calls served one after the other: a reset token waiting, a second factor with a
challenge waiting, a changed address, a replaced user, two users of one name. Three come from what the code
does when calls overlap or a former address is used, and would take more calls than
the bound leaves: a user that was moved, deleted, replaced under its name and then
brought back by a login with the old address (`Returned`); two clients created
together with one code, one of which was deleted and so hid the other, and a third
given the code (`Twins`); a client whose deletion overlapped a change that brought it
back, without its user (`Reborn`). Two calls suffice for every pairwise overlap, and
the histories hold the third party where a property needs one: in
`Twins` neither of the two clients that share a code need be one that overlapped, and in
`Reborn` the users of a client are to be deleted by its second deletion, which is why
`ClientCodesIdentify` speaks of every version with the code and `DeletedClientHasNoUsers` of
the deletion that left the client deleted.

Deadlock is not checked (`CHECK_DEADLOCK FALSE`), since requests, time, calls and
tokens are finite and a finished system stops.

Symmetry is used for requests, fields, aggregates, submissions, projections and
documents, in runs without liveness only.

Fairness: `FairSpec` asks weak fairness of `Serve(r)`, each step of a
request that is being served. A handler is straight-line code on a pool thread
without locks or waits, so it keeps running unless the process stops, which is
the fault `Restart`. Nothing is asked of clients or of the environment.

### Findings

1. A projection that read the ledger before a rejection and saves last puts the
   rejected field back into the latest approved evidence
   (`approved_evidence_service.py:106`; `docs/approved_evidence_projection.md:42`).
2. `(A = yes OR B = yes) AND C = yes`, documented as supported, is answered with
   `unsupported_condition` when A is yes (`condition_evaluator.py:137`).

### Observations

What reading and modelling showed, without a run of its own. The properties are
stated so that they hold beside these.

Documents and runs:
- Of two concurrent process requests the one whose run is recorded first may
  update the document last, so that the status contradicts the latest run
  (`documents.py:175`; `docs/upload_local_storage_backend.md:65`). `DocumentLifecycle`
  therefore promises the status of the last attempt that ended.
- The evidence status counts no review decisions in the application's wiring, since
  `pipeline.py:10` builds the service with a decision store of its own
  (`pipeline_orchestration_service.py:49`; `docs/backend_pipeline_orchestration.md:33`).
- A crash between storing an upload and its metadata leaves a file without a
  document; a document without `evidence_id` gets a new one in every run; listing
  endpoints return every version of a document.

Parsing and extraction:
- Candidate ids of a document of several types collide when the types share a field.
- A confidence of 1 percent from Textract becomes 1.0, certainty
  (`textract_parser.py:197`).
- The unit is the first pattern of the target in the pattern's order, even if
  another stands next to the value; values from pairs, table cells and workbook
  cells skip the guard against years, account numbers and names; `service_period_end`
  takes the same first date as the start.
- A record's quantity in a CSV row may be made of two cells: for the line `usage R12,12`
  the quantity of R12 is `12,12`, normalized 1212 (`extraction_candidate_service.py:1387`),
  although the row states no such number (`docs/deterministic_extraction_bugfixes.md:24`).
- A quantity whose digits also occur in a name on its line is passed over: a row
  `R12 | 12` has no quantity for R12, and another row may answer for it (l.1146). So has a row
  whose quantity is a numeric 0 of a workbook (l.1386). `RecordRowComesFirst` and
  `ReportedQuantityIsKept` speak of the other numbers.
- A snippet cut at 240 characters need not hold the value it is shown for
  (`base.py:34`): a PDF page is one block, so what follows its first lines is cited by the
  page only. `ValueIsWhereCited` asks the value in the quotation only where nothing was cut.
- In a workbook one "no activity" cell suppresses a quantity that another cell reports
  (`extraction_candidate_service.py:1079`), so `ReportedQuantityIsKept` speaks of the
  other kinds; an inferred unit is not flagged when it is a foreign one
  (`docs/extraction_candidate_generation.md:69` against l.547).

Methodology:
- After a true left operand `A = yes OR` is answered with `applicable`, since
  nothing is parsed after OR.
- A derived row whose dependency has a record without a value is reported `derived`,
  while the completeness tracker reports the dependency missing
  (`derivation_service.py:195`).
- Two requests that replace the values of one aggregate at the same moment may leave
  the values of both, which is why `SnapshotKept` speaks of replacements that nobody
  overlapped. Values of superseded aggregates stay in the store.
- Nothing at start-up runs the integrity service
  (`s2_orchestration_service.py:142`); it ignores wildcards on the GEN side that the
  registry expands, so a join of both scopes through one is not reported. The
  mapping loader's test for duplicates respects case, its lookups do not.

Accounts:
- A user is created under a username or an address that another has: the check that
  should answer "username or email is already in use." (`identity_service.py:128`)
  never does on creation, since `exclude_id` is `None` and one of the two ids it is
  compared with is missing (l.127). No property promises that names identify.
- `update_client_user` checks uniqueness with the user's own name. Whose record that
  finds decides: the user's own is excluded, and the changed address is never compared with
  the others; a namesake's refuses any change of address
  (`identity_service.py:679`).
- A login by a former address finds the superseded version of the account and appends
  it again, which can undo any later change, a disabling or a deletion included
  (`identity_repository.py:43`, `identity_service.py:806`).
- Disabling a user ends its sessions before the change is saved (l.686, 692).

## 4. What is proved

All theorems hold for any sets of documents, requests, evidence, fields, workbooks and
names and for any bounds, from the named assumptions only. Where the property is not
inductive, the strengthening that is follows it.

`DocumentProcessingProofs`, from `DocumentProcessingAssumption`:
- `TypeCorrect`: `Spec => []TypeOK`.
- `OutcomesBackedByRuns`: `Spec => []OutcomeBackedByRun`. The property
  speaks of versions already written, while a request that is
  about to write must have earned its outcome. `RunInv` adds what a request
  has done at each point: it has no run before its save (`NoRunBeforeSave`),
  the save points hold a final status (`SavesFinalRuns`), a request about to
  settle has exactly the record it reports, or none (`RecordMadeAtSettle`), and
  an outcome's writer has ended (`OutcomesAreFinal`).
- `RunsAreCoherent`: `Spec => []RunStagesCoherent`, from `StagesInv`: at each point of
  the handler the stages before it are done and the others not begun, and from the
  save on they agree with the status that will be saved.
- `LifecycleRefinement`: `Spec => ImplementsLifecycle`. It needs that a request
  on a document is only served once the document is registered (`Admitted`).
- `InProgressIsOwned`: `Spec => []InProgressHasOwner`, from `OwnerInv`.

`ReviewProjectionProofs`, from `ReviewProjectionAssumption`:
- `ReviewTypeCorrect`: `Spec => []TypeOK`.
- `ViewRefinement`: `Spec => ImplementsView`. A projection in flight holds a
  prefix of the ledger (`ReadInv`), because the ledger only grows.
- `OvertakingBounded`: `Spec => []OvertakingNeedsOverlap`, from `LedgerInv`: the
  stamps in the ledger are at most the clock, and a decision's base is at most
  its position.
- `SerialAdvance`: `Spec => []SerialProjectionsAdvance`, from `SerialInv`: what
  is marked alone has no rival in flight and has read at least what any
  published aggregate saw.
- `LatestWins`, `OneDocument`: `LatestDecisionWins` and `OneDocumentPerProjection`, from
  `TruthInv`: every aggregate is what the service builds from a prefix of the ledger,
  and in every prefix every decided field has a newest decision (`HasNewest`).
- `NewestNeverRegresses`: `Spec => NewestDecisionNeverRegresses`.

`MethodologyValuesProofs`, from `MethodologyValuesAssumption`:
- `ValuesTypeCorrect`: `Spec => []TypeOK`.
- `CurrentValuesKept`: `Spec => []SnapshotKept`. It needs that every request about
  to install what it read keeps all current values of other aggregates
  (`CurrentIsKept`), that a request holds only its own values to add (`HoldsItsOwn`,
  `BuildsUp`), and what overlaps what (`AloneIsAlone`, `BeganAfter`).
- `SerialStoresAreExact`, `OneSnapshotEach`: `SerialStoreExact` and
  `OneSnapshotPerAggregate`, from `SerialInv`: while nothing has overlapped there is
  at most one replacement in flight, the store or what the replacement keeps is exact
  but for crashes, and the store has been built as far as the replacement has come.
- `SerialRefinement`, `SerialStoreIsASnapshotMap`: `Spec => ImplementsSnapshots`, and
  `Spec /\ []Serial => Snapshots!Spec`. To `SerialInv` it adds that a request alone
  in flight read what the store still has (`ReadInv`), and what a lone request makes
  of the mapping (`PromisedIs`); every step then replaces one snapshot, ends a request
  or stutters (`StepRefines`).

`S2ServicesProofs`, for any workbooks, and from `S2Assumption` for every registry and
every list of values:
- `ServicesAreAboutTheBundle`: registry, executable rules and report are computed from
  the one bundle that was loaded (`StartInv`).
- `ReferencesFound`, `JoinsApart`: `CheckedReferencesAreFound` and
  `JoinsStayInOneScope`, by comparing the three ways to read references under `StartInv`.
- `S2TypeCorrect`, `S2StagesAgree`, `S2UnknownStaysOpen`, `S2GapsAreDistinct`: each
  stage's result is the one its service computes from the values of the request
  (`Computed`), and lemmas relate what the services compute. Rules may share an id, which
  nothing refuses: their findings may then share a gap record, with one status and one row.

`ConditionEvaluatorProofs`, from `ConditionAssumption`:
- `EvaluatorVerdictsAreRight`: `Spec => []VerdictsAreRight`, for conditions of any length.
  The state machine only enumerates, so the whole argument is about the parser. It is
  an induction over two recursive functions that the induction theorems of the library
  cannot carry: instead, whatever fails at all fails at a call (a segment) that is
  smallest in a measure (`Smallest`), and a function defined by recursion along a
  measure exists and satisfies its equation (`Recursion`). What is shown of every call
  (`Right`): it raises; or it returns what the grammar means by the tokens it
  has consumed, under every completion of the missing values; or it stops before a token
  that begins a value, which no grammatical condition has there, so the caller refuses.
  `ParseMeans` proves it method by method, where `AnySplit` lets a segment be split at
  the operator the parser stops at and not only at the one that `Split` chooses.

`LoginSessionsProofs`, from `LoginAssumption`, for any number of requests and any limits:
- `LoginInvariant`: `Spec => []LoginInv`, with `TypeOK`; `Attempts` (an unused code has
  tries left); `Fresh` (what a request inserts is not there before it commits);
  `Known` (what it marks is); `LocksDisjoint`; and `ResetSelectsAll` (a reset that has
  executed its DELETE selected every live session, because a code step that could
  add one locks the user as well).
- `LoginTypeCorrect`, `ResetRevokesAll`, `DeadRowsStayDead` follow from it.
- `ConsumedCodesAreFinal`, `LiveCodesStemFromOverlap`: `ConsumedIsFinal` and
  `LiveCodesOverlap`, from `CodesInv`: a request knows which others had ended when it
  began; what those consumed it finds consumed, and what they issued it is about
  to replace, or has.
- `FailuresAreCounted`: `SerialFailuresExact`, from `FailuresInv`: while the requests that
  ended did so one by one, the account holds their failures modulo the limit, and a
  request that began after all of them has read just that (`NextModulo` is the
  arithmetic of one failure more).

`IdentityStoreProofs`, from `IdentityBounds`, for any names, requests, stops and expiries:
- `IdentityTypeCorrect`: `Spec => []TypeOK`: also what requests still have to append
  is well typed, and refers to what there is.
- `ResetsConfirmedOnce`: `Spec => []ResetConfirmedOnce`, from `ResetInv`: a confirmation
  that lives has used its token or is yet to, as the second of its appends.
- `ChallengesAdmitOnce`: `Spec => []ChallengeAdmitsOnce`, from `ChallengeInv`: a
  completion is before its consumption and has admitted nobody, or after it and
  admits one.
- `FinishedCutsAreComplete`: `Spec => []FinishedCutLeavesNoOldSession`, from `CutInv`: an
  open older session of an account that a living request cuts off was saved by a
  request it met, or is on the list it works through.
- `OneFirstAdministrator`: `Spec => []OneBootstrap`, from `BootInv`: a first administrator
  is in the file under its request's number or is still to be saved by that request,
  and of two such requests, the earlier living, each met the other.
- `NoLostUpdate`: `Spec => []SavesChangeOnlyTheirOwn`. The property is about what is in the
  file; whether a save keeps what is there is decided when the request reads. `SavesInv`
  therefore says of every record in a request's list (`Told`) that it is the newest
  version of its account but for what the handler owns, unless the request has met
  another or is a login by a former address. `CallsSaveTheirOwn` shows this handler by
  handler when a request begins; `ToldIsSaved` and `ToldStaysTold` show that a save by one
  request leaves it true of its own other items, and makes it void for nobody but
  requests it met, since any two that are under way have met. Names do not change
  (`NamesKnown`), so a lookup by a name or by the one address an account ever had finds
  its newest version (`LoginFindsNewest`).
- `CodesTellApart`: `Spec => []ClientCodesIdentify`. That a code is free is decided when a
  request reads, and found by a scan for the newest version that holds the code, which a
  deleted client may hide. `CodesInv` adds to `SavesInv`, for each code all of whose
  versions were written by requests that met no other (`CleanCode`): every present client
  with the code has the newest version of it (`Last`), so the scan finds it, and the
  clients present and those a request that is alone is about to save are one client for
  that code (`OneOf`). `NewCodeIsApart` shows this when a request begins, `CodesStayApart` when
  it saves.
- `DeletionsReachAllUsers`: `Spec => []DeletedClientHasNoUsers`. `DelInv` adds to `CodesInv`
  that a user's client has a version before the user does (`Owners`), that only a deletion
  marks a client deleted, and before it lists the users (`Marks`, `Marked`), and that while
  the deletion that left a client deleted lives, each user of the client is on its list
  (`Awaits`) or has a version saved by a request it met, and each other request about to
  save such a user is one it met (`UsersExcused`).

`EvidenceStagesProofs`, from `DocumentsAssumption`, `SettingsAssumption`,
`VocabularyAssumption` and `ConfigsAssumption`, for documents of any length, any
vocabulary and any configurations:
- `StagesInOrder`: `Spec => []StagesInv`: each stage's result is what the stage computes
  from those before it. That is the whole of the induction; the six properties are about
  what the stages compute, and need lemmas about each of them:
  - `ParseStands`: of every parser, all that it reports is cited where it stands
    (`About`), and if the parse did not fail every row of the document is a line of
    the context, of its page where there are pages (`Complete`), and a line of a page or a
    row of a table, with the words of the row or those its commas make (`Rendered`).
  - `HitsStand`: of every method, the value of each of its hits is cited by the hit's
    reference (`AllStand`), and a hit of a record's row names the record.
  - `TargetGets`, `TablesComeFirst`: a candidate is without a value, or is the first hit
    of the first method that has one; of a target with a record, the lookup in
    tables comes first.
  - `ScoredAre`, `ClassifyIs`, `TargetsOfResult`: the ranking is a list of all
    variants that score, a confident result keeps those that reach their threshold
    (`Confident`), and targets are of their types (`Planned`). A ranking is the set in its
    order; that every place of it is taken is `EveryPlaceIsTaken`.
- `ValueIsAlwaysWhereCited` uses the first three, `UnitsNeverConflict` that a statement on
  the page of a value is in the context (`Complete`), `ReportedQuantityIsAlwaysKept` that
  a row with a quantity is, `RecordRowAlwaysComesFirst` the order of methods and `Rendered`,
  `TargetsAreAlwaysWarranted` the classifier, with `SearchTextIs` and `ConfidenceGrows`:
  the text searched holds words of the document only, and more text never takes
  support away. `FlagsAlwaysTellTheTruth` holds whatever the parser reports.
- The operators take lists apart and put them together with `Each` and `Select`, which are
  concatenations: `Flatten` (what a concatenation holds, and with what it starts), `Gather`
  and `Sift` are the facts about them that all of this rests on.

Every invariant and action property of the passing runs is proved. Only model-checked are
the liveness properties: the prover has no rule for `ENABLED`. The type invariants are
proved instead of run.

## 5. Assumptions of the model

- Appending one line is atomic, a reader sees whole lines, and a write that
  raises has written nothing. Both hold for one short buffered write to a local
  file; a torn line is modelled for the rewritten file of values only.
- The clock does not go backwards. `reviewed_at` is an ISO string in UTC that is
  compared as text, which orders stamps of one format like numbers.
- The upload handler is a coroutine without an await between its two writes;
  so uploads do not overlap each other.
- Identifiers are fresh: UUIDs, here the names of the requests.
- A document is registered once. A later upload makes a new document.
- Values of decisions are abstracted to whether there is one.
- Of text, punctuation, case and blanks are left out, but for the commas of a CSV row,
  which stand next to their cells without blanks (at a blank the number pattern stops).
  The number that two cells make is one word, "joined", taken to be positive and no year.
  The cap on snippets counts words. Dates and booleans keep their text; a unit's plural is
  its singular. Confidences and thresholds are hundredths. A file that is neither paged nor
  a workbook is one part.
- Variants of a type have their own identifiers (the loader rejects two rows with one), and
  the configurations of a type have their places in the order of their fields.
- A replacement of the store in memory is one step per list operation of the
  code; the order of records is left out. An append by one request to a list that
  another has just replaced is the same as an append just before the replacement.
- The file of values is written by one flush at close, which a crash may cut
  anywhere. The application wires the repository in memory, and only requests
  with `persist_methodology_values` write to it; the JSONL one is modelled beside it.
- A row names each dependency once, and the gap records of a
  run share their engagement and clock reading. In the registry, each part of a cell
  between semicolons names one thing.
- Of an account of v1 authentication, the organization's status is part of the
  user's; the clock and the first row of a request are read at one moment; rows
  expired for a day, which a successful login purges, are unusable anyway and stay. All
  statements of a request take their locks in one step; deadlocks end in a rollback
  (`Rollback`). Nothing in the repository suspends an account (`Suspend` is external).
- A logout deletes the session it may have touched; the two are one write.
- A handler of the identity service reads its files in one step: what another
  handler appends between two of its reads is taken to come before or after both. A
  password or a second-factor secret is the number of the request that set it, and the
  caller has the right one, since a wrong one is a refusal. Names hold no "@" (`NamesAreNoAddresses`).

## 6. Not modelled, and why

- Configuration, hashing and application wiring keep no state beyond the process.
- The vocabulary and extraction-configuration loaders validate rows of one workbook
  each, and raise or return; `EvidenceStages` takes what they return as constants and lets
  them fail.
- `recompute_service` is one product and one comparison that nothing in the
  application calls.
- Libraries that read PDF, images and workbooks, and Textract itself, are external.
- Of v1 authentication: audit records, delivery of codes and links, rate limits, tenant
  contexts, the purge. Of the identity service: audit events.
- Listing endpoints only read. Stub services and endpoints hold no behaviour.
- The frontend only calls the API; infrastructure is declarative; the scripts under
  `backend/scripts` run the parsers by hand and print what they return.

## 7. Plan

Done: documents and pipeline; what the stages compute; reviews and approved
evidence; conditions; the value store; reference data and integrity; one S2 run;
sign-in, reset and sessions; the identity store.

What would add most from here:
1. The rate limits and the purge of v1 authentication, beside `LoginSessions`.
2. The deployment script's roll-back as a state machine of its own.
