------------------------- MODULE DocumentProcessing -------------------------
(***************************************************************************)
(* Subsystem 1: document registration and the processing requests that run *)
(* the pipeline on a document (api/documents.py, api/pipeline.py,          *)
(* document_upload_service.py, pipeline_orchestration_service.py and their *)
(* JSONL repositories).                                                    *)
(*                                                                         *)
(* The handlers are synchronous functions served by a thread pool, so any  *)
(* number of requests are between two repository calls at the same time;   *)
(* nothing locks a document.  A step is one repository call, or one stage  *)
(* of a pipeline run.  Both repositories only append a line; a document's  *)
(* current record is its last line.  All fields of a document but its      *)
(* processing_status are fixed when it is registered, so a version is      *)
(* represented by its status and, as a history field, by its writer.       *)
(*                                                                         *)
(* MaxFaults bounds what the environment does wrong: a write that raises,  *)
(* a stored file that disappears, a restart of the process.                *)
(***************************************************************************)
EXTENDS Naturals, Sequences, FiniteSets

CONSTANTS Documents,   \* document ids
          Requests,    \* processing requests, each served once
          ClientStatuses,  \* statuses clients register a document with
          MaxFaults    \* bound on environment faults

ProcessingStatus == {"not_started", "queued", "in_progress", "completed", "failed"}

ASSUME DocumentProcessingAssumption ==
    /\ Documents # {}
    /\ MaxFaults \in Nat
    /\ ClientStatuses \subseteq ProcessingStatus
    /\ "client" \notin Requests

VARIABLES
    uploading,  \* documents whose bytes are stored and whose metadata is not yet
    files,      \* documents whose bytes are in local storage
    versions,   \* [Documents -> Seq(Version)], the lines of documents.jsonl
    runs,       \* Seq(Run), the lines of pipeline_runs.jsonl
    pc,         \* [Requests -> where the request's handler is]
    job,        \* [Requests -> the request's parameters]
    stages,     \* [Requests -> stage_statuses of its pipeline run]
    source,     \* [Requests -> canonical_type_source]
    result,     \* [Requests -> status of the run, or "raised"]
    faults

vars == <<uploading, files, versions, runs, pc, job, stages, source, result, faults>>
runVars == <<stages, source, result>>
storeVars == <<uploading, files, versions, runs>>

-----------------------------------------------------------------------------
Version == [status : ProcessingStatus, by : Requests \cup {"client"}]

Stages == {"parse", "classify", "target_plan", "candidate_generation"}
StageRank == [s \in Stages |-> CASE s = "parse" -> 1
                                 [] s = "classify" -> 2
                                 [] s = "target_plan" -> 3
                                 [] s = "candidate_generation" -> 4]
StageStatus == {"not_started", "completed", "skipped", "partial", "failed"}
StageStatuses == [Stages -> StageStatus]
RunStatus == {"completed", "partial", "failed"}
TypeSource == {"classifier", "override", "none"}

Run == [request : Requests, document : Documents, status : RunStatus,
        stages : StageStatuses, source : TypeSource]
Job == [kind : {"stored", "local"}, document : Documents,
        override : BOOLEAN, persist : BOOLEAN]

ParserStatus == {"parsed", "partial", "empty", "failed"}
ClassificationStatus ==
    {"classified", "multi_type_candidate", "low_confidence", "unclassified", "failed"}
CLASSIFIER_TARGET_STATUSES == {"classified", "multi_type_candidate"}

ParserStageStatus(s) ==
    CASE s = "parsed" -> "completed"
      [] s \in {"partial", "empty"} -> "partial"
      [] s = "failed" -> "failed"

ClassificationStageStatus(s) ==
    IF s \in {"classified", "multi_type_candidate", "low_confidence"}
    THEN "completed" ELSE "partial"

\* Variant: without the elif chain, every stage that did not start has failed.
FailEveryNotStarted(st) ==
    [s \in Stages |-> IF st[s] = "not_started" THEN "failed" ELSE st[s]]

\* The except handler of process_local_document: the first stage that is
\* still not_started is the one that raised.
FailFirstNotStarted(st) ==
    [s \in Stages |->
        IF /\ st[s] = "not_started"
           /\ \A t \in Stages : StageRank[t] < StageRank[s] => st[t] # "not_started"
        THEN "failed" ELSE st[s]]

\* Where a handler can be while it holds its request.
Running == {"parse", "classify", "plan", "extract", "save", "save_failed", "settle"}
Ended == {"ok", "error", "lost"}
PC == {"idle", "mark"} \cup Running \cup Ended

CurrentStatus(d) == versions[d][Len(versions[d])].status
Registered(d) == versions[d] # <<>>
AppendVersion(d, s, by) ==
    versions' = [versions EXCEPT ![d] = Append(@, [status |-> s, by |-> by])]

TypeOK ==
    /\ uploading \subseteq Documents
    /\ files \subseteq Documents
    /\ versions \in [Documents -> Seq(Version)]
    /\ runs \in Seq(Run)
    /\ pc \in [Requests -> PC]
    /\ job \in [Requests -> Job]
    /\ stages \in [Requests -> StageStatuses]
    /\ source \in [Requests -> TypeSource]
    /\ result \in [Requests -> RunStatus \cup {"none", "raised"}]
    /\ faults \in 0..MaxFaults

NoJob == [kind |-> "local", document |-> CHOOSE d \in Documents : TRUE,
          override |-> FALSE, persist |-> FALSE]
NewStages == [s \in Stages |-> "not_started"]

Init ==
    /\ uploading = {}
    /\ files = {}
    /\ versions = [d \in Documents |-> <<>>]
    /\ runs = <<>>
    /\ pc = [r \in Requests |-> "idle"]
    /\ job = [r \in Requests |-> NoJob]
    /\ stages = [r \in Requests |-> NewStages]
    /\ source = [r \in Requests |-> "none"]
    /\ result = [r \in Requests |-> "none"]
    /\ faults = 0

-----------------------------------------------------------------------------
(* Registration.  upload_document writes the bytes and then the metadata;  *)
(* its handler is a coroutine that does both without awaiting, so uploads  *)
(* do not overlap each other, only the handlers on threads.                *)
(* create_document_metadata only registers a document whose bytes may or   *)
(* may not be in storage, with any allowed status.                         *)

StoreUpload(d) ==
    /\ uploading = {}
    /\ ~Registered(d)
    /\ d \notin files
    /\ uploading' = uploading \cup {d}
    /\ files' = files \cup {d}
    /\ UNCHANGED <<versions, runs, pc, job, runVars, faults>>

SaveUploadMetadata(d) ==
    /\ d \in uploading
    /\ uploading' = uploading \ {d}
    /\ AppendVersion(d, "not_started", "client")
    /\ UNCHANGED <<files, runs, pc, job, runVars, faults>>

CreateDocumentMetadata(d, s, stored) ==
    /\ ~Registered(d)
    /\ d \notin uploading \cup files
    /\ s \in ClientStatuses
    /\ files' = IF stored THEN files \cup {d} ELSE files
    /\ AppendVersion(d, s, "client")
    /\ UNCHANGED <<uploading, runs, pc, job, runVars, faults>>

-----------------------------------------------------------------------------
(* A processing request.                                                   *)

\* POST /documents/{id}/pipeline/process up to the file check: 404 for an
\* unknown document, 400 when its stored file is missing.
ProcessUploadedDocument(r, j) ==
    /\ pc[r] = "idle"
    /\ j.kind = "stored"
    /\ job' = [job EXCEPT ![r] = j]
    /\ pc' = [pc EXCEPT ![r] = IF Registered(j.document) /\ j.document \in files
                               THEN "mark" ELSE "error"]
    /\ UNCHANGED <<storeVars, runVars, faults>>

\* POST /pipeline/local/process-document runs the pipeline on a path and
\* never touches document metadata.
ProcessLocalDocument(r, j) ==
    /\ pc[r] = "idle"
    /\ j.kind = "local"
    /\ job' = [job EXCEPT ![r] = j]
    /\ pc' = [pc EXCEPT ![r] = "parse"]
    /\ UNCHANGED <<storeVars, runVars, faults>>

\* Variant: the request starts without recording it.
StartUnmarked(r) ==
    /\ pc[r] = "mark"
    /\ pc' = [pc EXCEPT ![r] = "parse"]
    /\ UNCHANGED <<storeVars, job, runVars, faults>>

MarkInProgress(r) ==
    /\ pc[r] = "mark"
    /\ AppendVersion(job[r].document, "in_progress", r)
    /\ pc' = [pc EXCEPT ![r] = "parse"]
    /\ UNCHANGED <<uploading, files, runs, job, runVars, faults>>

\* A stage raised: the except handler records a failed run.
StageRaises(r) ==
    /\ pc' = [pc EXCEPT ![r] = "save_failed"]
    /\ stages' = [stages EXCEPT ![r] = FailFirstNotStarted(@)]
    /\ result' = [result EXCEPT ![r] = "failed"]
    /\ UNCHANGED source

\* The run has a final status; only its record is still to be saved.
Conclude(r, st, status) ==
    /\ pc' = [pc EXCEPT ![r] = "save"]
    /\ stages' = [stages EXCEPT ![r] = st]
    /\ result' = [result EXCEPT ![r] = status]

Proceed(r, to, stage, status) ==
    /\ pc' = [pc EXCEPT ![r] = to]
    /\ stages' = [stages EXCEPT ![r] = [@ EXCEPT ![stage] = status]]
    /\ UNCHANGED result

\* Variant: a missing file is waited for.
WaitForFile(r) ==
    /\ pc[r] = "parse"
    /\ job[r].document \notin files
    /\ UNCHANGED vars

\* The guard of process_local_document precedes its try block: a missing
\* file is a ValueError and no run is recorded.
FileMissing(r) ==
    /\ pc[r] = "parse"
    /\ job[r].document \notin files
    /\ pc' = [pc EXCEPT ![r] = "settle"]
    /\ result' = [result EXCEPT ![r] = "raised"]
    /\ UNCHANGED <<storeVars, job, stages, source, faults>>

Parse(r) ==
    /\ pc[r] = "parse"
    /\ job[r].document \in files
    /\ \/ \E s \in ParserStatus \ {"failed"} :
            /\ Proceed(r, "classify", "parse", ParserStageStatus(s))
            /\ UNCHANGED source
       \/ /\ Conclude(r, [stages[r] EXCEPT !["parse"] = ParserStageStatus("failed")],
                      "failed")
          /\ UNCHANGED source
       \/ StageRaises(r)
    /\ UNCHANGED <<storeVars, job, faults>>

\* Classification and the choice of the canonical type: the override wins,
\* then a classifier verdict that supports target planning.
Classify(r) ==
    /\ pc[r] = "classify"
    /\ \/ \E s \in ClassificationStatus :
            /\ Proceed(r, "plan", "classify", ClassificationStageStatus(s))
            /\ source' = [source EXCEPT ![r] =
                            IF job[r].override THEN "override"
                            ELSE IF s \in CLASSIFIER_TARGET_STATUSES THEN "classifier"
                            ELSE "none"]
       \/ StageRaises(r)
    /\ UNCHANGED <<storeVars, job, faults>>

SkipTargets(r) ==
    /\ pc[r] = "plan"
    /\ source[r] = "none"
    /\ Conclude(r, [stages[r] EXCEPT !["target_plan"] = "skipped",
                                     !["candidate_generation"] = "skipped"], "partial")
    /\ UNCHANGED <<storeVars, job, source, faults>>

PlanTargets(r) ==
    /\ pc[r] = "plan"
    /\ source[r] # "none"
    /\ \/ /\ Proceed(r, "extract", "target_plan", "completed")
          /\ UNCHANGED source
       \/ /\ Conclude(r, [stages[r] EXCEPT !["target_plan"] = "partial",
                                           !["candidate_generation"] = "skipped"],
                      "partial")
          /\ UNCHANGED source
       \/ StageRaises(r)
    /\ UNCHANGED <<storeVars, job, faults>>

Extract(r) ==
    /\ pc[r] = "extract"
    /\ \/ /\ Conclude(r, [stages[r] EXCEPT !["candidate_generation"] = "completed"],
                      "completed")
          /\ UNCHANGED source
       \/ StageRaises(r)
    /\ UNCHANGED <<storeVars, job, faults>>

\* _persist_if_needed, on the normal path and in the except handler.
PersistRun(r) ==
    /\ pc[r] \in {"save", "save_failed"}
    /\ runs' = IF job[r].persist
               THEN Append(runs, [request |-> r, document |-> job[r].document,
                                  status |-> result[r], stages |-> stages[r],
                                  source |-> source[r]])
               ELSE runs
    /\ pc' = [pc EXCEPT ![r] = "settle"]
    /\ UNCHANGED <<uploading, files, versions, job, runVars, faults>>

\* Variant: only a failed run, not an exception, makes the document fail.
OutcomeOfRunOnly(r) == IF result[r] = "failed" THEN "failed" ELSE "completed"

\* The handler's own update of the document, and its response.
Outcome(r) == IF result[r] \in {"completed", "partial"} THEN "completed" ELSE "failed"

\* Variant: the failing paths answer without updating the document.
SettleSuccessOnly(r) ==
    /\ pc[r] = "settle"
    /\ IF job[r].kind = "stored" /\ Outcome(r) = "completed"
       THEN AppendVersion(job[r].document, Outcome(r), r)
       ELSE UNCHANGED versions
    /\ pc' = [pc EXCEPT ![r] = IF Outcome(r) = "completed" THEN "ok" ELSE "error"]
    /\ UNCHANGED <<uploading, files, runs, job, runVars, faults>>

Settle(r) ==
    /\ pc[r] = "settle"
    /\ IF job[r].kind = "stored"
       THEN AppendVersion(job[r].document, Outcome(r), r)
       ELSE UNCHANGED versions
    /\ pc' = [pc EXCEPT ![r] = IF Outcome(r) = "completed" THEN "ok" ELSE "error"]
    /\ UNCHANGED <<uploading, files, runs, job, runVars, faults>>

-----------------------------------------------------------------------------
(* The environment's faults.                                               *)

Fault == /\ faults < MaxFaults
         /\ faults' = faults + 1

\* Saving the metadata of an upload raises: its bytes stay, without a document.
SaveUploadMetadataRaises(d) ==
    /\ Fault
    /\ d \in uploading
    /\ uploading' = uploading \ {d}
    /\ UNCHANGED <<files, versions, runs, pc, job, runVars>>

\* Saving a run inside the try block raises: the except handler takes over,
\* although every stage may have run.
PersistRunRaises(r) ==
    /\ Fault
    /\ pc[r] = "save"
    /\ job[r].persist
    /\ StageRaises(r)
    /\ UNCHANGED <<storeVars, job>>

\* Saving the failed run raises: the exception leaves process_local_document.
PersistFailedRunRaises(r) ==
    /\ Fault
    /\ pc[r] = "save_failed"
    /\ job[r].persist
    /\ pc' = [pc EXCEPT ![r] = "settle"]
    /\ result' = [result EXCEPT ![r] = "raised"]
    /\ UNCHANGED <<storeVars, job, stages, source>>

\* A status update raises: the request answers 500, the status stays.
UpdateStatusRaises(r) ==
    /\ Fault
    /\ pc[r] \in {"mark", "settle"}
    /\ job[r].kind = "stored"
    /\ pc' = [pc EXCEPT ![r] = "error"]
    /\ UNCHANGED <<storeVars, job, runVars>>

LoseFile(d) ==
    /\ Fault
    /\ d \in files \ uploading
    /\ files' = files \ {d}
    /\ UNCHANGED <<uploading, versions, runs, pc, job, runVars>>

\* The process stops: whatever it was serving is gone, what it appended stays.
Restart ==
    /\ Fault
    /\ uploading' = {}
    /\ pc' = [r \in Requests |-> IF pc[r] \in {"mark"} \cup Running THEN "lost" ELSE pc[r]]
    /\ UNCHANGED <<files, versions, runs, job, runVars>>

-----------------------------------------------------------------------------
Registration ==
    \E d \in Documents :
        \/ StoreUpload(d)
        \/ SaveUploadMetadata(d)
        \/ \E s \in ClientStatuses, stored \in BOOLEAN : CreateDocumentMetadata(d, s, stored)

Submit(r) == \E j \in Job : ProcessUploadedDocument(r, j) \/ ProcessLocalDocument(r, j)

Serve(r) ==
    \/ MarkInProgress(r) \/ FileMissing(r) \/ Parse(r) \/ Classify(r)
    \/ SkipTargets(r) \/ PlanTargets(r) \/ Extract(r) \/ PersistRun(r) \/ Settle(r)

Faulty ==
    \/ \E r \in Requests : \/ PersistRunRaises(r)
                           \/ PersistFailedRunRaises(r)
                           \/ UpdateStatusRaises(r)
    \/ \E d \in Documents : SaveUploadMetadataRaises(d) \/ LoseFile(d)
    \/ Restart

Next == \/ Registration
        \/ \E r \in Requests : Submit(r) \/ Serve(r)
        \/ Faulty

Spec == Init /\ [][Next]_vars

\* A thread that serves a request keeps running; clients and the environment
\* owe nothing.
FairSpec == Spec /\ \A r \in Requests : WF_vars(Serve(r))

-----------------------------------------------------------------------------
(* Properties.                                                             *)

OnDocument(r, d) == job[r].kind = "stored" /\ job[r].document = d
ServedFor(d) == {r \in Requests : OnDocument(r, d) /\ pc[r] \in Running}
RunsOf(r) == {i \in DOMAIN runs : runs[i].request = r}

Backed(v) ==
    \/ ~job[v.by].persist /\ RunsOf(v.by) = {}
    \/ v.status = "failed" /\ RunsOf(v.by) = {} /\ faults > 0
    \/ \E k \in DOMAIN runs :
          /\ RunsOf(v.by) = {k}
          /\ v.status = (IF runs[k].status = "failed" THEN "failed" ELSE "completed")

\* A processing_status that a request wrote as its outcome is backed by the
\* record of its run: with persist_run the request left exactly one run, whose
\* status gives that outcome, or it wrote "failed" because recording the run
\* was impossible (a fault); without persist_run it left none.
OutcomeBackedByRun ==
    \A d \in Documents : \A i \in DOMAIN versions[d] :
        versions[d][i].by \in Requests /\ versions[d][i].status # "in_progress"
            => Backed(versions[d][i])

\* The status semantics of docs/backend_pipeline_orchestration.md, as a
\* relation between a persisted run's status and its four stages: a completed
\* run generated candidates from planned targets, a partial one parsed the
\* document and skipped the rest, and a failed one names one stage that failed,
\* with every later stage never started (unless a write failed).
RunStagesCoherent ==
    \A i \in DOMAIN runs :
        LET st == runs[i].stages IN
        /\ runs[i].status # "failed" => /\ st["parse"] \in {"completed", "partial"}
                                        /\ \A s \in Stages : st[s] # "failed"
        /\ runs[i].status = "completed" => /\ st["target_plan"] = "completed"
                                           /\ st["candidate_generation"] = "completed"
                                           /\ runs[i].source # "none"
        /\ runs[i].status = "partial" => /\ st["candidate_generation"] = "skipped"
                                         /\ (st["target_plan"] = "skipped") =
                                                (runs[i].source = "none")
        /\ (runs[i].status = "failed" /\ faults = 0) =>
               \E s \in Stages :
                   /\ st[s] = "failed"
                   /\ \A t \in Stages :
                        /\ StageRank[t] < StageRank[s] => st[t] \in {"completed", "partial"}
                        /\ StageRank[t] > StageRank[s] => st[t] = "not_started"

\* A document does not stay in_progress on its own: while nothing has gone
\* wrong in the environment, the request that wrote the current in_progress is
\* still being served.
InProgressHasOwner ==
    faults = 0 => \A d \in Documents :
        LET n == Len(versions[d]) IN
        (n > 0 /\ versions[d][n].status = "in_progress" /\ versions[d][n].by \in Requests)
            => versions[d][n].by \in ServedFor(d)

\* Every request that started is answered, however its stages end.
EveryRequestEnds == \A r \in Requests : (pc[r] \in {"mark"} \cup Running) ~> (pc[r] \in Ended)

\* A document that is being processed is eventually settled, or the environment
\* has failed.
ProcessingSettles ==
    \A d \in Documents : (ServedFor(d) # {}) ~>
        \/ Registered(d) /\ CurrentStatus(d) \in {"completed", "failed"}
        \/ faults > 0

\* The refinement mapping to DocumentLifecycle.
Lifecycle == INSTANCE DocumentLifecycle
    WITH Attempts <- Requests,
         status <- [d \in Documents |-> IF Registered(d) THEN CurrentStatus(d) ELSE "absent"],
         active <- [d \in Documents |-> ServedFor(d)]
ImplementsLifecycle == Lifecycle!Spec
=============================================================================
