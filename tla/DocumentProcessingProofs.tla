---------------------- MODULE DocumentProcessingProofs ----------------------
(***************************************************************************)
(* Proofs about DocumentProcessing, for any sets of documents and requests *)
(* and any number of faults: type correctness, that every outcome a        *)
(* request wrote is backed by its run, that an in_progress document has an *)
(* owner, that the handlers implement DocumentLifecycle, and that recorded *)
(* runs are coherent.                                                      *)
(***************************************************************************)
EXTENDS DocumentProcessing, TLAPS

-----------------------------------------------------------------------------
(* Lemmas about the operators.                                             *)

LEMMA NewStagesType == NewStages \in StageStatuses
  BY DEF NewStages, StageStatuses, StageStatus

LEMMA NoJobType == NoJob \in Job
  BY DocumentProcessingAssumption DEF NoJob, Job

LEMMA FailFirstType ==
  ASSUME NEW st \in StageStatuses
  PROVE  FailFirstNotStarted(st) \in StageStatuses
  BY DEF FailFirstNotStarted, StageStatuses, StageStatus

LEMMA ParserStageType ==
  ASSUME NEW s \in ParserStatus
  PROVE  ParserStageStatus(s) \in StageStatus
  BY DEF ParserStageStatus, ParserStatus, StageStatus

LEMMA ClassificationStageType ==
  ASSUME NEW s \in ClassificationStatus
  PROVE  ClassificationStageStatus(s) \in StageStatus
  BY DEF ClassificationStageStatus, StageStatus

\* Appending a version keeps the documents' histories well formed.
LEMMA AppendVersionType ==
  ASSUME versions \in [Documents -> Seq(Version)],
         NEW d \in Documents, NEW s \in ProcessingStatus,
         NEW b \in Requests \cup {"client"}, AppendVersion(d, s, b)
  PROVE  versions' \in [Documents -> Seq(Version)]
<1>1. [status |-> s, by |-> b] \in Version
  BY DEF Version
<1> QED  BY <1>1 DEF AppendVersion

-----------------------------------------------------------------------------
(* Type correctness.                                                       *)

LEMMA InitTypeOK == Init => TypeOK
<1> SUFFICES ASSUME Init PROVE TypeOK  OBVIOUS
<1>1. /\ versions \in [Documents -> Seq(Version)]
      /\ runs \in Seq(Run)
  BY DEF Init
<1>2. pc \in [Requests -> PC]
  BY DEF Init, PC
<1>3. /\ job \in [Requests -> Job]
      /\ stages \in [Requests -> StageStatuses]
  BY NoJobType, NewStagesType DEF Init
<1>4. /\ uploading \subseteq Documents /\ files \subseteq Documents
      /\ source \in [Requests -> TypeSource]
      /\ result \in [Requests -> RunStatus \cup {"none", "raised"}]
  BY DEF Init, TypeSource
<1>5. faults \in 0..MaxFaults
  BY DocumentProcessingAssumption DEF Init
<1> QED  BY <1>1, <1>2, <1>3, <1>4, <1>5 DEF TypeOK

LEMMA RegistrationTypeOK == TypeOK /\ Registration => TypeOK'
<1> SUFFICES ASSUME TypeOK, NEW d \in Documents,
                    \/ StoreUpload(d)
                    \/ SaveUploadMetadata(d)
                    \/ \E s \in ClientStatuses, stored \in BOOLEAN :
                          CreateDocumentMetadata(d, s, stored)
             PROVE  TypeOK'
  BY DEF Registration
<1>1. CASE StoreUpload(d)
  BY <1>1 DEF StoreUpload, TypeOK, runVars
<1>2. CASE SaveUploadMetadata(d)
  <2>1. "not_started" \in ProcessingStatus
    BY DEF ProcessingStatus
  <2>2. versions' \in [Documents -> Seq(Version)]
    BY <1>2, <2>1, AppendVersionType DEF SaveUploadMetadata, TypeOK
  <2> QED  BY <1>2, <2>2 DEF SaveUploadMetadata, TypeOK, runVars
<1>3. ASSUME NEW s \in ClientStatuses, NEW stored \in BOOLEAN,
             CreateDocumentMetadata(d, s, stored)
      PROVE  TypeOK'
  <2>1. versions' \in [Documents -> Seq(Version)]
    BY <1>3, AppendVersionType, DocumentProcessingAssumption
       DEF CreateDocumentMetadata, TypeOK
  <2>2. files' \subseteq Documents
    BY <1>3 DEF CreateDocumentMetadata, TypeOK
  <2> QED  BY <1>3, <2>1, <2>2 DEF CreateDocumentMetadata, TypeOK, runVars
<1> QED  BY <1>1, <1>2, <1>3

\* What every step of a run keeps: its stores, and a well-formed run state.
LEMMA StageRaisesType ==
  ASSUME TypeOK, NEW r \in Requests, StageRaises(r)
  PROVE  /\ pc' \in [Requests -> PC]
         /\ stages' \in [Requests -> StageStatuses]
         /\ source' \in [Requests -> TypeSource]
         /\ result' \in [Requests -> RunStatus \cup {"none", "raised"}]
<1>1. stages[r] \in StageStatuses
  BY DEF TypeOK
<1>2. FailFirstNotStarted(stages[r]) \in StageStatuses
  BY <1>1, FailFirstType
<1>3. pc' \in [Requests -> PC]
  BY DEF StageRaises, TypeOK, PC, Running
<1>4. stages' \in [Requests -> StageStatuses]
  BY <1>2 DEF StageRaises, TypeOK
<1>5. /\ source' \in [Requests -> TypeSource]
      /\ result' \in [Requests -> RunStatus \cup {"none", "raised"}]
  BY DEF StageRaises, TypeOK, RunStatus
<1> QED  BY <1>3, <1>4, <1>5

LEMMA ConcludeType ==
  ASSUME TypeOK, NEW r \in Requests, NEW st \in StageStatuses, NEW status \in RunStatus,
         Conclude(r, st, status)
  PROVE  /\ pc' \in [Requests -> PC]
         /\ stages' \in [Requests -> StageStatuses]
         /\ result' \in [Requests -> RunStatus \cup {"none", "raised"}]
  BY DEF Conclude, TypeOK, PC, Running

LEMMA ProceedType ==
  ASSUME TypeOK, NEW r \in Requests, NEW to \in Running,
         NEW stage \in Stages, NEW status \in StageStatus, Proceed(r, to, stage, status)
  PROVE  /\ pc' \in [Requests -> PC]
         /\ stages' \in [Requests -> StageStatuses]
         /\ result' \in [Requests -> RunStatus \cup {"none", "raised"}]
<1>1. [stages[r] EXCEPT ![stage] = status] \in StageStatuses
  BY DEF TypeOK, StageStatuses
<1>2. pc' \in [Requests -> PC]
  BY DEF Proceed, TypeOK, PC
<1>3. stages' \in [Requests -> StageStatuses]
  BY <1>1 DEF Proceed, TypeOK
<1> QED  BY <1>2, <1>3 DEF Proceed, TypeOK

LEMMA SubmitTypeOK ==
  ASSUME TypeOK, NEW r \in Requests, Submit(r)
  PROVE  TypeOK'
<1>1. PICK j \in Job : ProcessUploadedDocument(r, j) \/ ProcessLocalDocument(r, j)
  BY DEF Submit
<1>2. pc' \in [Requests -> PC] /\ job' \in [Requests -> Job]
  BY <1>1 DEF ProcessUploadedDocument, ProcessLocalDocument, TypeOK, PC, Running, Ended
<1>3. UNCHANGED <<storeVars, runVars, faults>>
  BY <1>1 DEF ProcessUploadedDocument, ProcessLocalDocument
<1> QED  BY <1>2, <1>3 DEF TypeOK, storeVars, runVars

LEMMA OutcomeType == \A r : Outcome(r) \in {"completed", "failed"}
  BY DEF Outcome

LEMMA PersistRunType ==
  ASSUME TypeOK, NEW r \in Requests, PersistRun(r), result[r] \in RunStatus
  PROVE  runs' \in Seq(Run)
<1>1. [request |-> r, document |-> job[r].document, status |-> result[r],
       stages |-> stages[r], source |-> source[r]] \in Run
  BY DEF TypeOK, Run, Job
<1> QED  BY <1>1 DEF PersistRun, TypeOK

\* A run is only saved with a final status: what makes PersistRun type correct.
SavesFinalRuns ==
  \A r \in Requests : pc[r] \in {"save", "save_failed"} => result[r] \in RunStatus

LEMMA ServeTypeOK ==
  ASSUME TypeOK, SavesFinalRuns, NEW r \in Requests, Serve(r)
  PROVE  TypeOK'
<1>1. CASE MarkInProgress(r)
  <2>1. versions' \in [Documents -> Seq(Version)]
    <3>1. job[r].document \in Documents /\ "in_progress" \in ProcessingStatus
      BY DEF TypeOK, Job, ProcessingStatus
    <3> QED  BY <1>1, <3>1, AppendVersionType DEF MarkInProgress, TypeOK
  <2>2. pc' \in [Requests -> PC]
    BY <1>1 DEF MarkInProgress, TypeOK, PC, Running
  <2> QED  BY <1>1, <2>1, <2>2 DEF MarkInProgress, TypeOK, runVars
<1>2. CASE FileMissing(r)
  BY <1>2 DEF FileMissing, TypeOK, PC, Running, storeVars
<1>3. CASE Parse(r)
  <2> DEFINE Goal == /\ pc' \in [Requests -> PC]
                     /\ stages' \in [Requests -> StageStatuses]
                     /\ source' \in [Requests -> TypeSource]
                     /\ result' \in [Requests -> RunStatus \cup {"none", "raised"}]
  <2>1. ASSUME NEW s \in ParserStatus \ {"failed"},
               Proceed(r, "classify", "parse", ParserStageStatus(s)), UNCHANGED source
        PROVE  Goal
    <3>1. ParserStageStatus(s) \in StageStatus /\ "classify" \in Running /\ "parse" \in Stages
      BY ParserStageType DEF Running, Stages
    <3> QED  BY <2>1, <3>1, ProceedType DEF TypeOK
  <2>2. ASSUME Conclude(r, [stages[r] EXCEPT !["parse"] = ParserStageStatus("failed")],
                        "failed"), UNCHANGED source
        PROVE  Goal
    <3>1. ParserStageStatus("failed") \in StageStatus /\ "failed" \in RunStatus
      BY ParserStageType DEF ParserStatus, RunStatus
    <3>2. [stages[r] EXCEPT !["parse"] = ParserStageStatus("failed")] \in StageStatuses
      BY <3>1 DEF TypeOK, StageStatuses
    <3> QED  BY <2>2, <3>1, <3>2, ConcludeType DEF TypeOK
  <2>3. ASSUME StageRaises(r) PROVE Goal
    BY <2>3, StageRaisesType
  <2>4. Goal /\ UNCHANGED <<storeVars, job, faults>>
    BY <1>3, <2>1, <2>2, <2>3 DEF Parse
  <2> QED  BY <2>4 DEF TypeOK, storeVars
<1>4. CASE Classify(r)
  <2>1. ASSUME NEW s \in ClassificationStatus,
               Proceed(r, "plan", "classify", ClassificationStageStatus(s)),
               source' = [source EXCEPT ![r] =
                            IF job[r].override THEN "override"
                            ELSE IF s \in CLASSIFIER_TARGET_STATUSES THEN "classifier"
                            ELSE "none"]
        PROVE  /\ pc' \in [Requests -> PC]
               /\ stages' \in [Requests -> StageStatuses]
               /\ source' \in [Requests -> TypeSource]
               /\ result' \in [Requests -> RunStatus \cup {"none", "raised"}]
    <3>1. /\ ClassificationStageStatus(s) \in StageStatus
          /\ "plan" \in Running /\ "classify" \in Stages
      BY ClassificationStageType DEF Running, Stages
    <3>2. source' \in [Requests -> TypeSource]
      BY <2>1 DEF TypeOK, TypeSource
    <3> QED  BY <2>1, <3>1, <3>2, ProceedType
  <2>2. /\ pc' \in [Requests -> PC]
        /\ stages' \in [Requests -> StageStatuses]
        /\ source' \in [Requests -> TypeSource]
        /\ result' \in [Requests -> RunStatus \cup {"none", "raised"}]
        /\ UNCHANGED <<storeVars, job, faults>>
    BY <1>4, <2>1, StageRaisesType DEF Classify
  <2> QED  BY <2>2 DEF TypeOK, storeVars
<1>5. CASE SkipTargets(r)
  <2>1. /\ [stages[r] EXCEPT !["target_plan"] = "skipped",
                             !["candidate_generation"] = "skipped"] \in StageStatuses
        /\ "partial" \in RunStatus
    BY DEF TypeOK, StageStatuses, StageStatus, RunStatus
  <2> QED  BY <1>5, <2>1, ConcludeType DEF SkipTargets, TypeOK, storeVars
<1>6. CASE PlanTargets(r)
  <2> DEFINE Goal == /\ pc' \in [Requests -> PC]
                     /\ stages' \in [Requests -> StageStatuses]
                     /\ source' \in [Requests -> TypeSource]
                     /\ result' \in [Requests -> RunStatus \cup {"none", "raised"}]
  <2>1. ASSUME Proceed(r, "extract", "target_plan", "completed"), UNCHANGED source
        PROVE  Goal
    <3>1. "completed" \in StageStatus /\ "extract" \in Running /\ "target_plan" \in Stages
      BY DEF StageStatus, Running, Stages
    <3> QED  BY <2>1, <3>1, ProceedType DEF TypeOK
  <2>2. ASSUME Conclude(r, [stages[r] EXCEPT !["target_plan"] = "partial",
                                             !["candidate_generation"] = "skipped"],
                        "partial"), UNCHANGED source
        PROVE  Goal
    <3>1. /\ [stages[r] EXCEPT !["target_plan"] = "partial",
                               !["candidate_generation"] = "skipped"] \in StageStatuses
          /\ "partial" \in RunStatus
      BY DEF TypeOK, StageStatuses, StageStatus, RunStatus
    <3> QED  BY <2>2, <3>1, ConcludeType DEF TypeOK
  <2>3. Goal /\ UNCHANGED <<storeVars, job, faults>>
    BY <1>6, <2>1, <2>2, StageRaisesType DEF PlanTargets
  <2> QED  BY <2>3 DEF TypeOK, storeVars
<1>7. CASE Extract(r)
  <2>1. ASSUME Conclude(r, [stages[r] EXCEPT !["candidate_generation"] = "completed"],
                        "completed"), UNCHANGED source
        PROVE  /\ pc' \in [Requests -> PC]
               /\ stages' \in [Requests -> StageStatuses]
               /\ source' \in [Requests -> TypeSource]
               /\ result' \in [Requests -> RunStatus \cup {"none", "raised"}]
    <3>1. /\ [stages[r] EXCEPT !["candidate_generation"] = "completed"] \in StageStatuses
          /\ "completed" \in RunStatus
      BY DEF TypeOK, StageStatuses, StageStatus, RunStatus
    <3> QED  BY <2>1, <3>1, ConcludeType DEF TypeOK
  <2>2. /\ pc' \in [Requests -> PC]
        /\ stages' \in [Requests -> StageStatuses]
        /\ source' \in [Requests -> TypeSource]
        /\ result' \in [Requests -> RunStatus \cup {"none", "raised"}]
        /\ UNCHANGED <<storeVars, job, faults>>
    BY <1>7, <2>1, StageRaisesType DEF Extract
  <2> QED  BY <2>2 DEF TypeOK, storeVars
<1>8. CASE PersistRun(r)
  <2>1. runs' \in Seq(Run)
    BY <1>8, PersistRunType DEF PersistRun, SavesFinalRuns
  <2>2. pc' \in [Requests -> PC]
    BY <1>8 DEF PersistRun, TypeOK, PC, Running
  <2> QED  BY <1>8, <2>1, <2>2 DEF PersistRun, TypeOK, runVars
<1>9. CASE Settle(r)
  <2>1. versions' \in [Documents -> Seq(Version)]
    <3>1. job[r].document \in Documents /\ Outcome(r) \in ProcessingStatus
      BY OutcomeType DEF TypeOK, Job, ProcessingStatus
    <3> QED  BY <1>9, <3>1, AppendVersionType DEF Settle, TypeOK
  <2>2. pc' \in [Requests -> PC]
    BY <1>9 DEF Settle, TypeOK, PC, Ended
  <2> QED  BY <1>9, <2>1, <2>2 DEF Settle, TypeOK, runVars
<1> QED  BY <1>1, <1>2, <1>3, <1>4, <1>5, <1>6, <1>7, <1>8, <1>9 DEF Serve

LEMMA FaultType ==
  ASSUME TypeOK, Fault
  PROVE  faults' \in 0..MaxFaults
  BY DocumentProcessingAssumption DEF Fault, TypeOK

LEMMA FaultyTypeOK == TypeOK /\ Faulty => TypeOK'
<1> SUFFICES ASSUME TypeOK, Faulty PROVE TypeOK'  OBVIOUS
<1>1. ASSUME NEW r \in Requests, PersistRunRaises(r)
      PROVE  TypeOK'
  BY <1>1, StageRaisesType, FaultType DEF PersistRunRaises, TypeOK, storeVars
<1>2. ASSUME NEW r \in Requests, PersistFailedRunRaises(r) \/ UpdateStatusRaises(r)
      PROVE  TypeOK'
  <2>1. faults' \in 0..MaxFaults
    BY <1>2, FaultType DEF PersistFailedRunRaises, UpdateStatusRaises
  <2> QED  BY <1>2, <2>1 DEF PersistFailedRunRaises, UpdateStatusRaises, TypeOK,
                            PC, Running, Ended, storeVars, runVars
<1>3. ASSUME NEW d \in Documents, LoseFile(d)
      PROVE  TypeOK'
  BY <1>3, FaultType DEF LoseFile, TypeOK, runVars
<1>4. CASE Restart
  <2>1. pc' \in [Requests -> PC]
    BY <1>4 DEF Restart, TypeOK, PC, Ended
  <2> QED  BY <1>4, <2>1, FaultType DEF Restart, TypeOK, runVars
<1>5. ASSUME NEW d \in Documents, SaveUploadMetadataRaises(d)
      PROVE  TypeOK'
  BY <1>5, FaultType DEF SaveUploadMetadataRaises, TypeOK, runVars
<1> QED  BY <1>1, <1>2, <1>3, <1>4, <1>5 DEF Faulty

-----------------------------------------------------------------------------
(* Outcomes are backed by runs.  The property speaks of requests that have *)
(* ended; the invariant follows each request on its way there: no record   *)
(* before the save, the right record (or none, and why) when it settles.   *)

\* The file a stored request was admitted for is only gone after a fault.
FileStillThere ==
  \A r \in Requests : pc[r] \in {"mark", "parse"} /\ job[r].kind = "stored"
                        => job[r].document \in files \/ faults > 0

NoRunBeforeSave == \A r \in Requests : pc[r] \notin {"settle"} \cup Ended => RunsOf(r) = {}

\* The record of a request that is about to settle.
RecordMade(r) ==
  IF result[r] = "raised"
  THEN /\ RunsOf(r) = {}
       /\ job[r].kind = "stored" => ~job[r].persist \/ faults > 0
  ELSE /\ result[r] \in RunStatus
       /\ job[r].persist => \E k \in DOMAIN runs : /\ RunsOf(r) = {k}
                                                   /\ runs[k].status = result[r]
       /\ ~job[r].persist => RunsOf(r) = {}

RecordMadeAtSettle == \A r \in Requests : pc[r] = "settle" => RecordMade(r)

\* Only requests that were answered have written an outcome.
OutcomesAreFinal ==
  \A d \in Documents : \A i \in DOMAIN versions[d] :
    versions[d][i].by \in Requests /\ versions[d][i].status # "in_progress"
      => pc[versions[d][i].by] \in {"ok", "error"}

RunInv == /\ TypeOK
          /\ SavesFinalRuns
          /\ FileStillThere
          /\ NoRunBeforeSave
          /\ RecordMadeAtSettle
          /\ OutcomesAreFinal
          /\ OutcomeBackedByRun

LEMMA InitRunInv == Init => RunInv
<1> SUFFICES ASSUME Init PROVE RunInv  OBVIOUS
<1>1. TypeOK
  BY InitTypeOK
<1>2. SavesFinalRuns /\ FileStillThere /\ RecordMadeAtSettle
  BY DEF Init, SavesFinalRuns, FileStillThere, RecordMadeAtSettle
<1>3. NoRunBeforeSave
  BY DEF Init, NoRunBeforeSave, RunsOf
<1>4. OutcomesAreFinal /\ OutcomeBackedByRun
  BY DEF Init, OutcomesAreFinal, OutcomeBackedByRun
<1> QED  BY <1>1, <1>2, <1>3, <1>4 DEF RunInv

\* A step inside a run: only its own state changes.
LEMMA RunStepKeepsRunInv ==
  ASSUME RunInv, TypeOK', NEW r \in Requests,
         pc[r] \notin {"idle"} \cup Ended,
         UNCHANGED <<storeVars, job>>, faults' = faults \/ faults' = faults + 1,
         \A q \in Requests \ {r} : pc'[q] = pc[q] /\ result'[q] = result[q],
         pc'[r] \notin {"idle", "mark", "parse"},
         pc'[r] \notin {"settle", "error"} => pc[r] # "settle",
         pc'[r] \in {"save", "save_failed"} => result'[r] \in RunStatus,
         pc'[r] = "settle" => RecordMade(r)'
  PROVE  RunInv'
<1>1. \A q \in Requests : RunsOf(q)' = RunsOf(q)
  BY DEF RunsOf, storeVars
<1>2. SavesFinalRuns'
  BY DEF RunInv, SavesFinalRuns
<1>3. FileStillThere'
  BY DEF RunInv, FileStillThere, storeVars, TypeOK
<1>4. NoRunBeforeSave'
  BY <1>1 DEF RunInv, NoRunBeforeSave, Ended
<1>5. RecordMadeAtSettle'
  <2> SUFFICES ASSUME NEW q \in Requests, pc'[q] = "settle", q # r
               PROVE  RecordMade(q)'
    BY DEF RecordMadeAtSettle
  <2>1. RecordMade(q)
    BY DEF RunInv, RecordMadeAtSettle
  <2> QED  BY <1>1, <2>1 DEF RecordMade, storeVars, RunInv, TypeOK
<1>6. OutcomesAreFinal'
  BY DEF RunInv, OutcomesAreFinal, storeVars, Ended
<1>7. OutcomeBackedByRun'
  <2>1. UNCHANGED <<versions, runs, job>> /\ (faults > 0 => faults' > 0)
    BY DEF storeVars, RunInv, TypeOK
  <2>2. ASSUME NEW v, v.by \in Requests, Backed(v)
        PROVE  Backed(v)'
    BY <1>1, <2>1, <2>2 DEF Backed
  <2> QED  BY <2>1, <2>2 DEF RunInv, OutcomeBackedByRun
<1> QED  BY <1>2, <1>3, <1>4, <1>5, <1>6, <1>7 DEF RunInv

\* A step that appends a version to one document and records no run.
LEMMA AppendKeepsOutcomes ==
  ASSUME RunInv, NEW d \in Documents, NEW s, NEW b, AppendVersion(d, s, b),
         UNCHANGED <<runs, job, faults>>,
         \A r \in Requests : pc[r] \in {"ok", "error"} => pc'[r] = pc[r],
         b \in Requests /\ s # "in_progress" =>
            /\ pc'[b] \in {"ok", "error"}
            /\ pc[b] = "settle" /\ job[b].kind = "stored" /\ s = Outcome(b)
  PROVE  OutcomesAreFinal' /\ OutcomeBackedByRun'
<1> DEFINE new == [status |-> s, by |-> b]
<1>1. \A q \in Requests : RunsOf(q)' = RunsOf(q)
  BY DEF RunsOf
<1>2. ASSUME NEW e \in Documents, NEW i \in DOMAIN versions'[e]
      PROVE  \/ i \in DOMAIN versions[e] /\ versions'[e][i] = versions[e][i]
             \/ versions'[e][i] = new
  BY DEF AppendVersion, RunInv, TypeOK
<1>3. OutcomesAreFinal'
  BY <1>2 DEF OutcomesAreFinal, RunInv
<1>4. OutcomeBackedByRun'
  <2>1. ASSUME NEW v, v.by \in Requests, Backed(v)
        PROVE  Backed(v)'
    BY <1>1, <2>1 DEF Backed
  <2>2. ASSUME b \in Requests, s # "in_progress"
        PROVE  Backed(new)
    <3>1. RecordMade(b)
      BY <2>2 DEF RunInv, RecordMadeAtSettle
    <3> QED  BY <2>2, <3>1 DEF RecordMade, Backed, Outcome, RunStatus
  <2> QED  BY <1>2, <2>1, <2>2 DEF RunInv, OutcomeBackedByRun
<1> QED  BY <1>3, <1>4

LEMMA RegistrationKeepsRunInv == RunInv /\ Registration => RunInv'
<1> SUFFICES ASSUME RunInv, NEW d \in Documents,
                    \/ StoreUpload(d)
                    \/ SaveUploadMetadata(d)
                    \/ \E s \in ClientStatuses, stored \in BOOLEAN :
                          CreateDocumentMetadata(d, s, stored)
             PROVE  RunInv'
  BY DEF Registration
<1>1. TypeOK'
  BY RegistrationTypeOK DEF RunInv, Registration
<1>2. /\ UNCHANGED <<runs, pc, job, runVars, faults>>
      /\ files \subseteq files'
  BY DEF StoreUpload, SaveUploadMetadata, CreateDocumentMetadata
<1>3. SavesFinalRuns' /\ FileStillThere' /\ NoRunBeforeSave' /\ RecordMadeAtSettle'
  BY <1>2 DEF RunInv, SavesFinalRuns, FileStillThere, NoRunBeforeSave, RunsOf,
              RecordMadeAtSettle, RecordMade, runVars
<1>4. OutcomesAreFinal' /\ OutcomeBackedByRun'
  <2>1. CASE UNCHANGED versions
    BY <1>2, <2>1 DEF RunInv, OutcomesAreFinal, OutcomeBackedByRun, Backed, RunsOf
  <2>2. ASSUME NEW s, AppendVersion(d, s, "client")
        PROVE  OutcomesAreFinal' /\ OutcomeBackedByRun'
    BY <1>2, <2>2, AppendKeepsOutcomes, DocumentProcessingAssumption
  <2> QED  BY <2>1, <2>2 DEF StoreUpload, SaveUploadMetadata, CreateDocumentMetadata
<1> QED  BY <1>1, <1>3, <1>4 DEF RunInv

LEMMA SubmitKeepsRunInv ==
  ASSUME RunInv, NEW r \in Requests, Submit(r)
  PROVE  RunInv'
<1>1. PICK j \in Job : ProcessUploadedDocument(r, j) \/ ProcessLocalDocument(r, j)
  BY DEF Submit
<1>2. /\ UNCHANGED <<uploading, files, versions, runs, stages, source, result, faults>>
      /\ pc[r] = "idle"
      /\ pc' = [pc EXCEPT ![r] = pc'[r]] /\ job' = [job EXCEPT ![r] = j]
      /\ \/ pc'[r] = "mark" /\ j.document \in files
         \/ pc'[r] = "error"
         \/ pc'[r] = "parse" /\ j.kind = "local"
  BY <1>1 DEF ProcessUploadedDocument, ProcessLocalDocument, storeVars, runVars, RunInv, TypeOK
<1>3. TypeOK'
  BY SubmitTypeOK DEF RunInv
<1>4. \A q \in Requests : RunsOf(q)' = RunsOf(q)
  BY <1>2 DEF RunsOf
<1>5. SavesFinalRuns' /\ FileStillThere' /\ NoRunBeforeSave'
  BY <1>2, <1>4 DEF RunInv, TypeOK, SavesFinalRuns, FileStillThere, NoRunBeforeSave, Ended
<1>6. RecordMadeAtSettle'
  BY <1>2, <1>4 DEF RunInv, TypeOK, RecordMadeAtSettle, RecordMade
<1>7. OutcomesAreFinal'
  BY <1>2 DEF RunInv, TypeOK, OutcomesAreFinal
<1>8. OutcomeBackedByRun'
  <2>1. ASSUME NEW v, v.by \in Requests \ {r}, Backed(v)
        PROVE  Backed(v)'
    BY <1>2, <1>4, <2>1 DEF RunInv, TypeOK, Backed
  <2> QED  BY <1>2, <2>1 DEF RunInv, OutcomesAreFinal, OutcomeBackedByRun
<1> QED  BY <1>3, <1>5, <1>6, <1>7, <1>8 DEF RunInv

LEMMA MarkKeepsRunInv ==
  ASSUME RunInv, NEW r \in Requests, MarkInProgress(r)
  PROVE  RunInv'
<1>1. TypeOK'
  BY ServeTypeOK DEF RunInv, Serve
<1>2. /\ UNCHANGED <<uploading, files, runs, job, stages, source, result, faults>>
      /\ pc[r] = "mark" /\ pc' = [pc EXCEPT ![r] = "parse"]
      /\ job[r].document \in Documents
      /\ AppendVersion(job[r].document, "in_progress", r)
  BY DEF MarkInProgress, runVars, RunInv, TypeOK, Job
<1>3. \A q \in Requests : RunsOf(q)' = RunsOf(q)
  BY <1>2 DEF RunsOf
<1>4. SavesFinalRuns' /\ FileStillThere' /\ NoRunBeforeSave'
  BY <1>2, <1>3 DEF RunInv, TypeOK, SavesFinalRuns, FileStillThere, NoRunBeforeSave, Ended
<1>5. RecordMadeAtSettle'
  BY <1>2, <1>3 DEF RunInv, TypeOK, RecordMadeAtSettle, RecordMade
<1>6. OutcomesAreFinal' /\ OutcomeBackedByRun'
  <2>1. \A q \in Requests : pc[q] \in {"ok", "error"} => pc'[q] = pc[q]
    BY <1>2 DEF RunInv, TypeOK
  <2> QED  BY <1>2, <2>1, AppendKeepsOutcomes
<1> QED  BY <1>1, <1>4, <1>5, <1>6 DEF RunInv

LEMMA PersistRunKeepsRunInv ==
  ASSUME RunInv, NEW r \in Requests, PersistRun(r)
  PROVE  RunInv'
<1>1. TypeOK'
  BY ServeTypeOK DEF RunInv, Serve
<1>2. /\ UNCHANGED <<uploading, files, versions, job, stages, source, result, faults>>
      /\ pc[r] \in {"save", "save_failed"} /\ pc' = [pc EXCEPT ![r] = "settle"]
      /\ result[r] \in RunStatus
  BY DEF PersistRun, runVars, RunInv, SavesFinalRuns
<1>3. \A q \in Requests \ {r} : RunsOf(q)' = RunsOf(q)
  BY DEF PersistRun, RunsOf, RunInv, TypeOK
<1>4. RunsOf(r) = {}
  BY <1>2 DEF RunInv, NoRunBeforeSave, Ended
<1>5. \A k \in DOMAIN runs : k \in DOMAIN runs' /\ runs'[k] = runs[k]
  BY DEF PersistRun, RunInv, TypeOK
<1>6. RecordMade(r)'
  <2>1. CASE job[r].persist
    <3> DEFINE n == Len(runs) + 1
    <3>1. n \in DOMAIN runs' /\ runs'[n].request = r /\ runs'[n].status = result[r]
      BY <2>1 DEF PersistRun, RunInv, TypeOK
    <3>2. \A k \in DOMAIN runs' : k = n \/ runs'[k].request # r
      BY <1>4, <2>1 DEF PersistRun, RunInv, TypeOK, RunsOf
    <3>3. RunsOf(r)' = {n}
      BY <3>1, <3>2 DEF RunsOf
    <3> QED  BY <1>2, <2>1, <3>1, <3>3 DEF RecordMade, RunStatus
  <2>2. CASE ~job[r].persist
    BY <1>2, <1>4, <2>2 DEF PersistRun, RecordMade, RunsOf, RunStatus
  <2> QED  BY <2>1, <2>2
<1>7. SavesFinalRuns' /\ FileStillThere' /\ NoRunBeforeSave'
  BY <1>2, <1>3 DEF RunInv, TypeOK, SavesFinalRuns, FileStillThere, NoRunBeforeSave, Ended
<1>8. RecordMadeAtSettle'
  <2> SUFFICES ASSUME NEW q \in Requests \ {r}, pc[q] = "settle"
               PROVE  RecordMade(q)'
    BY <1>2, <1>6 DEF RunInv, TypeOK, RecordMadeAtSettle
  <2>1. RecordMade(q)
    BY DEF RunInv, RecordMadeAtSettle
  <2> QED  BY <1>2, <1>3, <1>5, <2>1 DEF RecordMade
<1>9. OutcomesAreFinal'
  BY <1>2 DEF RunInv, TypeOK, OutcomesAreFinal
<1>10. OutcomeBackedByRun'
  <2>1. ASSUME NEW v, v.by \in Requests \ {r}, Backed(v)
        PROVE  Backed(v)'
    BY <1>2, <1>3, <1>5, <2>1 DEF Backed
  <2> QED  BY <1>2, <2>1 DEF RunInv, OutcomesAreFinal, OutcomeBackedByRun
<1> QED  BY <1>1, <1>7, <1>8, <1>9, <1>10 DEF RunInv

LEMMA SettleKeepsRunInv ==
  ASSUME RunInv, NEW r \in Requests, Settle(r)
  PROVE  RunInv'
<1>1. TypeOK'
  BY ServeTypeOK DEF RunInv, Serve
<1>2. /\ UNCHANGED <<uploading, files, runs, job, stages, source, result, faults>>
      /\ pc[r] = "settle" /\ pc'[r] \in {"ok", "error"}
      /\ pc' = [pc EXCEPT ![r] = pc'[r]]
      /\ job[r].document \in Documents
  BY DEF Settle, runVars, RunInv, TypeOK, Job
<1>3. \A q \in Requests : RunsOf(q)' = RunsOf(q)
  BY <1>2 DEF RunsOf
<1>4. SavesFinalRuns' /\ FileStillThere' /\ NoRunBeforeSave'
  BY <1>2, <1>3 DEF RunInv, TypeOK, SavesFinalRuns, FileStillThere, NoRunBeforeSave, Ended
<1>5. RecordMadeAtSettle'
  BY <1>2, <1>3 DEF RunInv, TypeOK, RecordMadeAtSettle, RecordMade
<1>6. OutcomesAreFinal' /\ OutcomeBackedByRun'
  <2>1. \A q \in Requests : pc[q] \in {"ok", "error"} => pc'[q] = pc[q]
    BY <1>2 DEF RunInv, TypeOK
  <2>2. CASE job[r].kind = "stored"
    BY <1>2, <2>1, <2>2, AppendKeepsOutcomes DEF Settle
  <2>3. CASE job[r].kind # "stored"
    <3>1. UNCHANGED versions
      BY <2>3 DEF Settle
    <3> QED  BY <1>2, <1>3, <2>1, <3>1
             DEF RunInv, OutcomesAreFinal, OutcomeBackedByRun, Backed
  <2> QED  BY <2>2, <2>3
<1> QED  BY <1>1, <1>4, <1>5, <1>6 DEF RunInv

\* The stages of a run, with what each leaves the handler at.
LEMMA StageKeepsRunInv ==
  ASSUME RunInv, NEW r \in Requests,
         \/ FileMissing(r) \/ Parse(r) \/ Classify(r)
         \/ SkipTargets(r) \/ PlanTargets(r) \/ Extract(r)
  PROVE  RunInv'
<1>1. TypeOK'
  BY ServeTypeOK DEF RunInv, Serve
<1>2. UNCHANGED <<storeVars, job, faults>>
  BY DEF FileMissing, Parse, Classify, SkipTargets, PlanTargets, Extract
<1>3. pc[r] \in {"parse", "classify", "plan", "extract"}
  BY DEF FileMissing, Parse, Classify, SkipTargets, PlanTargets, Extract
<1>4. \A q \in Requests \ {r} : pc'[q] = pc[q] /\ result'[q] = result[q]
  BY DEF FileMissing, Parse, Classify, SkipTargets, PlanTargets, Extract,
         StageRaises, Conclude, Proceed, RunInv, TypeOK
<1>5. \/ pc'[r] \in {"classify", "plan", "extract"}
      \/ pc'[r] \in {"save", "save_failed"} /\ result'[r] \in {"completed", "partial", "failed"}
      \/ FileMissing(r) /\ pc'[r] = "settle" /\ result'[r] = "raised"
  BY DEF FileMissing, Parse, Classify, SkipTargets, PlanTargets, Extract,
         StageRaises, Conclude, Proceed, RunInv, TypeOK
<1>6. FileMissing(r) /\ result'[r] = "raised" => RecordMade(r)'
  <2> SUFFICES ASSUME FileMissing(r), result'[r] = "raised" PROVE RecordMade(r)'
    OBVIOUS
  <2>1. RunsOf(r) = {}
    BY <1>3 DEF RunInv, NoRunBeforeSave, Ended
  <2>2. job[r].kind = "stored" => faults > 0
    BY DEF FileMissing, RunInv, FileStillThere
  <2> QED  BY <1>2, <2>1, <2>2 DEF RecordMade, RunsOf, storeVars
<1> QED  BY <1>1, <1>2, <1>3, <1>4, <1>5, <1>6, RunStepKeepsRunInv DEF Ended, RunStatus

LEMMA FaultyKeepsRunInv == RunInv /\ Faulty => RunInv'
<1> SUFFICES ASSUME RunInv, Faulty PROVE RunInv'  OBVIOUS
<1>1. TypeOK'
  BY FaultyTypeOK DEF RunInv
<1>2. faults \in Nat /\ faults' = faults + 1
  BY DEF Faulty, SaveUploadMetadataRaises, PersistRunRaises, PersistFailedRunRaises,
         UpdateStatusRaises, LoseFile, Restart, Fault, RunInv, TypeOK
<1>3. ASSUME NEW r \in Requests, PersistRunRaises(r)
      PROVE  RunInv'
  <2>1. /\ UNCHANGED <<storeVars, job>>
        /\ pc[r] = "save" /\ pc'[r] = "save_failed" /\ result'[r] \in RunStatus
        /\ \A q \in Requests \ {r} : pc'[q] = pc[q] /\ result'[q] = result[q]
    BY <1>3 DEF PersistRunRaises, StageRaises, RunStatus, RunInv, TypeOK
  <2> QED  BY <1>1, <1>2, <2>1, RunStepKeepsRunInv DEF Ended
<1>4. ASSUME NEW r \in Requests, PersistFailedRunRaises(r)
      PROVE  RunInv'
  <2>1. /\ UNCHANGED <<storeVars, job>>
        /\ pc[r] = "save_failed" /\ pc'[r] = "settle" /\ result'[r] = "raised"
        /\ \A q \in Requests \ {r} : pc'[q] = pc[q] /\ result'[q] = result[q]
    BY <1>4 DEF PersistFailedRunRaises, RunInv, TypeOK
  <2>2. RunsOf(r) = {}
    BY <2>1 DEF RunInv, NoRunBeforeSave, Ended
  <2>3. RecordMade(r)'
    BY <1>2, <2>1, <2>2 DEF RecordMade, RunsOf, storeVars
  <2> QED  BY <1>1, <1>2, <2>1, <2>3, RunStepKeepsRunInv DEF Ended
<1>5. ASSUME NEW r \in Requests, UpdateStatusRaises(r)
      PROVE  RunInv'
  <2>1. /\ UNCHANGED <<storeVars, job>>
        /\ pc[r] \in {"mark", "settle"} /\ pc'[r] = "error"
        /\ \A q \in Requests \ {r} : pc'[q] = pc[q] /\ result'[q] = result[q]
    BY <1>5 DEF UpdateStatusRaises, runVars, RunInv, TypeOK
  <2> QED  BY <1>1, <1>2, <2>1, RunStepKeepsRunInv DEF Ended
<1>6. ASSUME UNCHANGED <<versions, runs, job, result>>,
             \A q \in Requests : pc'[q] = pc[q] \/ (pc'[q] = "lost" /\ pc[q] \notin Ended)
      PROVE  RunInv'
  <2>1. \A q \in Requests : RunsOf(q)' = RunsOf(q)
    BY <1>6 DEF RunsOf
  <2>2. SavesFinalRuns' /\ FileStillThere' /\ NoRunBeforeSave'
    BY <1>2, <1>6, <2>1
       DEF RunInv, SavesFinalRuns, FileStillThere, NoRunBeforeSave, Ended
  <2>3. RecordMadeAtSettle'
    <3>1. ASSUME NEW q \in Requests, RecordMade(q) PROVE RecordMade(q)'
      BY <1>2, <1>6, <2>1, <3>1 DEF RecordMade
    <3> QED  BY <1>6, <3>1 DEF RunInv, RecordMadeAtSettle
  <2>4. OutcomesAreFinal'
    BY <1>6 DEF RunInv, OutcomesAreFinal, Ended
  <2>5. OutcomeBackedByRun'
    <3>1. ASSUME NEW v, v.by \in Requests, Backed(v) PROVE Backed(v)'
      BY <1>2, <1>6, <2>1, <3>1 DEF Backed
    <3> QED  BY <1>6, <3>1 DEF RunInv, OutcomeBackedByRun
  <2> QED  BY <1>1, <2>2, <2>3, <2>4, <2>5 DEF RunInv
<1>7. ASSUME NEW d \in Documents, SaveUploadMetadataRaises(d) \/ LoseFile(d)
      PROVE  RunInv'
  BY <1>6, <1>7 DEF SaveUploadMetadataRaises, LoseFile, runVars
<1>8. CASE Restart
  <2>1. \A q \in Requests : pc'[q] = pc[q] \/ (pc'[q] = "lost" /\ pc[q] \notin Ended)
    BY <1>8 DEF Restart, Running, Ended
  <2> QED  BY <1>6, <1>8, <2>1 DEF Restart, runVars
<1> QED  BY <1>3, <1>4, <1>5, <1>7, <1>8 DEF Faulty

LEMMA StutterKeepsRunInv == RunInv /\ UNCHANGED vars => RunInv'
<1> SUFFICES ASSUME RunInv, UNCHANGED vars PROVE RunInv'  OBVIOUS
<1>1. TypeOK' /\ SavesFinalRuns' /\ FileStillThere' /\ OutcomesAreFinal'
  BY DEF RunInv, vars, TypeOK, SavesFinalRuns, FileStillThere, OutcomesAreFinal
<1>2. \A q \in Requests : RunsOf(q)' = RunsOf(q)
  BY DEF vars, RunsOf
<1>3. NoRunBeforeSave' /\ RecordMadeAtSettle'
  BY <1>2 DEF RunInv, vars, NoRunBeforeSave, RecordMadeAtSettle, RecordMade
<1>4. OutcomeBackedByRun'
  BY <1>2 DEF RunInv, vars, OutcomeBackedByRun, Backed
<1> QED  BY <1>1, <1>3, <1>4 DEF RunInv

LEMMA NextKeepsRunInv == RunInv /\ [Next]_vars => RunInv'
<1> SUFFICES ASSUME RunInv, [Next]_vars PROVE RunInv'  OBVIOUS
<1>1. ASSUME NEW r \in Requests, Serve(r) PROVE RunInv'
  BY <1>1, MarkKeepsRunInv, StageKeepsRunInv, PersistRunKeepsRunInv, SettleKeepsRunInv
     DEF Serve
<1> QED  BY <1>1, RegistrationKeepsRunInv, SubmitKeepsRunInv, FaultyKeepsRunInv,
            StutterKeepsRunInv DEF Next

LEMMA RunInvariant == Spec => []RunInv
  BY InitRunInv, NextKeepsRunInv, PTL DEF Spec

\* Type correctness of every behaviour.
THEOREM TypeCorrect == Spec => []TypeOK
<1>1. RunInv => TypeOK  BY DEF RunInv
<1> QED  BY <1>1, RunInvariant, PTL

\* Whatever happens around it, a status that a request wrote as its outcome is
\* backed by the one run it recorded, or by the fault that kept it from
\* recording one (api/documents.py process_uploaded_document).
THEOREM OutcomesBackedByRuns == Spec => []OutcomeBackedByRun
<1>1. RunInv => OutcomeBackedByRun  BY DEF RunInv
<1> QED  BY <1>1, RunInvariant, PTL

-----------------------------------------------------------------------------
(* The handlers implement DocumentLifecycle.  Status and Active are the    *)
(* expressions its variables are mapped to.                                *)

Status == [d \in Documents |-> IF Registered(d) THEN CurrentStatus(d) ELSE "absent"]
Active == [d \in Documents |-> ServedFor(d)]

\* A stored request is only served for a registered document, only such requests
\* mark one, and the metadata of an upload is not there before it is saved.
Admitted ==
  /\ \A r \in Requests : pc[r] \in {"mark"} \cup Running /\ job[r].kind = "stored"
                            => Registered(job[r].document)
  /\ \A r \in Requests : pc[r] = "mark" => job[r].kind = "stored"
  /\ \A d \in uploading : ~Registered(d)

LifecycleInv == TypeOK /\ Admitted

LEMMA AppendVersionStatus ==
  ASSUME TypeOK, NEW d \in Documents, NEW s, NEW b, AppendVersion(d, s, b)
  PROVE  /\ Status' = [Status EXCEPT ![d] = s]
         /\ Registered(d)'
         /\ \A e \in Documents \ {d} : Registered(e)' = Registered(e)
<1>1. /\ Registered(d)' /\ CurrentStatus(d)' = s
  BY DEF AppendVersion, TypeOK, Registered, CurrentStatus
<1>2. ASSUME NEW e \in Documents \ {d}
      PROVE  Registered(e)' = Registered(e) /\ CurrentStatus(e)' = CurrentStatus(e)
  BY DEF AppendVersion, TypeOK, Registered, CurrentStatus
<1> QED  BY <1>1, <1>2 DEF Status

LEMMA AdmittedInvariant == Spec => []Admitted
<1>1. Init => Admitted
  BY DEF Init, Admitted, Running
<1>2. TypeOK /\ Admitted /\ [Next]_vars => Admitted'
  <2> SUFFICES ASSUME TypeOK, Admitted, [Next]_vars PROVE Admitted'  OBVIOUS
  <2>1. ASSUME UNCHANGED <<uploading, versions>>,
               \A r \in Requests :
                  \/ job'[r] = job[r] /\ pc'[r] = pc[r]
                  \/ /\ job'[r] = job[r] /\ pc'[r] # "mark"
                     /\ pc[r] \in {"mark"} \cup Running
                  \/ pc'[r] \notin {"mark"} \cup Running
                  \/ job'[r].kind # "stored" /\ pc'[r] # "mark"
                  \/ job'[r].kind = "stored" /\ Registered(job'[r].document)
        PROVE  Admitted'
    BY <2>1 DEF Admitted, Registered
  <2>2. ASSUME NEW d \in Documents, NEW s, NEW b, AppendVersion(d, s, b),
               uploading' \subseteq uploading, d \notin uploading', UNCHANGED job,
               \A r \in Requests :
                  pc'[r] = pc[r] \/ (pc'[r] # "mark" /\ pc[r] \in {"mark"} \cup Running)
        PROVE  Admitted'
    <3>1. /\ Registered(d)'
          /\ \A e \in Documents \ {d} : Registered(e)' = Registered(e)
      BY <2>2, AppendVersionStatus
    <3> QED  BY <2>2, <3>1 DEF Admitted, TypeOK, Job
  <2>3. CASE Registration
    <3> SUFFICES ASSUME NEW d \in Documents,
                        \/ StoreUpload(d)
                        \/ SaveUploadMetadata(d)
                        \/ \E s \in ClientStatuses, stored \in BOOLEAN :
                              CreateDocumentMetadata(d, s, stored)
                 PROVE  Admitted'
      BY <2>3 DEF Registration
    <3>1. CASE StoreUpload(d)
      BY <3>1 DEF StoreUpload, Admitted, Registered
    <3>2. CASE ~StoreUpload(d)
      BY <2>2, <3>2 DEF SaveUploadMetadata, CreateDocumentMetadata
    <3> QED  BY <3>1, <3>2
  <2>4. ASSUME NEW r \in Requests, Submit(r) PROVE Admitted'
    BY <2>1, <2>4 DEF Submit, ProcessUploadedDocument, ProcessLocalDocument, TypeOK,
                      storeVars, Running
  <2>5. ASSUME NEW r \in Requests, MarkInProgress(r) \/ Settle(r) PROVE Admitted'
    <3>1. /\ job[r].document \in Documents
          /\ UNCHANGED <<uploading, job>>
          /\ pc[r] \in {"mark"} \cup Running /\ pc'[r] # "mark"
          /\ \A q \in Requests \ {r} : pc'[q] = pc[q]
      BY <2>5 DEF MarkInProgress, Settle, TypeOK, Job, Running
    <3>2. job[r].kind = "stored" => job[r].document \notin uploading
      BY <3>1 DEF Admitted
    <3>3. CASE UNCHANGED versions
      BY <2>1, <3>1, <3>3
    <3>4. MarkInProgress(r) => job[r].kind = "stored"
      BY DEF MarkInProgress, Admitted
    <3> QED  BY <2>2, <2>5, <3>1, <3>2, <3>3, <3>4 DEF MarkInProgress, Settle
  <2>6. ASSUME NEW r \in Requests, Serve(r), ~MarkInProgress(r), ~Settle(r)
        PROVE  Admitted'
    <3>1. /\ UNCHANGED <<uploading, versions, job>>
          /\ pc[r] \in Running /\ pc'[r] # "mark"
          /\ \A q \in Requests \ {r} : pc'[q] = pc[q]
      BY <2>6 DEF Serve, FileMissing, Parse, Classify, SkipTargets, PlanTargets, Extract,
                  PersistRun, StageRaises, Conclude, Proceed, TypeOK, storeVars, Running
    <3> QED  BY <2>1, <3>1
  <2>7. CASE Faulty
    <3>1. ASSUME NEW r \in Requests,
                 PersistRunRaises(r) \/ PersistFailedRunRaises(r) \/ UpdateStatusRaises(r)
          PROVE  Admitted'
      <4>1. /\ UNCHANGED <<uploading, versions, job>>
            /\ pc[r] \in {"mark"} \cup Running /\ pc'[r] # "mark"
            /\ \A q \in Requests \ {r} : pc'[q] = pc[q]
        BY <3>1 DEF PersistRunRaises, PersistFailedRunRaises, UpdateStatusRaises,
                    StageRaises, TypeOK, storeVars, Running
      <4> QED  BY <2>1, <4>1
    <3>2. ASSUME NEW d \in Documents, SaveUploadMetadataRaises(d) \/ LoseFile(d)
          PROVE  Admitted'
      BY <3>2 DEF SaveUploadMetadataRaises, LoseFile, Admitted, Registered
    <3>3. CASE Restart
      BY <3>3 DEF Restart, Admitted, Registered, Running
    <3> QED  BY <2>7, <3>1, <3>2, <3>3 DEF Faulty
  <2>8. CASE UNCHANGED vars
    BY <2>1, <2>8 DEF vars
  <2> QED  BY <2>3, <2>4, <2>5, <2>6, <2>7, <2>8 DEF Next
<1> QED  BY <1>1, <1>2, TypeCorrect, PTL DEF Spec

\* A step that leaves the status alone and deactivates some requests.
LEMMA DeactivationAbandons ==
  ASSUME UNCHANGED versions,
         NEW A \in SUBSET Requests,
         \A d \in Documents : ServedFor(d)' = ServedFor(d) \ A
  PROVE  Lifecycle!Abandon(A)
  BY DEF Lifecycle!Abandon, Registered, CurrentStatus

LEMMA StepImplementsLifecycle ==
  ASSUME LifecycleInv, Next
  PROVE  Lifecycle!Next \/ UNCHANGED Lifecycle!vars
<1> USE DEF LifecycleInv
<1>1. ASSUME UNCHANGED versions,
             \A r \in Requests :
                \/ job'[r] = job[r] /\ (pc'[r] \in Running <=> pc[r] \in Running)
                \/ pc[r] \notin Running /\ (pc'[r] \in Running => job'[r].kind # "stored")
      PROVE  UNCHANGED Lifecycle!vars
  <2>1. \A d \in Documents : ServedFor(d)' = ServedFor(d)
    BY <1>1 DEF ServedFor, OnDocument
  <2> QED  BY <1>1, <2>1 DEF Lifecycle!vars, Registered, CurrentStatus
<1>2. ASSUME NEW d \in Documents, NEW s \in ProcessingStatus, NEW b,
             AppendVersion(d, s, b), ~Registered(d), UNCHANGED <<pc, job>>
      PROVE  Lifecycle!Next
  <2>1. Status' = [Status EXCEPT ![d] = s] /\ Status[d] = "absent"
    BY <1>2, AppendVersionStatus DEF Status
  <2>2. Active' = Active
    BY <1>2 DEF Active, ServedFor, OnDocument
  <2>3. Lifecycle!Register(d, s)
    BY <2>1, <2>2 DEF Lifecycle!Register, Status, Active
  <2> QED  BY <2>3 DEF Lifecycle!Next, Lifecycle!Registered, ProcessingStatus
<1>3. CASE Registration
  <2> SUFFICES ASSUME NEW d \in Documents,
                      \/ StoreUpload(d)
                      \/ SaveUploadMetadata(d)
                      \/ \E s \in ClientStatuses, stored \in BOOLEAN :
                            CreateDocumentMetadata(d, s, stored)
               PROVE  Lifecycle!Next \/ UNCHANGED Lifecycle!vars
    BY <1>3 DEF Registration
  <2>1. CASE StoreUpload(d)
    BY <1>1, <2>1 DEF StoreUpload
  <2>2. CASE SaveUploadMetadata(d)
    BY <1>2, <2>2 DEF SaveUploadMetadata, Admitted, ProcessingStatus
  <2>3. ASSUME NEW s \in ClientStatuses, NEW stored \in BOOLEAN,
               CreateDocumentMetadata(d, s, stored)
        PROVE  Lifecycle!Next
    BY <1>2, <2>3, DocumentProcessingAssumption DEF CreateDocumentMetadata
  <2> QED  BY <2>1, <2>2, <2>3
<1>4. ASSUME NEW r \in Requests, Submit(r)
      PROVE  UNCHANGED Lifecycle!vars
  <2>1. PICK j \in Job : ProcessUploadedDocument(r, j) \/ ProcessLocalDocument(r, j)
    BY <1>4 DEF Submit
  <2> QED  BY <1>1, <2>1 DEF ProcessUploadedDocument, ProcessLocalDocument, TypeOK,
                             storeVars, Running
<1>5. ASSUME NEW r \in Requests, MarkInProgress(r)
      PROVE  Lifecycle!Next
  <2> DEFINE d == job[r].document
  <2>1. /\ d \in Documents /\ Registered(d) /\ OnDocument(r, d)
        /\ AppendVersion(d, "in_progress", r) /\ UNCHANGED job
        /\ pc[r] = "mark" /\ pc' = [pc EXCEPT ![r] = "parse"]
    BY <1>5 DEF MarkInProgress, TypeOK, Job, Admitted, OnDocument
  <2>2. Status' = [Status EXCEPT ![d] = "in_progress"]
    BY <2>1, AppendVersionStatus
  <2>3. Status[d] # "absent"
    <3>1. versions[d] \in Seq(Version) /\ versions[d] # <<>>
      BY <2>1 DEF Registered, TypeOK
    <3>2. versions[d][Len(versions[d])] \in Version
      BY <3>1
    <3> QED  BY <2>1, <3>2 DEF Status, CurrentStatus, Version, ProcessingStatus
  <2>4. \A e \in Documents : ServedFor(e)' = IF e = d THEN ServedFor(e) \cup {r}
                                             ELSE ServedFor(e)
    BY <2>1 DEF ServedFor, OnDocument, TypeOK, Running
  <2>5. Active' = [Active EXCEPT ![d] = @ \cup {r}]
    BY <2>1, <2>4 DEF Active
  <2>6. \A e \in Documents : r \notin Active[e]
    BY <2>1 DEF Active, ServedFor, Running
  <2>7. Lifecycle!Begin(d, r)
    BY <2>2, <2>3, <2>5, <2>6 DEF Lifecycle!Begin, Status, Active
  <2> QED  BY <2>1, <2>7 DEF Lifecycle!Next
<1>6. ASSUME NEW r \in Requests, Settle(r)
      PROVE  Lifecycle!Next \/ UNCHANGED Lifecycle!vars
  <2> DEFINE d == job[r].document
  <2>1. /\ d \in Documents /\ UNCHANGED job
        /\ pc[r] = "settle" /\ pc'[r] \notin Running
        /\ \A q \in Requests \ {r} : pc'[q] = pc[q]
    BY <1>6 DEF Settle, TypeOK, Job, Running
  <2>2. CASE job[r].kind = "stored"
    <3>1. Status' = [Status EXCEPT ![d] = Outcome(r)]
      BY <1>6, <2>1, <2>2, AppendVersionStatus DEF Settle
    <3>2. \A e \in Documents : ServedFor(e)' = IF e = d THEN ServedFor(e) \ {r}
                                               ELSE ServedFor(e)
      BY <2>1, <2>2 DEF ServedFor, OnDocument
    <3>3. Active' = [Active EXCEPT ![d] = @ \ {r}]
      BY <2>1, <3>2 DEF Active
    <3>4. r \in Active[d]
      BY <2>1, <2>2 DEF Active, ServedFor, OnDocument, Running
    <3>5. Lifecycle!End(d, r, Outcome(r))
      BY <3>1, <3>3, <3>4 DEF Lifecycle!End, Status, Active
    <3> QED  BY <2>1, <3>5, OutcomeType DEF Lifecycle!Next, Lifecycle!Outcomes
  <2>3. CASE job[r].kind # "stored"
    <3>1. UNCHANGED versions
      BY <1>6, <2>3 DEF Settle
    <3>2. \A e \in Documents : ServedFor(e)' = ServedFor(e)
      BY <2>1, <2>3 DEF ServedFor, OnDocument
    <3> QED  BY <3>1, <3>2 DEF Lifecycle!vars, Registered, CurrentStatus
  <2> QED  BY <2>2, <2>3
<1>7. ASSUME NEW r \in Requests, Serve(r), ~MarkInProgress(r), ~Settle(r)
      PROVE  UNCHANGED Lifecycle!vars
  <2>1. /\ UNCHANGED <<versions, job>>
        /\ pc[r] \in Running /\ pc'[r] \in Running
        /\ \A q \in Requests \ {r} : pc'[q] = pc[q]
    BY <1>7 DEF Serve, FileMissing, Parse, Classify, SkipTargets, PlanTargets, Extract,
                PersistRun, StageRaises, Conclude, Proceed, TypeOK, storeVars, Running
  <2> QED  BY <1>1, <2>1
<1>8. CASE Faulty
  <2>1. ASSUME NEW r \in Requests, PersistRunRaises(r) \/ PersistFailedRunRaises(r)
        PROVE  UNCHANGED Lifecycle!vars
    <3>1. /\ UNCHANGED <<versions, job>>
          /\ pc[r] \in Running /\ pc'[r] \in Running
          /\ \A q \in Requests \ {r} : pc'[q] = pc[q]
      BY <2>1 DEF PersistRunRaises, PersistFailedRunRaises, StageRaises, TypeOK,
                  storeVars, Running
    <3> QED  BY <1>1, <3>1
  <2>2. ASSUME NEW r \in Requests, UpdateStatusRaises(r)
        PROVE  Lifecycle!Next
    <3>1. \A d \in Documents : ServedFor(d)' = ServedFor(d) \ {r}
      BY <2>2 DEF UpdateStatusRaises, ServedFor, OnDocument, TypeOK, Running
    <3>2. Lifecycle!Abandon({r})
      BY <2>2, <3>1, DeactivationAbandons DEF UpdateStatusRaises, storeVars
    <3> QED  BY <3>2 DEF Lifecycle!Next
  <2>3. ASSUME NEW d \in Documents, SaveUploadMetadataRaises(d) \/ LoseFile(d)
        PROVE  UNCHANGED Lifecycle!vars
    BY <1>1, <2>3 DEF SaveUploadMetadataRaises, LoseFile
  <2>4. CASE Restart
    <3>1. \A d \in Documents : ServedFor(d)' = ServedFor(d) \ Requests
      BY <2>4 DEF Restart, ServedFor, OnDocument, Running
    <3>2. Lifecycle!Abandon(Requests)
      BY <2>4, <3>1, DeactivationAbandons DEF Restart
    <3> QED  BY <3>2 DEF Lifecycle!Next
  <2> QED  BY <1>8, <2>1, <2>2, <2>3, <2>4 DEF Faulty
<1> QED  BY <1>3, <1>4, <1>5, <1>6, <1>7, <1>8 DEF Next

\* Whatever the pipeline does, clients see the life cycle of DocumentLifecycle:
\* a registered document is begun, and ended by the requests that began it.
THEOREM LifecycleRefinement == Spec => ImplementsLifecycle
<1>1. Init => Lifecycle!Init
  BY DEF Init, Lifecycle!Init, ServedFor, OnDocument, Registered, Running
<1>2. LifecycleInv /\ [Next]_vars => [Lifecycle!Next]_Lifecycle!vars
  <2> SUFFICES ASSUME LifecycleInv, [Next]_vars
               PROVE  Lifecycle!Next \/ UNCHANGED Lifecycle!vars
    OBVIOUS
  <2>1. CASE UNCHANGED vars
    BY <2>1 DEF vars, Lifecycle!vars, Registered, CurrentStatus, ServedFor, OnDocument
  <2> QED  BY <2>1, StepImplementsLifecycle
<1>3. TypeOK /\ Admitted => LifecycleInv
  BY DEF LifecycleInv
<1> QED  BY <1>1, <1>2, <1>3, TypeCorrect, AdmittedInvariant, PTL
         DEF Spec, ImplementsLifecycle, Lifecycle!Spec

-----------------------------------------------------------------------------
(* While nothing goes wrong in the environment, an in_progress document is *)
(* being served by the request that made it so.                            *)

\* The current status of d is the in_progress that r wrote.
MarkedBy(d, r) == /\ Registered(d)
                  /\ CurrentStatus(d) = "in_progress"
                  /\ versions[d][Len(versions[d])].by = r

Owned == \A d \in Documents, r \in Requests : MarkedBy(d, r) => r \in ServedFor(d)

OwnerInv == faults = 0 => Owned

LEMMA OwnedIsOwner == TypeOK => (InProgressHasOwner <=> OwnerInv)
<1>1. ASSUME TypeOK, NEW d \in Documents
      PROVE  Len(versions[d]) > 0 <=> Registered(d)
  BY <1>1 DEF TypeOK, Registered
<1> QED  BY <1>1 DEF InProgressHasOwner, OwnerInv, Owned, MarkedBy, CurrentStatus

LEMMA AppendVersionMark ==
  ASSUME TypeOK, NEW d \in Documents, NEW s, NEW b, AppendVersion(d, s, b)
  PROVE  \A e \in Documents, r \in Requests :
            MarkedBy(e, r)' <=> \/ e # d /\ MarkedBy(e, r)
                                \/ e = d /\ s = "in_progress" /\ b = r
<1>1. ASSUME NEW e \in Documents \ {d} PROVE versions'[e] = versions[e]
  BY DEF AppendVersion, TypeOK
<1>2. /\ Len(versions'[d]) = Len(versions[d]) + 1
      /\ versions'[d][Len(versions'[d])] = [status |-> s, by |-> b]
      /\ versions'[d] # <<>>
  BY DEF AppendVersion, TypeOK
<1> QED  BY <1>1, <1>2 DEF MarkedBy, Registered, CurrentStatus

LEMMA OwnerInvariant == Spec => []OwnerInv
<1>1. Init => OwnerInv
  BY DEF Init, OwnerInv, Owned, MarkedBy, Registered
<1>2. TypeOK /\ Admitted /\ OwnerInv /\ [Next]_vars => OwnerInv'
  <2> SUFFICES ASSUME TypeOK, Admitted, OwnerInv, [Next]_vars, faults' = 0
               PROVE  Owned'
    BY DEF OwnerInv
  <2>1. ASSUME faults = 0, UNCHANGED versions,
               \A r \in Requests : pc[r] \in Running
                  => pc'[r] \in Running /\ job'[r] = job[r]
        PROVE  Owned'
    BY <2>1 DEF OwnerInv, Owned, MarkedBy, Registered, CurrentStatus, ServedFor, OnDocument
  <2>2. CASE Registration
    <3> SUFFICES ASSUME NEW d \in Documents,
                        \/ StoreUpload(d)
                        \/ SaveUploadMetadata(d)
                        \/ \E s \in ClientStatuses, stored \in BOOLEAN :
                              CreateDocumentMetadata(d, s, stored)
                 PROVE  Owned'
      BY <2>2 DEF Registration
    <3>1. UNCHANGED <<pc, job, faults>>
      BY DEF StoreUpload, SaveUploadMetadata, CreateDocumentMetadata
    <3>2. CASE UNCHANGED versions
      BY <2>1, <3>1, <3>2
    <3>3. ASSUME NEW s, AppendVersion(d, s, "client")
          PROVE  Owned'
      <4>1. \A e \in Documents, r \in Requests : MarkedBy(e, r)' => MarkedBy(e, r)
        BY <3>3, AppendVersionMark, DocumentProcessingAssumption
      <4> QED  BY <3>1, <4>1 DEF OwnerInv, Owned, ServedFor, OnDocument
    <3> QED  BY <3>2, <3>3 DEF StoreUpload, SaveUploadMetadata, CreateDocumentMetadata
  <2>3. ASSUME NEW r \in Requests, Submit(r) PROVE Owned'
    <3>1. PICK j \in Job : ProcessUploadedDocument(r, j) \/ ProcessLocalDocument(r, j)
      BY <2>3 DEF Submit
    <3> QED  BY <2>1, <3>1 DEF ProcessUploadedDocument, ProcessLocalDocument, TypeOK,
                               storeVars, Running
  <2>4. ASSUME NEW r \in Requests, MarkInProgress(r) PROVE Owned'
    <3> DEFINE d == job[r].document
    <3>1. /\ d \in Documents /\ OnDocument(r, d)
          /\ AppendVersion(d, "in_progress", r) /\ UNCHANGED <<job, faults>>
          /\ pc[r] = "mark" /\ pc' = [pc EXCEPT ![r] = "parse"]
      BY <2>4 DEF MarkInProgress, TypeOK, Job, Admitted, OnDocument
    <3>2. \A e \in Documents, q \in Requests :
             MarkedBy(e, q)' => MarkedBy(e, q) \/ (e = d /\ q = r)
      BY <3>1, AppendVersionMark
    <3>3. \A q \in Requests : pc'[q] = IF q = r THEN "parse" ELSE pc[q]
      BY <3>1 DEF TypeOK
    <3> QED  BY <3>1, <3>2, <3>3 DEF OwnerInv, Owned, ServedFor, OnDocument, Running
  <2>5. ASSUME NEW r \in Requests, Settle(r) PROVE Owned'
    <3> DEFINE d == job[r].document
    <3>1. /\ d \in Documents /\ UNCHANGED <<job, faults>>
          /\ pc[r] = "settle" /\ \A q \in Requests \ {r} : pc'[q] = pc[q]
      BY <2>5 DEF Settle, TypeOK, Job
    <3>2. \A e \in Documents, q \in Requests : MarkedBy(e, q)' =>
             MarkedBy(e, q) /\ (e = d => job[r].kind # "stored")
      <4>1. CASE job[r].kind = "stored"
        BY <2>5, <3>1, <4>1, AppendVersionMark, OutcomeType DEF Settle
      <4>2. CASE job[r].kind # "stored"
        BY <2>5, <4>2 DEF Settle, MarkedBy, Registered, CurrentStatus
      <4> QED  BY <4>1, <4>2
    <3> QED  BY <3>1, <3>2 DEF OwnerInv, Owned, ServedFor, OnDocument
  <2>6. ASSUME NEW r \in Requests, Serve(r), ~MarkInProgress(r), ~Settle(r)
        PROVE  Owned'
    <3>1. /\ UNCHANGED <<versions, job, faults>>
          /\ pc'[r] \in Running
          /\ \A q \in Requests \ {r} : pc'[q] = pc[q]
      BY <2>6 DEF Serve, FileMissing, Parse, Classify, SkipTargets, PlanTargets, Extract,
                  PersistRun, StageRaises, Conclude, Proceed, TypeOK, storeVars, Running
    <3> QED  BY <2>1, <3>1
  <2>7. ~Faulty
    BY DEF Faulty, SaveUploadMetadataRaises, PersistRunRaises, PersistFailedRunRaises,
           UpdateStatusRaises, LoseFile, Restart, Fault, TypeOK
  <2>8. CASE UNCHANGED vars
    BY <2>1, <2>8 DEF vars
  <2> QED  BY <2>2, <2>3, <2>4, <2>5, <2>6, <2>7, <2>8 DEF Next
<1> QED  BY <1>1, <1>2, TypeCorrect, AdmittedInvariant, PTL DEF Spec

\* A document that reads in_progress because of a request is being served by
\* that request, as long as no write failed and the process was not restarted
\* (the crash that leaves it in_progress forever is what faults = 0 excludes).
THEOREM InProgressIsOwned == Spec => []InProgressHasOwner
  BY OwnerInvariant, OwnedIsOwner, TypeCorrect, PTL
-----------------------------------------------------------------------------
(* A run's status and its stages tell one story.  The property speaks of   *)
(* records; the invariant follows the stages of a run that is not recorded *)
(* yet: those before the handler's position are done, the rest not begun,  *)
(* and from the save on they agree with the status that will be saved.     *)

Done == {"completed", "partial"}

\* The stages before s went well and the others have not begun.
Reached(st, s) ==
  \A t \in Stages : /\ StageRank[t] < StageRank[s] => st[t] \in Done
                    /\ StageRank[t] >= StageRank[s] => st[t] = "not_started"

NamesFailure(st) ==
  \E s \in Stages :
    /\ st[s] = "failed"
    /\ \A t \in Stages : /\ StageRank[t] < StageRank[s] => st[t] \in Done
                         /\ StageRank[t] > StageRank[s] => st[t] = "not_started"

\* One record of RunStagesCoherent; clean says that nothing went wrong outside.
Coherent(status, st, src, clean) ==
  /\ status # "failed" => /\ st["parse"] \in Done
                          /\ \A s \in Stages : st[s] # "failed"
  /\ status = "completed" => /\ st["target_plan"] = "completed"
                             /\ st["candidate_generation"] = "completed"
                             /\ src # "none"
  /\ status = "partial" => /\ st["candidate_generation"] = "skipped"
                           /\ (st["target_plan"] = "skipped") = (src = "none")
  /\ status = "failed" /\ clean => NamesFailure(st)

StagesAt(at, status, st, src, clean) ==
  /\ at \in {"idle", "mark", "parse"} => Reached(st, "parse")
  /\ at = "classify" => Reached(st, "classify")
  /\ at = "plan" => Reached(st, "target_plan")
  /\ at = "extract" => /\ Reached(st, "candidate_generation")
                       /\ st["target_plan"] = "completed"
                       /\ src # "none"
  /\ at \in {"save", "save_failed"} => Coherent(status, st, src, clean)

StagesInv ==
  /\ \A r \in Requests : StagesAt(pc[r], result[r], stages[r], source[r], faults = 0)
  /\ RunStagesCoherent

LEMMA Ranks ==
  /\ StageRank["parse"] = 1 /\ StageRank["classify"] = 2
  /\ StageRank["target_plan"] = 3 /\ StageRank["candidate_generation"] = 4
  BY DEF StageRank, Stages

LEMMA CoherentRuns ==
  RunStagesCoherent <=> \A i \in DOMAIN runs :
     Coherent(runs[i].status, runs[i].stages, runs[i].source, faults = 0)
  BY DEF RunStagesCoherent, Coherent, NamesFailure, Done

\* The except handler names the stage that raised, at whichever it was.
LEMMA FailFirstNames ==
  ASSUME NEW st \in StageStatuses, NEW s \in Stages, Reached(st, s)
  PROVE  NamesFailure(FailFirstNotStarted(st))
<1> DEFINE ft == FailFirstNotStarted(st)
<1>1. \A t \in Stages : StageRank[t] \in Nat
  BY Ranks DEF Stages
<1>2. \A t, u \in Stages : StageRank[t] = StageRank[u] => t = u
  BY Ranks DEF Stages
<1>3. \A t \in Stages : StageRank[t] < StageRank[s] => st[t] # "not_started"
  BY DEF Reached, Done
<1>4. st[s] = "not_started"
  BY <1>1 DEF Reached
<1>5. ft[s] = "failed"
  BY <1>3, <1>4 DEF FailFirstNotStarted
<1>6. ASSUME NEW t \in Stages, t # s
      PROVE  ft[t] = st[t]
  <2>1. CASE StageRank[t] < StageRank[s]
    BY <1>3, <2>1 DEF FailFirstNotStarted
  <2>2. CASE StageRank[s] < StageRank[t]
    BY <1>4, <2>2 DEF FailFirstNotStarted
  <2> QED  BY <1>1, <1>2, <1>6, <2>1, <2>2
<1>7. \A t \in Stages : /\ StageRank[t] < StageRank[s] => ft[t] \in Done
                        /\ StageRank[t] > StageRank[s] => ft[t] = "not_started"
  <2> SUFFICES ASSUME NEW t \in Stages
               PROVE  /\ StageRank[t] < StageRank[s] => ft[t] \in Done
                      /\ StageRank[t] > StageRank[s] => ft[t] = "not_started"
    OBVIOUS
  <2>1. CASE t = s
    BY <1>1, <2>1
  <2>2. CASE t # s
    BY <1>1, <1>6, <2>2 DEF Reached
  <2> QED  BY <2>1, <2>2
<1> QED  BY <1>5, <1>7 DEF NamesFailure

\* Where a stage that raises leaves the request.
LEMMA StageRaisesCoherent ==
  ASSUME TypeOK, NEW r \in Requests, StageRaises(r), NEW s \in Stages,
         Reached(stages[r], s)
  PROVE  StagesAt(pc'[r], result'[r], stages'[r], source'[r], TRUE)
<1>1. /\ pc'[r] = "save_failed" /\ result'[r] = "failed"
      /\ stages'[r] = FailFirstNotStarted(stages[r])
  BY DEF StageRaises, TypeOK
<1>2. NamesFailure(stages'[r])
  BY <1>1, FailFirstNames DEF TypeOK
<1> QED  BY <1>1, <1>2 DEF StagesAt, Coherent

\* What holds of a request or a record stays when only the faults may grow.
LEMMA CoherentStays ==
  ASSUME NEW clean \in BOOLEAN, NEW after \in BOOLEAN, after => clean,
         NEW at, NEW status, NEW st, NEW src
  PROVE  /\ Coherent(status, st, src, clean) => Coherent(status, st, src, after)
         /\ StagesAt(at, status, st, src, clean) => StagesAt(at, status, st, src, after)
  BY DEF Coherent, StagesAt

\* A step of one request that records no run.
LEMMA OwnStepKeepsStages ==
  ASSUME TypeOK, TypeOK', StagesInv, NEW r \in Requests, UNCHANGED runs,
         faults' = 0 => faults = 0,
         \A q \in Requests \ {r} : /\ pc'[q] = pc[q] /\ result'[q] = result[q]
                                   /\ stages'[q] = stages[q] /\ source'[q] = source[q],
         StagesAt(pc'[r], result'[r], stages'[r], source'[r], faults' = 0)
  PROVE  StagesInv'
<1>1. ASSUME NEW q \in Requests \ {r}
      PROVE  StagesAt(pc'[q], result'[q], stages'[q], source'[q], faults' = 0)
  <2>1. StagesAt(pc[q], result[q], stages[q], source[q], faults = 0)
    BY DEF StagesInv
  <2> QED  BY <2>1, CoherentStays
<1>2. RunStagesCoherent'
  <2>1. ASSUME NEW i \in DOMAIN runs
        PROVE  Coherent(runs[i].status, runs[i].stages, runs[i].source, faults' = 0)
    BY CoherentRuns, CoherentStays DEF StagesInv
  <2> QED  BY <2>1 DEF RunStagesCoherent, Coherent, NamesFailure, Done
<1> QED  BY <1>1, <1>2 DEF StagesInv

LEMMA ServeKeepsStages ==
  ASSUME TypeOK, TypeOK', StagesInv, NEW r \in Requests, Serve(r)
  PROVE  StagesInv'
<1> USE DEF Done
<1>0. StagesAt(pc[r], result[r], stages[r], source[r], faults = 0)
  BY DEF StagesInv
<1>1. UNCHANGED faults
  BY DEF Serve, MarkInProgress, FileMissing, Parse, Classify, SkipTargets, PlanTargets,
         Extract, PersistRun, Settle
<1>2. \A q \in Requests \ {r} : /\ pc'[q] = pc[q] /\ result'[q] = result[q]
                                /\ stages'[q] = stages[q] /\ source'[q] = source[q]
  BY DEF Serve, MarkInProgress, FileMissing, Parse, Classify, SkipTargets, PlanTargets,
         Extract, PersistRun, Settle, StageRaises, Conclude, Proceed, runVars, TypeOK
<1>3. ASSUME UNCHANGED runs,
             StagesAt(pc'[r], result'[r], stages'[r], source'[r], TRUE)
      PROVE  StagesInv'
  BY <1>1, <1>2, <1>3, OwnStepKeepsStages, CoherentStays
<1>4. CASE MarkInProgress(r)
  <2>1. pc[r] = "mark" /\ pc'[r] = "parse" /\ UNCHANGED <<runs, stages>>
    BY <1>4 DEF MarkInProgress, runVars, TypeOK
  <2> QED  BY <1>0, <1>3, <2>1 DEF StagesAt
<1>5. CASE FileMissing(r) \/ Settle(r)
  <2>1. pc'[r] \in {"settle", "ok", "error"} /\ UNCHANGED runs
    BY <1>5 DEF FileMissing, Settle, storeVars, TypeOK
  <2> QED  BY <1>3, <2>1 DEF StagesAt
<1>6. CASE Parse(r)
  <2>0. pc[r] = "parse" /\ UNCHANGED runs /\ stages[r] \in StageStatuses
    BY <1>6 DEF Parse, storeVars, TypeOK
  <2>1. Reached(stages[r], "parse") /\ "parse" \in Stages
    BY <1>0, <2>0 DEF StagesAt, Stages
  <2>2. ASSUME NEW s \in ParserStatus \ {"failed"},
               Proceed(r, "classify", "parse", ParserStageStatus(s))
        PROVE  StagesAt(pc'[r], result'[r], stages'[r], source'[r], TRUE)
    <3>1. ParserStageStatus(s) \in Done
      BY DEF ParserStatus, ParserStageStatus
    <3>2. /\ pc'[r] = "classify"
          /\ stages'[r] = [stages[r] EXCEPT !["parse"] = ParserStageStatus(s)]
      BY <2>2 DEF Proceed, TypeOK
    <3>3. Reached(stages'[r], "classify")
      BY <2>0, <2>1, <3>1, <3>2, Ranks DEF Reached, Stages, StageStatuses
    <3> QED  BY <3>2, <3>3 DEF StagesAt
  <2>3. ASSUME Conclude(r, [stages[r] EXCEPT !["parse"] = ParserStageStatus("failed")],
                        "failed")
        PROVE  StagesAt(pc'[r], result'[r], stages'[r], source'[r], TRUE)
    <3>1. /\ pc'[r] = "save" /\ result'[r] = "failed"
          /\ stages'[r] = [stages[r] EXCEPT !["parse"] = "failed"]
      BY <2>3 DEF Conclude, ParserStageStatus, TypeOK
    <3>2. NamesFailure(stages'[r])
      <4>1. stages'[r]["parse"] = "failed"
        BY <2>0, <2>1, <3>1 DEF StageStatuses
      <4>2. \A t \in Stages : StageRank[t] > StageRank["parse"]
                                 => stages'[r][t] = "not_started"
        BY <2>0, <2>1, <3>1, Ranks DEF Reached, Stages, StageStatuses
      <4>3. \A t \in Stages : ~(StageRank[t] < StageRank["parse"])
        BY Ranks DEF Stages
      <4> QED  BY <2>1, <4>1, <4>2, <4>3 DEF NamesFailure
    <3> QED  BY <3>1, <3>2 DEF StagesAt, Coherent
  <2>4. StagesAt(pc'[r], result'[r], stages'[r], source'[r], TRUE)
    BY <1>6, <2>1, <2>2, <2>3, StageRaisesCoherent DEF Parse
  <2> QED  BY <1>3, <2>0, <2>4
<1>7. CASE Classify(r)
  <2>0. pc[r] = "classify" /\ UNCHANGED runs /\ stages[r] \in StageStatuses
    BY <1>7 DEF Classify, storeVars, TypeOK
  <2>1. Reached(stages[r], "classify") /\ "classify" \in Stages
    BY <1>0, <2>0 DEF StagesAt, Stages
  <2>2. ASSUME NEW s \in ClassificationStatus,
               Proceed(r, "plan", "classify", ClassificationStageStatus(s))
        PROVE  StagesAt(pc'[r], result'[r], stages'[r], source'[r], TRUE)
    <3>1. ClassificationStageStatus(s) \in Done
      BY DEF ClassificationStageStatus
    <3>2. /\ pc'[r] = "plan"
          /\ stages'[r] = [stages[r] EXCEPT !["classify"] = ClassificationStageStatus(s)]
      BY <2>2 DEF Proceed, TypeOK
    <3>3. Reached(stages'[r], "target_plan")
      BY <2>0, <2>1, <3>1, <3>2, Ranks DEF Reached, Stages, StageStatuses
    <3> QED  BY <3>2, <3>3 DEF StagesAt
  <2>3. StagesAt(pc'[r], result'[r], stages'[r], source'[r], TRUE)
    BY <1>7, <2>1, <2>2, StageRaisesCoherent DEF Classify
  <2> QED  BY <1>3, <2>0, <2>3
<1>8. CASE SkipTargets(r) \/ PlanTargets(r)
  <2>0. pc[r] = "plan" /\ UNCHANGED runs /\ stages[r] \in StageStatuses
    BY <1>8 DEF SkipTargets, PlanTargets, storeVars, TypeOK
  <2>1. Reached(stages[r], "target_plan") /\ "target_plan" \in Stages
    BY <1>0, <2>0 DEF StagesAt, Stages
  <2>2. /\ stages[r]["parse"] \in Done /\ stages[r]["classify"] \in Done
        /\ stages[r]["candidate_generation"] = "not_started"
    BY <2>1, Ranks DEF Reached, Stages
  <2>3. ASSUME NEW s \in {"skipped", "partial"}, (s = "skipped") = (source[r] = "none"),
               Conclude(r, [stages[r] EXCEPT !["target_plan"] = s,
                                             !["candidate_generation"] = "skipped"],
                        "partial"), UNCHANGED source
        PROVE  StagesAt(pc'[r], result'[r], stages'[r], source'[r], TRUE)
    <3>1. /\ pc'[r] = "save" /\ result'[r] = "partial" /\ source'[r] = source[r]
          /\ stages'[r] = [stages[r] EXCEPT !["target_plan"] = s,
                                            !["candidate_generation"] = "skipped"]
      BY <2>3 DEF Conclude, TypeOK
    <3>2. /\ stages'[r]["parse"] \in Done /\ stages'[r]["classify"] \in Done
          /\ stages'[r]["target_plan"] = s
          /\ stages'[r]["candidate_generation"] = "skipped"
      BY <2>0, <2>2, <3>1 DEF Stages, StageStatuses
    <3>3. \A t \in Stages : stages'[r][t] # "failed"
      BY <3>2 DEF Stages
    <3> QED  BY <2>3, <3>1, <3>2, <3>3 DEF StagesAt, Coherent
  <2>4. ASSUME Proceed(r, "extract", "target_plan", "completed"), UNCHANGED source,
               source[r] # "none"
        PROVE  StagesAt(pc'[r], result'[r], stages'[r], source'[r], TRUE)
    <3>1. /\ pc'[r] = "extract" /\ source'[r] # "none"
          /\ stages'[r] = [stages[r] EXCEPT !["target_plan"] = "completed"]
      BY <2>4 DEF Proceed, TypeOK
    <3>2. Reached(stages'[r], "candidate_generation")
      BY <2>0, <2>1, <3>1, Ranks DEF Reached, Stages, StageStatuses
    <3>3. stages'[r]["target_plan"] = "completed"
      BY <2>0, <2>1, <3>1 DEF StageStatuses
    <3> QED  BY <3>1, <3>2, <3>3 DEF StagesAt
  <2>5. StagesAt(pc'[r], result'[r], stages'[r], source'[r], TRUE)
    BY <1>8, <2>1, <2>3, <2>4, StageRaisesCoherent DEF SkipTargets, PlanTargets
  <2> QED  BY <1>3, <2>0, <2>5
<1>9. CASE Extract(r)
  <2>0. pc[r] = "extract" /\ UNCHANGED runs /\ stages[r] \in StageStatuses
    BY <1>9 DEF Extract, storeVars, TypeOK
  <2>1. /\ Reached(stages[r], "candidate_generation") /\ source[r] # "none"
        /\ stages[r]["target_plan"] = "completed" /\ "candidate_generation" \in Stages
    BY <1>0, <2>0 DEF StagesAt, Stages
  <2>2. ASSUME Conclude(r, [stages[r] EXCEPT !["candidate_generation"] = "completed"],
                        "completed"), UNCHANGED source
        PROVE  StagesAt(pc'[r], result'[r], stages'[r], source'[r], TRUE)
    <3>1. /\ pc'[r] = "save" /\ result'[r] = "completed" /\ source'[r] # "none"
          /\ stages'[r] = [stages[r] EXCEPT !["candidate_generation"] = "completed"]
      BY <2>1, <2>2 DEF Conclude, TypeOK
    <3>2. stages[r]["parse"] \in Done /\ stages[r]["classify"] \in Done
      BY <2>1, Ranks DEF Reached, Stages
    <3>3. /\ stages'[r]["parse"] \in Done /\ stages'[r]["classify"] \in Done
          /\ stages'[r]["target_plan"] = "completed"
          /\ stages'[r]["candidate_generation"] = "completed"
      BY <2>0, <2>1, <3>1, <3>2 DEF Stages, StageStatuses
    <3>4. \A t \in Stages : stages'[r][t] # "failed"
      BY <3>3 DEF Stages
    <3> QED  BY <3>1, <3>3, <3>4 DEF StagesAt, Coherent
  <2>3. StagesAt(pc'[r], result'[r], stages'[r], source'[r], TRUE)
    BY <1>9, <2>1, <2>2, StageRaisesCoherent DEF Extract
  <2> QED  BY <1>3, <2>0, <2>3
<1>10. CASE PersistRun(r)
  <2>0. /\ pc[r] \in {"save", "save_failed"} /\ pc'[r] = "settle"
        /\ UNCHANGED <<stages, source, result>>
    BY <1>10 DEF PersistRun, runVars, TypeOK
  <2>1. Coherent(result[r], stages[r], source[r], faults = 0)
    BY <1>0, <2>0 DEF StagesAt
  <2>2. CASE ~job[r].persist
    <3>1. UNCHANGED runs
      BY <1>10, <2>2 DEF PersistRun
    <3> QED  BY <1>3, <2>0, <3>1 DEF StagesAt
  <2>3. CASE job[r].persist
    <3> DEFINE new == [request |-> r, document |-> job[r].document, status |-> result[r],
                       stages |-> stages[r], source |-> source[r]]
    <3>1. runs' = Append(runs, new)
      BY <1>10, <2>3 DEF PersistRun
    <3>2. ASSUME NEW i \in DOMAIN runs'
          PROVE  (i \in DOMAIN runs /\ runs'[i] = runs[i]) \/ runs'[i] = new
      BY <3>1 DEF TypeOK
    <3>3. ASSUME NEW i \in DOMAIN runs'
          PROVE  Coherent(runs'[i].status, runs'[i].stages, runs'[i].source, faults' = 0)
      BY <1>1, <2>1, <3>2, CoherentRuns DEF StagesInv
    <3>4. RunStagesCoherent'
      BY <3>3 DEF RunStagesCoherent, Coherent, NamesFailure
    <3>5. ASSUME NEW q \in Requests
          PROVE  StagesAt(pc'[q], result'[q], stages'[q], source'[q], faults' = 0)
      BY <1>1, <1>2, <2>0 DEF StagesInv, StagesAt
    <3> QED  BY <3>4, <3>5 DEF StagesInv
  <2> QED  BY <2>2, <2>3
<1> QED  BY <1>4, <1>5, <1>6, <1>7, <1>8, <1>9, <1>10 DEF Serve

LEMMA StagesInvariant == Spec => []StagesInv
<1>1. Init => StagesInv
  <2> SUFFICES ASSUME Init PROVE StagesInv  OBVIOUS
  <2>1. ASSUME NEW r \in Requests
        PROVE  /\ pc[r] = "idle"
               /\ Reached(stages[r], "parse")
    BY Ranks DEF Init, NewStages, Reached, Stages
  <2>2. RunStagesCoherent
    BY DEF Init, RunStagesCoherent
  <2> QED  BY <2>1, <2>2 DEF StagesInv, StagesAt
<1>2. TypeOK /\ TypeOK' /\ StagesInv /\ [Next]_vars => StagesInv'
  <2> SUFFICES ASSUME TypeOK, TypeOK', StagesInv, [Next]_vars PROVE StagesInv'
    OBVIOUS
  <2>1. ASSUME UNCHANGED <<runs, stages, source, result>>, faults' = 0 => faults = 0,
               \A q \in Requests : \/ pc'[q] = pc[q]
                                   \/ pc'[q] \in {"lost", "error", "settle"}
                                   \/ pc[q] = "idle" /\ pc'[q] \in {"mark", "parse"}
        PROVE  StagesInv'
    <3>1. ASSUME NEW q \in Requests
          PROVE  StagesAt(pc'[q], result'[q], stages'[q], source'[q], faults' = 0)
      <4>1. StagesAt(pc[q], result[q], stages[q], source[q], faults = 0)
        BY DEF StagesInv
      <4>2. StagesAt(pc[q], result[q], stages[q], source[q], faults' = 0)
        BY <2>1, <4>1, CoherentStays
      <4> QED  BY <2>1, <4>2 DEF StagesAt
    <3>2. ASSUME NEW i \in DOMAIN runs
          PROVE  Coherent(runs[i].status, runs[i].stages, runs[i].source, faults' = 0)
      BY <2>1, CoherentRuns, CoherentStays DEF StagesInv
    <3>3. RunStagesCoherent'
      BY <2>1, <3>2 DEF RunStagesCoherent, Coherent, NamesFailure, Done
    <3> QED  BY <3>1, <3>3 DEF StagesInv
  <2>2. CASE Registration
    BY <2>1, <2>2 DEF Registration, StoreUpload, SaveUploadMetadata,
                      CreateDocumentMetadata, runVars
  <2>3. ASSUME NEW r \in Requests, Submit(r) PROVE StagesInv'
    <3>1. PICK j \in Job : ProcessUploadedDocument(r, j) \/ ProcessLocalDocument(r, j)
      BY <2>3 DEF Submit
    <3> QED  BY <2>1, <3>1 DEF ProcessUploadedDocument, ProcessLocalDocument, TypeOK,
                               storeVars, runVars
  <2>4. ASSUME NEW r \in Requests, Serve(r) PROVE StagesInv'
    BY <2>4, ServeKeepsStages
  <2>5. CASE Faulty
    <3>1. faults' # 0
      BY <2>5 DEF Faulty, SaveUploadMetadataRaises, PersistRunRaises,
                  PersistFailedRunRaises, UpdateStatusRaises, LoseFile, Restart, Fault, TypeOK
    <3>2. ASSUME NEW r \in Requests, PersistRunRaises(r) PROVE StagesInv'
      <4>1. /\ pc'[r] = "save_failed" /\ result'[r] = "failed" /\ UNCHANGED runs
            /\ \A q \in Requests \ {r} :
                  /\ pc'[q] = pc[q] /\ result'[q] = result[q]
                  /\ stages'[q] = stages[q] /\ source'[q] = source[q]
        BY <3>2 DEF PersistRunRaises, StageRaises, storeVars, TypeOK
      <4>2. StagesAt(pc'[r], result'[r], stages'[r], source'[r], faults' = 0)
        BY <3>1, <4>1 DEF StagesAt, Coherent
      <4> QED  BY <3>1, <4>1, <4>2, OwnStepKeepsStages
    <3>3. ASSUME NEW r \in Requests, PersistFailedRunRaises(r) PROVE StagesInv'
      <4>1. /\ pc'[r] = "settle" /\ UNCHANGED <<runs, stages, source>>
            /\ \A q \in Requests \ {r} : pc'[q] = pc[q] /\ result'[q] = result[q]
        BY <3>3 DEF PersistFailedRunRaises, storeVars, TypeOK
      <4>2. StagesAt(pc'[r], result'[r], stages'[r], source'[r], faults' = 0)
        BY <4>1 DEF StagesAt
      <4> QED  BY <3>1, <4>1, <4>2, OwnStepKeepsStages
    <3>4. ASSUME NEW r \in Requests, UpdateStatusRaises(r) PROVE StagesInv'
      BY <2>1, <3>1, <3>4 DEF UpdateStatusRaises, storeVars, runVars, TypeOK
    <3>5. ASSUME NEW d \in Documents, SaveUploadMetadataRaises(d) \/ LoseFile(d)
          PROVE  StagesInv'
      BY <2>1, <3>1, <3>5 DEF SaveUploadMetadataRaises, LoseFile, runVars
    <3>6. CASE Restart
      BY <2>1, <3>1, <3>6 DEF Restart, runVars
    <3> QED  BY <2>5, <3>2, <3>3, <3>4, <3>5, <3>6 DEF Faulty
  <2>6. CASE UNCHANGED vars
    BY <2>1, <2>6 DEF vars
  <2> QED  BY <2>2, <2>3, <2>4, <2>5, <2>6 DEF Next
<1> QED  BY <1>1, <1>2, TypeCorrect, PTL DEF Spec

\* However its stages end, a recorded run tells one story: its status, its four
\* stage statuses and the source of its type agree as the status semantics of
\* pipeline_orchestration_service.py process_local_document has them.
THEOREM RunsAreCoherent == Spec => []RunStagesCoherent
<1>1. StagesInv => RunStagesCoherent  BY DEF StagesInv
<1> QED  BY <1>1, StagesInvariant, PTL
=============================================================================
