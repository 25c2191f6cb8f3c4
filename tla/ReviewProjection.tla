-------------------------- MODULE ReviewProjection --------------------------
(***************************************************************************)
(* Review decisions and the approved evidence projected from them          *)
(* (api/reviews.py, review_decision_service.py, review_repository.py,      *)
(* api/evidence.py, approved_evidence_service.py, evidence_repository.py). *)
(*                                                                         *)
(* Submissions and projections are requests on threads of one process.  A  *)
(* submission stamps reviewed_at and appends its decision in two separate  *)
(* steps; a projection reads the decisions of an evidence item, computes   *)
(* the aggregate from what it read and appends it in a later step.  "The   *)
(* latest approved evidence" is the last appended aggregate.  Neither file *)
(* is locked, so the steps of different requests interleave.               *)
(*                                                                         *)
(* A value is abstracted to whether there is one.  The clock is assumed    *)
(* not to go back; MaxTime bounds it and MaxRestarts bounds the restarts.  *)
(***************************************************************************)
EXTENDS Naturals, Sequences, FiniteSets

CONSTANTS Evidence, Documents, Fields,
          Submissions,    \* review requests, each served once
          Projections,    \* projection requests, each served once
          MaxTime, MaxRestarts

ASSUME ReviewProjectionAssumption ==
    /\ MaxTime \in Nat
    /\ MaxRestarts \in Nat

VARIABLES
    now,        \* the clock
    decisions,  \* [Evidence -> Seq(Decision)], the lines of review_decisions.jsonl
    approved,   \* [Evidence -> Seq(Aggregate)], the lines of approved_evidence.jsonl
    sub,        \* [Submissions -> the request's state]
    proj,       \* [Projections -> the request's state]
    restarts

vars == <<now, decisions, approved, sub, proj, restarts>>

-----------------------------------------------------------------------------
APPROVED_DECISIONS == {"accepted", "edited"}
NON_APPROVED_DECISIONS == {"rejected", "needs_more_evidence"}
VALID_DECISIONS == APPROVED_DECISIONS \cup NON_APPROVED_DECISIONS

Decision == [id : Submissions, document : Documents, field : Fields,
             decision : VALID_DECISIONS, hasValue : BOOLEAN, at : 0..MaxTime]

\* What a reviewer sends besides the decision: no value and unit, the
\* candidate's own, or others.
Given == {"none", "same", "other"}

\* _resolve_value_unit: which inputs are refused, and whether a value results.
Refused(decision, found, given) ==
    \/ decision = "accepted" /\ given = "other"
    \/ decision = "edited" /\ (given = "none" \/ (given = "same" /\ ~found))
    \/ decision \in NON_APPROVED_DECISIONS /\ given # "none"

ResolvedValue(decision, found) ==
    CASE decision = "accepted" -> found
      [] decision = "edited" -> TRUE
      [] OTHER -> FALSE

\* _latest_decision_per_field.
Supersedes(ds, i, j) == \/ ds[i].at > ds[j].at
                        \/ ds[i].at = ds[j].at /\ i > j

\* Variant: the last decision in the file, whatever its reviewed_at.
LastDecisionPerField(ds) ==
    {i \in DOMAIN ds : \A k \in DOMAIN ds : ds[k].field = ds[i].field => k <= i}

LatestDecisionPerField(ds) ==
    {i \in DOMAIN ds :
        \A k \in DOMAIN ds : ds[k].field = ds[i].field => ~Supersedes(ds, k, i)}

\* Variant: only the approving decisions have to be about one document.
SameApprovedDocument(ds) ==
    \A i, j \in DOMAIN ds :
        {ds[i].decision, ds[j].decision} \subseteq APPROVED_DECISIONS
            => ds[i].document = ds[j].document

\* _validate_decision_group, for decisions already selected by evidence.
SameDocument(ds) == \A i, j \in DOMAIN ds : ds[i].document = ds[j].document

ReviewStatus == {"in_review", "no_approved_fields", "approved", "partially_approved"}

\* Variant: every field that is not rejected is approved.
FieldsNotRejected(ds) ==
    {ds[i] : i \in {j \in LatestDecisionPerField(ds) : ds[j].decision # "rejected"}}

\* _build_aggregate: the approved fields, and a status over all latest decisions.
ApprovedFields(ds) ==
    {ds[i] : i \in {j \in LatestDecisionPerField(ds) : ds[j].decision \in APPROVED_DECISIONS}}

StatusOf(ds) ==
    IF LatestDecisionPerField(ds) = {} THEN "in_review"
    ELSE IF ApprovedFields(ds) = {} THEN "no_approved_fields"
    ELSE IF \A i \in LatestDecisionPerField(ds) : ds[i].decision \in APPROVED_DECISIONS
         THEN "approved"
    ELSE "partially_approved"

BuildAggregate(ds, n, p) ==
    [fields |-> ApprovedFields(ds), review_status |-> StatusOf(ds), seen |-> n, by |-> p]

\* seen and by are history fields: how many decisions the evidence had when
\* the projection read them, and the projection that saved the aggregate.
Aggregate == [fields : SUBSET Decision, review_status : ReviewStatus,
              seen : Nat, by : Projections]

Idle == [pc |-> "idle"]

\* base, seen and alone are history fields: how many decisions the evidence had at
\* the stamp and at the read, and whether no other projection of it was in flight.
Submission == {Idle} \cup [pc : {"stamped", "saved", "lost"}, evidence : Evidence,
                           record : Decision, base : Nat]
                     \cup [pc : {"refused"}]
Projection == {Idle} \cup [pc : {"read", "saved", "refused", "lost"}, evidence : Evidence,
                           read : Seq(Decision), seen : Nat, alone : BOOLEAN]

TypeOK ==
    /\ now \in 0..MaxTime
    /\ decisions \in [Evidence -> Seq(Decision)]
    /\ approved \in [Evidence -> Seq(Aggregate)]
    /\ sub \in [Submissions -> Submission]
    /\ proj \in [Projections -> Projection]
    /\ restarts \in 0..MaxRestarts

Init ==
    /\ now = 0
    /\ decisions = [e \in Evidence |-> <<>>]
    /\ approved = [e \in Evidence |-> <<>>]
    /\ sub = [s \in Submissions |-> Idle]
    /\ proj = [p \in Projections |-> Idle]
    /\ restarts = 0

-----------------------------------------------------------------------------
Tick ==
    /\ now < MaxTime
    /\ now' = now + 1
    /\ UNCHANGED <<decisions, approved, sub, proj, restarts>>

\* Variant: an edit carries no reviewed_at and counts as the earliest.
SubmitUndatedEdit(s, e, d, f, k, found, given) ==
    /\ sub[s].pc = "idle"
    /\ sub' = [sub EXCEPT ![s] =
        IF Refused(k, found, given) THEN [pc |-> "refused"]
        ELSE [pc |-> "stamped", evidence |-> e,
              record |-> [id |-> s, document |-> d, field |-> f, decision |-> k,
                          hasValue |-> ResolvedValue(k, found),
                          at |-> IF k = "edited" THEN 0 ELSE now],
              base |-> Len(decisions[e])]]
    /\ UNCHANGED <<now, decisions, approved, proj, restarts>>

\* submit_decision up to the repository call: validate, then read the clock.
SubmitDecision(s, e, d, f, k, found, given) ==
    /\ sub[s].pc = "idle"
    /\ sub' = [sub EXCEPT ![s] =
        IF Refused(k, found, given) THEN [pc |-> "refused"]
        ELSE [pc |-> "stamped", evidence |-> e,
              record |-> [id |-> s, document |-> d, field |-> f, decision |-> k,
                          hasValue |-> ResolvedValue(k, found), at |-> now],
              base |-> Len(decisions[e])]]
    /\ UNCHANGED <<now, decisions, approved, proj, restarts>>

SaveDecision(s) ==
    /\ sub[s].pc = "stamped"
    /\ decisions' = [decisions EXCEPT ![sub[s].evidence] = Append(@, sub[s].record)]
    /\ sub' = [sub EXCEPT ![s].pc = "saved"]
    /\ UNCHANGED <<now, approved, proj, restarts>>

\* project_by_evidence reads the decisions ...
InFlightFor(e) == {p \in Projections : proj[p].pc = "read" /\ proj[p].evidence = e}

\* Variant: the decisions are kept in memory, so that a restart forgets them.
StartFromMemory(p, e) ==
    /\ proj[p].pc = "idle"
    /\ LET n == IF restarts = 0 THEN Len(decisions[e]) ELSE 0
       IN proj' = [q \in Projections |->
            IF q = p THEN [pc |-> "read", evidence |-> e, read |-> SubSeq(decisions[e], 1, n),
                           seen |-> n, alone |-> InFlightFor(e) = {}]
            ELSE IF q \in InFlightFor(e) THEN [proj[q] EXCEPT !.alone = FALSE]
            ELSE proj[q]]
    /\ UNCHANGED <<now, decisions, approved, sub, restarts>>

StartProjection(p, e) ==
    /\ proj[p].pc = "idle"
    /\ proj' = [q \in Projections |->
        IF q = p THEN [pc |-> "read", evidence |-> e, read |-> decisions[e],
                       seen |-> Len(decisions[e]), alone |-> InFlightFor(e) = {}]
        ELSE IF q \in InFlightFor(e) THEN [proj[q] EXCEPT !.alone = FALSE]
        ELSE proj[q]]
    /\ UNCHANGED <<now, decisions, approved, sub, restarts>>

\* ... and appends the aggregate built from them, or refuses (400) decisions
\* that name two documents.
SaveProjection(p) ==
    /\ proj[p].pc = "read"
    /\ LET ds == proj[p].read
           e == proj[p].evidence
       IN IF SameDocument(ds)
          THEN /\ approved' = [approved EXCEPT ![e] =
                                  Append(@, BuildAggregate(ds, proj[p].seen, p))]
               /\ proj' = [proj EXCEPT ![p].pc = "saved"]
          ELSE /\ proj' = [proj EXCEPT ![p].pc = "refused"]
               /\ UNCHANGED approved
    /\ UNCHANGED <<now, decisions, sub, restarts>>

\* The process stops between the two steps of whatever it was serving.
Restart ==
    /\ restarts < MaxRestarts
    /\ restarts' = restarts + 1
    /\ sub' = [s \in Submissions |->
                 IF sub[s].pc = "stamped" THEN [sub[s] EXCEPT !.pc = "lost"] ELSE sub[s]]
    /\ proj' = [p \in Projections |->
                 IF proj[p].pc = "read" THEN [proj[p] EXCEPT !.pc = "lost"] ELSE proj[p]]
    /\ UNCHANGED <<now, decisions, approved>>

Next ==
    \/ Tick
    \/ \E s \in Submissions :
        \/ \E e \in Evidence, d \in Documents, f \in Fields, k \in VALID_DECISIONS,
              found \in BOOLEAN, given \in Given : SubmitDecision(s, e, d, f, k, found, given)
        \/ SaveDecision(s)
    \/ \E p \in Projections : (\E e \in Evidence : StartProjection(p, e)) \/ SaveProjection(p)
    \/ Restart

Spec == Init /\ [][Next]_vars

-----------------------------------------------------------------------------
(* Properties.                                                             *)

NewestOn(ds, f, i) == /\ ds[i].field = f
                      /\ \A k \in DOMAIN ds : ds[k].field = f => ~Supersedes(ds, k, i)

\* Every aggregate in the file tells the truth about the ledger at the moment
\* its projection read it: a field is in it exactly when the field's newest
\* decision then (by reviewed_at, then ledger order) accepted or edited it,
\* with that decision's value, and "approved" hides no field whose newest
\* decision rejects.
LatestDecisionWins ==
    \A e \in Evidence : \A n \in DOMAIN approved[e] :
        LET a == approved[e][n]
            ds == SubSeq(decisions[e], 1, a.seen)
        IN /\ \A i \in DOMAIN ds : NewestOn(ds, ds[i].field, i) =>
                (ds[i] \in a.fields) = (ds[i].decision \in {"accepted", "edited"})
           /\ \A x \in a.fields : \E i \in DOMAIN ds : ds[i] = x /\ NewestOn(ds, x.field, i)
           /\ a.review_status = "approved" =>
                \A i \in DOMAIN ds : \E x \in a.fields : x.field = ds[i].field
           /\ a.review_status = "in_review" => ds = <<>>

\* Evidence that was projected is about one document: no aggregate mixes
\* decisions on two documents, and once the ledger of an evidence item does,
\* no projection that reads it from then on is saved.
OneDocumentPerProjection ==
    \A e \in Evidence : \A n \in DOMAIN approved[e] :
        \A i, j \in 1..approved[e][n].seen :
            decisions[e][i].document = decisions[e][j].document

BaseOf(d) == sub[d.id].base

\* Two decisions on an evidence item are in the ledger in another order than
\* their reviewed_at only if the later-appended one was already stamped, and
\* not yet appended, when the other was appended.
OvertakingNeedsOverlap ==
    \A e \in Evidence : \A i, k \in DOMAIN decisions[e] :
        i < k /\ decisions[e][i].at > decisions[e][k].at => BaseOf(decisions[e][k]) < i

\* The newest decision on a field never moves to one reviewed earlier, in
\* whatever order submissions are appended.
NewestDecisionNeverRegresses ==
    [][\A e \in Evidence : \A i \in LatestDecisionPerField(decisions[e]) :
         \A k \in LatestDecisionPerField(decisions'[e]) :
            decisions'[e][k].field = decisions[e][i].field =>
                decisions'[e][k].at >= decisions[e][i].at]_vars

\* A projection that shared its evidence item with no other projection while
\* it was served never publishes less than what was published before.
SerialProjectionsAdvance ==
    \A e \in Evidence : \A m, n \in DOMAIN approved[e] :
        m < n /\ proj[approved[e][n].by].alone => approved[e][m].seen <= approved[e][n].seen

\* docs/approved_evidence_projection.md: "If a field was accepted earlier but
\* later rejected, the field is excluded because latest-decision wins."  Once a
\* projection excluded a field for that reason, the latest approved evidence
\* does not bring the old decision back.
RejectedFieldStaysExcluded ==
    \A e \in Evidence : \A m \in DOMAIN approved[e] :
        LET last == approved[e][Len(approved[e])]
            ds == SubSeq(decisions[e], 1, approved[e][m].seen)
        IN \A i \in LatestDecisionPerField(ds) :
             ds[i].decision = "rejected" =>
                \A x \in last.fields : x.field = ds[i].field => x.at >= ds[i].at

\* The refinement mapping to ApprovedView.
View == INSTANCE ApprovedView
    WITH Decisions <- Decision, ledger <- decisions,
         published <- [e \in Evidence |->
                          [n \in DOMAIN approved[e] |-> approved[e][n].fields]]
ImplementsView == View!Spec
=============================================================================
