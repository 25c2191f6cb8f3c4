----------------------- MODULE ReviewProjectionProofs -----------------------
(***************************************************************************)
(* Proofs about ReviewProjection, for any number of evidence items,        *)
(* reviews, projections, clock ticks and restarts: type correctness, that  *)
(* projections publish views of the ledger (ApprovedView), when the ledger *)
(* can be out of order, when a publication can be older than the one       *)
(* before it, and which decision and which document an aggregate is about. *)
(***************************************************************************)
EXTENDS ReviewProjection, SequenceTheorems, TLAPS

-----------------------------------------------------------------------------
(* Lemmas about the operators.                                             *)

LEMMA ApprovedFieldsType ==
  ASSUME NEW ds \in Seq(Decision)
  PROVE  ApprovedFields(ds) \in SUBSET Decision
  BY DEF ApprovedFields, LatestDecisionPerField

LEMMA AggregateType ==
  ASSUME NEW ds \in Seq(Decision), NEW n \in Nat, NEW p \in Projections
  PROVE  BuildAggregate(ds, n, p) \in Aggregate
<1>1. StatusOf(ds) \in ReviewStatus
  BY DEF StatusOf, ReviewStatus
<1> QED  BY <1>1, ApprovedFieldsType DEF BuildAggregate, Aggregate

LEMMA ResolvedValueType ==
  \A k \in VALID_DECISIONS, found \in BOOLEAN : ResolvedValue(k, found) \in BOOLEAN
  BY DEF ResolvedValue

\* A prefix of a ledger stays what it is when the ledger grows.
LEMMA PrefixStable ==
  ASSUME NEW S, NEW s \in Seq(S), NEW x \in S, NEW n \in 0..Len(s)
  PROVE  /\ SubSeq(Append(s, x), 1, n) = SubSeq(s, 1, n)
         /\ SubSeq(s, 1, n) \in Seq(S)
         /\ Len(SubSeq(s, 1, n)) = n
         /\ \A i \in 1..n : SubSeq(s, 1, n)[i] = s[i]
  OBVIOUS

LEMMA WholePrefix ==
  ASSUME NEW S, NEW s \in Seq(S)
  PROVE  SubSeq(s, 1, Len(s)) = s
  OBVIOUS

-----------------------------------------------------------------------------
(* Type correctness, with what a projection has read: a prefix of the      *)
(* ledger, as it was when the projection began and as it still is.         *)

ReadsAreFromLedger ==
  \A p \in Projections : proj[p].pc = "read" =>
    /\ proj[p].seen <= Len(decisions[proj[p].evidence])
    /\ proj[p].read = SubSeq(decisions[proj[p].evidence], 1, proj[p].seen)

ReadInv == TypeOK /\ ReadsAreFromLedger

LEMMA InitReadInv == Init => ReadInv
  BY ReviewProjectionAssumption
     DEF Init, ReadInv, TypeOK, ReadsAreFromLedger, Submission, Projection, Idle

LEMMA TickKeepsReadInv == ReadInv /\ Tick => ReadInv'
<1> SUFFICES ASSUME ReadInv, Tick PROVE ReadInv'  OBVIOUS
<1>1. now' \in 0..MaxTime
  BY ReviewProjectionAssumption DEF Tick, ReadInv, TypeOK
<1> QED  BY <1>1 DEF Tick, ReadInv, TypeOK, ReadsAreFromLedger

LEMMA SubmitKeepsReadInv ==
  ASSUME ReadInv, NEW s \in Submissions, NEW e \in Evidence, NEW d \in Documents,
         NEW f \in Fields, NEW k \in VALID_DECISIONS, NEW found \in BOOLEAN,
         NEW given \in Given, SubmitDecision(s, e, d, f, k, found, given)
  PROVE  ReadInv'
<1> DEFINE r == [id |-> s, document |-> d, field |-> f, decision |-> k,
                 hasValue |-> ResolvedValue(k, found), at |-> now]
<1>1. r \in Decision
  BY ResolvedValueType DEF Decision, ReadInv, TypeOK
<1>2. Len(decisions[e]) \in Nat
  BY DEF ReadInv, TypeOK
<1>3. [pc |-> "stamped", evidence |-> e, record |-> r, base |-> Len(decisions[e])]
         \in Submission
  BY <1>1, <1>2 DEF Submission
<1>4. [pc |-> "refused"] \in Submission
  BY DEF Submission
<1>5. sub' \in [Submissions -> Submission]
  BY <1>3, <1>4 DEF SubmitDecision, ReadInv, TypeOK
<1> QED  BY <1>5 DEF SubmitDecision, ReadInv, TypeOK, ReadsAreFromLedger

\* What a submission or a projection under way carries.
LEMMA StampedFields ==
  ASSUME TypeOK, NEW s \in Submissions, sub[s].pc \in {"stamped", "saved", "lost"}
  PROVE  /\ sub[s].evidence \in Evidence /\ sub[s].record \in Decision
         /\ sub[s].base \in Nat
         /\ \A to \in {"saved", "lost"} : [sub[s] EXCEPT !.pc = to] \in Submission
<1>1. sub[s] \in [pc : {"stamped", "saved", "lost"}, evidence : Evidence,
                  record : Decision, base : Nat]
  BY DEF TypeOK, Submission, Idle
<1> QED  BY <1>1 DEF Submission

LEMMA ReadFields ==
  ASSUME TypeOK, NEW p \in Projections, proj[p].pc \in {"read", "saved", "refused", "lost"}
  PROVE  /\ proj[p].evidence \in Evidence /\ proj[p].read \in Seq(Decision)
         /\ proj[p].seen \in Nat /\ proj[p].alone \in BOOLEAN
         /\ \A to \in {"saved", "refused", "lost"} :
               [proj[p] EXCEPT !.pc = to] \in Projection
         /\ [proj[p] EXCEPT !.alone = FALSE] \in Projection
<1>1. proj[p] \in [pc : {"read", "saved", "refused", "lost"}, evidence : Evidence,
                   read : Seq(Decision), seen : Nat, alone : BOOLEAN]
  BY DEF TypeOK, Projection, Idle
<1> QED  BY <1>1 DEF Projection

LEMMA SaveDecisionKeepsReadInv ==
  ASSUME ReadInv, NEW s \in Submissions, SaveDecision(s)
  PROVE  ReadInv'
<1> DEFINE e == sub[s].evidence
           x == sub[s].record
<1>1. /\ e \in Evidence /\ x \in Decision
      /\ decisions' = [decisions EXCEPT ![e] = Append(@, x)]
      /\ sub' = [sub EXCEPT ![s] = [sub[s] EXCEPT !.pc = "saved"]]
      /\ UNCHANGED <<now, approved, proj, restarts>>
  BY StampedFields DEF ReadInv, SaveDecision
<1>2. sub' \in [Submissions -> Submission]
  BY <1>1, StampedFields DEF ReadInv, TypeOK, SaveDecision
<1>3. TypeOK'
  BY <1>1, <1>2 DEF ReadInv, TypeOK
<1>4. ASSUME NEW p \in Projections, proj[p].pc = "read"
      PROVE  /\ proj[p].seen <= Len(decisions'[proj[p].evidence])
             /\ proj[p].read = SubSeq(decisions'[proj[p].evidence], 1, proj[p].seen)
  <2>1. /\ proj[p].evidence \in Evidence /\ proj[p].seen \in Nat
        /\ proj[p].seen <= Len(decisions[proj[p].evidence])
        /\ proj[p].read = SubSeq(decisions[proj[p].evidence], 1, proj[p].seen)
        /\ decisions[proj[p].evidence] \in Seq(Decision)
    BY <1>4, ReadFields DEF ReadInv, TypeOK, ReadsAreFromLedger
  <2>2. CASE proj[p].evidence = e
    <3>1. decisions'[e] = Append(decisions[e], x)
      BY <1>1 DEF ReadInv, TypeOK
    <3>2. Len(decisions'[e]) = Len(decisions[e]) + 1
      BY <1>1, <2>1, <2>2, <3>1
    <3>3. SubSeq(decisions'[e], 1, proj[p].seen) = SubSeq(decisions[e], 1, proj[p].seen)
      BY <1>1, <2>1, <2>2, <3>1, PrefixStable
    <3> QED  BY <2>1, <2>2, <3>2, <3>3
  <2>3. CASE proj[p].evidence # e
    BY <1>1, <2>1, <2>3 DEF ReadInv, TypeOK
  <2> QED  BY <2>2, <2>3
<1> QED  BY <1>1, <1>3, <1>4 DEF ReadInv, ReadsAreFromLedger

LEMMA StartKeepsReadInv ==
  ASSUME ReadInv, NEW p \in Projections, NEW e \in Evidence, StartProjection(p, e)
  PROVE  ReadInv'
<1> DEFINE new == [pc |-> "read", evidence |-> e, read |-> decisions[e],
                   seen |-> Len(decisions[e]), alone |-> InFlightFor(e) = {}]
<1>1. /\ decisions[e] \in Seq(Decision) /\ Len(decisions[e]) \in Nat
      /\ (InFlightFor(e) = {}) \in BOOLEAN
  BY DEF ReadInv, TypeOK
<1>2. new \in Projection
  BY <1>1 DEF Projection
<1>3. \A q \in Projections : q \in InFlightFor(e) => [proj[q] EXCEPT !.alone = FALSE] \in Projection
  BY ReadFields DEF ReadInv, InFlightFor
<1>4. proj' \in [Projections -> Projection]
  BY <1>2, <1>3 DEF StartProjection, ReadInv, TypeOK
<1>5. new.read = SubSeq(decisions[e], 1, new.seen)
  BY <1>1, WholePrefix
<1>6. ASSUME NEW q \in Projections, proj'[q].pc = "read"
      PROVE  /\ proj'[q].seen <= Len(decisions[proj'[q].evidence])
             /\ proj'[q].read = SubSeq(decisions[proj'[q].evidence], 1, proj'[q].seen)
  <2>1. CASE q = p
    BY <1>1, <1>5, <2>1 DEF StartProjection
  <2>2. CASE q # p
    <3>1. /\ proj'[q].pc = proj[q].pc /\ proj'[q].seen = proj[q].seen
          /\ proj'[q].read = proj[q].read /\ proj'[q].evidence = proj[q].evidence
      <4>1. CASE q \in InFlightFor(e)
        <5>1. proj[q] \in [pc : {"read", "saved", "refused", "lost"}, evidence : Evidence,
                           read : Seq(Decision), seen : Nat, alone : BOOLEAN]
          BY <4>1 DEF InFlightFor, ReadInv, TypeOK, Projection, Idle
        <5> QED  BY <2>2, <4>1, <5>1 DEF StartProjection
      <4>2. CASE q \notin InFlightFor(e)
        BY <2>2, <4>2 DEF StartProjection
      <4> QED  BY <4>1, <4>2
    <3> QED  BY <1>6, <3>1 DEF ReadInv, ReadsAreFromLedger
  <2> QED  BY <2>1, <2>2
<1> QED  BY <1>4, <1>6 DEF StartProjection, ReadInv, TypeOK, ReadsAreFromLedger

LEMMA SaveProjectionKeepsReadInv ==
  ASSUME ReadInv, NEW p \in Projections, SaveProjection(p)
  PROVE  ReadInv'
<1> DEFINE e == proj[p].evidence
<1>1. /\ e \in Evidence /\ proj[p].read \in Seq(Decision) /\ proj[p].seen \in Nat
  BY ReadFields DEF ReadInv, SaveProjection
<1>2. approved' \in [Evidence -> Seq(Aggregate)]
  <2>1. BuildAggregate(proj[p].read, proj[p].seen, p) \in Aggregate
    BY <1>1, AggregateType
  <2>2. Append(approved[e], BuildAggregate(proj[p].read, proj[p].seen, p)) \in Seq(Aggregate)
    BY <1>1, <2>1 DEF ReadInv, TypeOK
  <2> QED  BY <1>1, <2>2 DEF SaveProjection, ReadInv, TypeOK
<1>3. PICK to \in {"saved", "refused"} : proj' = [proj EXCEPT ![p] = [proj[p] EXCEPT !.pc = to]]
  BY DEF SaveProjection
<1>4. proj' \in [Projections -> Projection]
  BY <1>3, ReadFields DEF SaveProjection, ReadInv, TypeOK
<1>5. \A q \in Projections : proj'[q].pc = "read" => proj'[q] = proj[q]
  BY <1>3, <1>4 DEF ReadInv, TypeOK, SaveProjection, Projection, Idle
<1> QED  BY <1>2, <1>4, <1>5 DEF SaveProjection, ReadInv, TypeOK, ReadsAreFromLedger

LEMMA RestartKeepsReadInv == ReadInv /\ Restart => ReadInv'
<1> SUFFICES ASSUME ReadInv, Restart PROVE ReadInv'  OBVIOUS
<1>1. sub' \in [Submissions -> Submission]
  BY StampedFields DEF Restart, ReadInv, TypeOK
<1>2. proj' \in [Projections -> Projection]
  BY ReadFields DEF Restart, ReadInv, TypeOK
<1>3. restarts' \in 0..MaxRestarts
  BY ReviewProjectionAssumption DEF Restart, ReadInv, TypeOK
<1>4. ASSUME NEW q \in Projections, proj[q].pc = "read" PROVE proj'[q].pc = "lost"
  <2>1. proj[q] \in [pc : {"read", "saved", "refused", "lost"}, evidence : Evidence,
                     read : Seq(Decision), seen : Nat, alone : BOOLEAN]
    BY <1>4 DEF ReadInv, TypeOK, Projection, Idle
  <2> QED  BY <1>4, <2>1 DEF Restart
<1>5. \A q \in Projections : proj'[q].pc # "read"
  BY <1>4 DEF Restart
<1> QED  BY <1>1, <1>2, <1>3, <1>5 DEF Restart, ReadInv, TypeOK, ReadsAreFromLedger

LEMMA NextKeepsReadInv == ReadInv /\ [Next]_vars => ReadInv'
<1> SUFFICES ASSUME ReadInv, [Next]_vars PROVE ReadInv'  OBVIOUS
<1>1. CASE UNCHANGED vars
  BY <1>1 DEF vars, ReadInv, TypeOK, ReadsAreFromLedger
<1> QED  BY <1>1, TickKeepsReadInv, SubmitKeepsReadInv, SaveDecisionKeepsReadInv,
            StartKeepsReadInv, SaveProjectionKeepsReadInv, RestartKeepsReadInv DEF Next

LEMMA ReadInvariant == Spec => []ReadInv
  BY InitReadInv, NextKeepsReadInv, PTL DEF Spec

\* Type correctness of every behaviour.
THEOREM ReviewTypeCorrect == Spec => []TypeOK
<1>1. ReadInv => TypeOK  BY DEF ReadInv
<1> QED  BY <1>1, ReadInvariant, PTL

-----------------------------------------------------------------------------
(* Projections publish views of the ledger.                                *)

Published == [e \in Evidence |-> [n \in DOMAIN approved[e] |-> approved[e][n].fields]]

LEMMA ApprovedFieldsIsView ==
  ASSUME NEW ds \in Seq(Decision)
  PROVE  ApprovedFields(ds) = View!View(ds)
  BY DEF ApprovedFields, LatestDecisionPerField, Supersedes, APPROVED_DECISIONS,
         View!View, View!Approving, View!Newer

\* Forgetting everything but the fields commutes with appending.
LEMMA FieldsAppend ==
  ASSUME NEW s \in Seq(Aggregate), NEW x \in Aggregate
  PROVE  [n \in DOMAIN Append(s, x) |-> Append(s, x)[n].fields]
            = Append([n \in DOMAIN s |-> s[n].fields], x.fields)
<1> DEFINE f == [n \in DOMAIN s |-> s[n].fields]
           g == [n \in DOMAIN Append(s, x) |-> Append(s, x)[n].fields]
<1>1. f \in Seq(SUBSET Decision) /\ Len(f) = Len(s)
  <2>1. \A n \in DOMAIN s : s[n].fields \in SUBSET Decision
    <3>1. \A n \in DOMAIN s : s[n] \in Aggregate
      OBVIOUS
    <3> QED  BY <3>1 DEF Aggregate
  <2>2. DOMAIN s = 1..Len(s) /\ Len(s) \in Nat
    OBVIOUS
  <2>3. f \in [1..Len(s) -> SUBSET Decision]
    BY <2>1, <2>2
  <2> QED  BY <2>2, <2>3, SeqDef
<1>2. /\ DOMAIN Append(s, x) = 1..(Len(s) + 1) /\ DOMAIN s = 1..Len(s)
      /\ \A n \in 1..Len(s) : Append(s, x)[n] = s[n]
      /\ Append(s, x)[Len(s) + 1] = x
  OBVIOUS
<1>3. x.fields \in SUBSET Decision
  BY DEF Aggregate
<1> HIDE DEF f
<1>4. /\ DOMAIN Append(f, x.fields) = 1..(Len(s) + 1)
      /\ \A n \in 1..Len(s) : Append(f, x.fields)[n] = f[n]
      /\ Append(f, x.fields)[Len(s) + 1] = x.fields
      /\ Append(f, x.fields) = [n \in 1..(Len(s) + 1) |-> Append(f, x.fields)[n]]
  BY <1>1, <1>3
<1>5. \A n \in 1..(Len(s) + 1) : Append(s, x)[n].fields = Append(f, x.fields)[n]
  BY <1>2, <1>4 DEF f
<1>6. g = [n \in 1..(Len(s) + 1) |-> Append(f, x.fields)[n]]
  BY <1>2, <1>5
<1> QED  BY <1>4, <1>6 DEF f

LEMMA SaveDecides ==
  ASSUME ReadInv, NEW s \in Submissions, SaveDecision(s)
  PROVE  View!Next
<1>1. sub[s].evidence \in Evidence /\ sub[s].record \in Decision
  BY StampedFields DEF ReadInv, SaveDecision
<1>2. View!Decide(sub[s].evidence, sub[s].record)
  BY DEF SaveDecision, View!Decide
<1> QED  BY <1>1, <1>2 DEF View!Next

LEMMA AppendPublishes ==
  ASSUME ReadInv, NEW p \in Projections, NEW e \in Evidence, NEW n \in 0..Len(decisions[e]),
         NEW ds \in Seq(Decision), ds = SubSeq(decisions[e], 1, n),
         approved' = [approved EXCEPT ![e] = Append(@, BuildAggregate(ds, n, p))],
         UNCHANGED decisions
  PROVE  View!Next
<1>1. BuildAggregate(ds, n, p).fields = View!View(SubSeq(decisions[e], 1, n))
  BY ApprovedFieldsIsView DEF BuildAggregate
<1>2. Published'[e] = Append(Published[e], View!View(SubSeq(decisions[e], 1, n)))
  <2>1. approved[e] \in Seq(Aggregate) /\ Len(decisions[e]) \in Nat
    BY DEF ReadInv, TypeOK
  <2>2. BuildAggregate(ds, n, p) \in Aggregate
    <3>1. n \in Nat
      BY <2>1
    <3> QED  BY <3>1, AggregateType
  <2>3. approved'[e] = Append(approved[e], BuildAggregate(ds, n, p))
    BY DEF ReadInv, TypeOK
  <2> QED  BY <1>1, <2>1, <2>2, <2>3, FieldsAppend DEF Published
<1>3. \A f \in Evidence \ {e} : Published'[f] = Published[f]
  BY DEF Published, ReadInv, TypeOK
<1>4. Published' = [Published EXCEPT ![e] = Append(@, View!View(SubSeq(decisions[e], 1, n)))]
  BY <1>2, <1>3 DEF Published
<1>5. View!Publish(e, n)
  BY <1>4 DEF View!Publish, Published
<1> QED  BY <1>5 DEF View!Next

LEMMA SavePublishes ==
  ASSUME ReadInv, NEW p \in Projections, SaveProjection(p)
  PROVE  View!Next \/ UNCHANGED View!vars
<1>1. PICK e \in Evidence, n \in Nat, ds \in Seq(Decision) :
         e = proj[p].evidence /\ n = proj[p].seen /\ ds = proj[p].read
  BY ReadFields DEF ReadInv, SaveProjection
<1>2. n \in 0..Len(decisions[e]) /\ ds = SubSeq(decisions[e], 1, n)
  <2>1. Len(decisions[e]) \in Nat
    BY DEF ReadInv, TypeOK
  <2> QED  BY <1>1, <2>1 DEF ReadInv, SaveProjection, ReadsAreFromLedger
<1>3. CASE SameDocument(ds)
  <2>1. /\ approved' = [approved EXCEPT ![e] = Append(@, BuildAggregate(ds, n, p))]
        /\ UNCHANGED decisions
    BY <1>1, <1>3 DEF SaveProjection
  <2> QED  BY <1>2, <2>1, AppendPublishes
<1>4. CASE ~SameDocument(ds)
  BY <1>1, <1>4 DEF SaveProjection, View!vars
<1> QED  BY <1>3, <1>4

\* Every aggregate ever saved is the view that ApprovedView defines, of a moment
\* of the ledger: the newest decision on each field, where it approves.
THEOREM ViewRefinement == Spec => ImplementsView
<1>1. Init => View!Init
  BY DEF Init, View!Init
<1>2. ReadInv /\ [Next]_vars => [View!Next]_View!vars
  <2> SUFFICES ASSUME ReadInv, [Next]_vars PROVE View!Next \/ UNCHANGED View!vars
    OBVIOUS
  <2>1. CASE UNCHANGED <<decisions, approved>>
    BY <2>1 DEF View!vars
  <2>2. \/ UNCHANGED <<decisions, approved>>
        \/ \E s \in Submissions : SaveDecision(s)
        \/ \E p \in Projections : SaveProjection(p)
    BY DEF Next, vars, Tick, SubmitDecision, StartProjection, Restart
  <2> QED  BY <2>1, <2>2, SaveDecides, SavePublishes
<1> QED  BY <1>1, <1>2, ReadInvariant, PTL DEF Spec, ImplementsView, View!Spec

-----------------------------------------------------------------------------
(* The order of the ledger.  A stamped review is not older than what was   *)
(* in the ledger when it was stamped; that is all the clock gives.         *)

StampsInOrder ==
  /\ \A e \in Evidence : \A i \in DOMAIN decisions[e] :
        decisions[e][i].at <= now /\ sub[decisions[e][i].id].pc = "saved"
  /\ \A s \in Submissions : sub[s].pc = "stamped" =>
        /\ sub[s].record.id = s
        /\ sub[s].record.at <= now
        /\ sub[s].base <= Len(decisions[sub[s].evidence])
        /\ \A i \in 1..sub[s].base : decisions[sub[s].evidence][i].at <= sub[s].record.at

LedgerInv == TypeOK /\ StampsInOrder /\ OvertakingNeedsOverlap

LEMMA DecisionFields ==
  ASSUME TypeOK, NEW e \in Evidence, NEW i \in DOMAIN decisions[e]
  PROVE  /\ decisions[e][i].id \in Submissions
         /\ decisions[e][i].at \in Nat
         /\ i \in Nat
<1>1. decisions[e][i] \in Decision /\ i \in Nat
  BY DEF TypeOK
<1> QED  BY <1>1, ReviewProjectionAssumption DEF Decision

\* A step that leaves the ledger and its saved reviews alone, and the stamps.
LEMMA QuietStepKeepsLedger ==
  ASSUME LedgerInv, TypeOK', UNCHANGED decisions, now \in Nat, now' \in Nat, now <= now',
         \A s \in Submissions : \/ sub'[s] = sub[s]
                                \/ sub[s].pc # "saved" /\ sub'[s].pc # "stamped"
  PROVE  LedgerInv'
<1>1. StampsInOrder'
  <2>1. ASSUME NEW e \in Evidence, NEW i \in DOMAIN decisions[e]
        PROVE  decisions[e][i].at <= now' /\ sub'[decisions[e][i].id].pc = "saved"
    <3>1. decisions[e][i].at <= now /\ sub[decisions[e][i].id].pc = "saved"
      BY DEF LedgerInv, StampsInOrder
    <3> QED  BY <3>1, DecisionFields DEF LedgerInv
  <2>2. ASSUME NEW s \in Submissions, sub'[s].pc = "stamped"
        PROVE  /\ sub'[s] = sub[s]
               /\ sub[s].record.at \in Nat
    <3>1. sub'[s] = sub[s]
      BY <2>2
    <3>2. sub[s].record \in Decision
      BY <2>2, <3>1, StampedFields DEF LedgerInv
    <3> QED  BY <3>1, <3>2, ReviewProjectionAssumption DEF Decision
  <2>3. ASSUME NEW s \in Submissions, sub'[s].pc = "stamped"
        PROVE  /\ sub'[s].record.id = s
               /\ sub'[s].record.at <= now'
               /\ sub'[s].base <= Len(decisions[sub'[s].evidence])
               /\ \A i \in 1..sub'[s].base :
                     decisions[sub'[s].evidence][i].at <= sub'[s].record.at
    BY <2>2, <2>3 DEF LedgerInv, StampsInOrder
  <2> QED  BY <2>1, <2>3 DEF StampsInOrder
<1>2. OvertakingNeedsOverlap'
  <2>1. ASSUME NEW e \in Evidence, NEW k \in DOMAIN decisions[e]
        PROVE  BaseOf(decisions[e][k])' = BaseOf(decisions[e][k])
    BY DecisionFields DEF LedgerInv, StampsInOrder, BaseOf
  <2> QED  BY <2>1 DEF LedgerInv, OvertakingNeedsOverlap
<1> QED  BY <1>1, <1>2 DEF LedgerInv

LEMMA StampKeepsLedger ==
  ASSUME LedgerInv, TypeOK', NEW s \in Submissions, NEW e \in Evidence, NEW d \in Documents,
         NEW f \in Fields, NEW k \in VALID_DECISIONS, NEW found \in BOOLEAN,
         NEW given \in Given, SubmitDecision(s, e, d, f, k, found, given)
  PROVE  LedgerInv'
<1>1. /\ now \in Nat /\ UNCHANGED <<now, decisions>>
      /\ sub[s].pc = "idle" /\ \A t \in Submissions \ {s} : sub'[t] = sub[t]
  BY ReviewProjectionAssumption DEF LedgerInv, TypeOK, SubmitDecision
<1>2. CASE Refused(k, found, given)
  <2>1. sub'[s].pc = "refused"
    BY <1>2 DEF SubmitDecision, LedgerInv, TypeOK
  <2>2. now <= now'
    BY <1>1
  <2> QED  BY <1>1, <2>1, <2>2, QuietStepKeepsLedger
<1>3. CASE ~Refused(k, found, given)
  <2>1. /\ sub'[s].pc = "stamped" /\ sub'[s].evidence = e /\ sub'[s].base = Len(decisions[e])
        /\ sub'[s].record.id = s /\ sub'[s].record.at = now
    BY <1>3 DEF SubmitDecision, LedgerInv, TypeOK
  <2>2. \A i \in DOMAIN decisions[e] : decisions[e][i].at <= now
    BY DEF LedgerInv, StampsInOrder
  <2>3. DOMAIN decisions[e] = 1..Len(decisions[e]) /\ Len(decisions[e]) \in Nat
    BY DEF LedgerInv, TypeOK
  <2>4. \A g \in Evidence : \A i \in DOMAIN decisions[g] :
           decisions[g][i].at <= now /\ sub'[decisions[g][i].id].pc = "saved"
    BY <1>1, DecisionFields DEF LedgerInv, StampsInOrder
  <2>5. ASSUME NEW t \in Submissions, sub'[t].pc = "stamped"
        PROVE  /\ sub'[t].record.id = t
               /\ sub'[t].record.at <= now
               /\ sub'[t].base <= Len(decisions[sub'[t].evidence])
               /\ \A i \in 1..sub'[t].base :
                     decisions[sub'[t].evidence][i].at <= sub'[t].record.at
    <3>1. CASE t = s
      BY <1>1, <2>1, <2>2, <2>3, <3>1
    <3>2. CASE t # s
      BY <1>1, <2>5, <3>2 DEF LedgerInv, StampsInOrder
    <3> QED  BY <3>1, <3>2
  <2>6. StampsInOrder'
    BY <1>1, <2>4, <2>5 DEF StampsInOrder
  <2>7. ASSUME NEW g \in Evidence, NEW i \in DOMAIN decisions[g]
        PROVE  BaseOf(decisions[g][i])' = BaseOf(decisions[g][i])
    BY <1>1, DecisionFields DEF LedgerInv, StampsInOrder, BaseOf
  <2>8. OvertakingNeedsOverlap'
    BY <1>1, <2>7 DEF LedgerInv, OvertakingNeedsOverlap
  <2> QED  BY <2>6, <2>8 DEF LedgerInv
<1> QED  BY <1>2, <1>3

LEMMA SaveKeepsLedger ==
  ASSUME LedgerInv, TypeOK', NEW s \in Submissions, SaveDecision(s)
  PROVE  LedgerInv'
<1>1. PICK e \in Evidence, x \in Decision, b \in Nat :
         e = sub[s].evidence /\ x = sub[s].record /\ b = sub[s].base
  BY StampedFields DEF LedgerInv, SaveDecision
<1> DEFINE n == Len(decisions[e])
<1>2. /\ now \in Nat /\ UNCHANGED now /\ sub[s].pc = "stamped"
      /\ sub' = [sub EXCEPT ![s].pc = "saved"]
      /\ \A t \in Submissions \ {s} : sub'[t] = sub[t]
  BY ReviewProjectionAssumption DEF LedgerInv, TypeOK, SaveDecision
<1>3. sub'[s].pc = "saved" /\ sub'[s].base = b
  <2>1. sub[s] \in [pc : {"stamped", "saved", "lost"}, evidence : Evidence,
                    record : Decision, base : Nat]
    BY <1>2 DEF LedgerInv, TypeOK, Submission, Idle
  <2> QED  BY <1>1, <1>2, <2>1 DEF LedgerInv, TypeOK
<1>4. /\ x.id = s /\ x.at <= now /\ x.at \in Nat /\ b <= n
      /\ \A i \in 1..b : decisions[e][i].at <= x.at
  BY <1>1, <1>2, ReviewProjectionAssumption DEF LedgerInv, StampsInOrder, Decision
<1>5. /\ n \in Nat /\ DOMAIN decisions[e] = 1..n /\ DOMAIN decisions'[e] = 1..(n + 1)
      /\ \A i \in 1..n : decisions'[e][i] = decisions[e][i]
      /\ decisions'[e][n + 1] = x
      /\ \A g \in Evidence \ {e} : decisions'[g] = decisions[g]
      /\ Len(decisions'[e]) = n + 1
  BY <1>1 DEF LedgerInv, TypeOK, SaveDecision
<1>6. \A g \in Evidence : \A i \in DOMAIN decisions[g] :
         sub'[decisions[g][i].id] = sub[decisions[g][i].id]
  BY <1>2, DecisionFields DEF LedgerInv, StampsInOrder
<1>7. StampsInOrder'
  <2>1. \A g \in Evidence : \A i \in DOMAIN decisions[g] :
           decisions[g][i].at <= now' /\ sub'[decisions[g][i].id].pc = "saved"
    BY <1>2, <1>6 DEF LedgerInv, StampsInOrder
  <2>2. \A g \in Evidence : \A i \in DOMAIN decisions'[g] :
           decisions'[g][i].at <= now' /\ sub'[decisions'[g][i].id].pc = "saved"
    <3> SUFFICES ASSUME NEW g \in Evidence, NEW i \in DOMAIN decisions'[g]
                 PROVE  decisions'[g][i].at <= now' /\ sub'[decisions'[g][i].id].pc = "saved"
      OBVIOUS
    <3>1. CASE g = e /\ i = n + 1
      BY <1>2, <1>3, <1>4, <1>5, <3>1
    <3>2. CASE ~(g = e /\ i = n + 1)
      <4>1. i \in DOMAIN decisions[g] /\ decisions'[g][i] = decisions[g][i]
        BY <1>5, <3>2
      <4> QED  BY <2>1, <4>1
    <3> QED  BY <3>1, <3>2
  <2>3. ASSUME NEW t \in Submissions, sub'[t].pc = "stamped"
        PROVE  /\ sub'[t].record.id = t
               /\ sub'[t].record.at <= now'
               /\ sub'[t].base <= Len(decisions'[sub'[t].evidence])
               /\ \A i \in 1..sub'[t].base :
                     decisions'[sub'[t].evidence][i].at <= sub'[t].record.at
    <3>1. t # s /\ sub'[t] = sub[t] /\ sub[t].pc = "stamped"
      BY <1>2, <1>3, <2>3
    <3>2. sub[t].base \in Nat /\ sub[t].evidence \in Evidence
      BY <3>1, StampedFields DEF LedgerInv
    <3>3. /\ sub[t].record.id = t
          /\ sub[t].record.at <= now
          /\ sub[t].base <= Len(decisions[sub[t].evidence])
          /\ \A i \in 1..sub[t].base :
                decisions[sub[t].evidence][i].at <= sub[t].record.at
      BY <3>1 DEF LedgerInv, StampsInOrder
    <3>4. CASE sub[t].evidence = e
      <4>1. \A i \in 1..sub[t].base : i \in 1..n
        BY <1>5, <3>2, <3>3, <3>4
      <4>2. sub[t].base <= Len(decisions'[e])
        BY <1>5, <3>2, <3>3, <3>4
      <4>3. \A i \in 1..sub[t].base : decisions'[e][i] = decisions[e][i]
        BY <1>5, <4>1
      <4>4. \A i \in 1..sub[t].base : decisions'[e][i].at <= sub[t].record.at
        BY <3>3, <3>4, <4>3
      <4> QED  BY <1>2, <3>1, <3>3, <3>4, <4>2, <4>4
    <3>5. CASE sub[t].evidence # e
      <4>1. decisions'[sub[t].evidence] = decisions[sub[t].evidence]
        BY <1>5, <3>2, <3>5
      <4> QED  BY <1>2, <3>1, <3>3, <4>1
    <3> QED  BY <3>4, <3>5
  <2> QED  BY <2>2, <2>3 DEF StampsInOrder
<1>8. OvertakingNeedsOverlap'
  <2> SUFFICES ASSUME NEW g \in Evidence, NEW i \in DOMAIN decisions'[g],
                      NEW k \in DOMAIN decisions'[g],
                      i < k, decisions'[g][i].at > decisions'[g][k].at
               PROVE  sub'[decisions'[g][k].id].base < i
    BY DEF OvertakingNeedsOverlap, BaseOf
  <2>1. CASE g = e /\ k = n + 1
    <3>1. i \in 1..n /\ decisions[e][i].at > x.at
      BY <1>5, <2>1
    <3>2. decisions[e][i].at \in Nat
      BY <1>5, <3>1, DecisionFields DEF LedgerInv
    <3>3. ~(i \in 1..b)
      BY <1>4, <3>1, <3>2
    <3>4. b < i
      BY <1>5, <3>1, <3>3
    <3>5. sub'[decisions'[g][k].id].base = b
      BY <1>3, <1>4, <1>5, <2>1
    <3> QED  BY <3>4, <3>5
  <2>2. CASE ~(g = e /\ k = n + 1)
    <3>1. /\ i \in DOMAIN decisions[g] /\ k \in DOMAIN decisions[g]
          /\ decisions'[g][i] = decisions[g][i] /\ decisions'[g][k] = decisions[g][k]
      <4>1. CASE g # e
        BY <1>5, <4>1
      <4>2. CASE g = e
        <5>1. i \in 1..(n + 1) /\ k \in 1..(n + 1) /\ k # n + 1
          BY <1>5, <2>2, <4>2
        <5>2. i \in 1..n /\ k \in 1..n
          <6> HIDE DEF n
          <6> QED  BY <1>5, <5>1
        <5> QED  BY <1>5, <4>2, <5>2
      <4> QED  BY <4>1, <4>2
    <3> QED  BY <1>6, <3>1 DEF LedgerInv, OvertakingNeedsOverlap, BaseOf
  <2> QED  BY <2>1, <2>2
<1> QED  BY <1>7, <1>8 DEF LedgerInv

\* A review overtakes another one only while it is in flight: whatever is in the
\* ledger when a review is stamped is not newer than it.
THEOREM OvertakingBounded == Spec => []OvertakingNeedsOverlap
<1>1. Init => StampsInOrder /\ OvertakingNeedsOverlap
  BY DEF Init, StampsInOrder, OvertakingNeedsOverlap, Idle
<1>2. TypeOK /\ TypeOK' /\ StampsInOrder /\ OvertakingNeedsOverlap /\ [Next]_vars
         => StampsInOrder' /\ OvertakingNeedsOverlap'
  <2> SUFFICES ASSUME LedgerInv, TypeOK', [Next]_vars PROVE LedgerInv'
    BY DEF LedgerInv
  <2>1. now \in Nat /\ now' \in Nat
    BY ReviewProjectionAssumption DEF LedgerInv, TypeOK
  <2>2. CASE Tick
    BY <2>1, <2>2, QuietStepKeepsLedger DEF Tick
  <2>3. CASE UNCHANGED <<now, decisions, sub>>
    <3>1. now <= now'
      BY <2>1, <2>3
    <3> QED  BY <2>1, <2>3, <3>1, QuietStepKeepsLedger
  <2>4. CASE Restart
    <3>1. \A s \in Submissions : sub'[s] = sub[s] \/ (sub[s].pc = "stamped" /\ sub'[s].pc = "lost")
      <4> SUFFICES ASSUME NEW s \in Submissions, sub[s].pc = "stamped"
                   PROVE  sub'[s].pc = "lost"
        BY <2>4 DEF Restart
      <4>1. sub[s] \in [pc : {"stamped", "saved", "lost"}, evidence : Evidence,
                        record : Decision, base : Nat]
        BY DEF LedgerInv, TypeOK, Submission, Idle
      <4> QED  BY <2>4, <4>1 DEF Restart
    <3>2. UNCHANGED <<now, decisions>> /\ now <= now'
      BY <2>1, <2>4 DEF Restart
    <3> QED  BY <2>1, <3>1, <3>2, QuietStepKeepsLedger
  <2>5. \/ Tick \/ Restart \/ UNCHANGED <<now, decisions, sub>>
        \/ \E s \in Submissions : SaveDecision(s)
        \/ \E s \in Submissions, e \in Evidence, d \in Documents, f \in Fields,
              k \in VALID_DECISIONS, found \in BOOLEAN, given \in Given :
                SubmitDecision(s, e, d, f, k, found, given)
    BY DEF Next, vars, StartProjection, SaveProjection
  <2> QED  BY <2>2, <2>3, <2>4, <2>5, StampKeepsLedger, SaveKeepsLedger
<1> QED  BY <1>1, <1>2, ReviewTypeCorrect, PTL DEF Spec

-----------------------------------------------------------------------------
(* The order of publications.  A projection that is alone on its evidence  *)
(* read at least as much of the ledger as every aggregate saved so far,    *)
(* and as nobody else is about to save one, still does when it saves.      *)

AloneIsAlone ==
  \A p, q \in Projections :
    /\ proj[p].pc = "read" /\ proj[p].alone
    /\ proj[q].pc = "read" /\ proj[q].evidence = proj[p].evidence
    => p = q

AloneHasReadAll ==
  \A p \in Projections : proj[p].pc = "read" /\ proj[p].alone =>
    \A m \in DOMAIN approved[proj[p].evidence] :
       approved[proj[p].evidence][m].seen <= proj[p].seen

SavedFromLedger ==
  \A e \in Evidence : \A m \in DOMAIN approved[e] :
    /\ approved[e][m].seen <= Len(decisions[e])
    /\ proj[approved[e][m].by].pc = "saved"

SerialInv == /\ ReadInv
             /\ AloneIsAlone
             /\ AloneHasReadAll
             /\ SavedFromLedger
             /\ SerialProjectionsAdvance

LEMMA AggregateFields ==
  ASSUME TypeOK, NEW e \in Evidence, NEW m \in DOMAIN approved[e]
  PROVE  approved[e][m].seen \in Nat /\ approved[e][m].by \in Projections /\ m \in Nat
<1>1. approved[e][m] \in Aggregate /\ m \in Nat
  BY DEF TypeOK
<1> QED  BY <1>1 DEF Aggregate

\* A step that saves no aggregate, begins no projection and shortens no ledger.
LEMMA QuietStepKeepsSerial ==
  ASSUME SerialInv, ReadInv', UNCHANGED approved,
         \A e \in Evidence : Len(decisions[e]) <= Len(decisions'[e]),
         \A p \in Projections :
            proj'[p] = proj[p] \/ (proj[p].pc = "read" /\ proj'[p].pc \notin {"read", "saved"})
  PROVE  SerialInv'
<1>1. \A p \in Projections : proj'[p].pc = "read" => proj'[p] = proj[p]
  OBVIOUS
<1>2. \A p \in Projections : proj[p].pc = "saved" => proj'[p] = proj[p]
  OBVIOUS
<1>3. AloneIsAlone' /\ AloneHasReadAll'
  BY <1>1 DEF SerialInv, AloneIsAlone, AloneHasReadAll
<1>4. ASSUME NEW e \in Evidence, NEW m \in DOMAIN approved[e]
      PROVE  /\ approved[e][m].seen <= Len(decisions'[e])
             /\ proj'[approved[e][m].by].pc = "saved"
             /\ proj'[approved[e][m].by] = proj[approved[e][m].by]
  <2>1. approved[e][m].seen <= Len(decisions[e]) /\ proj[approved[e][m].by].pc = "saved"
    BY DEF SerialInv, SavedFromLedger
  <2>2. approved[e][m].seen \in Nat /\ approved[e][m].by \in Projections
    BY AggregateFields DEF SerialInv, ReadInv
  <2>3. Len(decisions[e]) \in Nat /\ Len(decisions'[e]) \in Nat
    BY DEF SerialInv, ReadInv, TypeOK
  <2> QED  BY <1>2, <2>1, <2>2, <2>3
<1>5. SavedFromLedger' /\ SerialProjectionsAdvance'
  BY <1>4 DEF SerialInv, SavedFromLedger, SerialProjectionsAdvance
<1> QED  BY <1>3, <1>5 DEF SerialInv

LEMMA StartKeepsSerial ==
  ASSUME SerialInv, ReadInv', NEW p \in Projections, NEW e \in Evidence, StartProjection(p, e)
  PROVE  SerialInv'
<1>1. UNCHANGED <<decisions, approved>> /\ proj[p].pc = "idle"
  BY DEF StartProjection
<1>2. /\ proj'[p].pc = "read" /\ proj'[p].evidence = e
      /\ proj'[p].seen = Len(decisions[e]) /\ proj'[p].alone = (InFlightFor(e) = {})
  BY DEF StartProjection
<1>3. ASSUME NEW q \in Projections \ {p}
      PROVE  /\ proj'[q].pc = proj[q].pc
             /\ proj[q].pc = "read" => /\ proj'[q].evidence = proj[q].evidence
                                       /\ proj'[q].seen = proj[q].seen
             /\ q \in InFlightFor(e) => ~proj'[q].alone
             /\ q \notin InFlightFor(e) => proj'[q] = proj[q]
  <2>1. CASE q \in InFlightFor(e)
    <3>1. proj[q] \in [pc : {"read", "saved", "refused", "lost"}, evidence : Evidence,
                       read : Seq(Decision), seen : Nat, alone : BOOLEAN]
      BY <2>1 DEF InFlightFor, SerialInv, ReadInv, TypeOK, Projection, Idle
    <3>2. proj'[q] = [proj[q] EXCEPT !.alone = FALSE]
      BY <2>1 DEF StartProjection
    <3> QED  BY <2>1, <3>1, <3>2
  <2>2. CASE q \notin InFlightFor(e)
    BY <2>2 DEF StartProjection
  <2> QED  BY <2>1, <2>2
<1>4. AloneIsAlone'
  <2> SUFFICES ASSUME NEW q \in Projections, NEW t \in Projections,
                      proj'[q].pc = "read", proj'[q].alone,
                      proj'[t].pc = "read", proj'[t].evidence = proj'[q].evidence
               PROVE  q = t
    BY DEF AloneIsAlone
  <2>1. CASE q = p
    <3>1. InFlightFor(e) = {}
      BY <1>2, <2>1
    <3>2. t # p => t \in InFlightFor(e)
      BY <1>2, <1>3, <2>1 DEF InFlightFor
    <3> QED  BY <2>1, <3>1, <3>2
  <2>2. CASE q # p
    <3>1. q \notin InFlightFor(e) /\ proj'[q] = proj[q]
      BY <1>3, <2>2
    <3>2. t # p
      BY <1>2, <3>1 DEF InFlightFor
    <3> QED  BY <1>3, <3>1, <3>2 DEF SerialInv, AloneIsAlone
  <2> QED  BY <2>1, <2>2
<1>5. AloneHasReadAll'
  <2> SUFFICES ASSUME NEW q \in Projections, proj'[q].pc = "read", proj'[q].alone,
                      NEW m \in DOMAIN approved[proj'[q].evidence]
               PROVE  approved[proj'[q].evidence][m].seen <= proj'[q].seen
    BY <1>1 DEF AloneHasReadAll
  <2>1. CASE q = p
    BY <1>2, <2>1 DEF SerialInv, SavedFromLedger
  <2>2. CASE q # p
    BY <1>3, <2>2 DEF SerialInv, AloneHasReadAll
  <2> QED  BY <2>1, <2>2
<1>6. ASSUME NEW f \in Evidence, NEW m \in DOMAIN approved[f]
      PROVE  proj'[approved[f][m].by] = proj[approved[f][m].by]
  <2>1. proj[approved[f][m].by].pc = "saved" /\ approved[f][m].by \in Projections
    BY AggregateFields DEF SerialInv, ReadInv, SavedFromLedger
  <2> QED  BY <1>1, <1>3, <2>1 DEF InFlightFor
<1>7. SavedFromLedger' /\ SerialProjectionsAdvance'
  BY <1>1, <1>6 DEF SerialInv, SavedFromLedger, SerialProjectionsAdvance
<1> QED  BY <1>4, <1>5, <1>7 DEF SerialInv

\* A projection that refuses the decisions it read.
LEMMA RefuseKeepsSerial ==
  ASSUME SerialInv, ReadInv', NEW p \in Projections, SaveProjection(p),
         ~SameDocument(proj[p].read)
  PROVE  SerialInv'
<1>1. proj[p] \in [pc : {"read", "saved", "refused", "lost"}, evidence : Evidence,
                   read : Seq(Decision), seen : Nat, alone : BOOLEAN]
  BY DEF SaveProjection, SerialInv, ReadInv, TypeOK, Projection, Idle
<1>2. /\ proj' = [proj EXCEPT ![p] = [proj[p] EXCEPT !.pc = "refused"]]
      /\ UNCHANGED <<decisions, approved>> /\ proj[p].pc = "read"
  BY DEF SaveProjection
<1>3. \A e \in Evidence : Len(decisions[e]) \in Nat
  BY DEF SerialInv, ReadInv, TypeOK
<1>4. \A q \in Projections :
         proj'[q] = proj[q] \/ (proj[q].pc = "read" /\ proj'[q].pc \notin {"read", "saved"})
  BY <1>1, <1>2 DEF SerialInv, ReadInv, TypeOK
<1>5. \A e \in Evidence : Len(decisions[e]) <= Len(decisions'[e])
  BY <1>2, <1>3
<1> QED  BY <1>2, <1>4, <1>5, QuietStepKeepsSerial

\* A projection that saves its aggregate.
LEMMA PublishKeepsSerial ==
  ASSUME SerialInv, ReadInv', NEW p \in Projections, SaveProjection(p),
         SameDocument(proj[p].read)
  PROVE  SerialInv'
<1>1. PICK e \in Evidence, n \in Nat, ds \in Seq(Decision), b \in BOOLEAN :
         e = proj[p].evidence /\ n = proj[p].seen /\ ds = proj[p].read /\ b = proj[p].alone
  BY ReadFields DEF SerialInv, ReadInv, SaveProjection
<1> DEFINE k == Len(approved[e])
           x == BuildAggregate(ds, n, p)
<1>2. /\ UNCHANGED decisions /\ proj[p].pc = "read"
      /\ proj' = [proj EXCEPT ![p] = [proj[p] EXCEPT !.pc = "saved"]]
      /\ approved' = [approved EXCEPT ![e] = Append(@, x)]
  BY <1>1 DEF SaveProjection
<1>3. /\ proj'[p].pc = "saved" /\ proj'[p].alone = b
      /\ \A q \in Projections \ {p} : proj'[q] = proj[q]
  <2>1. proj[p] \in [pc : {"read", "saved", "refused", "lost"}, evidence : Evidence,
                     read : Seq(Decision), seen : Nat, alone : BOOLEAN]
    BY <1>2 DEF SerialInv, ReadInv, TypeOK, Projection, Idle
  <2> QED  BY <1>1, <1>2, <2>1 DEF SerialInv, ReadInv, TypeOK
<1>4. x.seen = n /\ x.by = p /\ n <= Len(decisions[e])
  BY <1>1, <1>2 DEF BuildAggregate, SerialInv, ReadInv, ReadsAreFromLedger
<1>5. /\ k \in Nat /\ DOMAIN approved[e] = 1..k /\ DOMAIN approved'[e] = 1..(k + 1)
      /\ \A m \in 1..k : approved'[e][m] = approved[e][m]
      /\ approved'[e][k + 1] = x
      /\ \A f \in Evidence \ {e} : approved'[f] = approved[f]
  <2>1. approved[e] \in Seq(Aggregate) /\ x \in Aggregate
    BY AggregateType DEF SerialInv, ReadInv, TypeOK
  <2> HIDE DEF x
  <2> QED  BY <1>2, <2>1 DEF SerialInv, ReadInv, TypeOK
<1> HIDE DEF x, k
<1>6. ASSUME NEW f \in Evidence, NEW m \in DOMAIN approved'[f], ~(f = e /\ m = k + 1)
      PROVE  m \in DOMAIN approved[f] /\ approved'[f][m] = approved[f][m]
  BY <1>5, <1>6
<1>7. AloneIsAlone'
  BY <1>3 DEF SerialInv, AloneIsAlone
<1>8. AloneHasReadAll'
  <2> SUFFICES ASSUME NEW q \in Projections, proj'[q].pc = "read", proj'[q].alone
               PROVE  \A m \in DOMAIN approved'[proj'[q].evidence] :
                         approved'[proj'[q].evidence][m].seen <= proj'[q].seen
    BY DEF AloneHasReadAll
  <2>1. q # p /\ proj'[q] = proj[q]
    BY <1>3
  <2>2. proj[q].evidence \in Evidence \ {e}
    BY <1>1, <1>2, <2>1, ReadFields DEF SerialInv, ReadInv, AloneIsAlone
  <2> QED  BY <1>5, <2>1, <2>2 DEF SerialInv, AloneHasReadAll
<1>9. SavedFromLedger'
  <2> SUFFICES ASSUME NEW f \in Evidence, NEW m \in DOMAIN approved'[f]
               PROVE  /\ approved'[f][m].seen <= Len(decisions[f])
                      /\ proj'[approved'[f][m].by].pc = "saved"
    BY <1>2 DEF SavedFromLedger
  <2>1. CASE f = e /\ m = k + 1
    BY <1>3, <1>4, <1>5, <2>1
  <2>2. CASE ~(f = e /\ m = k + 1)
    BY <1>3, <1>6, <2>2, AggregateFields DEF SerialInv, ReadInv, SavedFromLedger
  <2> QED  BY <2>1, <2>2
<1>10. SerialProjectionsAdvance'
  <2> SUFFICES ASSUME NEW f \in Evidence, NEW l \in DOMAIN approved'[f],
                      NEW m \in DOMAIN approved'[f], l < m,
                      proj'[approved'[f][m].by].alone
               PROVE  approved'[f][l].seen <= approved'[f][m].seen
    BY DEF SerialProjectionsAdvance
  <2>1. CASE f = e /\ m = k + 1
    <3>1. l \in 1..k /\ approved'[f][l] = approved[e][l]
      BY <1>5, <2>1
    <3>2. proj[p].alone
      BY <1>1, <1>3, <1>4, <1>5, <2>1
    <3>3. approved[e][l].seen <= n
      BY <1>1, <1>2, <1>5, <3>1, <3>2 DEF SerialInv, AloneHasReadAll
    <3> QED  BY <1>4, <1>5, <2>1, <3>1, <3>3
  <2>2. CASE ~(f = e /\ m = k + 1)
    <3>1. /\ m \in DOMAIN approved[f] /\ approved'[f][m] = approved[f][m]
          /\ l \in DOMAIN approved[f] /\ approved'[f][l] = approved[f][l]
      BY <1>5, <2>2
    <3>2. approved[f][m].by \in Projections \ {p}
      BY <1>2, <3>1, AggregateFields DEF SerialInv, ReadInv, SavedFromLedger
    <3>3. proj[approved[f][m].by].alone
      BY <1>3, <3>1, <3>2
    <3> QED  BY <3>1, <3>3 DEF SerialInv, SerialProjectionsAdvance
  <2> QED  BY <2>1, <2>2
<1> QED  BY <1>7, <1>8, <1>9, <1>10 DEF SerialInv

\* A projection that no other projection of the evidence overlapped never
\* publishes less than was published before.
THEOREM SerialAdvance == Spec => []SerialProjectionsAdvance
<1> DEFINE I == /\ AloneIsAlone
                /\ AloneHasReadAll
                /\ SavedFromLedger
                /\ SerialProjectionsAdvance
<1>1. Init => I
  BY DEF Init, AloneIsAlone, AloneHasReadAll, SavedFromLedger, SerialProjectionsAdvance, Idle
<1>2. ReadInv /\ ReadInv' /\ I /\ [Next]_vars => I'
  <2> SUFFICES ASSUME SerialInv, ReadInv', [Next]_vars PROVE SerialInv'
    BY DEF SerialInv
  <2>1. \A e \in Evidence : Len(decisions[e]) \in Nat
    BY DEF SerialInv, ReadInv, TypeOK
  <2>2. CASE UNCHANGED <<decisions, approved, proj>>
    <3>1. \A e \in Evidence : Len(decisions[e]) <= Len(decisions'[e])
      BY <2>1, <2>2
    <3> QED  BY <2>2, <3>1, QuietStepKeepsSerial
  <2>3. ASSUME NEW s \in Submissions, SaveDecision(s) PROVE SerialInv'
    <3>1. PICK e \in Evidence, x \in Decision : e = sub[s].evidence /\ x = sub[s].record
      BY <2>3, StampedFields DEF SerialInv, ReadInv, SaveDecision
    <3>2. \A f \in Evidence : Len(decisions[f]) <= Len(decisions'[f])
      BY <2>1, <2>3, <3>1 DEF SaveDecision, SerialInv, ReadInv, TypeOK
    <3> QED  BY <2>3, <3>2, QuietStepKeepsSerial DEF SaveDecision
  <2>4. CASE Restart
    <3>1. \A q \in Projections :
             proj'[q] = proj[q] \/ (proj[q].pc = "read" /\ proj'[q].pc = "lost")
      <4> SUFFICES ASSUME NEW q \in Projections, proj[q].pc = "read"
                   PROVE  proj'[q].pc = "lost"
        BY <2>4 DEF Restart
      <4>1. proj[q] \in [pc : {"read", "saved", "refused", "lost"}, evidence : Evidence,
                         read : Seq(Decision), seen : Nat, alone : BOOLEAN]
        BY DEF SerialInv, ReadInv, TypeOK, Projection, Idle
      <4> QED  BY <2>4, <4>1 DEF Restart
    <3>2. \A e \in Evidence : Len(decisions[e]) <= Len(decisions'[e])
      BY <2>1, <2>4 DEF Restart
    <3> QED  BY <2>4, <3>1, <3>2, QuietStepKeepsSerial DEF Restart
  <2>5. ASSUME NEW p \in Projections, SaveProjection(p) PROVE SerialInv'
    BY <2>5, RefuseKeepsSerial, PublishKeepsSerial
  <2>6. \/ UNCHANGED <<decisions, approved, proj>> \/ Restart
        \/ \E s \in Submissions : SaveDecision(s)
        \/ \E p \in Projections : SaveProjection(p)
        \/ \E p \in Projections, e \in Evidence : StartProjection(p, e)
    BY DEF Next, vars, Tick, SubmitDecision
  <2> QED  BY <2>2, <2>3, <2>4, <2>5, <2>6, StartKeepsSerial
<1>3. I => SerialProjectionsAdvance
  OBVIOUS
<1> QED  BY <1>1, <1>2, <1>3, ReadInvariant, PTL DEF Spec

-----------------------------------------------------------------------------
(* What an aggregate says.  In every prefix of a ledger each field that was *)
(* decided has a newest decision: appending a decision leaves the newest    *)
(* one of every other field and makes a choice between two for its own.     *)

HasNewest(ds) == \A i \in DOMAIN ds : \E k \in DOMAIN ds : NewestOn(ds, ds[i].field, k)

\* What LatestDecisionWins asks of an aggregate a of the decisions ds.
TellsTheTruth(a, ds) ==
  /\ \A i \in DOMAIN ds : NewestOn(ds, ds[i].field, i) =>
        (ds[i] \in a.fields) = (ds[i].decision \in {"accepted", "edited"})
  /\ \A x \in a.fields : \E i \in DOMAIN ds : ds[i] = x /\ NewestOn(ds, x.field, i)
  /\ a.review_status = "approved" =>
        \A i \in DOMAIN ds : \E x \in a.fields : x.field = ds[i].field
  /\ a.review_status = "in_review" => ds = <<>>

LEMMA HasNewestAppend ==
  ASSUME NEW ds \in Seq(Decision), HasNewest(ds), NEW x \in Decision
  PROVE  HasNewest(Append(ds, x))
<1> DEFINE es == Append(ds, x)
           n == Len(ds) + 1
<1>1. /\ DOMAIN ds = 1..Len(ds) /\ Len(ds) \in Nat
      /\ DOMAIN es = DOMAIN ds \cup {n} /\ es[n] = x
      /\ \A i \in DOMAIN ds : es[i] = ds[i] /\ i \in Nat /\ i < n
  OBVIOUS
<1>2. /\ n \in Nat /\ \A i \in DOMAIN es : es[i].at \in Nat
  <2>1. \A i \in DOMAIN es : es[i] \in Decision
    BY <1>1
  <2>2. \A y \in Decision : y.at \in Nat
    BY ReviewProjectionAssumption DEF Decision
  <2> QED  BY <1>1, <2>1, <2>2
<1> HIDE DEF es, n
<1>3. \A i, k \in DOMAIN ds : Supersedes(es, i, k) <=> Supersedes(ds, i, k)
  BY <1>1 DEF Supersedes
<1>4. ASSUME NEW i \in DOMAIN ds, NEW k \in DOMAIN ds, NewestOn(ds, ds[i].field, k)
      PROVE  \E j \in DOMAIN es : NewestOn(es, ds[i].field, j)
  <2>1. ds[k].field = ds[i].field
        /\ \A l \in DOMAIN ds : ds[l].field = ds[i].field => ~Supersedes(ds, l, k)
    BY <1>4 DEF NewestOn
  <2>2. CASE x.field # ds[i].field \/ ~Supersedes(es, n, k)
    <3>1. NewestOn(es, ds[i].field, k)
      BY <1>1, <1>3, <2>1, <2>2 DEF NewestOn
    <3> QED  BY <1>1, <3>1
  <2>3. CASE x.field = ds[i].field /\ Supersedes(es, n, k)
    <3>1. x.at >= ds[k].at
      BY <1>1, <1>2, <2>3 DEF Supersedes
    <3>2. ASSUME NEW l \in DOMAIN es, es[l].field = ds[i].field
          PROVE  ~Supersedes(es, l, n)
      <4>1. CASE l = n
        BY <1>1, <1>2, <4>1 DEF Supersedes
      <4>2. CASE l \in DOMAIN ds
        <5>1. ~Supersedes(ds, l, k)
          BY <1>1, <2>1, <3>2, <4>2
        <5>2. ds[l].at <= ds[k].at
          BY <1>1, <1>2, <4>2, <5>1 DEF Supersedes
        <5> QED  BY <1>1, <1>2, <3>1, <4>2, <5>2 DEF Supersedes
      <4> QED  BY <1>1, <4>1, <4>2
    <3>3. NewestOn(es, ds[i].field, n)
      BY <1>1, <2>3, <3>2 DEF NewestOn
    <3> QED  BY <1>1, <3>3
  <2> QED  BY <2>2, <2>3
<1>5. ASSUME NEW i \in DOMAIN es PROVE \E j \in DOMAIN es : NewestOn(es, es[i].field, j)
  <2>1. CASE i \in DOMAIN ds
    BY <1>1, <1>4, <2>1 DEF HasNewest
  <2>2. CASE i = n /\ \E l \in DOMAIN ds : ds[l].field = x.field
    <3>1. PICK l \in DOMAIN ds : ds[l].field = x.field
      BY <2>2
    <3> QED  BY <1>1, <1>4, <2>2, <3>1 DEF HasNewest
  <2>3. CASE i = n /\ ~\E l \in DOMAIN ds : ds[l].field = x.field
    <3>1. ~Supersedes(es, n, n)
      BY <1>1, <1>2 DEF Supersedes
    <3>2. NewestOn(es, es[i].field, n)
      BY <1>1, <2>3, <3>1 DEF NewestOn
    <3> QED  BY <1>1, <3>2
  <2> QED  BY <1>1, <2>1, <2>2, <2>3
<1> QED  BY <1>5 DEF HasNewest, es

LEMMA AggregateTellsTheTruth ==
  ASSUME NEW ds \in Seq(Decision), HasNewest(ds), NEW n, NEW p
  PROVE  TellsTheTruth(BuildAggregate(ds, n, p), ds)
<1> DEFINE a == BuildAggregate(ds, n, p)
<1>1. a.fields = ApprovedFields(ds) /\ a.review_status = StatusOf(ds)
  BY DEF BuildAggregate
<1> HIDE DEF a
<1>2. \A i \in DOMAIN ds :
        i \in LatestDecisionPerField(ds) <=> NewestOn(ds, ds[i].field, i)
  BY DEF LatestDecisionPerField, NewestOn
<1>3. \A x \in a.fields : \E i \in DOMAIN ds :
        /\ ds[i] = x /\ NewestOn(ds, x.field, i) /\ x.decision \in {"accepted", "edited"}
  BY <1>1, <1>2 DEF ApprovedFields, APPROVED_DECISIONS, LatestDecisionPerField
<1>4. ASSUME NEW i \in DOMAIN ds, NewestOn(ds, ds[i].field, i),
             ds[i].decision \in {"accepted", "edited"}
      PROVE  ds[i] \in a.fields
  BY <1>1, <1>2, <1>4 DEF ApprovedFields, APPROVED_DECISIONS
<1>5. ASSUME NEW i \in DOMAIN ds
      PROVE  \E k \in LatestDecisionPerField(ds) : k \in DOMAIN ds /\ ds[k].field = ds[i].field
  <2>1. PICK k \in DOMAIN ds : NewestOn(ds, ds[i].field, k)
    BY DEF HasNewest
  <2>2. ds[k].field = ds[i].field /\ k \in LatestDecisionPerField(ds)
    BY <1>2, <2>1 DEF NewestOn
  <2> QED  BY <2>2
<1>6. ASSUME a.review_status = "approved", NEW i \in DOMAIN ds
      PROVE  \E x \in a.fields : x.field = ds[i].field
  <2>1. PICK k \in LatestDecisionPerField(ds) : k \in DOMAIN ds /\ ds[k].field = ds[i].field
    BY <1>5
  <2>2. ds[k].decision \in {"accepted", "edited"}
    BY <1>1, <1>6, <2>1 DEF StatusOf, APPROVED_DECISIONS
  <2>3. ds[k] \in a.fields
    BY <1>2, <1>4, <2>1, <2>2
  <2> QED  BY <2>1, <2>3
<1>7. ASSUME a.review_status = "in_review" PROVE ds = <<>>
  <2>1. LatestDecisionPerField(ds) = {}
    BY <1>1, <1>7 DEF StatusOf
  <2>2. DOMAIN ds = {}
    BY <1>5, <2>1
  <2> QED  BY <2>2
<1>8. TellsTheTruth(a, ds)
  BY <1>3, <1>4, <1>6, <1>7 DEF TellsTheTruth
<1> QED  BY <1>8 DEF a

PrefixesHaveNewest ==
  \A e \in Evidence : \A n \in 0..Len(decisions[e]) : HasNewest(SubSeq(decisions[e], 1, n))

\* Every aggregate is what the service builds from a prefix of the ledger.
AggregatesAreBuilt ==
  \A e \in Evidence : \A m \in DOMAIN approved[e] :
    LET a == approved[e][m]
        ds == SubSeq(decisions[e], 1, a.seen)
    IN  /\ a.seen \in 0..Len(decisions[e])
        /\ a = BuildAggregate(ds, a.seen, a.by)
        /\ SameDocument(ds)

TruthInv == ReadInv /\ PrefixesHaveNewest /\ AggregatesAreBuilt

LEMMA QuietStepKeepsTruth ==
  ASSUME TruthInv, UNCHANGED <<decisions, approved>>
  PROVE  PrefixesHaveNewest' /\ AggregatesAreBuilt'
  BY DEF TruthInv, PrefixesHaveNewest, AggregatesAreBuilt

LEMMA SaveDecisionKeepsTruth ==
  ASSUME TruthInv, NEW s \in Submissions, SaveDecision(s)
  PROVE  PrefixesHaveNewest' /\ AggregatesAreBuilt'
<1>1. PICK e \in Evidence, x \in Decision : e = sub[s].evidence /\ x = sub[s].record
  BY StampedFields DEF TruthInv, ReadInv, SaveDecision
<1>2. /\ decisions[e] \in Seq(Decision) /\ Len(decisions[e]) \in Nat
      /\ decisions'[e] = Append(decisions[e], x)
      /\ \A f \in Evidence \ {e} : decisions'[f] = decisions[f]
      /\ UNCHANGED approved
  BY <1>1 DEF SaveDecision, TruthInv, ReadInv, TypeOK
<1>3. Len(decisions'[e]) = Len(decisions[e]) + 1
  BY <1>2
<1>4. \A n \in 0..Len(decisions[e]) :
        SubSeq(decisions'[e], 1, n) = SubSeq(decisions[e], 1, n)
  BY <1>2, PrefixStable
<1>5. ASSUME NEW f \in Evidence, NEW n \in 0..Len(decisions'[f])
      PROVE  HasNewest(SubSeq(decisions'[f], 1, n))
  <2>1. CASE f # e
    BY <1>2, <1>5, <2>1 DEF TruthInv, PrefixesHaveNewest
  <2>2. CASE f = e /\ n <= Len(decisions[e])
    <3>1. n \in 0..Len(decisions[e])
      BY <1>2, <1>3, <2>2
    <3> QED  BY <1>4, <2>2, <3>1 DEF TruthInv, PrefixesHaveNewest
  <2>3. CASE f = e /\ n = Len(decisions[e]) + 1
    <3>1. HasNewest(SubSeq(decisions[e], 1, Len(decisions[e])))
      BY <1>2 DEF TruthInv, PrefixesHaveNewest
    <3>2. HasNewest(decisions[e])
      BY <1>2, <3>1, WholePrefix
    <3>3. HasNewest(decisions'[e])
      BY <1>2, <3>2, HasNewestAppend
    <3>4. decisions'[e] \in Seq(Decision) /\ n = Len(decisions'[e])
      BY <1>2, <1>3, <2>3
    <3> QED  BY <2>3, <3>3, <3>4, WholePrefix
  <2> QED  BY <1>2, <1>3, <2>1, <2>2, <2>3
<1>6. ASSUME NEW f \in Evidence, NEW m \in DOMAIN approved[f]
      PROVE  LET a == approved[f][m]
             IN  /\ a.seen \in 0..Len(decisions'[f])
                 /\ SubSeq(decisions'[f], 1, a.seen) = SubSeq(decisions[f], 1, a.seen)
  <2>1. approved[f][m].seen \in 0..Len(decisions[f])
    BY <1>6 DEF TruthInv, AggregatesAreBuilt
  <2>2. CASE f = e
    BY <1>2, <1>3, <1>4, <2>1, <2>2
  <2>3. CASE f # e
    BY <1>2, <2>1, <2>3
  <2> QED  BY <2>2, <2>3
<1>7. AggregatesAreBuilt'
  BY <1>2, <1>6 DEF TruthInv, AggregatesAreBuilt
<1> QED  BY <1>5, <1>7 DEF PrefixesHaveNewest

LEMMA SaveProjectionKeepsTruth ==
  ASSUME TruthInv, NEW p \in Projections, SaveProjection(p)
  PROVE  PrefixesHaveNewest' /\ AggregatesAreBuilt'
<1>1. PICK e \in Evidence, n \in Nat, ds \in Seq(Decision) :
         e = proj[p].evidence /\ n = proj[p].seen /\ ds = proj[p].read
  BY ReadFields DEF TruthInv, ReadInv, SaveProjection
<1>2. UNCHANGED decisions
  BY DEF SaveProjection
<1>3. CASE ~SameDocument(ds)
  BY <1>1, <1>2, <1>3, QuietStepKeepsTruth DEF SaveProjection
<1>4. CASE SameDocument(ds)
  <2> DEFINE x == BuildAggregate(ds, n, p)
  <2>1. approved' = [approved EXCEPT ![e] = Append(@, x)]
    BY <1>1, <1>4 DEF SaveProjection
  <2>2. n \in 0..Len(decisions[e]) /\ ds = SubSeq(decisions[e], 1, n)
    <3>1. Len(decisions[e]) \in Nat
      BY DEF TruthInv, ReadInv, TypeOK
    <3> QED  BY <1>1, <3>1 DEF TruthInv, ReadInv, SaveProjection, ReadsAreFromLedger
  <2>3. x.seen = n /\ x.by = p /\ x \in Aggregate
    BY AggregateType DEF BuildAggregate
  <2>4. x = BuildAggregate(SubSeq(decisions[e], 1, x.seen), x.seen, x.by)
        /\ SameDocument(SubSeq(decisions[e], 1, x.seen))
        /\ x.seen \in 0..Len(decisions[e])
    BY <1>4, <2>2, <2>3
  <2>5. approved[e] \in Seq(Aggregate) /\ approved \in [Evidence -> Seq(Aggregate)]
    BY DEF TruthInv, ReadInv, TypeOK
  <2> HIDE DEF x
  <2>6. ASSUME NEW f \in Evidence, NEW m \in DOMAIN approved'[f]
        PROVE  \/ m \in DOMAIN approved[f] /\ approved'[f][m] = approved[f][m]
               \/ f = e /\ approved'[f][m] = x
    BY <2>1, <2>3, <2>5, <2>6
  <2>7. AggregatesAreBuilt'
    BY <1>2, <2>4, <2>6 DEF TruthInv, AggregatesAreBuilt
  <2> QED  BY <1>2, <2>7 DEF TruthInv, PrefixesHaveNewest
<1> QED  BY <1>3, <1>4

LEMMA TruthInvariant == Spec => [](PrefixesHaveNewest /\ AggregatesAreBuilt /\ ReadInv)
<1>1. Init => PrefixesHaveNewest /\ AggregatesAreBuilt
  <2> SUFFICES ASSUME Init PROVE PrefixesHaveNewest /\ AggregatesAreBuilt
    OBVIOUS
  <2>1. \A e \in Evidence : decisions[e] = <<>> /\ approved[e] = <<>>
    BY DEF Init
  <2>2. DOMAIN SubSeq(<<>>, 1, 0) = {} /\ Len(<<>>) = 0 /\ DOMAIN <<>> = {}
    OBVIOUS
  <2>3. \A n \in 0..0 : n = 0
    OBVIOUS
  <2> QED  BY <2>1, <2>2, <2>3 DEF PrefixesHaveNewest, AggregatesAreBuilt, HasNewest
<1>2. ReadInv /\ (PrefixesHaveNewest /\ AggregatesAreBuilt) /\ [Next]_vars
         => (PrefixesHaveNewest /\ AggregatesAreBuilt)'
  <2> SUFFICES ASSUME TruthInv, [Next]_vars PROVE PrefixesHaveNewest' /\ AggregatesAreBuilt'
    BY DEF TruthInv
  <2>1. \/ UNCHANGED <<decisions, approved>>
        \/ \E s \in Submissions : SaveDecision(s)
        \/ \E p \in Projections : SaveProjection(p)
    BY DEF Next, vars, Tick, SubmitDecision, StartProjection, Restart
  <2> QED  BY <2>1, QuietStepKeepsTruth, SaveDecisionKeepsTruth, SaveProjectionKeepsTruth
<1> QED  BY <1>1, <1>2, ReadInvariant, PTL DEF Spec

\* A saved aggregate tells the truth about the ledger that its projection read:
\* its fields are those whose newest decision approves, and "approved" and
\* "in_review" are said only of a ledger they fit.
THEOREM LatestWins == Spec => []LatestDecisionWins
<1>1. TruthInv => LatestDecisionWins
  <2> SUFFICES ASSUME TruthInv, NEW e \in Evidence, NEW m \in DOMAIN approved[e]
               PROVE  TellsTheTruth(approved[e][m],
                                    SubSeq(decisions[e], 1, approved[e][m].seen))
    BY DEF LatestDecisionWins, TellsTheTruth
  <2> DEFINE a == approved[e][m]
             ds == SubSeq(decisions[e], 1, a.seen)
  <2>1. a.seen \in 0..Len(decisions[e]) /\ a = BuildAggregate(ds, a.seen, a.by)
    BY DEF TruthInv, AggregatesAreBuilt
  <2>2. ds \in Seq(Decision) /\ HasNewest(ds)
    <3>1. decisions[e] \in Seq(Decision)
      BY DEF TruthInv, ReadInv, TypeOK
    <3> QED  BY <2>1, <3>1 DEF TruthInv, PrefixesHaveNewest
  <2> HIDE DEF ds, a
  <2>3. TellsTheTruth(BuildAggregate(ds, a.seen, a.by), ds)
    BY <2>2, AggregateTellsTheTruth
  <2> QED  BY <2>1, <2>3 DEF a, ds
<1> QED  BY <1>1, TruthInvariant, PTL DEF TruthInv

\* No aggregate mixes decisions on two documents: a projection of a ledger that
\* does is refused.
THEOREM OneDocument == Spec => []OneDocumentPerProjection
<1>1. TruthInv => OneDocumentPerProjection
  <2> SUFFICES ASSUME TruthInv, NEW e \in Evidence, NEW m \in DOMAIN approved[e],
                      NEW i \in 1..approved[e][m].seen, NEW j \in 1..approved[e][m].seen
               PROVE  decisions[e][i].document = decisions[e][j].document
    BY DEF OneDocumentPerProjection
  <2> DEFINE n == approved[e][m].seen
             ds == SubSeq(decisions[e], 1, n)
  <2>1. n \in 0..Len(decisions[e]) /\ SameDocument(ds)
    BY DEF TruthInv, AggregatesAreBuilt
  <2>2. decisions[e] \in Seq(Decision)
    BY DEF TruthInv, ReadInv, TypeOK
  <2>3. DOMAIN ds = 1..n /\ \A k \in 1..n : ds[k] = decisions[e][k]
    BY <2>1, <2>2
  <2> HIDE DEF ds, n
  <2> QED  BY <2>1, <2>3 DEF SameDocument, n
<1> QED  BY <1>1, TruthInvariant, PTL DEF TruthInv

\* Whatever the order in which submissions are appended, the newest decision on
\* a field is never one that was reviewed earlier than the one before it.
THEOREM NewestNeverRegresses == Spec => NewestDecisionNeverRegresses
<1> DEFINE A == \A e \in Evidence : \A i \in LatestDecisionPerField(decisions[e]) :
         \A k \in LatestDecisionPerField(decisions'[e]) :
            decisions'[e][k].field = decisions[e][i].field =>
                decisions'[e][k].at >= decisions[e][i].at
<1>1. ReadInv /\ ReadInv' /\ [Next]_vars => [A]_vars
  <2> SUFFICES ASSUME ReadInv, ReadInv', Next \/ UNCHANGED vars, NEW e \in Evidence,
                      NEW i \in LatestDecisionPerField(decisions[e]),
                      NEW k \in LatestDecisionPerField(decisions'[e]),
                      decisions'[e][k].field = decisions[e][i].field
               PROVE  decisions'[e][k].at >= decisions[e][i].at
    OBVIOUS
  <2>1. i \in DOMAIN decisions[e] /\ k \in DOMAIN decisions'[e]
    BY DEF LatestDecisionPerField
  <2>2. i \in DOMAIN decisions'[e] /\ decisions'[e][i] = decisions[e][i]
    <3>1. CASE UNCHANGED decisions
      BY <2>1, <3>1
    <3>2. CASE \E s \in Submissions : SaveDecision(s)
      <4>1. PICK s \in Submissions : SaveDecision(s)
        BY <3>2
      <4>2. PICK f \in Evidence, x \in Decision : f = sub[s].evidence /\ x = sub[s].record
        BY <4>1, StampedFields DEF ReadInv, SaveDecision
      <4>3. decisions' = [decisions EXCEPT ![f] = Append(@, x)]
            /\ decisions \in [Evidence -> Seq(Decision)]
        BY <4>1, <4>2 DEF SaveDecision, ReadInv, TypeOK
      <4> QED  BY <2>1, <4>3
    <3>3. UNCHANGED decisions \/ \E s \in Submissions : SaveDecision(s)
      BY DEF Next, vars, Tick, SubmitDecision, StartProjection, SaveProjection, Restart
    <3> QED  BY <3>1, <3>2, <3>3
  <2>3. decisions'[e][i].at \in Nat /\ decisions'[e][k].at \in Nat
    <3>1. decisions'[e] \in Seq(Decision)
      BY DEF ReadInv, TypeOK
    <3>2. decisions'[e][i] \in Decision /\ decisions'[e][k] \in Decision
      BY <2>1, <2>2, <3>1
    <3> QED  BY <3>2, ReviewProjectionAssumption DEF Decision
  <2>4. ~Supersedes(decisions'[e], i, k)
    BY <2>2 DEF LatestDecisionPerField
  <2> QED  BY <2>2, <2>3, <2>4 DEF Supersedes
<1> QED  BY <1>1, ReadInvariant, PTL DEF Spec, NewestDecisionNeverRegresses
=============================================================================
