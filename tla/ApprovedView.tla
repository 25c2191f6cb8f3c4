---------------------------- MODULE ApprovedView ----------------------------
(***************************************************************************)
(* What approved evidence is, whoever computes it: reviewers add decisions *)
(* to the ledger of an evidence item, and from time to time the view of    *)
(* some moment of that ledger is published.  In a view a field is approved *)
(* by its newest decision, if that decision approves.  Newest means the    *)
(* latest reviewed_at and, among equals, the last in the ledger.           *)
(* ReviewProjection implements this specification.                         *)
(***************************************************************************)
EXTENDS Naturals, Sequences

CONSTANTS Evidence, Decisions

VARIABLES ledger,     \* [Evidence -> Seq(Decisions)]
          published   \* [Evidence -> Seq(SUBSET Decisions)]

vars == <<ledger, published>>

Approving(d) == d.decision \in {"accepted", "edited"}

Newer(ds, i, j) == \/ ds[i].at > ds[j].at
                   \/ ds[i].at = ds[j].at /\ i > j

View(ds) == {ds[i] : i \in {j \in DOMAIN ds :
                /\ Approving(ds[j])
                /\ \A k \in DOMAIN ds : ds[k].field = ds[j].field => ~Newer(ds, k, j)}}

Init == /\ ledger = [e \in Evidence |-> <<>>]
        /\ published = [e \in Evidence |-> <<>>]

Decide(e, d) ==
    /\ ledger' = [ledger EXCEPT ![e] = Append(@, d)]
    /\ UNCHANGED published

Publish(e, n) ==
    /\ published' = [published EXCEPT ![e] = Append(@, View(SubSeq(ledger[e], 1, n)))]
    /\ UNCHANGED ledger

Next == \E e \in Evidence : \/ \E d \in Decisions : Decide(e, d)
                            \/ \E n \in 0..Len(ledger[e]) : Publish(e, n)

Spec == Init /\ [][Next]_vars
=============================================================================
