------------------------- MODULE AggregateSnapshots -------------------------
(***************************************************************************)
(* What the methodology value store promises, whoever keeps it: it has one *)
(* snapshot of values of every aggregate, and a request replaces that of   *)
(* its aggregate as a whole, at one moment, by the values it projected,    *)
(* before it is done.  Nothing else changes a snapshot.                    *)
(* MethodologyValues implements this while replacements do not overlap and *)
(* the process does not stop.                                              *)
(***************************************************************************)
CONSTANTS Aggregates, Requests

VARIABLES agg,         \* [Requests -> Aggregates]
          projected,   \* [Requests -> the values it projected]
          snapshot,    \* [Aggregates -> its values]
          replaced,    \* the requests that have replaced a snapshot
          done         \* those that are done

vars == <<agg, projected, snapshot, replaced, done>>

Init == /\ snapshot = [a \in Aggregates |-> {}]
        /\ replaced = {}
        /\ done = {}

Replace(r) ==
    /\ r \notin replaced
    /\ snapshot' = [snapshot EXCEPT ![agg[r]] = projected[r]]
    /\ replaced' = replaced \cup {r}
    /\ UNCHANGED <<agg, projected, done>>

Finish(r) ==
    /\ r \in replaced \ done
    /\ done' = done \cup {r}
    /\ UNCHANGED <<agg, projected, snapshot, replaced>>

Next == \E r \in Requests : Replace(r) \/ Finish(r)

Spec == Init /\ [][Next]_vars
=============================================================================
