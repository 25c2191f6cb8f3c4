-------------------------- MODULE MethodologyValues --------------------------
(***************************************************************************)
(* The methodology value store (methodology_value_service.py,              *)
(* methodology_value_repository.py): a request projects one approved       *)
(* evidence aggregate through the field mappings and replaces the values   *)
(* the store has of that aggregate.                                        *)
(*                                                                         *)
(* The application keeps the store in memory; the JSONL repository         *)
(* (durable) rewrites a file.  In both a replacement takes several steps   *)
(* without a lock: read what is kept, then install it and append value     *)
(* after value, or empty the file and write it back.                       *)
(*                                                                         *)
(* A record is what identifies it; the order of records is left out, since *)
(* only the set of an aggregate's values is replaced and listed.           *)
(* MaxCrashes bounds the crashes of the process.                           *)
(***************************************************************************)
EXTENDS Naturals

CONSTANTS Aggregates,   \* approved_evidence_ids
          Fields,       \* names of approved fields
          Rows,         \* methodology Field_IDs
          Mapping,      \* field mappings with their status
          Requests,     \* POST /methodology/s2/run, each served once
          MaxCrashes

MappingStatus == {"confirmed", "provisional", "needs_domain_review", "deprecated"}

ASSUME MethodologyValuesAssumption ==
    /\ Mapping \subseteq [field : Fields, row : Rows, status : MappingStatus]
    /\ MaxCrashes \in Nat

VARIABLES
    durable,    \* the repository is the JSONL one, as it was configured
    approved,   \* [Aggregates -> SUBSET Fields], the approved fields of each aggregate
    store,      \* the records of the repository
    torn,       \* the file has a line that is not JSON
    pc, agg,    \* [Requests -> where it is], [Requests -> its aggregate]
    kept,       \* [Requests -> the records it read and keeps]
    todo,       \* [Requests -> the records it still has to add]
    crashes,
    alone,      \* history: [Requests -> no other replacement overlapped its own]
    after       \* history: [Requests -> those that were done when it began]

config == <<durable, approved>>
vars == <<config, store, torn, pc, agg, kept, todo, crashes, alone, after>>
history == <<alone, after>>

-----------------------------------------------------------------------------
\* list_by_approved_field: the mappings of a field that are not deprecated.
ListByApprovedField(f) == {m \in Mapping : m.field = f /\ m.status # "deprecated"}

\* A record holds an approved field's value for the row of a mapping in use.
MappedTo == {<<m.field, m.row>> : m \in {n \in Mapping : n.status # "deprecated"}}
Record == {x \in [aggregate : Aggregates, field : Fields, row : Rows, by : Requests] :
               <<x.field, x.row>> \in MappedTo}

InFlight == {"read", "append", "truncated"}
PC == {"idle", "done", "answered", "error", "lost"} \cup InFlight
Replacing == {r \in Requests : pc[r] \in InFlight}

\* The values of an aggregate, one per approved field and mapping of it.
Values(r, a) ==
    UNION {{[aggregate |-> a, field |-> f, row |-> m.row, by |-> r] :
                m \in ListByApprovedField(f)} : f \in approved[a]}

TypeOK ==
    /\ durable \in BOOLEAN
    /\ approved \in [Aggregates -> SUBSET Fields]
    /\ store \subseteq Record
    /\ torn \in BOOLEAN
    /\ pc \in [Requests -> PC]
    /\ agg \in [Requests -> Aggregates]
    /\ kept \in [Requests -> SUBSET Record]
    /\ todo \in [Requests -> SUBSET Record]
    /\ crashes \in 0..MaxCrashes
    /\ alone \in [Requests -> BOOLEAN]
    /\ after \in [Requests -> SUBSET Requests]

Init ==
    /\ durable \in BOOLEAN
    /\ approved \in [Aggregates -> SUBSET Fields]
    /\ store = {}
    /\ torn = FALSE
    /\ pc = [r \in Requests |-> "idle"]
    /\ agg \in [Requests -> Aggregates]
    /\ kept = [r \in Requests |-> {}]
    /\ todo = [r \in Requests |-> {}]
    /\ crashes = 0
    /\ alone = [r \in Requests |-> FALSE]
    /\ after = [r \in Requests |-> {}]

-----------------------------------------------------------------------------
\* A run without persist_methodology_values does not touch the store.
ProjectOnly(r) ==
    /\ pc[r] = "idle"
    /\ pc' = [pc EXCEPT ![r] = "answered"]
    /\ UNCHANGED <<config, store, torn, agg, kept, todo, crashes, history>>

\* Variant: what is replaced is what this request stored before, so that other
\* requests' values of the same aggregate are kept.
ReadOthers(r) ==
    /\ pc[r] = "idle"
    /\ ~torn
    /\ kept' = [kept EXCEPT ![r] = {x \in store : x.by # r}]
    /\ todo' = [todo EXCEPT ![r] = Values(r, agg[r])]
    /\ pc' = [pc EXCEPT ![r] = "read"]
    /\ alone' = [q \in Requests |-> IF q = r THEN Replacing = {}
                                    ELSE alone[q] /\ q \notin Replacing]
    /\ after' = [after EXCEPT ![r] = {q \in Requests : pc[q] = "done"}]
    /\ UNCHANGED <<config, store, torn, agg, crashes>>

\* replace_for_approved_evidence reads the records of other aggregates.
ReadKept(r) ==
    /\ pc[r] = "idle"
    /\ ~torn
    /\ kept' = [kept EXCEPT ![r] = {x \in store : x.aggregate # agg[r]}]
    /\ todo' = [todo EXCEPT ![r] = Values(r, agg[r])]
    /\ pc' = [pc EXCEPT ![r] = "read"]
    /\ alone' = [q \in Requests |-> IF q = r THEN Replacing = {}
                                    ELSE alone[q] /\ q \notin Replacing]
    /\ after' = [after EXCEPT ![r] = {q \in Requests : pc[q] = "done"}]
    /\ UNCHANGED <<config, store, torn, agg, crashes>>

\* json.loads raises on the broken line.
ReadRaises(r) ==
    /\ pc[r] = "idle"
    /\ torn
    /\ pc' = [pc EXCEPT ![r] = "error"]
    /\ UNCHANGED <<config, store, torn, agg, kept, todo, crashes, history>>

(* In memory: self._store = [...], then one append per value. *)

Install(r) ==
    /\ ~durable
    /\ pc[r] = "read"
    /\ store' = kept[r]
    /\ pc' = [pc EXCEPT ![r] = "append"]
    /\ UNCHANGED <<config, torn, agg, kept, todo, crashes, history>>

AppendValue(r) ==
    /\ pc[r] = "append"
    /\ \E x \in todo[r] : /\ store' = store \cup {x}
                          /\ todo' = [todo EXCEPT ![r] = @ \ {x}]
    /\ UNCHANGED <<config, torn, pc, agg, kept, crashes, history>>

Finish(r) ==
    /\ pc[r] = "append"
    /\ todo[r] = {}
    /\ pc' = [pc EXCEPT ![r] = "done"]
    /\ UNCHANGED <<config, store, torn, agg, kept, todo, crashes, history>>

(* In the file: open("w") empties it, closing the handle writes it. *)

\* Variant: the file is opened for appending.
OpenToAppend(r) ==
    /\ durable
    /\ pc[r] = "read"
    /\ pc' = [pc EXCEPT ![r] = "truncated"]
    /\ UNCHANGED <<config, store, torn, agg, kept, todo, crashes, history>>

Truncate(r) ==
    /\ durable
    /\ pc[r] = "read"
    /\ store' = {}
    /\ torn' = FALSE
    /\ pc' = [pc EXCEPT ![r] = "truncated"]
    /\ UNCHANGED <<config, agg, kept, todo, crashes, history>>

\* What another request wrote into the file since it was emptied is
\* overwritten from the start: some of its lines may remain behind the new
\* ones, the first of them cut.
WriteBack(r) ==
    /\ pc[r] = "truncated"
    /\ \E tail \in SUBSET store :
        /\ store' = kept[r] \cup todo[r] \cup tail
        /\ torn' \in IF store = {} THEN {FALSE} ELSE BOOLEAN
    /\ todo' = [todo EXCEPT ![r] = {}]
    /\ pc' = [pc EXCEPT ![r] = "done"]
    /\ UNCHANGED <<config, agg, kept, crashes, history>>

\* The process stops: memory is lost; of what a request had not written back,
\* any part may have reached the file.
Crash ==
    /\ crashes < MaxCrashes
    /\ crashes' = crashes + 1
    /\ IF durable
       THEN LET unflushed == UNION {kept[r] \cup todo[r] : r \in {q \in Requests : pc[q] = "truncated"}}
            IN \E part \in SUBSET unflushed :
                 /\ store' = store \cup part
                 /\ torn' \in IF part = {} THEN {torn} ELSE BOOLEAN
       ELSE store' = {} /\ torn' = torn
    /\ pc' = [r \in Requests |-> IF r \in Replacing THEN "lost" ELSE pc[r]]
    /\ UNCHANGED <<config, agg, kept, todo, history>>

Next ==
    \/ \E r \in Requests :
        \/ ProjectOnly(r) \/ ReadKept(r) \/ ReadRaises(r)
        \/ Install(r) \/ AppendValue(r) \/ Finish(r)
        \/ Truncate(r) \/ WriteBack(r)
    \/ Crash

Spec == Init /\ [][Next]_vars

-----------------------------------------------------------------------------
(* Properties.                                                             *)

Stored(a) == {x \in store : x.aggregate = a}

\* r's values are the aggregate's current ones: it replaced them alone, and no
\* later request has begun to.
Current(r) ==
    /\ pc[r] = "done"
    /\ alone[r]
    /\ \A q \in Requests : r \in after[q] => agg[q] # agg[r]

\* docs/methodology_value_store.md: "Re-projecting the same approved_evidence_id
\* replaces that approved-evidence snapshot".  In memory, what a request stored
\* that overlapped no other is exactly what the store has of its aggregate, until
\* the next request for that aggregate: requests for others, overlapping each
\* other or not, neither drop nor revive a value.
SnapshotKept ==
    ~durable /\ crashes = 0 =>
        \A r \in Requests : Current(r) => Stored(agg[r]) = Values(r, agg[r])

\* In either repository: while no two replacements have overlapped and nothing
\* crashed, an idle store has of every aggregate the values of the last request.
Started == {r \in Requests : pc[r] \in InFlight \cup {"done", "lost"}}
SerialStoreExact ==
    (crashes = 0 /\ Replacing = {} /\ \A r \in Started : alone[r]) =>
        /\ \A r \in Requests : Current(r) => Stored(agg[r]) = Values(r, agg[r])
        /\ \A a \in Aggregates : (\A r \in Started : agg[r] # a) => Stored(a) = {}

\* Whatever crashes in the middle of a rewrite, as long as no two replacements
\* have overlapped the store never mixes an aggregate's values of two requests.
OneSnapshotPerAggregate ==
    (\A r \in Started : alone[r]) =>
        \A x, y \in store : x.aggregate = y.aggregate => x.by = y.by

\* The refinement mapping to AggregateSnapshots: a snapshot is what the store has of
\* the aggregate and what requests have still to write back or append; it is
\* replaced when the list is installed, or the file emptied.
Appending == UNION {todo[r] : r \in {q \in Requests : pc[q] = "append"}}
Rewriting == UNION {kept[r] \cup todo[r] : r \in {q \in Requests : pc[q] = "truncated"}}
Promised == store \cup Appending \cup Rewriting
Snapshots == INSTANCE AggregateSnapshots
    WITH projected <- [r \in Requests |-> Values(r, agg[r])],
         snapshot <- [a \in Aggregates |-> {x \in Promised : x.aggregate = a}],
         replaced <- {r \in Requests : pc[r] \in {"append", "truncated", "done"}},
         done <- {r \in Requests : pc[r] = "done"}

Serial == crashes = 0 /\ \A r \in Started : alone[r]

\* docs/methodology_value_store.md: a projection "replaces that approved-evidence
\* snapshot".  As long as no two replacements have overlapped and nothing crashed,
\* either repository is a map that is updated at one moment for one aggregate,
\* however many steps the request takes: a snapshot is never half replaced, dropped
\* or brought back.
ImplementsSnapshots ==
    Snapshots!Init /\ [][Serial' => [Snapshots!Next]_(Snapshots!vars)]_vars
=============================================================================
