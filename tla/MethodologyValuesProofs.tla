----------------------- MODULE MethodologyValuesProofs -----------------------
(***************************************************************************)
(* Theorems about MethodologyValues: type correctness; that the store in   *)
(* memory keeps an aggregate's current values whatever other requests do;  *)
(* that a store to which requests come one at a time is exact; that no     *)
(* crash mixes the values of two replacements of one aggregate; and that   *)
(* replacements that do not overlap implement AggregateSnapshots.          *)
(***************************************************************************)
EXTENDS MethodologyValues, TLAPS

USE MethodologyValuesAssumption DEF config

\* The values of an aggregate are records of it, made by the request that
\* projects it, and come from mappings in use.
LEMMA ValuesAreRecords ==
    ASSUME TypeOK, NEW r \in Requests, NEW a \in Aggregates
    PROVE  /\ Values(r, a) \subseteq Record
           /\ \A x \in Values(r, a) : x.aggregate = a
<1> SUFFICES ASSUME NEW x \in Values(r, a)
             PROVE  x \in Record /\ x.aggregate = a
    OBVIOUS
<1>0. PICK f \in approved[a] :
          x \in {[aggregate |-> a, field |-> f, row |-> m.row, by |-> r] :
                    m \in ListByApprovedField(f)}
    BY DEF Values
<1>1. PICK m \in ListByApprovedField(f) :
          x = [aggregate |-> a, field |-> f, row |-> m.row, by |-> r]
    BY <1>0
<1>2. f \in Fields /\ m \in Mapping /\ m.field = f /\ m.status # "deprecated"
    BY DEF TypeOK, ListByApprovedField
<1>3. m.row \in Rows
    BY <1>2
<1>4. <<x.field, x.row>> \in MappedTo
    BY <1>1, <1>2 DEF MappedTo
<1> QED
    BY <1>1, <1>2, <1>3, <1>4 DEF Record

LEMMA InitType == Init => TypeOK
<1> SUFFICES ASSUME Init PROVE TypeOK
    OBVIOUS
<1>1. crashes \in 0..MaxCrashes
    BY DEF Init
<1>2. pc \in [Requests -> PC]
    BY DEF Init, PC
<1>3. kept \in [Requests -> SUBSET Record] /\ todo \in [Requests -> SUBSET Record]
    BY DEF Init
<1>4. alone \in [Requests -> BOOLEAN] /\ after \in [Requests -> SUBSET Requests]
    BY DEF Init
<1> QED
    BY <1>1, <1>2, <1>3, <1>4 DEF Init, TypeOK

LEMMA NextType == TypeOK /\ [Next]_vars => TypeOK'
<1> SUFFICES ASSUME TypeOK, [Next]_vars PROVE TypeOK'
    OBVIOUS
<1> USE DEF PC, InFlight, history
<1>1. ASSUME NEW r \in Requests, ProjectOnly(r) PROVE TypeOK'
    BY <1>1 DEF ProjectOnly, TypeOK
<1>2. ASSUME NEW r \in Requests, ReadKept(r) PROVE TypeOK'
  <2>1. Values(r, agg[r]) \subseteq Record
      BY ValuesAreRecords DEF TypeOK
  <2>2. kept' \in [Requests -> SUBSET Record] /\ todo' \in [Requests -> SUBSET Record]
      BY <1>2, <2>1 DEF ReadKept, TypeOK
  <2>3. alone' \in [Requests -> BOOLEAN]
      BY <1>2 DEF ReadKept, TypeOK
  <2>4. after' \in [Requests -> SUBSET Requests] /\ pc' \in [Requests -> PC]
      BY <1>2 DEF ReadKept, TypeOK
  <2> QED
      BY <1>2, <2>2, <2>3, <2>4 DEF ReadKept, TypeOK
<1>3. ASSUME NEW r \in Requests, ReadRaises(r) PROVE TypeOK'
    BY <1>3 DEF ReadRaises, TypeOK
<1>4. ASSUME NEW r \in Requests, Install(r) PROVE TypeOK'
    BY <1>4 DEF Install, TypeOK
<1>5. ASSUME NEW r \in Requests, AppendValue(r) PROVE TypeOK'
    BY <1>5 DEF AppendValue, TypeOK
<1>6. ASSUME NEW r \in Requests, Finish(r) PROVE TypeOK'
    BY <1>6 DEF Finish, TypeOK
<1>7. ASSUME NEW r \in Requests, Truncate(r) PROVE TypeOK'
    BY <1>7 DEF Truncate, TypeOK
<1>8. ASSUME NEW r \in Requests, WriteBack(r) PROVE TypeOK'
  <2>1. store' \subseteq Record /\ torn' \in BOOLEAN
      BY <1>8 DEF WriteBack, TypeOK
  <2> QED
      BY <1>8, <2>1 DEF WriteBack, TypeOK
<1>9. ASSUME Crash PROVE TypeOK'
  <2>1. CASE durable
    <3> DEFINE unflushed == UNION {kept[r] \cup todo[r] : r \in {q \in Requests : pc[q] = "truncated"}}
    <3>1. PICK part \in SUBSET unflushed :
              /\ store' = store \cup part
              /\ torn' \in IF part = {} THEN {torn} ELSE BOOLEAN
        BY <1>9, <2>1 DEF Crash
    <3>2. unflushed \subseteq Record
        BY DEF TypeOK
    <3>3. store' \subseteq Record /\ torn' \in BOOLEAN
        BY <3>1, <3>2 DEF TypeOK
    <3>4. crashes' \in 0..MaxCrashes /\ pc' \in [Requests -> PC]
        BY <1>9 DEF Crash, TypeOK, Replacing
    <3> QED
        BY <1>9, <3>3, <3>4 DEF Crash, TypeOK
  <2>2. CASE ~durable
      BY <1>9, <2>2 DEF Crash, TypeOK, Replacing
  <2> QED
      BY <2>1, <2>2
<1>10. CASE UNCHANGED vars
    BY <1>10 DEF vars, TypeOK
<1> QED
    BY <1>1, <1>2, <1>3, <1>4, <1>5, <1>6, <1>7, <1>8, <1>9, <1>10 DEF Next

\* Every reachable state of the value store is well typed; in particular no
\* record comes from a deprecated mapping (list_by_approved_field).
THEOREM ValuesTypeCorrect == Spec => []TypeOK
BY InitType, NextType, PTL DEF Spec

-----------------------------------------------------------------------------
(* The inductive invariant of SnapshotKept.                                *)

\* What a request holds at each point of its replacement.
HoldsItsOwn ==
    \A r \in Requests :
        /\ pc[r] = "read" => /\ \A x \in kept[r] : x.aggregate # agg[r]
                             /\ todo[r] = Values(r, agg[r])
        /\ pc[r] = "append" => todo[r] \subseteq Values(r, agg[r])
        /\ pc[r] # "truncated"

\* A request that is alone is the only one in flight.
AloneIsAlone ==
    \A r, q \in Replacing : r # q => ~alone[r]

\* What is in flight began after every request that is done alone.
BeganAfter ==
    \A r \in Requests, q \in Replacing : pc[r] = "done" /\ alone[r] => r \in after[q]

\* A request that is alone builds up exactly its aggregate's values.
BuildsUp ==
    \A r \in Requests : pc[r] = "append" /\ alone[r] =>
        Stored(agg[r]) \cup todo[r] = Values(r, agg[r])

KeptOf(q, a) == {x \in kept[q] : x.aggregate = a}

\* Current values are in the store and in what every request in flight keeps.
CurrentIsKept ==
    \A r \in Requests : Current(r) =>
        /\ Stored(agg[r]) = Values(r, agg[r])
        /\ \A q \in Requests : pc[q] = "read" => KeptOf(q, agg[r]) = Values(r, agg[r])

KeepInv ==
    (~durable /\ crashes = 0) =>
        HoldsItsOwn /\ AloneIsAlone /\ BeganAfter /\ BuildsUp /\ CurrentIsKept

LEMMA InitKeep == Init => KeepInv
BY DEF Init, KeepInv, HoldsItsOwn, AloneIsAlone, BeganAfter, BuildsUp, CurrentIsKept,
       Current, Replacing, InFlight

\* The repository is configured once.
LEMMA DurableConstant == [Next]_vars => durable' = durable
BY DEF Next, ProjectOnly, ReadKept, ReadRaises, Install, AppendValue, Finish,
       Truncate, WriteBack, Crash, vars

LEMMA NextKeep == TypeOK /\ KeepInv /\ [Next]_vars => KeepInv'
<1> SUFFICES ASSUME TypeOK, KeepInv, [Next]_vars, ~durable, (crashes = 0)'
             PROVE  (HoldsItsOwn /\ AloneIsAlone /\ BeganAfter /\ BuildsUp /\ CurrentIsKept)'
    BY DurableConstant DEF KeepInv
<1>0. CASE Crash
    BY <1>0 DEF Crash, TypeOK
<1>1. ~Crash => crashes = 0
    BY DEF Next, ProjectOnly, ReadKept, ReadRaises, Install, AppendValue, Finish,
           Truncate, WriteBack, vars
<1>2. ASSUME crashes = 0
      PROVE  HoldsItsOwn /\ AloneIsAlone /\ BeganAfter /\ BuildsUp /\ CurrentIsKept
    BY <1>2 DEF KeepInv
<1> USE DEF history
<1>3. ASSUME NEW r \in Requests, ProjectOnly(r) \/ ReadRaises(r)
      PROVE  (HoldsItsOwn /\ AloneIsAlone /\ BeganAfter /\ BuildsUp /\ CurrentIsKept)'
  <2>1. crashes = 0 /\ HoldsItsOwn /\ AloneIsAlone /\ BeganAfter /\ BuildsUp /\ CurrentIsKept
      BY <1>2, <1>3 DEF ProjectOnly, ReadRaises
  <2>2. pc' \in [Requests -> PC] /\ pc[r] = "idle" /\ pc'[r] \in {"answered", "error"}
        /\ \A q \in Requests \ {r} : pc'[q] = pc[q]
      BY <1>3 DEF ProjectOnly, ReadRaises, TypeOK, PC
  <2>3. /\ Replacing' = Replacing
        /\ UNCHANGED <<approved, store, agg, kept, todo, alone, after>>
      BY <1>3, <2>2 DEF ProjectOnly, ReadRaises, Replacing, InFlight, TypeOK
  <2>4. \A q \in Requests, a \in Aggregates :
            Values(q, a)' = Values(q, a) /\ Stored(a)' = Stored(a) /\ KeptOf(q, a)' = KeptOf(q, a)
      BY <2>3 DEF Values, Stored, KeptOf
  <2>5. \A q \in Requests : Current(q)' = Current(q)
      BY <2>2, <2>3 DEF Current
  <2>6. HoldsItsOwn'
      BY <2>1, <2>2, <2>3, <2>4 DEF HoldsItsOwn, TypeOK
  <2>7. AloneIsAlone'
      BY <2>1, <2>3 DEF AloneIsAlone
  <2>8. BeganAfter'
      BY <2>1, <2>2, <2>3 DEF BeganAfter
  <2>9. BuildsUp'
      BY <2>1, <2>2, <2>3, <2>4 DEF BuildsUp, TypeOK
  <2>10. CurrentIsKept'
      BY <2>1, <2>2, <2>3, <2>4, <2>5 DEF CurrentIsKept, TypeOK
  <2> QED
      BY <2>6, <2>7, <2>8, <2>9, <2>10
<1>4. ASSUME NEW r \in Requests, ReadKept(r)
      PROVE  (HoldsItsOwn /\ AloneIsAlone /\ BeganAfter /\ BuildsUp /\ CurrentIsKept)'
  <2>1. crashes = 0 /\ HoldsItsOwn /\ AloneIsAlone /\ BeganAfter /\ BuildsUp /\ CurrentIsKept
      BY <1>2, <1>4 DEF ReadKept
  <2>2. /\ pc[r] = "idle" /\ pc'[r] = "read"
        /\ \A q \in Requests \ {r} : pc'[q] = pc[q]
        /\ \A q \in Requests \ {r} : kept'[q] = kept[q] /\ todo'[q] = todo[q] /\ after'[q] = after[q]
        /\ kept'[r] = {x \in store : x.aggregate # agg[r]}
        /\ todo'[r] = Values(r, agg[r])
        /\ after'[r] = {q \in Requests : pc[q] = "done"}
        /\ UNCHANGED <<approved, store, agg>>
      BY <1>4 DEF ReadKept, TypeOK
  <2>3. \A q \in Requests : alone'[q] = IF q = r THEN Replacing = {}
                                        ELSE alone[q] /\ q \notin Replacing
      BY <1>4 DEF ReadKept, TypeOK
  <2>4. Replacing' = Replacing \cup {r} /\ r \notin Replacing
      BY <2>2 DEF Replacing, InFlight
  <2>5. \A q \in Requests, a \in Aggregates :
            Values(q, a)' = Values(q, a) /\ Stored(a)' = Stored(a)
      BY <2>2 DEF Values, Stored
  <2>6. HoldsItsOwn'
      BY <2>1, <2>2, <2>5 DEF HoldsItsOwn, TypeOK
  <2>7. AloneIsAlone'
      BY <2>3, <2>4 DEF AloneIsAlone, Replacing
  <2>8. BeganAfter'
      BY <2>1, <2>2, <2>3, <2>4 DEF BeganAfter, Replacing
  <2>9. BuildsUp'
    <3> SUFFICES ASSUME NEW q \in Requests, pc'[q] = "append", alone'[q] PROVE FALSE
        BY DEF BuildsUp
    <3>1. q # r /\ pc[q] = "append"
        BY <2>2
    <3> QED
        BY <2>3, <3>1 DEF Replacing, InFlight
  <2>10. CurrentIsKept'
    <3> SUFFICES ASSUME NEW q \in Requests, Current(q)'
                 PROVE  /\ Stored(agg[q])' = Values(q, agg[q])'
                        /\ \A p \in Requests : pc'[p] = "read" =>
                               KeptOf(p, agg[q])' = Values(q, agg[q])'
        BY <2>2 DEF CurrentIsKept
    <3>1. q # r /\ pc[q] = "done" /\ alone[q]
        BY <2>2, <2>3 DEF Current
    <3>2. q \in after'[r] /\ agg[r] # agg[q]
        BY <2>2, <3>1 DEF Current
    <3>3. Current(q)
      <4> SUFFICES ASSUME NEW p \in Requests, q \in after[p] PROVE agg[p] # agg[q]
          BY <3>1 DEF Current
      <4>1. CASE p = r
          BY <3>2, <4>1
      <4>2. CASE p # r
          BY <2>2, <4>2 DEF Current
      <4> QED
          BY <4>1, <4>2
    <3>4. Stored(agg[q]) = Values(q, agg[q]) /\ agg[q] \in Aggregates
        BY <2>1, <3>3 DEF CurrentIsKept, TypeOK
    <3>5. ASSUME NEW p \in Requests, pc'[p] = "read"
          PROVE  KeptOf(p, agg[q])' = Values(q, agg[q])
      <4>1. CASE p = r
        <5>1. KeptOf(r, agg[q])' = {x \in {y \in store : y.aggregate # agg[r]} : x.aggregate = agg[q]}
            BY <2>2 DEF KeptOf
        <5>2. KeptOf(r, agg[q])' = Stored(agg[q])
            BY <3>2, <5>1 DEF Stored
        <5> QED
            BY <3>4, <4>1, <5>2
      <4>2. CASE p # r
        <5>1. pc[p] = "read" /\ KeptOf(p, agg[q])' = KeptOf(p, agg[q])
            BY <2>2, <3>5, <4>2 DEF KeptOf
        <5> QED
            BY <2>1, <3>3, <5>1 DEF CurrentIsKept
      <4> QED
          BY <4>1, <4>2
    <3> QED
        BY <2>2, <2>5, <3>4, <3>5
  <2> QED
      BY <2>6, <2>7, <2>8, <2>9, <2>10
<1>5. ASSUME NEW r \in Requests, Install(r)
      PROVE  (HoldsItsOwn /\ AloneIsAlone /\ BeganAfter /\ BuildsUp /\ CurrentIsKept)'
  <2>1. crashes = 0 /\ HoldsItsOwn /\ AloneIsAlone /\ BeganAfter /\ BuildsUp /\ CurrentIsKept
      BY <1>2, <1>5 DEF Install
  <2>2. /\ pc[r] = "read" /\ pc'[r] = "append"
        /\ \A q \in Requests \ {r} : pc'[q] = pc[q]
        /\ store' = kept[r]
        /\ UNCHANGED <<approved, agg, kept, todo, alone, after>>
      BY <1>5 DEF Install, TypeOK
  <2>3. Replacing' = Replacing
      BY <2>2 DEF Replacing, InFlight
  <2>4. \A q \in Requests, a \in Aggregates :
            Values(q, a)' = Values(q, a) /\ KeptOf(q, a)' = KeptOf(q, a)
            /\ Stored(a)' = KeptOf(r, a)
      BY <2>2 DEF Values, Stored, KeptOf
  <2>5. \A q \in Requests : Current(q)' => Current(q) /\ q # r
      BY <2>2 DEF Current
  <2>6. HoldsItsOwn'
      BY <2>1, <2>2, <2>4 DEF HoldsItsOwn, TypeOK
  <2>7. AloneIsAlone' /\ BeganAfter'
      BY <2>1, <2>2, <2>3 DEF AloneIsAlone, BeganAfter
  <2>8. BuildsUp'
    <3> SUFFICES ASSUME NEW q \in Requests, pc'[q] = "append", alone'[q]
                 PROVE  Stored(agg[q])' \cup todo[q] = Values(q, agg[q])
        BY <2>2, <2>4 DEF BuildsUp, TypeOK
    <3>1. q = r
        BY <2>1, <2>2 DEF AloneIsAlone, Replacing, InFlight
    <3>2. KeptOf(r, agg[r]) = {} /\ todo[r] = Values(r, agg[r])
        BY <2>1, <2>2 DEF HoldsItsOwn, KeptOf
    <3> QED
        BY <2>2, <2>4, <3>1, <3>2 DEF TypeOK
  <2>9. CurrentIsKept'
    <3> SUFFICES ASSUME NEW q \in Requests, Current(q)'
                 PROVE  /\ KeptOf(r, agg[q]) = Values(q, agg[q])
                        /\ \A p \in Requests : pc'[p] = "read" => KeptOf(p, agg[q]) = Values(q, agg[q])
        BY <2>2, <2>4 DEF CurrentIsKept, TypeOK
    <3> QED
        BY <2>1, <2>2, <2>5 DEF CurrentIsKept
  <2> QED
      BY <2>6, <2>7, <2>8, <2>9
<1>6. ASSUME NEW r \in Requests, AppendValue(r)
      PROVE  (HoldsItsOwn /\ AloneIsAlone /\ BeganAfter /\ BuildsUp /\ CurrentIsKept)'
  <2>1. crashes = 0 /\ HoldsItsOwn /\ AloneIsAlone /\ BeganAfter /\ BuildsUp /\ CurrentIsKept
      BY <1>2, <1>6 DEF AppendValue
  <2>2. PICK x \in todo[r] : store' = store \cup {x} /\ todo' = [todo EXCEPT ![r] = @ \ {x}]
      BY <1>6 DEF AppendValue
  <2>3. pc[r] = "append" /\ UNCHANGED <<approved, pc, agg, kept, alone, after>>
      BY <1>6 DEF AppendValue
  <2>4. x.aggregate = agg[r] /\ x \in Values(r, agg[r])
      BY <2>1, <2>2, <2>3, ValuesAreRecords DEF HoldsItsOwn, TypeOK
  <2>5. \A q \in Requests, a \in Aggregates :
            Values(q, a)' = Values(q, a) /\ KeptOf(q, a)' = KeptOf(q, a)
      BY <2>3 DEF Values, KeptOf
  <2>6. Replacing' = Replacing /\ \A q \in Requests : Current(q)' = Current(q)
      BY <2>3 DEF Replacing, Current
  <2>7. \A a \in Aggregates : Stored(a)' = IF a = agg[r] THEN Stored(a) \cup {x} ELSE Stored(a)
      BY <2>2, <2>4 DEF Stored
  <2>8. HoldsItsOwn'
    <3>1. todo'[r] \subseteq todo[r] /\ \A q \in Requests \ {r} : todo'[q] = todo[q]
        BY <2>2 DEF TypeOK
    <3> QED
        BY <2>1, <2>3, <2>5, <3>1 DEF HoldsItsOwn, TypeOK
  <2>9. AloneIsAlone' /\ BeganAfter'
      BY <2>1, <2>3, <2>6 DEF AloneIsAlone, BeganAfter
  <2>10. BuildsUp'
    <3> SUFFICES ASSUME NEW q \in Requests, pc[q] = "append", alone[q]
                 PROVE  Stored(agg[q])' \cup todo'[q] = Values(q, agg[q])
        BY <2>3, <2>5 DEF BuildsUp, TypeOK
    <3>1. q = r
        BY <2>1, <2>3 DEF AloneIsAlone, Replacing, InFlight
    <3>2. todo'[r] = todo[r] \ {x} /\ Stored(agg[r])' = Stored(agg[r]) \cup {x}
        BY <2>2, <2>3, <2>7 DEF TypeOK
    <3>3. Stored(agg[r]) \cup todo[r] = Values(r, agg[r])
        BY <2>1, <3>1 DEF BuildsUp
    <3> QED
        BY <2>2, <3>1, <3>2, <3>3
  <2>11. CurrentIsKept'
    <3> SUFFICES ASSUME NEW q \in Requests, Current(q)
                 PROVE  Stored(agg[q])' = Stored(agg[q])
        BY <2>1, <2>3, <2>5, <2>6 DEF CurrentIsKept, TypeOK
    <3>1. q \in after[r]
        BY <2>1, <2>3 DEF BeganAfter, Current, Replacing, InFlight
    <3>2. agg[r] # agg[q]
        BY <3>1 DEF Current
    <3> QED
        BY <2>3, <2>7, <3>2 DEF TypeOK
  <2> QED
      BY <2>8, <2>9, <2>10, <2>11
<1>7. ASSUME NEW r \in Requests, Finish(r)
      PROVE  (HoldsItsOwn /\ AloneIsAlone /\ BeganAfter /\ BuildsUp /\ CurrentIsKept)'
  <2>1. crashes = 0 /\ HoldsItsOwn /\ AloneIsAlone /\ BeganAfter /\ BuildsUp /\ CurrentIsKept
      BY <1>2, <1>7 DEF Finish
  <2>2. /\ pc[r] = "append" /\ todo[r] = {} /\ pc'[r] = "done"
        /\ \A q \in Requests \ {r} : pc'[q] = pc[q]
        /\ UNCHANGED <<approved, store, agg, kept, todo, alone, after>>
      BY <1>7 DEF Finish, TypeOK
  <2>3. \A q \in Requests, a \in Aggregates :
            Values(q, a)' = Values(q, a) /\ KeptOf(q, a)' = KeptOf(q, a) /\ Stored(a)' = Stored(a)
      BY <2>2 DEF Values, Stored, KeptOf
  <2>4. Replacing' = Replacing \ {r} /\ r \in Replacing
      BY <2>2 DEF Replacing, InFlight
  <2>5. HoldsItsOwn'
      BY <2>1, <2>2, <2>3 DEF HoldsItsOwn, TypeOK
  <2>6. AloneIsAlone'
      BY <2>1, <2>2, <2>4 DEF AloneIsAlone
  <2>7. BeganAfter'
      BY <2>1, <2>2, <2>4 DEF BeganAfter, AloneIsAlone
  <2>8. BuildsUp'
      BY <2>1, <2>2, <2>3 DEF BuildsUp, TypeOK
  <2>9. CurrentIsKept'
    <3> SUFFICES ASSUME NEW q \in Requests, Current(q)'
                 PROVE  /\ Stored(agg[q]) = Values(q, agg[q])
                        /\ \A p \in Requests : pc'[p] = "read" => KeptOf(p, agg[q]) = Values(q, agg[q])
        BY <2>2, <2>3 DEF CurrentIsKept, TypeOK
    <3>1. CASE q = r
      <4>1. alone[r]
          BY <2>2, <3>1 DEF Current
      <4>2. Stored(agg[r]) = Values(r, agg[r])
          BY <2>1, <2>2, <4>1 DEF BuildsUp
      <4>3. \A p \in Requests : pc'[p] # "read"
          BY <2>1, <2>2, <2>4, <4>1 DEF AloneIsAlone, Replacing, InFlight
      <4> QED
          BY <3>1, <4>2, <4>3
    <3>2. CASE q # r
      <4>1. Current(q)
          BY <2>2, <3>2 DEF Current
      <4> QED
          BY <2>1, <2>2, <4>1 DEF CurrentIsKept
    <3> QED
        BY <3>1, <3>2
  <2> QED
      BY <2>5, <2>6, <2>7, <2>8, <2>9
<1>8. ASSUME NEW r \in Requests, Truncate(r) \/ WriteBack(r) PROVE FALSE
  <2>1. crashes = 0
      BY <1>8 DEF Truncate, WriteBack
  <2> QED
      BY <1>2, <1>8, <2>1 DEF Truncate, WriteBack, HoldsItsOwn
<1>9. CASE UNCHANGED vars
  <2>1. crashes = 0 /\ HoldsItsOwn /\ AloneIsAlone /\ BeganAfter /\ BuildsUp /\ CurrentIsKept
      BY <1>2, <1>9 DEF vars
  <2>2. UNCHANGED <<approved, store, pc, agg, kept, todo, alone, after>>
      BY <1>9 DEF vars
  <2>3. \A q \in Requests, a \in Aggregates :
            Values(q, a)' = Values(q, a) /\ KeptOf(q, a)' = KeptOf(q, a) /\ Stored(a)' = Stored(a)
      BY <2>2 DEF Values, Stored, KeptOf
  <2>4. Replacing' = Replacing /\ \A q \in Requests : Current(q)' = Current(q)
      BY <2>2 DEF Replacing, Current
  <2>5. HoldsItsOwn' /\ AloneIsAlone' /\ BeganAfter'
      BY <2>1, <2>2, <2>3, <2>4 DEF HoldsItsOwn, AloneIsAlone, BeganAfter, TypeOK
  <2>6. BuildsUp' /\ CurrentIsKept'
      BY <2>1, <2>2, <2>3, <2>4 DEF BuildsUp, CurrentIsKept, TypeOK
  <2> QED
      BY <2>5, <2>6
<1> QED
    BY <1>0, <1>3, <1>4, <1>5, <1>6, <1>7, <1>8, <1>9 DEF Next

\* In memory, what a request stored that overlapped no other is exactly what
\* the store has of its aggregate until a later request replaces it, whatever
\* requests for other aggregates do meanwhile (replace_for_approved_evidence).
THEOREM CurrentValuesKept == Spec => []SnapshotKept
<1>1. KeepInv => SnapshotKept
    BY DEF KeepInv, SnapshotKept, CurrentIsKept
<1> QED
    BY <1>1, InitType, NextType, InitKeep, NextKeep, PTL DEF Spec

-----------------------------------------------------------------------------
(* Replacements one after another, in either repository and with crashes.  *)

AllAlone == \A r \in Started : alone[r]

In(S, a) == {x \in S : x.aggregate = a}
OneWriter(S) == \A x, y \in S : x.aggregate = y.aggregate => x.by = y.by

\* S has the current values of every aggregate, and none of the others.
Exact(S) ==
    /\ \A r \in Requests : Current(r) => In(S, agg[r]) = Values(r, agg[r])
    /\ \A a \in Aggregates : (\A r \in Started : agg[r] # a) => In(S, a) = {}

\* How far the one replacement in flight has brought the store.
Building(r) ==
    /\ pc[r] = "read" => todo[r] = Values(r, agg[r])
    /\ pc[r] = "append" => /\ todo[r] \subseteq Values(r, agg[r])
                           /\ store \cup todo[r] = kept[r] \cup Values(r, agg[r])
    /\ pc[r] = "truncated" => store = {} /\ todo[r] = Values(r, agg[r])

SerialInv ==
    AllAlone =>
        /\ OneWriter(store)
        /\ \A q, r \in Replacing : q = r
        /\ \A q \in Requests, r \in Replacing : pc[q] = "done" => q \in after[r]
        /\ Replacing = {} /\ crashes = 0 => Exact(store)
        /\ \A r \in Replacing :
              /\ OneWriter(kept[r]) /\ In(kept[r], agg[r]) = {} /\ Building(r)
              /\ crashes = 0 => Exact(kept[r])

LEMMA ValuesAreItsOwn ==
    ASSUME NEW r \in Requests, NEW a \in Aggregates
    PROVE  \A x \in Values(r, a) : x.by = r /\ x.aggregate = a
BY DEF Values

\* What is kept and the values that replace the rest do not mix writers.
LEMMA ReplacementHasOneWriter ==
    ASSUME NEW r \in Requests, NEW a \in Aggregates, NEW K, OneWriter(K), In(K, a) = {},
           NEW S \in SUBSET (K \cup Values(r, a))
    PROVE  OneWriter(S)
<1>1. \A x \in S : x \in K \/ (x.by = r /\ x.aggregate = a)
    BY ValuesAreItsOwn
<1>2. \A x \in K : x.aggregate # a
    BY DEF In
<1> QED
    BY <1>1, <1>2 DEF OneWriter

\* A replacement that has ended has left the store exact.
LEMMA ReplacedExactly ==
    ASSUME TypeOK, NEW r \in Requests, r \in Replacing, Exact(kept[r]), In(kept[r], agg[r]) = {},
           \A q \in Requests : pc[q] = "done" => q \in after[r],
           store' = kept[r] \cup Values(r, agg[r]),
           pc'[r] = "done", \A q \in Requests \ {r} : pc'[q] = pc[q],
           UNCHANGED <<approved, agg, alone, after>>
    PROVE  Exact(store)'
<1>1. \A q \in Requests, a \in Aggregates : Values(q, a)' = Values(q, a)
    BY DEF Values
<1>2. Started' = Started /\ r \in Started /\ agg \in [Requests -> Aggregates]
    BY DEF Started, Replacing, InFlight, TypeOK
<1>3. \A x \in Values(r, agg[r]) : x.aggregate = agg[r]
    BY ValuesAreItsOwn DEF TypeOK
<1>4. \A a \in Aggregates : a # agg[r] => In(store', a) = In(kept[r], a)
    BY <1>3 DEF In
<1>5. In(store', agg[r]) = Values(r, agg[r])
    BY <1>3 DEF In
<1>6. ASSUME NEW q \in Requests, Current(q)'
      PROVE  In(store', agg[q]) = Values(q, agg[q])
  <2>1. CASE q = r
      BY <1>5, <2>1
  <2>2. CASE q # r
    <3>1. Current(q) /\ q \in after[r]
        BY <1>6, <2>2 DEF Current
    <3>2. agg[r] # agg[q]
        BY <3>1 DEF Current
    <3> QED
        BY <1>2, <1>4, <3>1, <3>2 DEF Exact
  <2> QED
      BY <2>1, <2>2
<1>7. ASSUME NEW a \in Aggregates, \A q \in Started : agg[q] # a
      PROVE  In(store', a) = {}
    BY <1>2, <1>4, <1>7 DEF Exact
<1> QED
    BY <1>1, <1>2, <1>6, <1>7 DEF Exact, TypeOK

LEMMA InitSerial == Init => SerialInv
BY DEF Init, SerialInv, OneWriter, Replacing, InFlight, Exact, In, Current

LEMMA NextSerial == TypeOK /\ SerialInv /\ [Next]_vars => SerialInv'
<1> SUFFICES ASSUME TypeOK, SerialInv, [Next]_vars, AllAlone'
             PROVE  SerialInv'
    BY DEF SerialInv
<1> USE DEF history
<1>1. ASSUME AllAlone
      PROVE  /\ OneWriter(store)
             /\ \A q, r \in Replacing : q = r
             /\ \A q \in Requests, r \in Replacing : pc[q] = "done" => q \in after[r]
             /\ Replacing = {} /\ crashes = 0 => Exact(store)
             /\ \A r \in Replacing :
                   /\ OneWriter(kept[r]) /\ In(kept[r], agg[r]) = {} /\ Building(r)
                   /\ crashes = 0 => Exact(kept[r])
    BY <1>1 DEF SerialInv
<1>2. ASSUME NEW r \in Requests, ProjectOnly(r) \/ ReadRaises(r) PROVE SerialInv'
  <2>1. /\ pc[r] = "idle" /\ pc'[r] \in {"answered", "error"}
        /\ \A q \in Requests \ {r} : pc'[q] = pc[q]
        /\ UNCHANGED <<approved, store, agg, kept, todo, crashes, alone, after>>
      BY <1>2 DEF ProjectOnly, ReadRaises, TypeOK
  <2>2. Replacing' = Replacing /\ Started' = Started
      BY <2>1 DEF Replacing, Started, InFlight
  <2>3. AllAlone
      BY <2>1, <2>2 DEF AllAlone
  <2>4. \A q \in Requests, a \in Aggregates : Values(q, a)' = Values(q, a)
      BY <2>1 DEF Values
  <2>5. \A q \in Requests : Current(q)' = Current(q)
      BY <2>1 DEF Current
  <2>6. Exact(store) => Exact(store)'
      BY <2>1, <2>2, <2>4, <2>5 DEF Exact, TypeOK
  <2>7. ASSUME NEW q \in Requests PROVE Exact(kept[q]) => Exact(kept[q])'
      BY <2>1, <2>2, <2>4, <2>5 DEF Exact, TypeOK
  <2>8. \A q \in Replacing : Building(q) => Building(q)'
      BY <2>1, <2>4 DEF Building, TypeOK, Replacing, InFlight
  <2> QED
      BY <1>1, <2>1, <2>2, <2>3, <2>6, <2>7, <2>8 DEF SerialInv, Replacing
<1>3. ASSUME NEW r \in Requests, ReadKept(r) PROVE SerialInv'
  <2>1. /\ pc[r] = "idle" /\ pc'[r] = "read"
        /\ \A q \in Requests \ {r} : pc'[q] = pc[q]
        /\ kept'[r] = {x \in store : x.aggregate # agg[r]}
        /\ todo'[r] = Values(r, agg[r])
        /\ after'[r] = {q \in Requests : pc[q] = "done"}
        /\ \A q \in Requests \ {r} : after'[q] = after[q]
        /\ UNCHANGED <<approved, store, agg, crashes>>
      BY <1>3 DEF ReadKept, TypeOK
  <2>2. \A q \in Requests : alone'[q] = IF q = r THEN Replacing = {}
                                        ELSE alone[q] /\ q \notin Replacing
      BY <1>3 DEF ReadKept, TypeOK
  <2>3. Started' = Started \cup {r} /\ r \notin Started /\ Replacing' = Replacing \cup {r}
      BY <2>1 DEF Started, Replacing, InFlight
  <2>4. AllAlone /\ Replacing = {}
      BY <2>2, <2>3 DEF AllAlone, Started
  <2>5. \A q \in Requests, a \in Aggregates : Values(q, a)' = Values(q, a)
      BY <2>1 DEF Values
  <2>6. OneWriter(kept'[r]) /\ In(kept'[r], agg[r]) = {} /\ Building(r)'
      BY <1>1, <2>1, <2>4, <2>5 DEF OneWriter, In, Building, TypeOK
  <2>7. ASSUME crashes = 0 PROVE Exact(kept[r])'
    <3>1. Exact(store)
        BY <1>1, <2>4, <2>7
    <3>2. \A a \in Aggregates : a # agg[r] => In(kept'[r], a) = In(store, a)
        BY <2>1 DEF In
    <3>3. ASSUME NEW q \in Requests, Current(q)'
          PROVE  In(kept'[r], agg[q]) = Values(q, agg[q])
      <4>1. q # r /\ pc[q] = "done" /\ alone[q]
          BY <2>1, <2>2, <3>3 DEF Current
      <4>2. q \in after'[r] /\ agg[r] # agg[q]
          BY <2>1, <3>3, <4>1 DEF Current
      <4>3. Current(q)
          BY <2>1, <3>3, <4>1, <4>2 DEF Current
      <4> QED
          BY <3>1, <3>2, <4>2, <4>3 DEF Exact, TypeOK
    <3>4. ASSUME NEW a \in Aggregates, \A q \in Started' : agg[q] # a
          PROVE  In(kept'[r], a) = {}
        BY <2>3, <3>1, <3>2, <3>4 DEF Exact
    <3> QED
        BY <2>1, <2>5, <3>3, <3>4 DEF Exact, TypeOK
  <2>8. Replacing' = {r}
      BY <2>3, <2>4
  <2>9. \A q \in Requests : pc'[q] = "done" => q \in after'[r]
      BY <2>1
  <2> QED
      BY <1>1, <2>1, <2>4, <2>6, <2>7, <2>8, <2>9 DEF SerialInv
\* The steps of a replacement: it is the only one, and it was before.
<1>4. ASSUME NEW r \in Requests, Install(r) \/ AppendValue(r) \/ Finish(r) \/ Truncate(r) \/ WriteBack(r)
      PROVE  /\ AllAlone /\ Replacing = {r} /\ Started' = Started
             /\ \A q \in Requests \ {r} : pc'[q] = pc[q]
             /\ UNCHANGED <<approved, agg, kept, crashes, alone, after>>
             /\ \A q \in Requests, a \in Aggregates : Values(q, a)' = Values(q, a)
  <2>1. /\ r \in Replacing /\ pc'[r] \in {"append", "truncated", "done"}
        /\ \A q \in Requests \ {r} : pc'[q] = pc[q]
        /\ UNCHANGED <<approved, agg, kept, crashes, alone, after>>
      BY <1>4 DEF Install, AppendValue, Finish, Truncate, WriteBack, Replacing, InFlight, TypeOK
  <2>2. Started' = Started
      BY <2>1 DEF Started, Replacing, InFlight
  <2>3. AllAlone
      BY <2>1, <2>2 DEF AllAlone
  <2> QED
      BY <1>1, <2>1, <2>2, <2>3 DEF Values
<1>5. ASSUME NEW r \in Requests, Install(r) \/ AppendValue(r) \/ Truncate(r) PROVE SerialInv'
  <2>1. /\ AllAlone /\ Replacing = {r} /\ Started' = Started
        /\ \A q \in Requests \ {r} : pc'[q] = pc[q]
        /\ UNCHANGED <<approved, agg, kept, crashes, alone, after>>
        /\ \A q \in Requests, a \in Aggregates : Values(q, a)' = Values(q, a)
      BY <1>4, <1>5
  <2>2. /\ OneWriter(kept[r]) /\ In(kept[r], agg[r]) = {} /\ Building(r)
        /\ crashes = 0 => Exact(kept[r])
        /\ \A q \in Requests : pc[q] = "done" => q \in after[r]
      BY <1>1, <2>1
  <2>3. pc'[r] \in {"append", "truncated"} /\ Replacing' = {r}
      BY <1>5, <2>1 DEF Install, AppendValue, Truncate, Replacing, InFlight, TypeOK
  <2>4. agg[r] \in Aggregates
      BY DEF TypeOK
  <2>5. Building(r)' /\ store' \subseteq kept[r] \cup Values(r, agg[r])
    <3>1. CASE Install(r)
      <4>1. pc[r] = "read" /\ pc'[r] = "append" /\ store' = kept[r] /\ todo' = todo
          BY <3>1 DEF Install, TypeOK
      <4> QED
          BY <2>1, <2>2, <2>4, <4>1 DEF Building
    <3>2. CASE AppendValue(r)
      <4>1. PICK x \in todo[r] : store' = store \cup {x} /\ todo'[r] = todo[r] \ {x}
          BY <3>2 DEF AppendValue, TypeOK
      <4>2. pc[r] = "append" /\ pc'[r] = "append"
          BY <3>2 DEF AppendValue
      <4> QED
          BY <2>1, <2>2, <2>4, <4>1, <4>2 DEF Building
    <3>3. CASE Truncate(r)
      <4>1. pc[r] = "read" /\ pc'[r] = "truncated" /\ store' = {} /\ todo' = todo
          BY <3>3 DEF Truncate, TypeOK
      <4> QED
          BY <2>1, <2>2, <2>4, <4>1 DEF Building
    <3> QED
        BY <1>5, <3>1, <3>2, <3>3
  <2>6. OneWriter(store')
      BY <2>2, <2>4, <2>5, ReplacementHasOneWriter
  <2>7. Exact(kept[r]) => Exact(kept[r])'
    <3>1. \A q \in Requests : Current(q)' => Current(q)
        BY <2>1, <2>3 DEF Current
    <3> QED
        BY <2>1, <3>1 DEF Exact, TypeOK
  <2>8. \A q \in Requests : pc'[q] = "done" => q \in after'[r]
      BY <2>1, <2>2, <2>3
  <2> QED
      BY <2>1, <2>2, <2>3, <2>5, <2>6, <2>7, <2>8 DEF SerialInv
<1>6. ASSUME NEW r \in Requests, Finish(r) \/ WriteBack(r) PROVE SerialInv'
  <2>1. /\ AllAlone /\ Replacing = {r} /\ Started' = Started
        /\ \A q \in Requests \ {r} : pc'[q] = pc[q]
        /\ UNCHANGED <<approved, agg, kept, crashes, alone, after>>
      BY <1>4, <1>6
  <2>2. /\ OneWriter(kept[r]) /\ In(kept[r], agg[r]) = {} /\ Building(r)
        /\ crashes = 0 => Exact(kept[r])
        /\ \A q \in Requests : pc[q] = "done" => q \in after[r]
      BY <1>1, <2>1
  <2>3. pc'[r] = "done" /\ Replacing' = {} /\ agg[r] \in Aggregates
      BY <1>6, <2>1 DEF Finish, WriteBack, Replacing, InFlight, TypeOK
  <2>4. store' = kept[r] \cup Values(r, agg[r])
    <3>1. CASE Finish(r)
        BY <2>2, <3>1 DEF Finish, Building
    <3>2. CASE WriteBack(r)
      <4>1. PICK tail \in SUBSET store : store' = kept[r] \cup todo[r] \cup tail
          BY <3>2 DEF WriteBack
      <4>2. store = {} /\ todo[r] = Values(r, agg[r])
          BY <2>2, <3>2 DEF WriteBack, Building
      <4> QED
          BY <4>1, <4>2
    <3> QED
        BY <1>6, <3>1, <3>2
  <2>5. OneWriter(store')
      BY <2>2, <2>3, <2>4, ReplacementHasOneWriter
  <2>6. Exact(kept[r]) => Exact(store)'
      BY <2>1, <2>2, <2>3, <2>4, ReplacedExactly
  <2> QED
      BY <2>1, <2>2, <2>3, <2>5, <2>6 DEF SerialInv
<1>7. ASSUME Crash PROVE SerialInv'
  <2>1. Replacing' = {} /\ crashes' # 0 /\ Started' = Started /\ alone' = alone
      BY <1>7 DEF Crash, Replacing, Started, InFlight, TypeOK
  <2>2. AllAlone
      BY <2>1 DEF AllAlone
  <2>3. OneWriter(store')
    <3>1. CASE ~durable
        BY <1>7, <3>1 DEF Crash, OneWriter
    <3>2. CASE durable
      <4> DEFINE unflushed == UNION {kept[r] \cup todo[r] : r \in {q \in Requests : pc[q] = "truncated"}}
      <4>1. PICK part \in SUBSET unflushed : store' = store \cup part
          BY <1>7, <3>2 DEF Crash
      <4>2. CASE \E r \in Requests : pc[r] = "truncated"
        <5>1. PICK r \in Requests : pc[r] = "truncated"
            BY <4>2
        <5>2. Replacing = {r}
            BY <1>1, <2>2, <5>1 DEF Replacing, InFlight
        <5>3. /\ store = {} /\ todo[r] = Values(r, agg[r]) /\ agg[r] \in Aggregates
              /\ OneWriter(kept[r]) /\ In(kept[r], agg[r]) = {}
            BY <1>1, <2>2, <5>1, <5>2 DEF Building, TypeOK
        <5>4. {q \in Requests : pc[q] = "truncated"} = {r}
            BY <5>1, <5>2 DEF Replacing, InFlight
        <5>5. store' \subseteq kept[r] \cup Values(r, agg[r])
            BY <4>1, <5>3, <5>4
        <5> QED
            BY <5>3, <5>5, ReplacementHasOneWriter
      <4>3. CASE ~\E r \in Requests : pc[r] = "truncated"
          BY <1>1, <2>2, <4>1, <4>3
      <4> QED
          BY <4>2, <4>3
    <3> QED
        BY <3>1, <3>2 DEF TypeOK
  <2> QED
      BY <2>1, <2>3 DEF SerialInv
<1>8. CASE UNCHANGED vars
    BY <1>8 DEF vars, SerialInv, AllAlone, Started, OneWriter, Replacing, Exact, In, Building,
           Current, Values
<1> QED
    BY <1>2, <1>3, <1>5, <1>6, <1>7, <1>8 DEF Next

\* Whatever crashes in the middle of a rewrite, the store never mixes two
\* requests' values of one aggregate while replacements do not overlap.
THEOREM OneSnapshotEach == Spec => []OneSnapshotPerAggregate
<1>1. SerialInv => OneSnapshotPerAggregate
    BY DEF SerialInv, OneSnapshotPerAggregate, AllAlone, OneWriter
<1> QED
    BY <1>1, InitType, NextType, InitSerial, NextSerial, PTL DEF Spec

\* Replacements that came one after another leave, in either repository, exactly
\* the values of the last one of every aggregate, and none of an aggregate that
\* no request replaced.
THEOREM SerialStoresAreExact == Spec => []SerialStoreExact
<1>1. SerialInv => SerialStoreExact
    BY DEF SerialInv, SerialStoreExact, AllAlone, Exact, Stored, In
<1> QED
    BY <1>1, InitType, NextType, InitSerial, NextSerial, PTL DEF Spec

-----------------------------------------------------------------------------
(* Such a store is a map of snapshots: a replacement takes effect when the *)
(* list is installed or the file emptied, and the steps after that deliver *)
(* what the store and the request together already hold.                   *)

\* A request that has read the store alone keeps what it has of other aggregates.
\* A request alone in flight read what the store still has.
ReadInv == Serial => \A r \in Requests : pc[r] = "read" =>
                        kept[r] = {x \in store : x.aggregate # agg[r]}

SnapInv == TypeOK /\ SerialInv /\ ReadInv

\* A step that leaves the history serial began with a serial one, and one request
\* in flight takes it.
LEMMA SerialStep ==
    ASSUME TypeOK, SerialInv, [Next]_vars, Serial'
    PROVE  /\ Serial /\ ~Crash
           /\ \A r \in Requests :
                 /\ ReadKept(r) => Replacing = {} /\ Replacing' = {r}
                 /\ Install(r) \/ AppendValue(r) \/ Finish(r) \/ Truncate(r) \/ WriteBack(r)
                    => Replacing = {r} /\ Building(r) /\ In(kept[r], agg[r]) = {}
<1> USE DEF history
<1>1. crashes' = 0 /\ \A q \in Started' : alone'[q]
    BY DEF Serial
<1>2. crashes = 0 /\ ~Crash
  <2>1. crashes \in Nat
      BY DEF TypeOK
  <2>2. crashes' = crashes \/ crashes' = crashes + 1
      BY DEF Next, vars, ProjectOnly, ReadKept, ReadRaises, Install, AppendValue, Finish, Truncate,
             WriteBack, Crash
  <2>3. Crash => crashes' = crashes + 1
      BY DEF Crash
  <2> QED
      BY <1>1, <2>1, <2>2, <2>3
<1>3. ASSUME NEW r \in Requests, ReadKept(r)
      PROVE  Replacing = {} /\ Replacing' = {r} /\ Serial
  <2>1. /\ pc[r] = "idle" /\ pc'[r] = "read" /\ \A q \in Requests \ {r} : pc'[q] = pc[q]
        /\ \A q \in Requests : alone'[q] = IF q = r THEN Replacing = {}
                                           ELSE alone[q] /\ q \notin Replacing
      BY <1>3 DEF ReadKept, TypeOK
  <2>2. Started' = Started \cup {r} /\ r \notin Started /\ Replacing' = Replacing \cup {r}
      BY <2>1 DEF Started, Replacing, InFlight
  <2>3. Replacing = {}
      BY <1>1, <2>1, <2>2
  <2>4. ASSUME NEW q \in Started PROVE alone[q]
    <3>1. q \in Requests /\ q # r /\ q \in Started'
        BY <2>2 DEF Started
    <3>2. alone'[q]
        BY <1>1, <3>1
    <3>3. alone'[q] = (alone[q] /\ q \notin Replacing)
        BY <2>1, <3>1
    <3> QED
        BY <3>2, <3>3
  <2> QED
      BY <1>2, <2>2, <2>3, <2>4 DEF Serial
<1>4. ASSUME NEW r \in Requests,
             ProjectOnly(r) \/ ReadRaises(r) \/ Install(r) \/ AppendValue(r) \/ Finish(r)
             \/ Truncate(r) \/ WriteBack(r)
      PROVE  Serial
  <2>1. /\ alone' = alone /\ \A q \in Requests \ {r} : pc'[q] = pc[q]
        /\ \/ pc[r] = "idle" /\ pc'[r] \in {"answered", "error"}
           \/ pc[r] \in InFlight /\ pc'[r] \in InFlight \cup {"done"}
      BY <1>4 DEF ProjectOnly, ReadRaises, Install, AppendValue, Finish, Truncate, WriteBack,
                  InFlight, TypeOK
  <2>2. Started' = Started
      BY <2>1 DEF Started, InFlight
  <2> QED
      BY <1>1, <1>2, <2>1, <2>2 DEF Serial
<1>5. ASSUME UNCHANGED vars PROVE Serial
    BY <1>1, <1>2, <1>5 DEF Serial, Started, vars
<1>6. Serial
    BY <1>2, <1>3, <1>4, <1>5 DEF Next
<1>7. ASSUME NEW r \in Requests,
             Install(r) \/ AppendValue(r) \/ Finish(r) \/ Truncate(r) \/ WriteBack(r)
      PROVE  Replacing = {r} /\ Building(r) /\ In(kept[r], agg[r]) = {}
  <2>1. r \in Replacing
      BY <1>7 DEF Install, AppendValue, Finish, Truncate, WriteBack, Replacing, InFlight
  <2>2. AllAlone
      BY <1>6 DEF Serial, AllAlone
  <2> QED
      BY <2>1, <2>2 DEF SerialInv
<1> QED
    BY <1>2, <1>3, <1>6, <1>7

\* Nobody has read yet.
LEMMA InitRead == Init => ReadInv
BY DEF Init, ReadInv

\* Only ReadKept brings a request to "read", and then no other request writes.
LEMMA NextRead == TypeOK /\ SerialInv /\ ReadInv /\ [Next]_vars => ReadInv'
<1> SUFFICES ASSUME TypeOK, SerialInv, ReadInv, [Next]_vars, Serial',
                    NEW r \in Requests, pc'[r] = "read"
             PROVE  kept'[r] = {x \in store' : x.aggregate # agg'[r]}
    BY DEF ReadInv
<1>1. /\ Serial /\ ~Crash
      /\ \A q \in Requests :
            /\ ReadKept(q) => Replacing = {} /\ Replacing' = {q}
            /\ Install(q) \/ AppendValue(q) \/ Finish(q) \/ Truncate(q) \/ WriteBack(q)
               => Replacing = {q}
    BY SerialStep
<1>2. ASSUME NEW q \in Requests, ReadKept(q)
      PROVE  kept'[r] = {x \in store' : x.aggregate # agg'[r]}
  <2>1. r \in Replacing'
      BY DEF Replacing, InFlight
  <2>2. r = q
      BY <1>1, <1>2, <2>1
  <2> QED
      BY <1>2, <2>2 DEF ReadKept, TypeOK
<1>3. ASSUME NEW q \in Requests,
             Install(q) \/ AppendValue(q) \/ Finish(q) \/ Truncate(q) \/ WriteBack(q)
      PROVE  FALSE
  <2>1. /\ pc'[q] \in {"append", "truncated", "done"} /\ \A p \in Requests \ {q} : pc'[p] = pc[p]
      BY <1>3 DEF Install, AppendValue, Finish, Truncate, WriteBack, TypeOK
  <2>2. r # q /\ pc[r] = "read"
      BY <2>1
  <2>3. r \in Replacing
      BY <2>2 DEF Replacing, InFlight
  <2> QED
      BY <1>1, <1>3, <2>2, <2>3
<1>4. ASSUME NEW q \in Requests, ProjectOnly(q) \/ ReadRaises(q)
      PROVE  kept'[r] = {x \in store' : x.aggregate # agg'[r]}
  <2>1. pc[r] = "read" /\ UNCHANGED <<kept, store, agg>>
      BY <1>4 DEF ProjectOnly, ReadRaises, TypeOK
  <2> QED
      BY <1>1, <2>1 DEF ReadInv
<1>5. ASSUME UNCHANGED vars
      PROVE  kept'[r] = {x \in store' : x.aggregate # agg'[r]}
    BY <1>1, <1>5 DEF vars, ReadInv
<1> QED
    BY <1>1, <1>2, <1>3, <1>4, <1>5 DEF Next

\* What the one request in flight, if any, adds to the store.
PromisedByOne ==
    /\ Replacing = {} => Promised = store
    /\ \A r \in Requests : Replacing = {r} =>
          /\ pc[r] = "read" => Promised = store
          /\ pc[r] = "append" => Promised = store \cup todo[r]
          /\ pc[r] = "truncated" => Promised = store \cup kept[r] \cup todo[r]

LEMMA PromisedIs == PromisedByOne
<1> USE DEF PromisedByOne
<1> DEFINE appending == {q \in Requests : pc[q] = "append"}
           rewriting == {q \in Requests : pc[q] = "truncated"}
           mine(q) == kept[q] \cup todo[q]
<1>1. appending \subseteq Replacing /\ rewriting \subseteq Replacing
    BY DEF Replacing, InFlight
<1>2. Appending = UNION {todo[q] : q \in appending}
    BY DEF Appending
<1>3. Rewriting = UNION {mine(q) : q \in rewriting}
    BY DEF Rewriting
<1>4. ASSUME NEW r \in Requests, Replacing = {r}
      PROVE  /\ pc[r] = "read" => appending = {} /\ rewriting = {}
             /\ pc[r] = "append" => appending = {r} /\ rewriting = {}
             /\ pc[r] = "truncated" => appending = {} /\ rewriting = {r}
    BY <1>1, <1>4
<1> HIDE DEF appending, rewriting, mine
<1>5. /\ appending = {} => Appending = {}
      /\ rewriting = {} => Rewriting = {}
      /\ \A r : appending = {r} => Appending = todo[r]
      /\ \A r : rewriting = {r} => Rewriting = mine(r)
    BY <1>2, <1>3
<1>6. Replacing = {} => Promised = store
    BY <1>1, <1>5 DEF Promised
<1>7. ASSUME NEW r \in Requests, Replacing = {r}
      PROVE  /\ pc[r] = "read" => Promised = store
             /\ pc[r] = "append" => Promised = store \cup todo[r]
             /\ pc[r] = "truncated" => Promised = store \cup mine(r)
    BY <1>4, <1>5, <1>7 DEF Promised
<1>8. \A r : mine(r) = kept[r] \cup todo[r]
    BY DEF mine
<1>9. ASSUME NEW r \in Requests PROVE store \cup mine(r) = store \cup kept[r] \cup todo[r]
    BY <1>8
<1> QED
    BY <1>6, <1>7, <1>9

\* So it is in every state, in the next one too.
LEMMA PromisedNext == PromisedByOne'
BY PromisedIs, PTL

\* A snapshot is replaced by one that has the values of the request instead.
LEMMA ReplacesSnapshot ==
    ASSUME TypeOK, TypeOK', NEW r \in Requests, Promised = store,
           kept[r] = {x \in store : x.aggregate # agg[r]},
           Promised' = kept[r] \cup Values(r, agg[r]), UNCHANGED <<approved, agg>>,
           pc[r] = "read", pc'[r] \in {"append", "truncated"},
           \A q \in Requests \ {r} : pc'[q] = pc[q]
    PROVE  Snapshots!Replace(r)
<1>1. \A q \in Requests, a \in Aggregates : Values(q, a)' = Values(q, a)
    BY DEF Values
<1>2. agg[r] \in Aggregates
    BY DEF TypeOK
<1>3. \A x \in Values(r, agg[r]) : x.aggregate = agg[r]
    BY <1>2, ValuesAreItsOwn
<1> DEFINE snapshot == [a \in Aggregates |-> {x \in Promised : x.aggregate = a}]
           projected == [q \in Requests |-> Values(q, agg[q])]
           replaced == {q \in Requests : pc[q] \in {"append", "truncated", "done"}}
           finished == {q \in Requests : pc[q] = "done"}
<1>4. ASSUME NEW a \in Aggregates
      PROVE  {x \in Promised' : x.aggregate = a}
                 = IF a = agg[r] THEN Values(r, agg[r]) ELSE {x \in Promised : x.aggregate = a}
  <2>1. CASE a = agg[r]
      BY <1>3, <2>1
  <2>2. CASE a # agg[r]
      BY <1>3, <2>2
  <2> QED
      BY <2>1, <2>2
<1>5. snapshot' = [snapshot EXCEPT ![agg[r]] = projected[r]]
  <2>1. snapshot' = [a \in Aggregates |-> IF a = agg[r] THEN Values(r, agg[r])
                                          ELSE {x \in Promised : x.aggregate = a}]
      BY <1>4
  <2>2. projected[r] = Values(r, agg[r])
      OBVIOUS
  <2> QED
      BY <2>1, <2>2
<1>6. projected' = projected
    BY <1>1 DEF TypeOK
<1>7. r \notin replaced /\ replaced' = replaced \cup {r} /\ finished' = finished
    OBVIOUS
<1> QED
    BY <1>5, <1>6, <1>7 DEF Snapshots!Replace

\* A step the abstract store does not see.
LEMMA StepUnseen ==
    ASSUME UNCHANGED <<approved, agg, Promised>>,
           \A q \in Requests : \/ pc'[q] = pc[q]
                               \/ /\ pc[q] \notin {"append", "truncated", "done"}
                                  /\ pc'[q] \notin {"append", "truncated", "done"}
    PROVE  UNCHANGED (Snapshots!vars)
<1>1. \A q, a : Values(q, a)' = Values(q, a)
    BY DEF Values
<1>2. [q \in Requests |-> Values(q, agg[q])]' = [q \in Requests |-> Values(q, agg[q])]
    BY <1>1
<1>3. {q \in Requests : pc[q] \in {"append", "truncated", "done"}}'
          = {q \in Requests : pc[q] \in {"append", "truncated", "done"}}
    OBVIOUS
<1>4. {q \in Requests : pc[q] = "done"}' = {q \in Requests : pc[q] = "done"}
    OBVIOUS
<1>5. [a \in Aggregates |-> {x \in Promised : x.aggregate = a}]'
          = [a \in Aggregates |-> {x \in Promised : x.aggregate = a}]
    OBVIOUS
<1> QED
    BY <1>2, <1>3, <1>4, <1>5 DEF Snapshots!vars

\* What changes nothing in the store changes nothing of its snapshots.
LEMMA StutterUnseen == UNCHANGED vars => UNCHANGED (Snapshots!vars)
<1> SUFFICES ASSUME UNCHANGED vars PROVE UNCHANGED (Snapshots!vars)
    OBVIOUS
<1>1. UNCHANGED <<approved, agg, store, kept, todo, pc>>
    BY DEF vars
<1>2. Promised' = Promised
    BY <1>1 DEF Promised, Appending, Rewriting
<1> QED
    BY <1>1, <1>2, StepUnseen

\* Install and Truncate replace a snapshot, Finish and WriteBack end a request; every
\* other step of a serial history leaves the snapshots alone.
LEMMA StepRefines ==
    ASSUME TypeOK, TypeOK', SerialInv, ReadInv, [Next]_vars, Serial'
    PROVE  [Snapshots!Next]_(Snapshots!vars)
<1> USE DEF history, config
<1>1. /\ Serial /\ ~Crash
      /\ \A r \in Requests :
            /\ ReadKept(r) => Replacing = {} /\ Replacing' = {r}
            /\ Install(r) \/ AppendValue(r) \/ Finish(r) \/ Truncate(r) \/ WriteBack(r)
               => Replacing = {r} /\ Building(r) /\ In(kept[r], agg[r]) = {}
    BY SerialStep
<1>2. \A q \in Requests : pc[q] = "read" => kept[q] = {x \in store : x.aggregate # agg[q]}
    BY <1>1 DEF ReadInv
<1>3. ASSUME NEW r \in Requests, Install(r) \/ Truncate(r)
      PROVE  Snapshots!Replace(r)
  <2>1. /\ pc[r] = "read" /\ pc'[r] \in {"append", "truncated"}
        /\ pc'[r] = "append" => store' = kept[r]
        /\ pc'[r] = "truncated" => store' = {}
        /\ \A q \in Requests \ {r} : pc'[q] = pc[q]
        /\ UNCHANGED <<approved, agg, kept, todo>>
      BY <1>3 DEF Install, Truncate, TypeOK
  <2>2. Replacing = {r} /\ Replacing' = {r} /\ todo[r] = Values(r, agg[r])
    <3>1. Replacing = {r} /\ Building(r)
        BY <1>1, <1>3
    <3>2. Replacing' = Replacing
        BY <2>1 DEF Replacing, InFlight
    <3> QED
        BY <2>1, <3>1, <3>2 DEF Building
  <2>3. Promised = store
      BY <2>1, <2>2, PromisedIs DEF PromisedByOne
  <2>4. Promised' = kept[r] \cup Values(r, agg[r])
      BY <2>1, <2>2, PromisedNext DEF PromisedByOne
  <2> QED
      BY <1>2, <2>1, <2>3, <2>4, ReplacesSnapshot
<1>4. ASSUME NEW r \in Requests, ProjectOnly(r) \/ ReadRaises(r)
      PROVE  UNCHANGED (Snapshots!vars)
  <2>1. /\ pc[r] = "idle" /\ pc'[r] \in {"answered", "error"}
        /\ \A q \in Requests \ {r} : pc'[q] = pc[q]
        /\ UNCHANGED <<approved, agg, store, kept, todo>>
      BY <1>4 DEF ProjectOnly, ReadRaises, TypeOK
  <2>2. Promised' = Promised
      BY <2>1 DEF Promised, Appending, Rewriting
  <2> QED
      BY <2>1, <2>2, StepUnseen
<1>5. ASSUME NEW r \in Requests, ReadKept(r)
      PROVE  UNCHANGED (Snapshots!vars)
  <2>1. /\ pc[r] = "idle" /\ pc'[r] = "read" /\ \A q \in Requests \ {r} : pc'[q] = pc[q]
        /\ UNCHANGED <<approved, agg, store>>
      BY <1>5 DEF ReadKept, TypeOK
  <2>2. Promised = store /\ Promised' = store'
      BY <1>1, <1>5, <2>1, PromisedIs, PromisedNext DEF PromisedByOne
  <2> QED
      BY <2>1, <2>2, StepUnseen
<1>6. ASSUME NEW r \in Requests, AppendValue(r)
      PROVE  UNCHANGED (Snapshots!vars)
  <2>1. Replacing = {r} /\ Replacing' = {r}
      BY <1>1, <1>6 DEF AppendValue, Replacing
  <2>2. store' \cup todo'[r] = store \cup todo[r]
      BY <1>6 DEF AppendValue, TypeOK
  <2>3. Promised' = Promised
      BY <1>6, <2>1, <2>2, PromisedIs, PromisedNext DEF PromisedByOne, AppendValue
  <2> QED
      BY <1>6, <2>3, StepUnseen DEF AppendValue
<1>7. ASSUME NEW r \in Requests, Finish(r) \/ WriteBack(r)
      PROVE  Snapshots!Finish(r)
  <2>1. /\ pc[r] \in {"append", "truncated"} /\ pc'[r] = "done"
        /\ \A q \in Requests \ {r} : pc'[q] = pc[q]
        /\ UNCHANGED <<approved, agg>>
      BY <1>7 DEF Finish, WriteBack, TypeOK
  <2>2. Replacing = {r} /\ Replacing' = {} /\ Building(r)
    <3>1. Replacing' = Replacing \ {r}
        BY <2>1 DEF Replacing, InFlight
    <3> QED
        BY <1>1, <1>7, <3>1
  <2>3. Promised' = Promised
    <3>1. CASE Finish(r)
        BY <2>1, <2>2, <3>1, PromisedIs, PromisedNext DEF PromisedByOne, Finish
    <3>2. CASE WriteBack(r)
      <4>1. store' = kept[r] \cup todo[r] /\ store = {}
          BY <2>2, <3>2 DEF WriteBack, Building
      <4> QED
          BY <2>1, <2>2, <3>2, <4>1, PromisedIs, PromisedNext DEF PromisedByOne, WriteBack
    <3> QED
        BY <1>7, <3>1, <3>2
  <2>4. \A q \in Requests, a \in Aggregates : Values(q, a)' = Values(q, a)
      BY <2>1 DEF Values
  <2>5. [q \in Requests |-> Values(q, agg[q])]' = [q \in Requests |-> Values(q, agg[q])]
      BY <2>1, <2>4 DEF TypeOK
  <2>6. [a \in Aggregates |-> {x \in Promised : x.aggregate = a}]'
            = [a \in Aggregates |-> {x \in Promised : x.aggregate = a}]
      BY <2>3
  <2>7. {q \in Requests : pc[q] \in {"append", "truncated", "done"}}'
            = {q \in Requests : pc[q] \in {"append", "truncated", "done"}}
      BY <2>1
  <2>8. /\ r \in {q \in Requests : pc[q] \in {"append", "truncated", "done"}}
                  \ {q \in Requests : pc[q] = "done"}
        /\ {q \in Requests : pc[q] = "done"}' = {q \in Requests : pc[q] = "done"} \cup {r}
      BY <2>1
  <2> QED
      BY <2>1, <2>5, <2>6, <2>7, <2>8 DEF Snapshots!Finish
<1> QED
    BY <1>1, <1>3, <1>4, <1>5, <1>6, <1>7, StutterUnseen DEF Next, Snapshots!Next

\* "Re-projecting the same approved_evidence_id replaces that approved-evidence
\* snapshot": for any aggregates, mappings and requests, in memory or in the file,
\* the steps of replace_for_approved_evidence are one atomic replacement of one
\* aggregate's values, up to the moment two of them overlap or the process stops.
THEOREM SerialRefinement == Spec => ImplementsSnapshots
<1>1. Init => Snapshots!Init
  <2> SUFFICES ASSUME Init PROVE Snapshots!Init
      OBVIOUS
  <2>1. pc = [r \in Requests |-> "idle"] /\ store = {}
      BY DEF Init
  <2>2. Promised = {}
      BY <2>1, PromisedIs DEF PromisedByOne, Replacing, InFlight
  <2> QED
      BY <2>1, <2>2 DEF Snapshots!Init
<1>2. TypeOK /\ TypeOK' /\ SerialInv /\ ReadInv /\ [Next]_vars
          => (Serial' => [Snapshots!Next]_(Snapshots!vars))
    BY StepRefines
<1> QED
    BY InitType, NextType, InitSerial, NextSerial, InitRead, NextRead, <1>1, <1>2, PTL
    DEF Spec, ImplementsSnapshots

\* The same as an implementation of the abstract specification: a behaviour of the
\* store in which no two replacements ever overlap and nothing crashes is one of
\* AggregateSnapshots, under the mapping of MethodologyValues.
THEOREM SerialStoreIsASnapshotMap == Spec /\ []Serial => Snapshots!Spec
BY SerialRefinement, StutterUnseen, PTL DEF ImplementsSnapshots, Snapshots!Spec
=============================================================================
