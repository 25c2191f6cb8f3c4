------------------------- MODULE DocumentLifecycle -------------------------
(***************************************************************************)
(* What the document API promises about processing_status, without any of  *)
(* the pipeline: a registered document is processed by attempts; the       *)
(* status follows the last attempt that began or ended, and only attempts  *)
(* that are still active can end.  An attempt may also be abandoned (the   *)
(* process stopped, or its last write failed), which leaves the status as  *)
(* it is.  DocumentProcessing implements this specification.               *)
(***************************************************************************)
CONSTANTS Documents, Attempts

VARIABLES status,   \* [Documents -> Status], the status GET /documents/{id} reports
          active    \* [Documents -> SUBSET Attempts], attempts under way

vars == <<status, active>>

Registered == {"not_started", "queued", "in_progress", "completed", "failed"}
Status == Registered \cup {"absent"}
Outcomes == {"completed", "failed"}

TypeOK == /\ status \in [Documents -> Status]
          /\ active \in [Documents -> SUBSET Attempts]

Init == /\ status = [d \in Documents |-> "absent"]
        /\ active = [d \in Documents |-> {}]

Register(d, s) ==
    /\ status[d] = "absent"
    /\ status' = [status EXCEPT ![d] = s]
    /\ UNCHANGED active

Begin(d, a) ==
    /\ status[d] # "absent"
    /\ \A e \in Documents : a \notin active[e]
    /\ status' = [status EXCEPT ![d] = "in_progress"]
    /\ active' = [active EXCEPT ![d] = @ \cup {a}]

End(d, a, outcome) ==
    /\ a \in active[d]
    /\ status' = [status EXCEPT ![d] = outcome]
    /\ active' = [active EXCEPT ![d] = @ \ {a}]

Abandon(A) ==
    /\ active' = [d \in Documents |-> active[d] \ A]
    /\ UNCHANGED status

Next == \/ \E d \in Documents, s \in Registered : Register(d, s)
        \/ \E d \in Documents, a \in Attempts : Begin(d, a)
        \/ \E d \in Documents, a \in Attempts, o \in Outcomes : End(d, a, o)
        \/ \E A \in SUBSET Attempts : Abandon(A)

Spec == Init /\ [][Next]_vars
=============================================================================
