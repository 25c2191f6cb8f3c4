---------------------------- MODULE LoginSessions ----------------------------
(***************************************************************************)
(* The sign-in state of one account (services/login.py, sessions.py,       *)
(* password_reset.py): password and code step, resend, reset, and the use  *)
(* and end of sessions.  Accounts share no rows.                           *)
(*                                                                         *)
(* A request is one database transaction at READ COMMITTED: it reads the   *)
(* clock and a token, then the user, decides, executes its writes, which   *)
(* lock the rows they touch, and commits.  Reads take no locks, so what a  *)
(* request decided on may have changed when it writes.                     *)
(*                                                                         *)
(* Passwords and codes are right or wrong for the hash that was read.  The *)
(* lifetimes are constants on a small clock; MaxTime bounds the clock.     *)
(* Earlier names the token or session the account had before.              *)
(***************************************************************************)
EXTENDS Naturals, FiniteSets

CONSTANTS Requests, Earlier, MaxTime,
          MAX_FAILED_LOGINS, MAX_OTP_ATTEMPTS, MAX_RESENDS,
          LOCKOUT, OTP_TTL, RESEND_COOLDOWN, RESET_TTL,
          ABSOLUTE_LIFETIME, IDLE_TIMEOUT, LAST_SEEN_REFRESH

ASSUME LoginAssumption ==
    /\ Earlier \notin Requests
    /\ MaxTime \in Nat
    /\ {MAX_FAILED_LOGINS, MAX_OTP_ATTEMPTS, MAX_RESENDS} \subseteq Nat \ {0}
    /\ {LOCKOUT, OTP_TTL, RESEND_COOLDOWN, RESET_TTL} \subseteq Nat \ {0}
    /\ {ABSOLUTE_LIFETIME, IDLE_TIMEOUT, LAST_SEEN_REFRESH} \subseteq Nat \ {0}

VARIABLES
    now,
    user,        \* the row of users
    challenges,  \* [Ids -> the row of auth_tokens of type login_otp]
    resets,      \* [Ids -> the row of auth_tokens of type password_reset]
    sessions,    \* [Ids -> the row of sessions]
    pc, op,      \* [Requests -> step, what was asked]
    read,        \* [Requests -> the clock and the fields it read and uses later]
    outcome,     \* [Requests -> what it decided]
    rows,        \* [Requests -> rows its last UPDATE or DELETE selected]
    after,       \* history: [Requests -> requests that ended before it began]
    streak       \* history: failures committed since the last success or reset

db == <<user, challenges, resets, sessions>>
vars == <<now, db, pc, op, read, outcome, rows, after, streak>>

-----------------------------------------------------------------------------
Ids == Requests \cup {Earlier}

\* target: the token or session presented; ok: the password or code is right,
\* the new password acceptable.
Op == [kind : {"login"}, target : {Earlier}, ok : BOOLEAN]
      \cup [kind : {"verify", "confirm"}, target : Ids, ok : BOOLEAN]
      \cup [kind : {"resend", "use", "logout"}, target : Ids, ok : {TRUE}]
      \cup [kind : {"request"}, target : {Earlier}, ok : {TRUE}]
NoOp == [kind |-> "none"]

Outcome == {"none", "refused", "failed", "challenge", "wrong", "exhausted",
            "session", "resent", "link", "reset", "touch", "logout"}

Time == 0..(MaxTime + LOCKOUT + OTP_TTL + RESET_TTL + ABSOLUTE_LIFETIME)
User == [count : 0..(MAX_FAILED_LOGINS - 1), until : Time, active : BOOLEAN]
Challenge == [made : BOOLEAN, consumed : BOOLEAN, expires : Time,
              attempts : 0..MAX_OTP_ATTEMPTS, resends : Nat, sent : Time]
Reset == [made : BOOLEAN, consumed : BOOLEAN, expires : Time]
Session == [made : BOOLEAN, live : BOOLEAN, expires : Time, seen : Time]

NoChallenge == [made |-> FALSE, consumed |-> FALSE, expires |-> 0, attempts |-> 0,
                resends |-> 0, sent |-> 0]
NewChallenge(t) == [made |-> TRUE, consumed |-> FALSE, expires |-> t + OTP_TTL,
                    attempts |-> 0, resends |-> 0, sent |-> t]
NoReset == [made |-> FALSE, consumed |-> FALSE, expires |-> 0]
NewReset(t) == [made |-> TRUE, consumed |-> FALSE, expires |-> t + RESET_TTL]
NoSession == [made |-> FALSE, live |-> FALSE, expires |-> 0, seen |-> 0]
NewSession(t) == [made |-> TRUE, live |-> TRUE, expires |-> t + ABSOLUTE_LIFETIME, seen |-> t]

Nothing == [at |-> 0, attempts |-> 0, count |-> 0, seen |-> 0]

TypeOK ==
    /\ now \in 0..MaxTime
    /\ user \in User
    /\ challenges \in [Ids -> Challenge]
    /\ resets \in [Ids -> Reset]
    /\ sessions \in [Ids -> Session]
    /\ pc \in [Requests -> {"idle", "begun", "decided", "waiting", "written", "done"}]
    /\ op \in [Requests -> Op \cup {NoOp}]
    /\ read \in [Requests -> [at : 0..MaxTime, attempts : 0..MAX_OTP_ATTEMPTS,
                             count : 0..(MAX_FAILED_LOGINS - 1), seen : Time]]
    /\ outcome \in [Requests -> Outcome]
    /\ rows \in [Requests -> SUBSET Ids]
    /\ after \in [Requests -> SUBSET Requests]
    /\ streak \in Nat

Init ==
    /\ now = 0
    /\ user = [count |-> 0, until |-> 0, active |-> TRUE]
    /\ \E c \in {NoChallenge, NewChallenge(0)} :
         challenges = [i \in Ids |-> IF i = Earlier THEN c ELSE NoChallenge]
    /\ \E k \in {NoReset, NewReset(0)} :
         resets = [i \in Ids |-> IF i = Earlier THEN k ELSE NoReset]
    /\ \E s \in {NoSession, NewSession(0)} :
         sessions = [i \in Ids |-> IF i = Earlier THEN s ELSE NoSession]
    /\ pc = [r \in Requests |-> "idle"]
    /\ op = [r \in Requests |-> NoOp]
    /\ read = [r \in Requests |-> Nothing]
    /\ outcome = [r \in Requests |-> "none"]
    /\ rows = [r \in Requests |-> {}]
    /\ after = [r \in Requests |-> {}]
    /\ streak = 0

-----------------------------------------------------------------------------
(* Reading.                                                                *)

Usable(token) == token.made /\ ~token.consumed /\ token.expires > now

\* ResolvedSession.is_valid, with the status the lookup joins.
IsValid(s) ==
    /\ s.live
    /\ now < s.expires
    /\ now <= s.seen + IDLE_TIMEOUT
    /\ user.active

\* What the first lookup of a request must find.
Admitted(o) ==
    CASE o.kind \in {"login", "request"} -> TRUE
      [] o.kind = "verify" -> Usable(challenges[o.target])
      [] o.kind = "resend" -> LET c == challenges[o.target] IN
                              /\ Usable(c)
                              /\ c.resends < MAX_RESENDS
                              /\ now >= c.sent + RESEND_COOLDOWN
      [] o.kind = "confirm" -> Usable(resets[o.target])
      [] o.kind \in {"use", "logout"} -> IsValid(sessions[o.target])

Ended == {r \in Requests : pc[r] = "done" /\ outcome[r] # "refused"}

\* The request ends without having changed anything; nothing of it is kept.
Refuse(r) ==
    /\ pc' = [pc EXCEPT ![r] = "done"]
    /\ outcome' = [outcome EXCEPT ![r] = "refused"]
    /\ op' = [op EXCEPT ![r] = NoOp]
    /\ read' = [read EXCEPT ![r] = Nothing]
    /\ rows' = [rows EXCEPT ![r] = {}]
    /\ after' = [after EXCEPT ![r] = {}]
    /\ UNCHANGED <<now, db, streak>>

\* now = utcnow(), and the lookup of the organization, token or session.
Begin(r, o) ==
    /\ pc[r] = "idle"
    /\ Admitted(o)
    /\ pc' = [pc EXCEPT ![r] = "begun"]
    /\ op' = [op EXCEPT ![r] = o]
    /\ read' = [read EXCEPT ![r] =
          [at |-> now,
           attempts |-> IF o.kind = "verify" THEN challenges[o.target].attempts ELSE 0,
           count |-> 0,
           seen |-> IF o.kind = "use" THEN sessions[o.target].seen ELSE 0]]
    /\ after' = [after EXCEPT ![r] = Ended]
    /\ UNCHANGED <<now, db, outcome, rows, streak>>

NotAdmitted(r, o) == pc[r] = "idle" /\ ~Admitted(o) /\ Refuse(r)

Locked(r) == user.until > read[r].at

\* What the request does after it has read the user.  A use of a session that was
\* seen lately writes nothing, like a refused request; a logout deletes the row
\* that it may have touched.
Decide(r) ==
    LET o == op[r] IN
    CASE o.kind = "login" ->
           IF Locked(r) THEN "refused"
           ELSE IF o.ok /\ user.active THEN "challenge" ELSE "failed"
      [] o.kind = "verify" ->
           IF ~user.active \/ Locked(r) THEN "refused"
           ELSE IF o.ok THEN "session"
           ELSE IF read[r].attempts + 1 >= MAX_OTP_ATTEMPTS THEN "exhausted" ELSE "wrong"
      [] o.kind = "resend" -> IF user.active THEN "resent" ELSE "refused"
      [] o.kind = "request" -> IF user.active THEN "link" ELSE "refused"
      [] o.kind = "confirm" -> IF user.active /\ o.ok THEN "reset" ELSE "refused"
      [] o.kind = "use" -> IF read[r].at < read[r].seen + LAST_SEEN_REFRESH THEN "refused"
                           ELSE "touch"
      [] o.kind = "logout" -> "logout"

ReadUser(r) ==
    /\ pc[r] = "begun"
    /\ Decide(r) # "refused"
    /\ outcome' = [outcome EXCEPT ![r] = Decide(r)]
    /\ read' = [read EXCEPT ![r].count =
          IF Decide(r) \in {"failed", "exhausted"} THEN user.count ELSE 0]
    /\ pc' = [pc EXCEPT ![r] = "decided"]
    /\ UNCHANGED <<now, db, op, rows, after, streak>>

UserRefused(r) == pc[r] = "begun" /\ Decide(r) = "refused" /\ Refuse(r)

-----------------------------------------------------------------------------
(* Writing.                                                                *)

\* The rows selected by the conditions of an UPDATE or DELETE, as committed
\* when it is executed: unused tokens of the user, or all its sessions.
Selected(r) ==
    CASE outcome[r] = "challenge" -> {c \in Ids : challenges[c].made /\ ~challenges[c].consumed}
      [] outcome[r] = "link" -> {k \in Ids : resets[k].made /\ ~resets[k].consumed}
      [] outcome[r] = "reset" -> {s \in Ids : sessions[s].live}
      [] OTHER -> {}

\* Variant: a code step that succeeds does not update the user.
LocksOfTokenOnly(r, S) ==
    LET t == op[r].target IN
    CASE outcome[r] = "challenge" -> {<<"challenge", c>> : c \in S}
      [] outcome[r] = "failed" -> {<<"user", Earlier>>}
      [] outcome[r] \in {"wrong", "resent", "session"} -> {<<"challenge", t>>}
      [] outcome[r] = "exhausted" -> {<<"challenge", t>>, <<"user", Earlier>>}
      [] outcome[r] = "link" -> {<<"reset", k>> : k \in S}
      [] outcome[r] = "reset" -> {<<"user", Earlier>>, <<"reset", t>>}
                                 \cup {<<"session", s>> : s \in S}
      [] outcome[r] \in {"touch", "logout"} -> {<<"session", t>>}

\* The rows the request has written, locked until it ends; the user is one row.
Locks(r, S) ==
    LET t == op[r].target IN
    CASE outcome[r] = "challenge" -> {<<"challenge", c>> : c \in S}
      [] outcome[r] = "failed" -> {<<"user", Earlier>>}
      [] outcome[r] \in {"wrong", "resent"} -> {<<"challenge", t>>}
      [] outcome[r] \in {"exhausted", "session"} -> {<<"challenge", t>>, <<"user", Earlier>>}
      [] outcome[r] = "link" -> {<<"reset", k>> : k \in S}
      [] outcome[r] = "reset" -> {<<"user", Earlier>>, <<"reset", t>>}
                                 \cup {<<"session", s>> : s \in S}
      [] outcome[r] \in {"touch", "logout"} -> {<<"session", t>>}

Writing == {r \in Requests : pc[r] = "written"}

\* The UPDATE of the unused tokens, the first statement of such a request, starts:
\* rows inserted from now on are not seen by it.
StartUpdate(r) ==
    /\ pc[r] = "decided"
    /\ outcome[r] \in {"challenge", "link"}
    /\ rows' = [rows EXCEPT ![r] = Selected(r)]
    /\ pc' = [pc EXCEPT ![r] = "waiting"]
    /\ UNCHANGED <<now, db, op, read, outcome, after, streak>>

\* Rows that still meet the condition once nobody else has them locked.  The
\* DELETE of a reset starts with the user locked, when no session can be added.
Touched(r) == IF pc[r] = "waiting" THEN rows[r] \cap Selected(r) ELSE Selected(r)

\* The statements of the request, which wait for the rows others have locked.
Write(r) ==
    /\ pc[r] = IF outcome[r] \in {"challenge", "link"} THEN "waiting" ELSE "decided"
    /\ \A q \in Writing : Locks(r, Touched(r)) \cap Locks(q, rows[q]) = {}
    /\ rows' = [rows EXCEPT ![r] = Touched(r)]
    /\ pc' = [pc EXCEPT ![r] = "written"]
    /\ UNCHANGED <<now, db, op, read, outcome, after, streak>>

-----------------------------------------------------------------------------
(* Commit, per outcome.                                                    *)

Commit(r, o) ==
    /\ pc[r] = "written"
    /\ outcome[r] = o
    /\ pc' = [pc EXCEPT ![r] = "done"]
    /\ read' = [read EXCEPT ![r] = Nothing]
    /\ UNCHANGED <<now, op, outcome, rows, after>>

\* _record_failure writes the count it computed from the one it read.
FailedUser(r) ==
    IF read[r].count + 1 >= MAX_FAILED_LOGINS
    THEN [user EXCEPT !.count = 0, !.until = read[r].at + LOCKOUT]
    ELSE [user EXCEPT !.count = read[r].count + 1]

RecordFailure(r) ==
    /\ Commit(r, "failed")
    /\ user' = FailedUser(r)
    /\ streak' = streak + 1
    /\ UNCHANGED <<challenges, resets, sessions>>

\* Variant: earlier codes stay usable.
AddChallenge(r) ==
    /\ Commit(r, "challenge")
    /\ challenges' = [challenges EXCEPT ![r] = NewChallenge(read[r].at)]
    /\ UNCHANGED <<user, resets, sessions, streak>>

\* start_login, password accepted: earlier unused codes die.
IssueChallenge(r) ==
    /\ Commit(r, "challenge")
    /\ challenges' = [c \in Ids |-> IF c = r THEN NewChallenge(read[r].at)
                                    ELSE IF c \in rows[r]
                                    THEN [challenges[c] EXCEPT !.consumed = TRUE]
                                    ELSE challenges[c]]
    /\ UNCHANGED <<user, resets, sessions, streak>>

WrongCode(r) ==
    /\ Commit(r, "wrong")
    /\ challenges' = [challenges EXCEPT ![op[r].target].attempts = read[r].attempts + 1]
    /\ UNCHANGED <<user, resets, sessions, streak>>

ExhaustChallenge(r) ==
    /\ Commit(r, "exhausted")
    /\ challenges' = [challenges EXCEPT ![op[r].target] =
          [@ EXCEPT !.attempts = read[r].attempts + 1, !.consumed = TRUE]]
    /\ user' = FailedUser(r)
    /\ streak' = streak + 1
    /\ UNCHANGED <<resets, sessions>>

\* Variant: the code is not marked used.
OpenAgain(r) ==
    /\ Commit(r, "session")
    /\ user' = [user EXCEPT !.count = 0, !.until = 0]
    /\ \E t \in read[r].at..now : sessions' = [sessions EXCEPT ![r] = NewSession(t)]
    /\ streak' = 0
    /\ UNCHANGED <<challenges, resets>>

\* Variant: failures are not cleared.
OpenUncleared(r) ==
    /\ Commit(r, "session")
    /\ challenges' = [challenges EXCEPT ![op[r].target].consumed = TRUE]
    /\ \E t \in read[r].at..now : sessions' = [sessions EXCEPT ![r] = NewSession(t)]
    /\ streak' = 0
    /\ UNCHANGED <<user, resets>>

\* verify_login, code accepted; create_session reads the clock again.
OpenSession(r) ==
    /\ Commit(r, "session")
    /\ challenges' = [challenges EXCEPT ![op[r].target].consumed = TRUE]
    /\ user' = [user EXCEPT !.count = 0, !.until = 0]
    /\ \E t \in read[r].at..now : sessions' = [sessions EXCEPT ![r] = NewSession(t)]
    /\ streak' = 0
    /\ UNCHANGED resets

ResendCode(r) ==
    /\ Commit(r, "resent")
    /\ LET c == op[r].target IN
       challenges' = [challenges EXCEPT ![c] =
          [challenges[c] EXCEPT !.resends = @ + 1, !.sent = read[r].at, !.attempts = 0,
                                !.expires = read[r].at + OTP_TTL]]
    /\ UNCHANGED <<user, resets, sessions, streak>>

\* _create_reset_token.
CreateResetToken(r) ==
    /\ Commit(r, "link")
    /\ resets' = [k \in Ids |-> IF k = r THEN NewReset(read[r].at)
                                ELSE IF k \in rows[r] THEN [resets[k] EXCEPT !.consumed = TRUE]
                                ELSE resets[k]]
    /\ UNCHANGED <<user, challenges, sessions, streak>>

ConfirmReset(r) ==
    /\ Commit(r, "reset")
    /\ user' = [user EXCEPT !.count = 0, !.until = 0]
    /\ resets' = [resets EXCEPT ![op[r].target].consumed = TRUE]
    /\ sessions' = [s \in Ids |-> IF s \in rows[r] THEN [sessions[s] EXCEPT !.live = FALSE]
                                  ELSE sessions[s]]
    /\ streak' = 0
    /\ UNCHANGED challenges

\* Variant: the use of a session writes its row as a whole.
TouchUpsert(r) ==
    /\ Commit(r, "touch")
    /\ sessions' = [sessions EXCEPT ![op[r].target].seen = read[r].at, ![op[r].target].live = TRUE]
    /\ UNCHANGED <<user, challenges, resets, streak>>

\* touch_session; a row that is gone is not updated.
TouchSession(r) ==
    /\ Commit(r, "touch")
    /\ sessions' = IF sessions[op[r].target].live
                   THEN [sessions EXCEPT ![op[r].target].seen = read[r].at] ELSE sessions
    /\ UNCHANGED <<user, challenges, resets, streak>>

DeleteSession(r) ==
    /\ Commit(r, "logout")
    /\ sessions' = [sessions EXCEPT ![op[r].target].live = FALSE]
    /\ UNCHANGED <<user, challenges, resets, streak>>

-----------------------------------------------------------------------------
\* An error before the commit: the transaction is rolled back.
Rollback(r) == pc[r] \in {"begun", "decided", "waiting", "written"} /\ Refuse(r)

\* The account is suspended; nothing in the program does this.
Suspend ==
    /\ user.active
    /\ user' = [user EXCEPT !.active = FALSE]
    /\ UNCHANGED <<now, challenges, resets, sessions, pc, op, read, outcome, rows,
                   after, streak>>

Tick ==
    /\ now < MaxTime
    /\ now' = now + 1
    /\ UNCHANGED <<db, pc, op, read, outcome, rows, after, streak>>

Next ==
    \/ \E r \in Requests :
        \/ \E o \in Op : Begin(r, o) \/ NotAdmitted(r, o)
        \/ ReadUser(r) \/ UserRefused(r) \/ StartUpdate(r) \/ Write(r) \/ Rollback(r)
        \/ RecordFailure(r) \/ IssueChallenge(r) \/ WrongCode(r) \/ ExhaustChallenge(r)
        \/ OpenSession(r) \/ ResendCode(r)
        \/ CreateResetToken(r) \/ ConfirmReset(r)
        \/ TouchSession(r) \/ DeleteSession(r)
    \/ Suspend \/ Tick

Spec == Init /\ [][Next]_vars

-----------------------------------------------------------------------------
(* Properties.                                                             *)

Did(r, o) == pc[r] = "done" /\ outcome[r] = o
Overlap(q, r) == q \notin after[r] /\ r \notin after[q]

\* No two requests overlapped, those that were refused aside.
Effective == {r \in Requests : op[r] # NoOp}
Serial == \A q, r \in Effective : q = r \/ ~Overlap(q, r)

\* password_reset.py: confirm_reset revokes ALL sessions.  Whatever code steps
\* and uses of sessions are in flight, no session is left when it commits.
ResetRevokesEverySession ==
    [][\A r \in Requests : (pc[r] = "written" /\ outcome[r] = "reset" /\ Did(r, "reset")')
          => \A s \in Ids : ~sessions'[s].live]_vars

\* Used codes stay used and ended sessions stay ended: no write that was
\* decided on earlier brings one back.
DeadStaysDead ==
    [][\A i \in Ids :
        /\ challenges[i].consumed => challenges'[i].consumed
        /\ resets[i].consumed => resets'[i].consumed
        /\ sessions[i].made /\ ~sessions[i].live => ~sessions'[i].live]_vars

Consumes(q, c) ==
    \/ Did(q, "session") /\ op[q].target = c
    \/ Did(q, "exhausted") /\ op[q].target = c
    \/ Did(q, "challenge") /\ c \in rows[q]

\* A code that was accepted, worn out or replaced by a later sign-in admits no
\* request that began after that.
ConsumedIsFinal ==
    \A q, r \in Requests, c \in Ids :
        Consumes(q, c) /\ q \in after[r] /\ op[r].kind \in {"verify", "resend"}
            => op[r].target # c

\* A new sign-in replaces the code of the one before: two codes are unused at the
\* same time only if their password steps overlapped.
LiveCodesOverlap ==
    \A c, d \in Requests :
        (c # d /\ \A i \in {c, d} : challenges[i].made /\ ~challenges[i].consumed)
            => Overlap(c, d)

\* As long as no two requests on the account overlap, failed_login_count is the
\* number of failures in a row, every MAX_FAILED_LOGINS-th of which locks.
SerialFailuresExact ==
    Serial => /\ user.count = streak % MAX_FAILED_LOGINS
              /\ (user.count = 0 /\ streak > 0) => user.until > 0
=============================================================================
