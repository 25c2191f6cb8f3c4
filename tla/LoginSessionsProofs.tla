------------------------- MODULE LoginSessionsProofs -------------------------
(***************************************************************************)
(* Theorems about LoginSessions, for any number of requests, any limits    *)
(* and any lifetimes: the rows stay well typed, what is used up or ended   *)
(* never comes back, a password reset leaves no session, a code dies with  *)
(* its use or with the next sign-in, and failures are counted exactly      *)
(* while requests do not overlap.                                          *)
(***************************************************************************)
EXTENDS LoginSessions, TLAPS

-----------------------------------------------------------------------------
(* The inductive invariant.                                                *)

\* An unused code has tries left, and so had every code a request has read.
\* A request that has begun was asked something and has decided nothing.
Attempts ==
    /\ \A i \in Ids : ~challenges[i].consumed => challenges[i].attempts < MAX_OTP_ATTEMPTS
    /\ \A r \in Requests :
        /\ pc[r] \in {"begun", "decided", "waiting", "written"} => op[r] \in Op
        /\ pc[r] \in {"idle", "begun"} => outcome[r] = "none"
        /\ read[r].attempts < MAX_OTP_ATTEMPTS
        /\ outcome[r] = "wrong" /\ pc[r] # "done"
              => read[r].attempts + 1 < MAX_OTP_ATTEMPTS

\* The rows a request inserts do not exist before it commits.
Fresh ==
    \A r \in Requests : pc[r] # "done" =>
        /\ ~challenges[r].made /\ ~challenges[r].consumed
        /\ ~resets[r].made /\ ~resets[r].consumed
        /\ ~sessions[r].made

\* The tokens a request may mark as used exist.
Known ==
    \A r \in Requests :
        /\ pc[r] = "begun" =>
             /\ op[r].kind \in {"verify", "resend"} => challenges[op[r].target].made
             /\ op[r].kind = "confirm" => resets[op[r].target].made
        /\ pc[r] \in {"decided", "waiting", "written"} =>
             /\ outcome[r] \in {"wrong", "exhausted", "session", "resent"}
                   => challenges[op[r].target].made
             /\ outcome[r] = "reset" => resets[op[r].target].made
        /\ pc[r] \in {"waiting", "written"} =>
             /\ outcome[r] = "challenge" => \A c \in rows[r] : challenges[c].made
             /\ outcome[r] = "link" => \A k \in rows[r] : resets[k].made

\* No row is locked by two requests.
LocksDisjoint ==
    \A q, r \in Writing : q # r => Locks(q, rows[q]) \cap Locks(r, rows[r]) = {}

\* A reset that has executed its DELETE selected every live session.
ResetSelectsAll ==
    \A r \in Requests : pc[r] = "written" /\ outcome[r] = "reset"
        => \A s \in Ids : sessions[s].live => s \in rows[r]

LoginInv ==
    /\ TypeOK
    /\ Attempts
    /\ Fresh
    /\ Known
    /\ LocksDisjoint
    /\ ResetSelectsAll

-----------------------------------------------------------------------------
(* Rows and requests.                                                      *)

LEMMA IdsContain == /\ Requests \subseteq Ids
                    /\ Earlier \in Ids
  BY DEF Ids

\* Rows as they are inserted are well typed at any reading of the clock.
LEMMA NewRows ==
    ASSUME NEW t \in 0..MaxTime
    PROVE  /\ NewChallenge(t) \in Challenge
           /\ NewReset(t) \in Reset
           /\ NewSession(t) \in Session
           /\ t + LOCKOUT \in Time
           /\ t + OTP_TTL \in Time
           /\ t \in Time
  BY LoginAssumption
     DEF NewChallenge, NewReset, NewSession, Challenge, Reset, Session, Time

LEMMA NoRows ==
    /\ NoChallenge \in Challenge
    /\ NoReset \in Reset
    /\ NoSession \in Session
  BY LoginAssumption DEF NoChallenge, NoReset, NoSession, Challenge, Reset, Session, Time

\* A code stays well typed when it is used, worn out or sent again.
LEMMA UpdatedChallenge ==
    ASSUME NEW c \in Challenge, NEW t \in Time, NEW e \in Time
    PROVE  /\ [c EXCEPT !.consumed = TRUE] \in Challenge
           /\ \A n \in 0..MAX_OTP_ATTEMPTS :
                [c EXCEPT !.attempts = n, !.consumed = TRUE] \in Challenge
           /\ [c EXCEPT !.resends = @ + 1, !.sent = t, !.attempts = 0, !.expires = e]
                  \in Challenge
  <1>1. [c EXCEPT !.consumed = TRUE] \in Challenge
    BY DEF Challenge
  <1>2. ASSUME NEW n \in 0..MAX_OTP_ATTEMPTS
        PROVE  [c EXCEPT !.attempts = n, !.consumed = TRUE] \in Challenge
    BY DEF Challenge
  <1>3. c.resends + 1 \in Nat /\ 0 \in 0..MAX_OTP_ATTEMPTS
    BY LoginAssumption DEF Challenge
  <1>4. [c EXCEPT !.resends = @ + 1, !.sent = t, !.attempts = 0, !.expires = e] \in Challenge
    <2> DEFINE m == c.resends + 1
    <2>1. [c EXCEPT !.resends = m, !.sent = t, !.attempts = 0, !.expires = e] \in Challenge
      <3> HIDE DEF m
      <3>1. m \in Nat
        BY <1>3 DEF m
      <3> QED
        BY <3>1, <1>3 DEF Challenge
    <2> QED
      BY <2>1
  <1> QED
    BY <1>1, <1>2, <1>4

\* One failure more leaves the row of the user well typed.
LEMMA FailedUserType ==
    ASSUME TypeOK, NEW r \in Requests
    PROVE  FailedUser(r) \in User
  <1>1. read[r].at + LOCKOUT \in Time /\ 0 \in Time
    BY LoginAssumption DEF TypeOK, Time
  <1>2. read[r].count \in 0..(MAX_FAILED_LOGINS - 1)
    BY DEF TypeOK
  <1>3. user \in User
    BY DEF TypeOK
  <1>4. 0 \in 0..(MAX_FAILED_LOGINS - 1)
    BY LoginAssumption
  <1>5. CASE read[r].count + 1 >= MAX_FAILED_LOGINS
    BY <1>1, <1>3, <1>4, <1>5 DEF FailedUser, User
  <1>6. CASE ~(read[r].count + 1 >= MAX_FAILED_LOGINS)
    <2>1. read[r].count + 1 \in 0..(MAX_FAILED_LOGINS - 1)
      BY <1>2, <1>6, LoginAssumption
    <2> QED
      BY <2>1, <1>3, <1>6 DEF FailedUser, User
  <1> QED
    BY <1>5, <1>6

-----------------------------------------------------------------------------
LEMMA InitType == Init => TypeOK /\ Attempts
  <1> SUFFICES ASSUME Init PROVE TypeOK /\ Attempts
    OBVIOUS
  <1>1. NewChallenge(0) \in Challenge /\ NewReset(0) \in Reset /\ NewSession(0) \in Session
    BY NewRows, LoginAssumption
  <1>2. user \in User
    BY LoginAssumption DEF Init, User, Time
  <1>3. /\ challenges \in [Ids -> Challenge]
        /\ resets \in [Ids -> Reset]
        /\ sessions \in [Ids -> Session]
    BY <1>1, NoRows DEF Init
  <1>4. \A r \in Requests : read[r] = Nothing
    BY DEF Init
  <1>5. read \in [Requests -> [at : 0..MaxTime, attempts : 0..MAX_OTP_ATTEMPTS,
                             count : 0..(MAX_FAILED_LOGINS - 1), seen : Time]]
    BY LoginAssumption DEF Init, Nothing, Time
  <1>6. TypeOK
    BY <1>2, <1>3, <1>5, LoginAssumption DEF Init, TypeOK, Outcome
  <1>7. Attempts
    BY <1>4, LoginAssumption
       DEF Init, Attempts, Nothing, NoChallenge, NewChallenge
  <1> QED
    BY <1>6, <1>7

-----------------------------------------------------------------------------
(* Type correctness.  What a request offers and reads is typed by Op.       *)

LEMMA OpType ==
    ASSUME TypeOK, NEW r \in Requests, op[r] # NoOp
    PROVE  op[r] \in Op
  BY DEF TypeOK

LEMMA OpTarget ==
    ASSUME NEW o \in Op
    PROVE  o.target \in Ids
  BY DEF Op, Ids

LEMMA DecideType ==
    ASSUME NEW r \in Requests, op[r] \in Op
    PROVE  Decide(r) \in Outcome
  <1>1. op[r].kind \in {"login", "verify", "resend", "request", "confirm", "use", "logout"}
    BY DEF Op
  <1> QED
    BY <1>1 DEF Decide, Outcome

LEMMA RefuseType ==
    ASSUME TypeOK, Attempts, NEW r \in Requests, Refuse(r)
    PROVE  TypeOK' /\ Attempts'
  <1>1. read' \in [Requests -> [at : 0..MaxTime, attempts : 0..MAX_OTP_ATTEMPTS,
                             count : 0..(MAX_FAILED_LOGINS - 1), seen : Time]]
    BY LoginAssumption DEF Refuse, TypeOK, Nothing, Time
  <1>2. TypeOK'
    BY <1>1 DEF Refuse, TypeOK, Outcome, db, NoOp
  <1>3. Attempts'
    BY LoginAssumption DEF Refuse, TypeOK, Attempts, Nothing, db
  <1> QED
    BY <1>2, <1>3

\* A commit forgets what the request read and changes no request otherwise.
LEMMA CommitType ==
    ASSUME TypeOK, Attempts, NEW r \in Requests, NEW o, Commit(r, o)
    PROVE  /\ now' \in 0..MaxTime
           /\ pc' \in [Requests -> {"idle", "begun", "decided", "waiting", "written", "done"}]
           /\ op' \in [Requests -> Op \cup {NoOp}]
           /\ read' \in [Requests -> [at : 0..MaxTime, attempts : 0..MAX_OTP_ATTEMPTS,
                             count : 0..(MAX_FAILED_LOGINS - 1), seen : Time]]
           /\ outcome' \in [Requests -> Outcome]
           /\ rows' \in [Requests -> SUBSET Ids]
           /\ after' \in [Requests -> SUBSET Requests]
           /\ \A q \in Requests :
                /\ pc'[q] \in {"begun", "decided", "waiting", "written"} => op'[q] \in Op
                /\ pc'[q] \in {"idle", "begun"} => outcome'[q] = "none"
                /\ read'[q].attempts < MAX_OTP_ATTEMPTS
                /\ outcome'[q] = "wrong" /\ pc'[q] # "done"
                      => read'[q].attempts + 1 < MAX_OTP_ATTEMPTS
  <1>1. Nothing \in [at : 0..MaxTime, attempts : 0..MAX_OTP_ATTEMPTS,
                     count : 0..(MAX_FAILED_LOGINS - 1), seen : Time]
    BY LoginAssumption DEF Nothing, Time
  <1>2. Nothing.attempts < MAX_OTP_ATTEMPTS
    BY LoginAssumption DEF Nothing
  <1> QED
    BY <1>1, <1>2 DEF Commit, TypeOK, Attempts

\* Requests that are reading, or waiting to write.
LEMMA ReadType ==
    ASSUME TypeOK, Attempts, NEW r \in Requests,
           \/ \E o \in Op : Begin(r, o) \/ NotAdmitted(r, o)
           \/ ReadUser(r) \/ UserRefused(r) \/ StartUpdate(r) \/ Write(r) \/ Rollback(r)
    PROVE  TypeOK' /\ Attempts'
  <1>1. ASSUME NEW o \in Op, Begin(r, o) PROVE TypeOK' /\ Attempts'
    <2>1. o.target \in Ids
      BY OpTarget
    <2>2. 0 \in 0..MAX_OTP_ATTEMPTS /\ 0 \in Time /\ 0 < MAX_OTP_ATTEMPTS
          /\ 0 \in 0..(MAX_FAILED_LOGINS - 1)
      BY LoginAssumption DEF Time
    <2>3. challenges[o.target] \in Challenge /\ sessions[o.target] \in Session
      BY <2>1 DEF TypeOK
    <2>4. o.kind = "verify" => challenges[o.target].attempts < MAX_OTP_ATTEMPTS
      BY <1>1, <2>1 DEF Begin, Admitted, Usable, Attempts
    <2> DEFINE new == [at |-> now,
                       attempts |-> IF o.kind = "verify" THEN challenges[o.target].attempts ELSE 0,
                       count |-> 0,
                       seen |-> IF o.kind = "use" THEN sessions[o.target].seen ELSE 0]
    <2>5. /\ new \in [at : 0..MaxTime, attempts : 0..MAX_OTP_ATTEMPTS,
                       count : 0..(MAX_FAILED_LOGINS - 1), seen : Time]
          /\ new.attempts < MAX_OTP_ATTEMPTS
      BY <2>2, <2>3, <2>4 DEF TypeOK, Challenge, Session
    <2>a. read' = [read EXCEPT ![r] = new]
      BY <1>1 DEF Begin
    <2> HIDE DEF new
    <2>6. /\ read' \in [Requests -> [at : 0..MaxTime, attempts : 0..MAX_OTP_ATTEMPTS,
                             count : 0..(MAX_FAILED_LOGINS - 1), seen : Time]]
          /\ read'[r].attempts < MAX_OTP_ATTEMPTS
      BY <2>5, <2>a DEF TypeOK
    <2>7. TypeOK'
      BY <1>1, <2>6 DEF Begin, TypeOK, Ended, db
    <2>8. ASSUME NEW q \in Requests
          PROVE  /\ pc'[q] \in {"begun", "decided", "waiting", "written"} => op'[q] \in Op
                 /\ pc'[q] \in {"idle", "begun"} => outcome'[q] = "none"
                 /\ read'[q].attempts < MAX_OTP_ATTEMPTS
                 /\ outcome'[q] = "wrong" /\ pc'[q] # "done"
                       => read'[q].attempts + 1 < MAX_OTP_ATTEMPTS
      <3>1. CASE q = r
        BY <3>1, <1>1, <2>6 DEF Begin, TypeOK, Attempts
      <3>2. CASE q # r
        BY <3>2, <1>1 DEF Begin, TypeOK, Attempts
      <3> QED
        BY <3>1, <3>2
    <2> QED
      BY <1>1, <2>7, <2>8 DEF Begin, Attempts, db
  <1>2. ASSUME NEW o \in Op, NotAdmitted(r, o) PROVE TypeOK' /\ Attempts'
    BY <1>2, RefuseType DEF NotAdmitted
  <1>3. CASE ReadUser(r)
    <2>1. op[r] \in Op
      BY <1>3 DEF ReadUser, Attempts
    <2>2. Decide(r) \in Outcome
      BY <2>1, DecideType
    <2>3. user.count \in 0..(MAX_FAILED_LOGINS - 1) /\ 0 \in 0..(MAX_FAILED_LOGINS - 1)
      BY LoginAssumption DEF TypeOK, User
    <2> DEFINE c == IF Decide(r) \in {"failed", "exhausted"} THEN user.count ELSE 0
               new == [read[r] EXCEPT !.count = c]
    <2>a. read' = [read EXCEPT ![r] = new]
      BY <1>3 DEF ReadUser
    <2>b. new \in [at : 0..MaxTime, attempts : 0..MAX_OTP_ATTEMPTS,
                   count : 0..(MAX_FAILED_LOGINS - 1), seen : Time]
      <3>1. c \in 0..(MAX_FAILED_LOGINS - 1)
        BY <2>3
      <3> HIDE DEF c
      <3> QED
        BY <3>1 DEF TypeOK
    <2>c. read' \in [Requests -> [at : 0..MaxTime, attempts : 0..MAX_OTP_ATTEMPTS,
                             count : 0..(MAX_FAILED_LOGINS - 1), seen : Time]]
      <3> HIDE DEF new
      <3> QED
        BY <2>a, <2>b DEF TypeOK
    <2> HIDE DEF new, c
    <2>4. TypeOK'
      BY <1>3, <2>2, <2>c DEF ReadUser, TypeOK, db
    <2>5. Decide(r) = "wrong" => read[r].attempts + 1 < MAX_OTP_ATTEMPTS
      <3>1. read[r].attempts \in 0..MAX_OTP_ATTEMPTS
        BY DEF TypeOK
      <3>2. op[r].kind \in {"login", "verify", "resend", "request", "confirm", "use", "logout"}
        BY <2>1 DEF Op
      <3>3. Decide(r) = "wrong" => ~(read[r].attempts + 1 >= MAX_OTP_ATTEMPTS)
        BY <3>2 DEF Decide
      <3> QED
        BY <3>1, <3>3, LoginAssumption
    <2>6. Attempts'
      BY <1>3, <2>5 DEF ReadUser, Attempts, TypeOK, db
    <2> QED
      BY <2>4, <2>6
  <1>4. CASE UserRefused(r)
    BY <1>4, RefuseType DEF UserRefused
  <1>5. CASE StartUpdate(r)
    <2>1. Selected(r) \subseteq Ids
      BY DEF Selected
    <2> QED
      BY <1>5, <2>1 DEF StartUpdate, TypeOK, Attempts, db
  <1>6. CASE Write(r)
    <2>1. Touched(r) \subseteq Ids
      BY DEF Touched, Selected, TypeOK
    <2> QED
      BY <1>6, <2>1 DEF Write, TypeOK, Attempts, db
  <1>7. CASE Rollback(r)
    BY <1>7, RefuseType DEF Rollback
  <1> QED
    BY <1>1, <1>2, <1>3, <1>4, <1>5, <1>6, <1>7

\* Requests that commit.
LEMMA WriteType ==
    ASSUME TypeOK, Attempts, NEW r \in Requests,
           \/ RecordFailure(r) \/ IssueChallenge(r) \/ WrongCode(r) \/ ExhaustChallenge(r)
           \/ OpenSession(r) \/ ResendCode(r)
           \/ CreateResetToken(r) \/ ConfirmReset(r)
           \/ TouchSession(r) \/ DeleteSession(r)
    PROVE  TypeOK' /\ Attempts'
  <1>0. /\ read[r].at \in 0..MaxTime /\ now \in 0..MaxTime
        /\ read[r].attempts \in 0..MAX_OTP_ATTEMPTS
        /\ r \in Ids
    BY IdsContain DEF TypeOK
  <1> DEFINE t == read[r].at
  <1>a. /\ NewChallenge(t) \in Challenge /\ NewReset(t) \in Reset /\ t \in Time
        /\ t + OTP_TTL \in Time
    BY <1>0, NewRows
  <1>c. [user EXCEPT !.count = 0, !.until = 0] \in User
    <2>1. user \in User
      BY DEF TypeOK
    <2>2. 0 \in 0..(MAX_FAILED_LOGINS - 1) /\ 0 \in Time
      BY LoginAssumption DEF Time
    <2> QED
      BY <2>1, <2>2 DEF User
  <1>d. \A i \in Ids :
          /\ [challenges[i] EXCEPT !.consumed = TRUE] \in Challenge
          /\ \A n \in 0..MAX_OTP_ATTEMPTS :
                [challenges[i] EXCEPT !.attempts = n, !.consumed = TRUE] \in Challenge
          /\ [challenges[i] EXCEPT !.resends = @ + 1, !.sent = t, !.attempts = 0,
                                   !.expires = t + OTP_TTL] \in Challenge
    <2>1. \A i \in Ids : challenges[i] \in Challenge
      BY DEF TypeOK
    <2> HIDE DEF t
    <2> QED
      BY <2>1, <1>a, UpdatedChallenge
  <1>e. \A i \in Ids : [sessions[i] EXCEPT !.seen = t] \in Session
    <2>1. \A i \in Ids : sessions[i] \in Session
      BY DEF TypeOK
    <2> QED
      BY <2>1, <1>a DEF Session
  <1>b. NewChallenge(t).attempts < MAX_OTP_ATTEMPTS
    BY LoginAssumption DEF NewChallenge
  <1>1. CASE RecordFailure(r)
    <2>1. FailedUser(r) \in User
      BY FailedUserType
    <2>2. Commit(r, "failed")
      BY <1>1 DEF RecordFailure
    <2> HIDE DEF t
    <2> QED
      BY <1>1, <2>1, <2>2, CommitType DEF RecordFailure, TypeOK, Attempts
  <1>2. CASE IssueChallenge(r)
    <2>1. challenges' \in [Ids -> Challenge]
      BY <1>2, <1>a DEF IssueChallenge, TypeOK, Challenge
    <2>2. \A i \in Ids : ~challenges'[i].consumed => challenges'[i].attempts < MAX_OTP_ATTEMPTS
      BY <1>2, <1>b DEF IssueChallenge, Attempts
    <2>3. Commit(r, "challenge")
      BY <1>2 DEF IssueChallenge
    <2> HIDE DEF t
    <2> QED
      BY <1>2, <2>1, <2>2, <2>3, CommitType DEF IssueChallenge, TypeOK, Attempts
  <1>3. CASE WrongCode(r)
    <2>1. t + 0 = t /\ read[r].attempts + 1 < MAX_OTP_ATTEMPTS
      BY <1>3, <1>0 DEF WrongCode, Commit, Attempts, TypeOK
    <2>2. read[r].attempts + 1 \in 0..MAX_OTP_ATTEMPTS
      BY <2>1, <1>0, LoginAssumption
    <2> DEFINE x == op[r].target
               row == [challenges[x] EXCEPT !.attempts = read[r].attempts + 1]
    <2>a. challenges' = [challenges EXCEPT ![x] = row]
      BY <1>3 DEF WrongCode
    <2>b. ASSUME x \in Ids PROVE row \in Challenge
      <3>1. challenges[x] \in Challenge
        BY <2>b DEF TypeOK
      <3> HIDE DEF x
      <3> QED
        BY <3>1, <2>2 DEF Challenge
    <2>3. challenges' \in [Ids -> Challenge]
      <3> HIDE DEF x, row
      <3> QED
        BY <2>a, <2>b DEF TypeOK
    <2>4. \A i \in Ids : ~challenges'[i].consumed => challenges'[i].attempts < MAX_OTP_ATTEMPTS
      BY <1>3, <2>1 DEF WrongCode, Attempts, TypeOK, Challenge
    <2>5. Commit(r, "wrong")
      BY <1>3 DEF WrongCode
    <2> HIDE DEF t
    <2> QED
      BY <1>3, <2>3, <2>4, <2>5, CommitType DEF WrongCode, TypeOK, Attempts
  <1>4. CASE ExhaustChallenge(r)
    <2>1. read[r].attempts < MAX_OTP_ATTEMPTS
      BY DEF Attempts
    <2>2. read[r].attempts + 1 \in 0..MAX_OTP_ATTEMPTS
      BY <2>1, <1>0, LoginAssumption
    <2>3. challenges' \in [Ids -> Challenge]
      BY <1>4, <2>2, <1>d DEF ExhaustChallenge, TypeOK
    <2>4. \A i \in Ids : ~challenges'[i].consumed => challenges'[i].attempts < MAX_OTP_ATTEMPTS
      BY <1>4 DEF ExhaustChallenge, Attempts, TypeOK, Challenge
    <2>5. FailedUser(r) \in User
      BY FailedUserType
    <2>6. Commit(r, "exhausted")
      BY <1>4 DEF ExhaustChallenge
    <2> HIDE DEF t
    <2> QED
      BY <1>4, <2>3, <2>4, <2>5, <2>6, CommitType DEF ExhaustChallenge, TypeOK, Attempts
  <1>5. CASE OpenSession(r)
    <2>1. challenges' \in [Ids -> Challenge]
      BY <1>5, <1>d DEF OpenSession, TypeOK
    <2>2. \A i \in Ids : ~challenges'[i].consumed => challenges'[i].attempts < MAX_OTP_ATTEMPTS
      BY <1>5 DEF OpenSession, Attempts, TypeOK, Challenge
    <2>3. user' \in User
      BY <1>5, <1>c DEF OpenSession
    <2>4. PICK u \in t..now : sessions' = [sessions EXCEPT ![r] = NewSession(u)]
      BY <1>5 DEF OpenSession
    <2>5. u \in 0..MaxTime
      BY <1>0, LoginAssumption
    <2>6. sessions' \in [Ids -> Session]
      BY <2>4, <2>5, NewRows DEF TypeOK
    <2>7. Commit(r, "session")
      BY <1>5 DEF OpenSession
    <2> HIDE DEF t
    <2> QED
      BY <1>5, <2>1, <2>2, <2>3, <2>6, <2>7, CommitType DEF OpenSession, TypeOK, Attempts
  <1>6. CASE ResendCode(r)
    <2> DEFINE x == op[r].target
               row == [challenges[x] EXCEPT !.resends = @ + 1, !.sent = t, !.attempts = 0,
                                            !.expires = t + OTP_TTL]
    <2>a. challenges' = [challenges EXCEPT ![x] = row]
      BY <1>6 DEF ResendCode
    <2>b. x \in Ids => row \in Challenge
      BY <1>d
    <2>1. challenges' \in [Ids -> Challenge]
      <3> HIDE DEF x, row
      <3> QED
        BY <2>a, <2>b DEF TypeOK
    <2>2. \A i \in Ids : ~challenges'[i].consumed => challenges'[i].attempts < MAX_OTP_ATTEMPTS
      BY <1>6, LoginAssumption DEF ResendCode, Attempts, TypeOK, Challenge
    <2>3. Commit(r, "resent")
      BY <1>6 DEF ResendCode
    <2> HIDE DEF t
    <2> QED
      BY <1>6, <2>1, <2>2, <2>3, CommitType DEF ResendCode, TypeOK, Attempts
  <1>7. CASE CreateResetToken(r)
    <2>1. resets' \in [Ids -> Reset]
      BY <1>7, <1>a DEF CreateResetToken, TypeOK, Reset
    <2>2. Commit(r, "link")
      BY <1>7 DEF CreateResetToken
    <2> HIDE DEF t
    <2> QED
      BY <1>7, <2>1, <2>2, CommitType DEF CreateResetToken, TypeOK, Attempts
  <1>8. CASE ConfirmReset(r)
    <2>1. user' \in User
      BY <1>8, <1>c DEF ConfirmReset
    <2>2. resets' \in [Ids -> Reset]
      BY <1>8 DEF ConfirmReset, TypeOK, Reset
    <2>3. sessions' \in [Ids -> Session]
      <3>1. \A s \in Ids : /\ sessions[s] \in Session
                           /\ [sessions[s] EXCEPT !.live = FALSE] \in Session
        BY DEF TypeOK, Session
      <3> QED
        BY <1>8, <3>1 DEF ConfirmReset
    <2>4. Commit(r, "reset")
      BY <1>8 DEF ConfirmReset
    <2> HIDE DEF t
    <2> QED
      BY <1>8, <2>1, <2>2, <2>3, <2>4, CommitType DEF ConfirmReset, TypeOK, Attempts
  <1>9. CASE TouchSession(r)
    <2>1. sessions' \in [Ids -> Session]
      <3> DEFINE x == op[r].target
                 row == [sessions[x] EXCEPT !.seen = t]
      <3>1. sessions' = sessions \/ sessions' = [sessions EXCEPT ![x] = row]
        BY <1>9 DEF TouchSession
      <3>2. x \in Ids => row \in Session
        BY <1>e
      <3> HIDE DEF x, row
      <3> QED
        BY <3>1, <3>2 DEF TypeOK
    <2>2. Commit(r, "touch")
      BY <1>9 DEF TouchSession
    <2> HIDE DEF t
    <2> QED
      BY <1>9, <2>1, <2>2, CommitType DEF TouchSession, TypeOK, Attempts
  <1>10. CASE DeleteSession(r)
    <2>1. sessions' \in [Ids -> Session]
      <3> DEFINE x == op[r].target
                 row == [sessions[x] EXCEPT !.live = FALSE]
      <3>1. sessions' = [sessions EXCEPT ![x] = row]
        BY <1>10 DEF DeleteSession
      <3>2. ASSUME x \in Ids PROVE row \in Session
        <4>1. sessions[x] \in Session
          BY <3>2 DEF TypeOK
        <4> HIDE DEF x
        <4> QED
          BY <4>1 DEF Session
      <3> HIDE DEF x, row
      <3> QED
        BY <3>1, <3>2 DEF TypeOK
    <2>2. Commit(r, "logout")
      BY <1>10 DEF DeleteSession
    <2> HIDE DEF t
    <2> QED
      BY <1>10, <2>1, <2>2, CommitType DEF DeleteSession, TypeOK, Attempts
  <1> QED
    BY <1>1, <1>2, <1>3, <1>4, <1>5, <1>6, <1>7, <1>8, <1>9, <1>10

LEMMA TypeNext == TypeOK /\ Attempts /\ [Next]_vars => TypeOK' /\ Attempts'
  <1> SUFFICES ASSUME TypeOK, Attempts, [Next]_vars PROVE TypeOK' /\ Attempts'
    OBVIOUS
  <1>1. CASE Suspend
    BY <1>1 DEF Suspend, TypeOK, Attempts, User
  <1>2. CASE Tick
    BY <1>2, LoginAssumption DEF Tick, TypeOK, Attempts, db
  <1>3. CASE UNCHANGED vars
    BY <1>3 DEF vars, db, TypeOK, Attempts
  <1> QED
    BY <1>1, <1>2, <1>3, ReadType, WriteType DEF Next

-----------------------------------------------------------------------------
(* New rows and known ones.                                                *)

LEMMA MadeStaysMade ==
    ASSUME TypeOK, [Next]_vars, NEW i \in Ids
    PROVE  /\ challenges[i].made => challenges'[i].made
           /\ resets[i].made => resets'[i].made
  <1> USE DEF TypeOK, Challenge, Reset
  <1>1. CASE UNCHANGED <<challenges, resets>>
    BY <1>1
  <1>2. ASSUME NEW r \in Requests, IssueChallenge(r) PROVE challenges[i].made => challenges'[i].made
    BY <1>2 DEF IssueChallenge, NewChallenge
  <1>3. ASSUME NEW r \in Requests, WrongCode(r) PROVE challenges[i].made => challenges'[i].made
    BY <1>3 DEF WrongCode
  <1>4. ASSUME NEW r \in Requests, ExhaustChallenge(r) PROVE challenges[i].made => challenges'[i].made
    BY <1>4 DEF ExhaustChallenge
  <1>5. ASSUME NEW r \in Requests, OpenSession(r) PROVE challenges[i].made => challenges'[i].made
    BY <1>5 DEF OpenSession
  <1>6. ASSUME NEW r \in Requests, ResendCode(r) PROVE challenges[i].made => challenges'[i].made
    BY <1>6 DEF ResendCode
  <1>7. ASSUME NEW r \in Requests, CreateResetToken(r) PROVE resets[i].made => resets'[i].made
    BY <1>7 DEF CreateResetToken, NewReset
  <1>8. ASSUME NEW r \in Requests, ConfirmReset(r) PROVE resets[i].made => resets'[i].made
    BY <1>8 DEF ConfirmReset
  <1>9. ASSUME NEW r \in Requests,
               \/ IssueChallenge(r) \/ WrongCode(r) \/ ExhaustChallenge(r) \/ OpenSession(r)
               \/ ResendCode(r)
        PROVE  UNCHANGED resets
    BY <1>9 DEF IssueChallenge, WrongCode, ExhaustChallenge, OpenSession, ResendCode
  <1>10. ASSUME NEW r \in Requests, CreateResetToken(r) \/ ConfirmReset(r)
         PROVE  UNCHANGED challenges
    BY <1>10 DEF CreateResetToken, ConfirmReset
  <1>11. ASSUME NEW r \in Requests,
               \/ RecordFailure(r) \/ TouchSession(r) \/ DeleteSession(r)
               \/ ReadUser(r) \/ UserRefused(r) \/ StartUpdate(r) \/ Write(r) \/ Rollback(r)
               \/ \E o \in Op : Begin(r, o) \/ NotAdmitted(r, o)
         PROVE  UNCHANGED <<challenges, resets>>
    BY <1>11 DEF RecordFailure, TouchSession, DeleteSession, ReadUser, UserRefused, StartUpdate,
                 Write, Rollback, Begin, NotAdmitted, Refuse, db
  <1>12. Suspend \/ Tick \/ UNCHANGED vars => UNCHANGED <<challenges, resets>>
    BY DEF Suspend, Tick, vars, db
  <1> QED
    BY <1>1, <1>2, <1>3, <1>4, <1>5, <1>6, <1>7, <1>8, <1>9, <1>10, <1>11, <1>12 DEF Next

\* A request that has ended stays so, and one that has not is in one of six steps.
LEMMA DoneStaysDone ==
    ASSUME TypeOK, [Next]_vars, NEW q \in Requests, pc'[q] # "done"
    PROVE  pc[q] # "done"
  <1>1. ASSUME NEW r \in Requests, Refuse(r) PROVE pc[q] # "done"
    BY <1>1 DEF Refuse, TypeOK
  <1>2. ASSUME NEW r \in Requests, NEW o, Commit(r, o) PROVE pc[q] # "done"
    BY <1>2 DEF Commit, TypeOK
  <1>3. ASSUME NEW r \in Requests,
               \/ \E o \in Op : Begin(r, o)
               \/ ReadUser(r) \/ StartUpdate(r) \/ Write(r)
        PROVE  pc[q] # "done"
    BY <1>3 DEF Begin, ReadUser, StartUpdate, Write, TypeOK
  <1>4. Suspend \/ Tick \/ UNCHANGED vars => pc[q] # "done"
    BY DEF Suspend, Tick, vars
  <1> QED
    BY <1>1, <1>2, <1>3, <1>4
       DEF Next, NotAdmitted, UserRefused, Rollback, RecordFailure, IssueChallenge, WrongCode,
           ExhaustChallenge, OpenSession, ResendCode, CreateResetToken, ConfirmReset,
           TouchSession, DeleteSession

\* A step that is not a request's own leaves its part of the state alone.
LEMMA OwnStep ==
    ASSUME TypeOK, NEW r \in Requests, NEW q \in Requests, q # r,
           \/ Refuse(r) \/ \E o : Commit(r, o)
           \/ \E o \in Op : Begin(r, o)
           \/ ReadUser(r) \/ StartUpdate(r) \/ Write(r)
    PROVE  /\ pc'[q] = pc[q] /\ op'[q] = op[q] /\ outcome'[q] = outcome[q]
           /\ rows'[q] = rows[q] /\ after'[q] = after[q]
  BY DEF TypeOK, Refuse, Commit, Begin, ReadUser, StartUpdate, Write

\* Every step of Next is of one of these kinds.
LEMMA StepKinds ==
    ASSUME [Next]_vars
    PROVE  \/ \E r \in Requests :
                \/ pc[r] # "done" /\ Refuse(r)
                \/ \E o : Commit(r, o)
                \/ \E o \in Op : Begin(r, o)
                \/ ReadUser(r) \/ StartUpdate(r) \/ Write(r)
           \/ UNCHANGED <<pc, op, outcome, rows, after, challenges, resets, sessions>>
  <1>1. ASSUME NEW r \in Requests,
               \/ RecordFailure(r) \/ IssueChallenge(r) \/ WrongCode(r) \/ ExhaustChallenge(r)
               \/ OpenSession(r) \/ ResendCode(r)
               \/ CreateResetToken(r) \/ ConfirmReset(r)
               \/ TouchSession(r) \/ DeleteSession(r)
        PROVE  \E o : Commit(r, o)
    BY <1>1 DEF RecordFailure, IssueChallenge, WrongCode, ExhaustChallenge, OpenSession,
                ResendCode, CreateResetToken, ConfirmReset, TouchSession, DeleteSession
  <1>2. ASSUME NEW r \in Requests,
               \/ UserRefused(r) \/ Rollback(r) \/ \E o \in Op : NotAdmitted(r, o)
        PROVE  pc[r] # "done" /\ Refuse(r)
    BY <1>2 DEF UserRefused, Rollback, NotAdmitted
  <1>3. Suspend \/ Tick \/ UNCHANGED vars
          => UNCHANGED <<pc, op, outcome, rows, after, challenges, resets, sessions>>
    BY DEF Suspend, Tick, vars, db
  <1> QED
    BY <1>1, <1>2, <1>3 DEF Next

LEMMA KnownNext ==
    ASSUME TypeOK, Attempts, Known, TypeOK', Attempts', [Next]_vars
    PROVE  Known'
  <1> DEFINE K(q) ==
        /\ pc[q] = "begun" =>
             /\ op[q].kind \in {"verify", "resend"} => challenges[op[q].target].made
             /\ op[q].kind = "confirm" => resets[op[q].target].made
        /\ pc[q] \in {"decided", "waiting", "written"} =>
             /\ outcome[q] \in {"wrong", "exhausted", "session", "resent"}
                   => challenges[op[q].target].made
             /\ outcome[q] = "reset" => resets[op[q].target].made
        /\ pc[q] \in {"waiting", "written"} =>
             /\ outcome[q] = "challenge" => \A c \in rows[q] : challenges[c].made
             /\ outcome[q] = "link" => \A k \in rows[q] : resets[k].made
  <1>0. \A q \in Requests : K(q)
    BY DEF Known
  <1>1. ASSUME NEW q \in Requests,
               pc'[q] = pc[q], op'[q] = op[q], outcome'[q] = outcome[q], rows'[q] = rows[q]
        PROVE  K(q)'
    <2>1. rows[q] \subseteq Ids
      BY DEF TypeOK
    <2>2. pc[q] \in {"begun", "decided", "waiting", "written"} => op[q].target \in Ids
      BY OpTarget DEF Attempts
    <2>3. K(q)
      BY <1>0
    <2> QED
      BY <1>1, <2>1, <2>2, <2>3, MadeStaysMade
  <1>2. ASSUME NEW r \in Requests, Refuse(r) \/ \E o : Commit(r, o) PROVE K(r)'
    BY <1>2 DEF Refuse, Commit, TypeOK
  <1>3. ASSUME NEW r \in Requests, NEW o \in Op, Begin(r, o) PROVE K(r)'
    <2>1. UNCHANGED <<challenges, resets>> /\ pc'[r] = "begun" /\ op'[r] = o
      BY <1>3 DEF Begin, TypeOK, db
    <2>2. /\ o.kind \in {"verify", "resend"} => challenges[o.target].made
          /\ o.kind = "confirm" => resets[o.target].made
      BY <1>3 DEF Begin, Admitted, Usable
    <2> QED
      BY <2>1, <2>2
  <1>4. ASSUME NEW r \in Requests, ReadUser(r) PROVE K(r)'
    <2>1. /\ UNCHANGED <<challenges, resets, op>> /\ pc'[r] = "decided"
          /\ outcome'[r] = Decide(r) /\ pc[r] = "begun"
      BY <1>4 DEF ReadUser, TypeOK, db
    <2>2. op[r].kind \in {"login", "verify", "resend", "request", "confirm", "use", "logout"}
      BY <2>1 DEF Attempts, Op
    <2>3. /\ Decide(r) \in {"wrong", "exhausted", "session", "resent"}
                => op[r].kind \in {"verify", "resend"}
          /\ Decide(r) = "reset" => op[r].kind = "confirm"
      BY <2>2 DEF Decide
    <2> QED
      BY <1>0, <2>1, <2>3
  <1>5. /\ \A r \in Requests : outcome[r] = "challenge" => \A c \in Selected(r) : challenges[c].made
        /\ \A r \in Requests : outcome[r] = "link" => \A k \in Selected(r) : resets[k].made
    BY DEF Selected
  <1>6. ASSUME NEW r \in Requests, StartUpdate(r) PROVE K(r)'
    <2>1. /\ UNCHANGED <<challenges, resets, op, outcome>> /\ pc'[r] = "waiting"
          /\ rows'[r] = Selected(r) /\ pc[r] = "decided"
      BY <1>6 DEF StartUpdate, TypeOK, db
    <2> QED
      BY <1>0, <1>5, <2>1
  <1>7. ASSUME NEW r \in Requests, Write(r) PROVE K(r)'
    <2>1. /\ UNCHANGED <<challenges, resets, op, outcome>> /\ pc'[r] = "written"
          /\ rows'[r] = Touched(r) /\ pc[r] \in {"decided", "waiting"}
      BY <1>7 DEF Write, TypeOK, db
    <2>2. Touched(r) \subseteq Selected(r)
      BY DEF Touched
    <2> QED
      BY <1>0, <1>5, <2>1, <2>2
  <1>8. \A q \in Requests : K(q)'
    <2> SUFFICES ASSUME NEW q \in Requests PROVE K(q)'
      OBVIOUS
    <2> HIDE DEF K
    <2> QED
      BY <1>1, <1>2, <1>3, <1>4, <1>6, <1>7, StepKinds, OwnStep
  <1> QED
    BY <1>8 DEF Known

LEMMA FreshNext ==
    ASSUME TypeOK, Attempts, Fresh, Known, [Next]_vars
    PROVE  Fresh'
  <1> SUFFICES ASSUME NEW q \in Requests, pc'[q] # "done"
               PROVE  /\ ~challenges'[q].made /\ ~challenges'[q].consumed
                      /\ ~resets'[q].made /\ ~resets'[q].consumed
                      /\ ~sessions'[q].made
    BY DEF Fresh
  <1>1. /\ ~challenges[q].made /\ ~challenges[q].consumed
        /\ ~resets[q].made /\ ~resets[q].consumed
        /\ ~sessions[q].made
    BY DoneStaysDone DEF Fresh
  <1>2. q \in Ids
    BY IdsContain
  <1>3. ASSUME NEW r \in Requests, NEW o, Commit(r, o) PROVE r # q /\ pc[r] = "written" /\ outcome[r] = o
    BY <1>3 DEF Commit, TypeOK
  <1> USE <1>1, <1>2, <1>3 DEF TypeOK
  <1>4. ASSUME NEW r \in Requests, IssueChallenge(r) PROVE challenges'[q] = challenges[q]
    BY <1>4 DEF IssueChallenge, Known
  <1>5. ASSUME NEW r \in Requests, WrongCode(r) PROVE challenges'[q] = challenges[q]
    BY <1>5 DEF WrongCode, Known
  <1>6. ASSUME NEW r \in Requests, ExhaustChallenge(r) PROVE challenges'[q] = challenges[q]
    BY <1>6 DEF ExhaustChallenge, Known
  <1>7. ASSUME NEW r \in Requests, OpenSession(r)
        PROVE  challenges'[q] = challenges[q] /\ sessions'[q] = sessions[q]
    BY <1>7 DEF OpenSession, Known
  <1>8. ASSUME NEW r \in Requests, ResendCode(r) PROVE challenges'[q] = challenges[q]
    BY <1>8 DEF ResendCode, Known
  <1>9. ASSUME NEW r \in Requests, CreateResetToken(r) PROVE resets'[q] = resets[q]
    BY <1>9 DEF CreateResetToken, Known
  <1>10. ASSUME NEW r \in Requests, ConfirmReset(r)
         PROVE  resets'[q] = resets[q] /\ sessions'[q].made = sessions[q].made
    BY <1>10 DEF ConfirmReset, Known, Session
  <1>11. ASSUME NEW r \in Requests, TouchSession(r) \/ DeleteSession(r)
         PROVE  sessions'[q].made = sessions[q].made
    BY <1>11 DEF TouchSession, DeleteSession, Session
  <1>12. ASSUME NEW r \in Requests,
                \/ \E o \in Op : Begin(r, o) \/ NotAdmitted(r, o)
                \/ ReadUser(r) \/ UserRefused(r) \/ StartUpdate(r) \/ Write(r) \/ Rollback(r)
         PROVE  UNCHANGED <<challenges, resets, sessions>>
    BY <1>12 DEF Begin, NotAdmitted, ReadUser, UserRefused, StartUpdate, Write, Rollback, Refuse, db
  <1>13. Suspend \/ Tick \/ UNCHANGED vars => UNCHANGED <<challenges, resets, sessions>>
    BY DEF Suspend, Tick, vars, db
  <1>14. ASSUME NEW r \in Requests
         PROVE  /\ IssueChallenge(r) \/ WrongCode(r) \/ ExhaustChallenge(r) \/ ResendCode(r)
                      => UNCHANGED <<resets, sessions>>
                /\ OpenSession(r) => UNCHANGED resets
                /\ CreateResetToken(r) => UNCHANGED <<challenges, sessions>>
                /\ ConfirmReset(r) => UNCHANGED challenges
                /\ TouchSession(r) \/ DeleteSession(r) => UNCHANGED <<challenges, resets>>
                /\ RecordFailure(r) => UNCHANGED <<challenges, resets, sessions>>
    BY DEF IssueChallenge, WrongCode, ExhaustChallenge, ResendCode, OpenSession, CreateResetToken,
           ConfirmReset, TouchSession, DeleteSession, RecordFailure
  <1> QED
    BY <1>4, <1>5, <1>6, <1>7, <1>8, <1>9, <1>10, <1>11, <1>12, <1>13, <1>14 DEF Next

-----------------------------------------------------------------------------
(* Locks.                                                                  *)

\* A request that has written is at that step already, or writes now.
LEMMA WritingFrom ==
    ASSUME TypeOK, [Next]_vars, NEW q \in Requests, pc'[q] = "written"
    PROVE  /\ op'[q] = op[q] /\ outcome'[q] = outcome[q]
           /\ \/ pc[q] = "written" /\ rows'[q] = rows[q]
              \/ Write(q)
  <1>1. ASSUME NEW r \in Requests, Write(r) PROVE op'[r] = op[r] /\ outcome'[r] = outcome[r]
    BY <1>1 DEF Write
  <1>2. ASSUME Refuse(q) \/ (\E o : Commit(q, o)) \/ (\E o \in Op : Begin(q, o))
               \/ ReadUser(q) \/ StartUpdate(q)
        PROVE  FALSE
    BY <1>2 DEF Refuse, Commit, Begin, ReadUser, StartUpdate, TypeOK
  <1> QED
    BY <1>1, <1>2, StepKinds, OwnStep

LEMMA LocksNext ==
    ASSUME TypeOK, LocksDisjoint, [Next]_vars
    PROVE  LocksDisjoint'
  <1> SUFFICES ASSUME NEW q \in Requests, NEW r \in Requests, q # r,
                      pc'[q] = "written", pc'[r] = "written"
               PROVE  (Locks(q, rows[q]) \cap Locks(r, rows[r]) = {})'
    BY DEF LocksDisjoint, Writing
  <1>1. ASSUME NEW x \in Requests, op'[x] = op[x], outcome'[x] = outcome[x], NEW S
        PROVE  Locks(x, S)' = Locks(x, S)
    BY <1>1 DEF Locks
  <1>2. /\ Locks(q, rows[q])' = Locks(q, rows'[q])
        /\ Locks(r, rows[r])' = Locks(r, rows'[r])
    BY WritingFrom DEF Locks
  <1>3. CASE pc[q] = "written" /\ rows'[q] = rows[q] /\ pc[r] = "written" /\ rows'[r] = rows[r]
    BY <1>2, <1>3 DEF LocksDisjoint, Writing
  <1>4. ASSUME NEW x \in Requests, NEW y \in Requests, x # y, Write(x), pc'[y] = "written"
        PROVE  Locks(x, rows'[x]) \cap Locks(y, rows'[y]) = {}
    <2>1. pc[y] = "written" /\ rows'[y] = rows[y] /\ rows'[x] = Touched(x)
      BY <1>4 DEF Write, TypeOK
    <2> QED
      BY <1>4, <2>1 DEF Write, Writing
  <1> QED
    BY <1>2, <1>3, <1>4, WritingFrom

\* A code step that succeeded and a reset both update the user.
LEMMA UserLocked ==
    ASSUME NEW r \in Requests, NEW S, outcome[r] \in {"session", "reset"}
    PROVE  <<"user", Earlier>> \in Locks(r, S)
  <1>1. CASE outcome[r] = "session"
    BY <1>1 DEF Locks
  <1>2. CASE outcome[r] = "reset"
    BY <1>2 DEF Locks
  <1> QED
    BY <1>1, <1>2

LEMMA ResetNext ==
    ASSUME TypeOK, LocksDisjoint, ResetSelectsAll, [Next]_vars
    PROVE  ResetSelectsAll'
  <1> SUFFICES ASSUME NEW r \in Requests, pc'[r] = "written", outcome'[r] = "reset",
                      NEW s \in Ids, sessions'[s].live
               PROVE  s \in rows'[r]
    BY DEF ResetSelectsAll
  <1>1. outcome[r] = "reset"
    BY WritingFrom
  <1>2. CASE Write(r)
    <2>1. sessions' = sessions /\ pc[r] = "decided" /\ rows'[r] = Touched(r)
      BY <1>1, <1>2 DEF Write, TypeOK, db
    <2>2. Touched(r) = Selected(r)
      BY <2>1 DEF Touched
    <2>3. Selected(r) = {x \in Ids : sessions[x].live}
      BY <1>1 DEF Selected
    <2> QED
      BY <2>1, <2>2, <2>3
  <1>3. CASE pc[r] = "written" /\ rows'[r] = rows[r]
    <2>1. ASSUME NEW q \in Requests, OpenSession(q) PROVE FALSE
      <3>1. pc[q] = "written" /\ outcome[q] = "session"
        BY <2>1 DEF OpenSession, Commit
      <3>2. <<"user", Earlier>> \in Locks(q, rows[q]) /\ <<"user", Earlier>> \in Locks(r, rows[r])
        BY <1>1, <3>1, UserLocked
      <3> QED
        BY <1>1, <1>3, <3>1, <3>2 DEF LocksDisjoint, Writing
    <2>2. ASSUME NEW q \in Requests, ConfirmReset(q) \/ TouchSession(q) \/ DeleteSession(q)
          PROVE  sessions[s].live
      BY <2>2 DEF ConfirmReset, TouchSession, DeleteSession, TypeOK, Session
    <2>3. ASSUME NEW q \in Requests,
                 \/ RecordFailure(q) \/ IssueChallenge(q) \/ WrongCode(q) \/ ExhaustChallenge(q)
                 \/ ResendCode(q) \/ CreateResetToken(q)
          PROVE  UNCHANGED sessions
      BY <2>3 DEF RecordFailure, IssueChallenge, WrongCode, ExhaustChallenge, ResendCode,
                  CreateResetToken
    <2>4. ASSUME NEW q \in Requests,
                 \/ \E o \in Op : Begin(q, o) \/ NotAdmitted(q, o)
                 \/ ReadUser(q) \/ UserRefused(q) \/ StartUpdate(q) \/ Write(q) \/ Rollback(q)
          PROVE  UNCHANGED sessions
      BY <2>4 DEF Begin, NotAdmitted, ReadUser, UserRefused, StartUpdate, Write, Rollback, Refuse, db
    <2>5. Suspend \/ Tick \/ UNCHANGED vars => UNCHANGED sessions
      BY DEF Suspend, Tick, vars, db
    <2>6. sessions[s].live
      BY <2>1, <2>2, <2>3, <2>4, <2>5 DEF Next
    <2> QED
      BY <1>1, <1>3, <2>6 DEF ResetSelectsAll
  <1> QED
    BY <1>2, <1>3, WritingFrom

-----------------------------------------------------------------------------
(* What is used up or ended.                                               *)

\* No write brings back a code or a link that was used or replaced, or a session
\* that was ended.
LEMMA DeadStep ==
    ASSUME LoginInv, [Next]_vars, NEW i \in Ids
    PROVE  /\ challenges[i].consumed => challenges'[i].consumed
           /\ resets[i].consumed => resets'[i].consumed
           /\ sessions[i].made /\ ~sessions[i].live => ~sessions'[i].live
  <1> USE DEF LoginInv, TypeOK, Challenge, Reset, Session
  <1>1. ASSUME NEW r \in Requests, NEW o, Commit(r, o)
        PROVE  ~challenges[r].consumed /\ ~resets[r].consumed /\ ~sessions[r].made
    BY <1>1 DEF Commit, Fresh
  <1>2. ASSUME NEW r \in Requests, IssueChallenge(r)
        PROVE  challenges[i].consumed => challenges'[i].consumed
    BY <1>1, <1>2 DEF IssueChallenge
  <1>3. ASSUME NEW r \in Requests, WrongCode(r)
        PROVE  challenges[i].consumed => challenges'[i].consumed
    BY <1>3 DEF WrongCode
  <1>4. ASSUME NEW r \in Requests, ExhaustChallenge(r)
        PROVE  challenges[i].consumed => challenges'[i].consumed
    BY <1>4 DEF ExhaustChallenge
  <1>5. ASSUME NEW r \in Requests, OpenSession(r)
        PROVE  /\ challenges[i].consumed => challenges'[i].consumed
               /\ sessions[i].made /\ ~sessions[i].live => ~sessions'[i].live
    BY <1>1, <1>5 DEF OpenSession
  <1>6. ASSUME NEW r \in Requests, ResendCode(r)
        PROVE  challenges[i].consumed => challenges'[i].consumed
    BY <1>6 DEF ResendCode
  <1>7. ASSUME NEW r \in Requests, CreateResetToken(r)
        PROVE  resets[i].consumed => resets'[i].consumed
    BY <1>1, <1>7 DEF CreateResetToken
  <1>8. ASSUME NEW r \in Requests, ConfirmReset(r)
        PROVE  /\ resets[i].consumed => resets'[i].consumed
               /\ ~sessions[i].live => ~sessions'[i].live
    BY <1>8 DEF ConfirmReset
  <1>9. ASSUME NEW r \in Requests, TouchSession(r) \/ DeleteSession(r)
        PROVE  ~sessions[i].live => ~sessions'[i].live
    <2>1. CASE TouchSession(r)
      BY <2>1 DEF TouchSession
    <2>2. CASE DeleteSession(r)
      BY <2>2 DEF DeleteSession
    <2> QED
      BY <1>9, <2>1, <2>2
  <1>10. ASSUME NEW r \in Requests
         PROVE  /\ IssueChallenge(r) \/ WrongCode(r) \/ ExhaustChallenge(r) \/ ResendCode(r)
                      => UNCHANGED <<resets, sessions>>
                /\ OpenSession(r) => UNCHANGED resets
                /\ CreateResetToken(r) => UNCHANGED <<challenges, sessions>>
                /\ ConfirmReset(r) => UNCHANGED challenges
                /\ TouchSession(r) \/ DeleteSession(r) => UNCHANGED <<challenges, resets>>
                /\ RecordFailure(r) => UNCHANGED <<challenges, resets, sessions>>
    BY DEF IssueChallenge, WrongCode, ExhaustChallenge, ResendCode, OpenSession, CreateResetToken,
           ConfirmReset, TouchSession, DeleteSession, RecordFailure
  <1>11. ASSUME NEW r \in Requests,
                \/ \E o \in Op : Begin(r, o) \/ NotAdmitted(r, o)
                \/ ReadUser(r) \/ UserRefused(r) \/ StartUpdate(r) \/ Write(r) \/ Rollback(r)
         PROVE  UNCHANGED <<challenges, resets, sessions>>
    BY <1>11 DEF Begin, NotAdmitted, ReadUser, UserRefused, StartUpdate, Write, Rollback, Refuse, db
  <1>12. Suspend \/ Tick \/ UNCHANGED vars => UNCHANGED <<challenges, resets, sessions>>
    BY DEF Suspend, Tick, vars, db
  <1> QED
    BY <1>2, <1>3, <1>4, <1>5, <1>6, <1>7, <1>8, <1>9, <1>10, <1>11, <1>12 DEF Next

-----------------------------------------------------------------------------
(* Theorems.                                                               *)

THEOREM LoginInvariant == Spec => []LoginInv
  <1>1. Init => LoginInv
    <2> SUFFICES ASSUME Init PROVE LoginInv
      OBVIOUS
    <2>1. TypeOK /\ Attempts
      BY InitType
    <2>2. Fresh
      BY LoginAssumption DEF Init, Fresh, Ids, NoChallenge, NoReset, NoSession
    <2>3. Known /\ LocksDisjoint /\ ResetSelectsAll
      BY DEF Init, Known, LocksDisjoint, ResetSelectsAll, Writing
    <2> QED
      BY <2>1, <2>2, <2>3 DEF LoginInv
  <1>2. LoginInv /\ [Next]_vars => LoginInv'
    BY TypeNext, FreshNext, KnownNext, LocksNext, ResetNext DEF LoginInv
  <1> QED
    BY <1>1, <1>2, PTL DEF Spec

\* Every row and every request is well typed; no counter passes its limit.
THEOREM LoginTypeCorrect == Spec => []TypeOK
  BY LoginInvariant, PTL DEF LoginInv

\* password_reset.py: when a reset commits, the account has no session left,
\* whatever code steps and uses of sessions are in flight.
THEOREM ResetRevokesAll == Spec => ResetRevokesEverySession
  <1>1. ASSUME LoginInv, [Next]_vars
        PROVE  [\A r \in Requests : (pc[r] = "written" /\ outcome[r] = "reset" /\ Did(r, "reset")')
                   => \A s \in Ids : ~sessions'[s].live]_vars
    <2> SUFFICES ASSUME NEW r \in Requests, pc[r] = "written", outcome[r] = "reset",
                        pc'[r] = "done", outcome'[r] = "reset", NEW s \in Ids
                 PROVE  ~sessions'[s].live
      BY DEF Did
    <2>1. ConfirmReset(r)
      <3>1. ~Refuse(r)
        BY <1>1 DEF Refuse, LoginInv, TypeOK
      <3>2. \A o : Commit(r, o) => o = "reset"
        BY DEF Commit
      <3>3. ASSUME NEW q \in Requests, q # r,
                   \/ Refuse(q) \/ \E o : Commit(q, o)
                   \/ \E o \in Op : Begin(q, o)
                   \/ ReadUser(q) \/ StartUpdate(q) \/ Write(q)
            PROVE  FALSE
        BY <1>1, <3>3, OwnStep DEF LoginInv
      <3>4. ~(\E o \in Op : Begin(r, o)) /\ ~ReadUser(r) /\ ~StartUpdate(r) /\ ~Write(r)
        BY <1>1 DEF Begin, ReadUser, StartUpdate, Write, LoginInv, TypeOK
      <3>5. ~(Suspend \/ Tick \/ UNCHANGED vars)
        BY DEF Suspend, Tick, vars
      <3>6. ASSUME NEW q \in Requests,
                   \/ RecordFailure(q) \/ IssueChallenge(q) \/ WrongCode(q) \/ ExhaustChallenge(q)
                   \/ OpenSession(q) \/ ResendCode(q) \/ CreateResetToken(q)
                   \/ TouchSession(q) \/ DeleteSession(q)
            PROVE  FALSE
        <4>1. PICK o : Commit(q, o) /\ o # "reset"
          BY <3>6 DEF RecordFailure, IssueChallenge, WrongCode, ExhaustChallenge, OpenSession,
                      ResendCode, CreateResetToken, TouchSession, DeleteSession
        <4> QED
          BY <4>1, <3>2, <3>3
      <3>7. ASSUME NEW q \in Requests, ConfirmReset(q) PROVE ConfirmReset(r)
        <4>1. Commit(q, "reset")
          BY <3>7 DEF ConfirmReset
        <4> QED
          BY <3>3, <3>7, <4>1
      <3>8. ASSUME NEW q \in Requests,
                   \/ \E o \in Op : Begin(q, o) \/ NotAdmitted(q, o)
                   \/ ReadUser(q) \/ UserRefused(q) \/ StartUpdate(q) \/ Write(q) \/ Rollback(q)
            PROVE  FALSE
        <4>1. \/ Refuse(q) \/ \E o \in Op : Begin(q, o)
              \/ ReadUser(q) \/ StartUpdate(q) \/ Write(q)
          BY <3>8 DEF NotAdmitted, UserRefused, Rollback
        <4> QED
          BY <3>1, <3>3, <3>4, <4>1
      <3> QED
        BY <1>1, <3>5, <3>6, <3>7, <3>8 DEF Next
    <2>2. sessions[s].live => s \in rows[r]
      BY <1>1 DEF LoginInv, ResetSelectsAll
    <2> QED
      BY <1>1, <2>1, <2>2 DEF ConfirmReset, LoginInv, TypeOK, Session
  <1> QED
    BY <1>1, LoginInvariant, PTL DEF Spec, ResetRevokesEverySession

\* login.py, password_reset.py, sessions.py: a code or a reset link that was used or
\* replaced and a session that was ended never come back, whatever writes were
\* decided on before.
THEOREM DeadRowsStayDead == Spec => DeadStaysDead
  <1>1. ASSUME LoginInv, [Next]_vars
        PROVE  [\A i \in Ids :
                    /\ challenges[i].consumed => challenges'[i].consumed
                    /\ resets[i].consumed => resets'[i].consumed
                    /\ sessions[i].made /\ ~sessions[i].live => ~sessions'[i].live]_vars
    BY <1>1, DeadStep
  <1> QED
    BY <1>1, LoginInvariant, PTL DEF Spec, DeadStaysDead

-----------------------------------------------------------------------------
(* Codes over time.  A request knows which had ended when it began; what   *)
(* those consumed it finds consumed, and what they issued it replaces.     *)

AfterEnded == \A r \in Requests : \A q \in after[r] : q # r /\ pc[q] = "done"

ConsumersConsume ==
    \A q \in Requests, c \in Ids : Consumes(q, c) => challenges[c].consumed

Issuers == \A c \in Requests : challenges[c].made <=> Did(c, "challenge")

Superseded ==
    \A d \in Requests : \A c \in after[d] : Did(c, "challenge") =>
        /\ pc[d] \in {"waiting", "written"} /\ outcome[d] = "challenge"
              => c \in rows[d] \/ challenges[c].consumed
        /\ Did(d, "challenge") => challenges[c].consumed

CodesInv == AfterEnded /\ ConsumersConsume /\ ConsumedIsFinal /\ Issuers /\ Superseded

LEMMA DoneIsFixed ==
    ASSUME TypeOK, [Next]_vars, NEW q \in Requests, pc[q] = "done"
    PROVE  /\ pc'[q] = "done" /\ op'[q] = op[q] /\ outcome'[q] = outcome[q]
           /\ rows'[q] = rows[q] /\ after'[q] = after[q]
  <1>1. ~(\E o : Commit(q, o)) /\ ~(\E o \in Op : Begin(q, o))
        /\ ~ReadUser(q) /\ ~StartUpdate(q) /\ ~Write(q)
    BY DEF Commit, Begin, ReadUser, StartUpdate, Write, TypeOK
  <1>2. ASSUME NEW r \in Requests, r # q,
               \/ Refuse(r) \/ \E o : Commit(r, o)
               \/ \E o \in Op : Begin(r, o)
               \/ ReadUser(r) \/ StartUpdate(r) \/ Write(r)
        PROVE  /\ pc'[q] = pc[q] /\ op'[q] = op[q] /\ outcome'[q] = outcome[q]
               /\ rows'[q] = rows[q] /\ after'[q] = after[q]
    BY <1>2, OwnStep
  <1> QED
    BY <1>1, <1>2, StepKinds

\* What a request that ends has done.
LEMMA EndsBy ==
    ASSUME TypeOK, [Next]_vars, NEW q \in Requests, pc[q] # "done", pc'[q] = "done"
    PROVE  /\ outcome'[q] \in {"session", "exhausted", "challenge"} =>
                pc[q] = "written" /\ outcome[q] = outcome'[q]
           /\ outcome'[q] = "session" => OpenSession(q)
           /\ outcome'[q] = "exhausted" => ExhaustChallenge(q)
           /\ outcome'[q] = "challenge" => IssueChallenge(q)
  <1>1. ASSUME NEW r \in Requests, Refuse(r) PROVE r = q => outcome'[q] = "refused"
    BY <1>1 DEF Refuse, TypeOK
  <1>2. ASSUME NEW r \in Requests, NEW o, Commit(r, o)
        PROVE  r = q => pc[q] = "written" /\ outcome[q] = o /\ outcome'[q] = o
    BY <1>2 DEF Commit
  <1>3. ASSUME NEW r \in Requests,
               \/ Refuse(r) \/ \E o : Commit(r, o)
               \/ \E o \in Op : Begin(r, o)
               \/ ReadUser(r) \/ StartUpdate(r) \/ Write(r)
        PROVE  r = q
    BY <1>3, OwnStep
  <1>4. ASSUME NEW r \in Requests,
               \/ \E o \in Op : Begin(r, o) \/ NotAdmitted(r, o)
               \/ ReadUser(r) \/ UserRefused(r) \/ StartUpdate(r) \/ Write(r) \/ Rollback(r)
        PROVE  outcome'[q] = "refused"
    <2>1. ~(\E o \in Op : Begin(q, o)) /\ ~ReadUser(q) /\ ~StartUpdate(q) /\ ~Write(q)
      BY DEF Begin, ReadUser, StartUpdate, Write, TypeOK
    <2> QED
      BY <1>1, <1>3, <1>4, <2>1 DEF NotAdmitted, UserRefused, Rollback
  <1>5. ASSUME NEW r \in Requests,
               \/ RecordFailure(r) \/ WrongCode(r) \/ ResendCode(r)
               \/ CreateResetToken(r) \/ ConfirmReset(r)
               \/ TouchSession(r) \/ DeleteSession(r)
        PROVE  outcome'[q] \notin {"session", "exhausted", "challenge"}
    <2>1. PICK o \in {"failed", "wrong", "resent", "link", "reset", "touch", "logout"} :
             Commit(r, o)
      BY <1>5 DEF RecordFailure, WrongCode, ResendCode, CreateResetToken, ConfirmReset,
                  TouchSession, DeleteSession
    <2> QED
      BY <1>2, <1>3, <2>1
  <1>6. ASSUME NEW r \in Requests, OpenSession(r)
        PROVE  r = q /\ outcome'[q] = "session" /\ outcome[q] = "session" /\ pc[q] = "written"
    BY <1>2, <1>3, <1>6 DEF OpenSession
  <1>7. ASSUME NEW r \in Requests, ExhaustChallenge(r)
        PROVE  r = q /\ outcome'[q] = "exhausted" /\ outcome[q] = "exhausted"
               /\ pc[q] = "written"
    BY <1>2, <1>3, <1>7 DEF ExhaustChallenge
  <1>8. ASSUME NEW r \in Requests, IssueChallenge(r)
        PROVE  r = q /\ outcome'[q] = "challenge" /\ outcome[q] = "challenge"
               /\ pc[q] = "written"
    BY <1>2, <1>3, <1>8 DEF IssueChallenge
  <1>9. ~(Suspend \/ Tick \/ UNCHANGED vars)
    BY DEF Suspend, Tick, vars
  <1> QED
    BY <1>4, <1>5, <1>6, <1>7, <1>8, <1>9 DEF Next

\* A code that is there now was there or is issued by this step.
LEMMA MadeByIssue ==
    ASSUME TypeOK, [Next]_vars, NEW i \in Ids, challenges'[i].made
    PROVE  challenges[i].made \/ (i \in Requests /\ IssueChallenge(i))
  <1> USE DEF TypeOK, Challenge
  <1>1. ASSUME NEW r \in Requests, IssueChallenge(r)
        PROVE  challenges[i].made \/ r = i
    BY <1>1 DEF IssueChallenge
  <1>2. ASSUME NEW r \in Requests, WrongCode(r) PROVE challenges[i].made
    BY <1>2 DEF WrongCode
  <1>3. ASSUME NEW r \in Requests, ExhaustChallenge(r) PROVE challenges[i].made
    BY <1>3 DEF ExhaustChallenge
  <1>4. ASSUME NEW r \in Requests, OpenSession(r) PROVE challenges[i].made
    BY <1>4 DEF OpenSession
  <1>5. ASSUME NEW r \in Requests, ResendCode(r) PROVE challenges[i].made
    BY <1>5 DEF ResendCode
  <1>6. ASSUME NEW r \in Requests,
               \/ RecordFailure(r) \/ CreateResetToken(r) \/ ConfirmReset(r)
               \/ TouchSession(r) \/ DeleteSession(r)
               \/ \E o \in Op : Begin(r, o) \/ NotAdmitted(r, o)
               \/ ReadUser(r) \/ UserRefused(r) \/ StartUpdate(r) \/ Write(r) \/ Rollback(r)
        PROVE  UNCHANGED challenges
    BY <1>6 DEF RecordFailure, CreateResetToken, ConfirmReset, TouchSession, DeleteSession,
                Begin, NotAdmitted, ReadUser, UserRefused, StartUpdate, Write, Rollback,
                Refuse, db
  <1>7. Suspend \/ Tick \/ UNCHANGED vars => UNCHANGED challenges
    BY DEF Suspend, Tick, vars, db
  <1> QED
    BY <1>1, <1>2, <1>3, <1>4, <1>5, <1>6, <1>7 DEF Next

\* What a request knows to have ended, it learned when it began.
LEMMA AfterStep ==
    ASSUME TypeOK, [Next]_vars, NEW r \in Requests
    PROVE  \/ after'[r] = after[r] /\ op'[r] = op[r]
           \/ after'[r] = {}
           \/ \E o \in Op : Begin(r, o) /\ after'[r] = Ended /\ op'[r] = o /\ pc[r] = "idle"
  <1>1. ASSUME NEW q \in Requests, q # r,
               \/ Refuse(q) \/ \E o : Commit(q, o)
               \/ \E o \in Op : Begin(q, o)
               \/ ReadUser(q) \/ StartUpdate(q) \/ Write(q)
        PROVE  after'[r] = after[r] /\ op'[r] = op[r]
    BY <1>1, OwnStep
  <1>2. Refuse(r) => after'[r] = {}
    BY DEF Refuse, TypeOK
  <1>3. (\E o : Commit(r, o)) \/ ReadUser(r) \/ StartUpdate(r) \/ Write(r)
            => after'[r] = after[r] /\ op'[r] = op[r]
    BY DEF Commit, ReadUser, StartUpdate, Write
  <1>4. ASSUME NEW o \in Op, Begin(r, o)
        PROVE  after'[r] = Ended /\ op'[r] = o /\ pc[r] = "idle"
    BY <1>4 DEF Begin, TypeOK
  <1> QED
    BY <1>1, <1>2, <1>3, <1>4, StepKinds

LEMMA CodesNext ==
    ASSUME LoginInv, LoginInv', CodesInv, [Next]_vars
    PROVE  CodesInv'
  <1> USE DEF CodesInv
  <1>0. TypeOK /\ TypeOK' /\ Fresh /\ Fresh' /\ Known
    BY DEF LoginInv
  <1>1. ASSUME NEW q \in Requests, pc[q] = "done"
        PROVE  /\ \A o : Did(q, o)' <=> Did(q, o)
               /\ \A c : Consumes(q, c)' <=> Consumes(q, c)
    BY <1>0, <1>1, DoneIsFixed DEF Did, Consumes
  <1>2. ASSUME NEW r \in Requests, NEW q \in after'[r]
        PROVE  q \in Requests /\ q # r /\ pc[q] = "done"
    <2>1. Ended \subseteq Requests /\ \A x \in Ended : pc[x] = "done"
      BY DEF Ended
    <2>2. q \in after[r] \/ (q \in Ended /\ pc[r] = "idle")
      BY <1>0, <1>2, AfterStep
    <2>3. q \in Requests /\ pc[q] = "done"
      BY <1>0, <2>1, <2>2 DEF AfterEnded, TypeOK
    <2>4. q # r
      BY <2>2, <2>3 DEF AfterEnded
    <2> QED
      BY <2>3, <2>4
  <1>3. AfterEnded'
    BY <1>0, <1>2, DoneIsFixed DEF AfterEnded
  <1>4. ConsumersConsume'
    <2> SUFFICES ASSUME NEW q \in Requests, NEW c \in Ids, Consumes(q, c)'
                 PROVE  challenges'[c].consumed
      BY DEF ConsumersConsume
    <2>1. CASE pc[q] = "done"
      BY <1>1, <2>1, DeadStep DEF ConsumersConsume
    <2>2. CASE pc[q] # "done"
      <3>1. /\ pc'[q] = "done"
            /\ outcome'[q] \in {"session", "exhausted", "challenge"}
            /\ outcome'[q] # "challenge" => c = op'[q].target
            /\ outcome'[q] = "challenge" => c \in rows'[q]
        BY DEF Consumes, Did
      <3>2. CASE outcome'[q] = "session"
        <4>1. OpenSession(q)
          BY <1>0, <2>2, <3>1, <3>2, EndsBy
        <4> QED
          BY <1>0, <3>1, <3>2, <4>1 DEF OpenSession, Commit, TypeOK, Challenge
      <3>3. CASE outcome'[q] = "exhausted"
        <4>1. ExhaustChallenge(q)
          BY <1>0, <2>2, <3>1, <3>3, EndsBy
        <4> QED
          BY <1>0, <3>1, <3>3, <4>1 DEF ExhaustChallenge, Commit, TypeOK, Challenge
      <3>4. CASE outcome'[q] = "challenge"
        <4>1. IssueChallenge(q) /\ pc[q] = "written" /\ outcome[q] = "challenge"
          BY <1>0, <2>2, <3>1, <3>4, EndsBy
        <4>2. c \in rows[q]
          BY <3>1, <3>4, <4>1 DEF IssueChallenge, Commit
        <4>3. c # q
          BY <1>0, <4>1, <4>2 DEF Known, Fresh
        <4> QED
          BY <1>0, <4>1, <4>2, <4>3 DEF IssueChallenge, TypeOK, Challenge
      <3> QED
        BY <3>1, <3>2, <3>3, <3>4
    <2> QED
      BY <2>1, <2>2
  <1>5. ConsumedIsFinal'
    <2> SUFFICES ASSUME NEW q \in Requests, NEW r \in Requests, NEW c \in Ids,
                        Consumes(q, c)', q \in after'[r],
                        op'[r].kind \in {"verify", "resend"}
                 PROVE  op'[r].target # c
      BY DEF ConsumedIsFinal
    <2>1. Consumes(q, c)
      BY <1>1, <1>2
    <2>2. CASE after'[r] = after[r] /\ op'[r] = op[r]
      BY <2>1, <2>2 DEF ConsumedIsFinal
    <2>3. CASE \E o \in Op : Begin(r, o) /\ op'[r] = o
      <3>1. PICK o \in Op : Begin(r, o) /\ op'[r] = o
        BY <2>3
      <3>2. ~challenges[o.target].consumed
        BY <3>1 DEF Begin, Admitted, Usable
      <3> QED
        BY <2>1, <3>1, <3>2 DEF ConsumersConsume
    <2> QED
      BY <1>0, <2>2, <2>3, AfterStep
  <1>6. Issuers'
    <2> SUFFICES ASSUME NEW c \in Requests
                 PROVE  challenges'[c].made <=> Did(c, "challenge")'
      BY DEF Issuers
    <2>0. c \in Ids
      BY IdsContain
    <2>1. ASSUME IssueChallenge(c)
          PROVE  challenges'[c].made /\ Did(c, "challenge")'
      BY <1>0, <2>0, <2>1 DEF IssueChallenge, Commit, Did, NewChallenge, TypeOK
    <2>2. CASE pc[c] = "done"
      <3>1. ~IssueChallenge(c)
        BY <2>2 DEF IssueChallenge, Commit
      <3> QED
        BY <1>0, <1>1, <2>0, <2>2, <3>1, MadeByIssue, MadeStaysMade DEF Issuers
    <2>3. CASE pc[c] # "done"
      <3>1. ~challenges[c].made
        BY <1>0, <2>3 DEF Fresh
      <3>2. challenges'[c].made => IssueChallenge(c)
        BY <1>0, <2>0, <3>1, MadeByIssue
      <3>3. Did(c, "challenge")' => IssueChallenge(c)
        BY <1>0, <2>3, EndsBy DEF Did
      <3> QED
        BY <2>1, <3>2, <3>3
    <2> QED
      BY <2>2, <2>3
  <1>7. Superseded'
    <2> SUFFICES ASSUME NEW d \in Requests, NEW c \in after'[d], Did(c, "challenge")'
                 PROVE  /\ pc'[d] \in {"waiting", "written"} /\ outcome'[d] = "challenge"
                              => c \in rows'[d] \/ challenges'[c].consumed
                        /\ Did(d, "challenge")' => challenges'[c].consumed
      BY DEF Superseded
    <2>1. c \in Requests /\ c # d /\ c \in Ids /\ Did(c, "challenge")
      BY <1>1, <1>2, IdsContain
    <2>2. challenges[c].consumed => challenges'[c].consumed
      BY <2>1, DeadStep
    <2>3. challenges[c].made
      BY <2>1 DEF Issuers
    <2>4. CASE \E o \in Op : Begin(d, o)
      <3>1. pc'[d] = "begun"
        BY <1>0, <2>4 DEF Begin, TypeOK
      <3> QED
        BY <3>1 DEF Did
    <2>5. CASE ~\E o \in Op : Begin(d, o)
      <3>0. c \in after[d]
        BY <1>0, <2>5, AfterStep
      <3>1. /\ pc[d] \in {"waiting", "written"} /\ outcome[d] = "challenge"
                  => c \in rows[d] \/ challenges[c].consumed
            /\ Did(d, "challenge") => challenges[c].consumed
        BY <2>1, <3>0 DEF Superseded
      <3>2. CASE pc[d] = "done"
        <4>1. pc'[d] = "done" /\ outcome'[d] = outcome[d]
          BY <1>0, <3>2, DoneIsFixed
        <4> QED
          BY <2>2, <3>1, <3>2, <4>1 DEF Did
      <3>3. CASE pc[d] # "done" /\ pc'[d] = "done"
        <4>1. ASSUME outcome'[d] = "challenge"
              PROVE  challenges'[c].consumed
          <5>1. IssueChallenge(d) /\ pc[d] = "written" /\ outcome[d] = "challenge"
            BY <1>0, <3>3, <4>1, EndsBy
          <5>2. c \in rows[d] \/ challenges[c].consumed
            BY <3>1, <5>1
          <5> QED
            BY <1>0, <2>1, <2>2, <5>1, <5>2 DEF IssueChallenge, TypeOK, Challenge
        <4> QED
          BY <3>3, <4>1 DEF Did
      <3>4. CASE pc'[d] = "written"
        <4>1. CASE pc[d] = "written" /\ rows'[d] = rows[d]
          BY <1>0, <2>2, <3>1, <3>4, <4>1, WritingFrom DEF Did
        <4>2. CASE Write(d)
          <5>1. /\ UNCHANGED <<outcome, challenges>> /\ rows'[d] = Touched(d)
                /\ outcome[d] = "challenge" => pc[d] = "waiting"
            BY <1>0, <4>2 DEF Write, db, TypeOK
          <5>2. outcome[d] = "challenge" => Touched(d) = rows[d] \cap Selected(d)
            BY <5>1 DEF Touched
          <5>3. outcome[d] = "challenge" /\ ~challenges[c].consumed => c \in Selected(d)
            BY <2>1, <2>3 DEF Selected
          <5> QED
            BY <2>1, <3>1, <3>4, <5>1, <5>2, <5>3 DEF Did
        <4> QED
          BY <1>0, <3>4, <4>1, <4>2, WritingFrom
      <3>5. CASE pc'[d] = "waiting"
        <4>1. CASE StartUpdate(d)
          <5>1. UNCHANGED <<outcome, challenges>> /\ rows'[d] = Selected(d)
            BY <1>0, <4>1 DEF StartUpdate, db, TypeOK
          <5>2. outcome[d] = "challenge" /\ ~challenges[c].consumed => c \in Selected(d)
            BY <2>1, <2>3 DEF Selected
          <5> QED
            BY <3>5, <5>1, <5>2 DEF Did
        <4>2. CASE ~StartUpdate(d)
          <5>1. ~Refuse(d) /\ ~(\E o : Commit(d, o)) /\ ~ReadUser(d) /\ ~Write(d)
            BY <1>0, <3>5 DEF Refuse, Commit, ReadUser, Write, TypeOK
          <5>2. pc'[d] = pc[d] /\ outcome'[d] = outcome[d] /\ rows'[d] = rows[d]
            BY <1>0, <2>5, <4>2, <5>1, StepKinds, OwnStep
          <5> QED
            BY <2>2, <3>1, <3>5, <5>2 DEF Did
        <4> QED
          BY <4>1, <4>2
      <3> QED
        BY <3>2, <3>3, <3>4, <3>5 DEF Did
    <2> QED
      BY <2>4, <2>5
  <1> QED
    BY <1>3, <1>4, <1>5, <1>6, <1>7

LEMMA CodesInvariant == Spec => []CodesInv
  <1>1. Init => CodesInv
    <2> SUFFICES ASSUME Init PROVE CodesInv
      OBVIOUS
    <2>1. /\ \A r \in Requests : pc[r] = "idle" /\ after[r] = {}
          /\ \A r \in Requests : ~challenges[r].made
      BY LoginAssumption DEF Init, Ids, NoChallenge
    <2> QED
      BY <2>1 DEF CodesInv, AfterEnded, ConsumersConsume, ConsumedIsFinal, Issuers,
                  Superseded, Consumes, Did
  <1>2. LoginInv /\ LoginInv' /\ CodesInv /\ [Next]_vars => CodesInv'
    BY CodesNext
  <1> QED
    BY <1>1, <1>2, LoginInvariant, PTL DEF Spec

\* login.py verify_login, resend_otp: a code that was accepted, worn out or replaced
\* admits no request that began afterwards, whatever ran meanwhile.
THEOREM ConsumedCodesAreFinal == Spec => []ConsumedIsFinal
  <1>1. CodesInv => ConsumedIsFinal
    BY DEF CodesInv
  <1> QED
    BY <1>1, CodesInvariant, PTL

\* login.py start_login: two codes are usable together only when their sign-ins
\* overlapped; a sign-in replaces every code issued before it began.
THEOREM LiveCodesStemFromOverlap == Spec => []LiveCodesOverlap
  <1>1. CodesInv => LiveCodesOverlap
    <2> SUFFICES ASSUME CodesInv, NEW c \in Requests, NEW d \in Requests, c # d,
                        \A i \in {c, d} : challenges[i].made /\ ~challenges[i].consumed
                 PROVE  Overlap(c, d)
      BY DEF LiveCodesOverlap
    <2>1. Did(c, "challenge") /\ Did(d, "challenge")
      BY DEF CodesInv, Issuers
    <2> QED
      BY <2>1 DEF CodesInv, Superseded, Overlap
  <1> QED
    BY <1>1, CodesInvariant, PTL

-----------------------------------------------------------------------------
(* Counting failures.  Only requests that ended and were not refused have  *)
(* written the user.  While of any two of them one began after the other,  *)
(* the count is exact, and a request that began after all of them has read *)
(* the count that is there.                                                *)

OneByOne == \A q, r \in Ended : q = r \/ q \in after[r] \/ r \in after[q]

Exact ==
    /\ user.count = streak % MAX_FAILED_LOGINS
    /\ (user.count = 0 /\ streak > 0) => user.until > 0

Counting(r) ==
    pc[r] \in {"decided", "waiting", "written"} /\ outcome[r] \in {"failed", "exhausted"}

FailuresInv ==
    /\ \A r \in Ended : op[r] # NoOp
    /\ OneByOne => Exact
    /\ \A r \in Requests : Counting(r) /\ Ended \subseteq after[r]
          => read[r].count = user.count

\* The next number, modulo a limit.
LEMMA NextModulo ==
    ASSUME NEW m \in Nat \ {0}, NEW k \in Nat
    PROVE  (k + 1) % m = IF (k % m) + 1 >= m THEN 0 ELSE (k % m) + 1
  <1>0. ASSUME NEW n \in Nat, NEW d \in 0..(m - 1)
        PROVE  ((m * n) + d) % m = d
    BY <1>0
  <1> DEFINE q == k \div m
             c == k % m
  <1>1. k = (m * q) + c /\ q \in Nat /\ c \in 0..(m - 1)
    OBVIOUS
  <1> HIDE DEF q, c
  <1>2. CASE c + 1 < m
    <2>1. k + 1 = (m * q) + (c + 1) /\ c + 1 \in 0..(m - 1)
      BY <1>1, <1>2
    <2>2. ((m * q) + (c + 1)) % m = c + 1
      BY <2>1, <1>0, <1>1
    <2>3. (k + 1) % m = c + 1 /\ ~(c + 1 >= m)
      BY <2>1, <2>2, <1>1, <1>2
    <2> QED
      BY <2>3 DEF c
  <1>3. CASE c + 1 >= m
    <2>1. k + 1 = (m * (q + 1)) + 0 /\ 0 \in 0..(m - 1) /\ q + 1 \in Nat
      BY <1>1, <1>3
    <2> QED
      BY <2>1, <1>0, <1>3 DEF c
  <1> QED
    BY <1>1, <1>2, <1>3

\* A failure recorded on an exact count leaves an exact count.
LEMMA FailureCounts ==
    ASSUME TypeOK, Exact, NEW r \in Requests, read[r].count = user.count,
           user' = FailedUser(r), streak' = streak + 1
    PROVE  Exact'
  <1> DEFINE M == MAX_FAILED_LOGINS
  <1>1. /\ M \in Nat \ {0} /\ streak \in Nat /\ LOCKOUT \in Nat \ {0}
        /\ read[r].at \in Nat /\ user \in User /\ user.count \in 0..(M - 1)
    BY LoginAssumption DEF TypeOK, User
  <1>2. (streak + 1) % M = IF user.count + 1 >= M THEN 0 ELSE user.count + 1
    BY <1>1, NextModulo DEF Exact
  <1>3. CASE user.count + 1 >= M
    <2>1. user'.count = 0 /\ user'.until = read[r].at + LOCKOUT
      BY <1>1, <1>3 DEF FailedUser, User
    <2> QED
      BY <1>1, <1>2, <1>3, <2>1 DEF Exact
  <1>4. CASE ~(user.count + 1 >= M)
    <2>1. user'.count = user.count + 1
      BY <1>1, <1>4 DEF FailedUser, User
    <2> QED
      BY <1>1, <1>2, <1>4, <2>1 DEF Exact
  <1> QED
    BY <1>3, <1>4

\* Who commits was not known to anybody before; all that ended before must have
\* been known to it if they came one by one.
LEMMA CommitEnds ==
    ASSUME TypeOK, Attempts, AfterEnded, FailuresInv, NEW r \in Requests, NEW o,
           o # "refused", Commit(r, o)
    PROVE  /\ OneByOne' => OneByOne /\ Ended \subseteq after[r]
           /\ \A q \in Requests : ~(Counting(q)' /\ Ended' \subseteq after'[q])
           /\ \A q \in Ended' : op'[q] # NoOp
  <1>1. /\ pc[r] = "written" /\ outcome[r] = o
        /\ UNCHANGED <<op, outcome, after>> /\ pc' = [pc EXCEPT ![r] = "done"]
    BY DEF Commit
  <1>2. Ended' = Ended \cup {r} /\ r \notin Ended
    BY <1>1 DEF Ended, TypeOK
  <1>3. \A q \in Requests : r \notin after[q]
    BY <1>1 DEF AfterEnded
  <1>4. OneByOne' => OneByOne /\ Ended \subseteq after[r]
    BY <1>1, <1>2, <1>3 DEF OneByOne, Ended
  <1>5. op[r] # NoOp
    <2>1. op[r] \in Op
      BY <1>1 DEF Attempts
    <2>2. op[r].kind # "none"
      BY <2>1 DEF Op
    <2>3. NoOp.kind = "none"
      BY DEF NoOp
    <2> QED
      BY <2>2, <2>3
  <1> QED
    BY <1>1, <1>2, <1>3, <1>4, <1>5 DEF FailuresInv

\* A step that ends no request but by refusal, and leaves the count, keeps them exact.
LEMMA QuietStep ==
    ASSUME TypeOK, FailuresInv, Ended' = Ended, streak' = streak,
           user'.count = user.count, user'.until = user.until,
           \A q \in Ended : after'[q] = after[q] /\ op'[q] = op[q],
           \A q \in Requests : Counting(q)' =>
               \/ Counting(q) /\ after'[q] = after[q] /\ read'[q].count = read[q].count
               \/ read'[q].count = user.count
    PROVE  FailuresInv'
  <1>1. OneByOne' => OneByOne
    BY DEF OneByOne
  <1>2. Exact => Exact'
    BY DEF Exact
  <1> QED
    BY <1>1, <1>2 DEF FailuresInv

LEMMA FailuresNext ==
    ASSUME LoginInv, AfterEnded, FailuresInv, [Next]_vars
    PROVE  FailuresInv'
  <1>0. TypeOK /\ Attempts
    BY DEF LoginInv
  <1>1. ASSUME NEW r \in Requests, RecordFailure(r) \/ ExhaustChallenge(r)
        PROVE  FailuresInv'
    <2>1. PICK o \in {"failed", "exhausted"} : Commit(r, o)
      BY <1>1 DEF RecordFailure, ExhaustChallenge
    <2>2. user' = FailedUser(r) /\ streak' = streak + 1
      BY <1>1 DEF RecordFailure, ExhaustChallenge
    <2>3. Counting(r)
      BY <2>1 DEF Commit, Counting
    <2>4. OneByOne' => Exact /\ read[r].count = user.count
      BY <1>0, <2>1, <2>3, CommitEnds DEF FailuresInv
    <2>5. OneByOne' => Exact'
      BY <1>0, <2>2, <2>4, FailureCounts
    <2> QED
      BY <1>0, <2>1, <2>5, CommitEnds DEF FailuresInv
  <1>2. ASSUME NEW r \in Requests, OpenSession(r) \/ ConfirmReset(r)
        PROVE  FailuresInv'
    <2>1. PICK o \in {"session", "reset"} : Commit(r, o)
      BY <1>2 DEF OpenSession, ConfirmReset
    <2>2. user'.count = 0 /\ streak' = 0
      BY <1>0, <1>2 DEF OpenSession, ConfirmReset, TypeOK, User
    <2>3. Exact'
      BY <2>2, LoginAssumption DEF Exact
    <2> QED
      BY <1>0, <2>1, <2>3, CommitEnds DEF FailuresInv
  <1>3. ASSUME NEW r \in Requests,
               \/ IssueChallenge(r) \/ WrongCode(r) \/ ResendCode(r)
               \/ CreateResetToken(r) \/ TouchSession(r) \/ DeleteSession(r)
        PROVE  FailuresInv'
    <2>1. PICK o \in {"challenge", "wrong", "resent", "link", "touch", "logout"} : Commit(r, o)
      BY <1>3 DEF IssueChallenge, WrongCode, ResendCode, CreateResetToken, TouchSession,
                  DeleteSession
    <2>2. UNCHANGED <<user, streak>>
      BY <1>3 DEF IssueChallenge, WrongCode, ResendCode, CreateResetToken, TouchSession,
                  DeleteSession
    <2>3. Exact => Exact'
      BY <2>2 DEF Exact
    <2> QED
      BY <1>0, <2>1, <2>3, CommitEnds DEF FailuresInv
  <1>4. ASSUME NEW r \in Requests, NEW o \in Op, Begin(r, o)
        PROVE  FailuresInv'
    <2>1. Ended' = Ended /\ r \notin Ended /\ UNCHANGED <<streak, user>>
      BY <1>0, <1>4 DEF Begin, Ended, TypeOK, db
    <2>2. \A q \in Ended : after'[q] = after[q] /\ op'[q] = op[q]
      BY <1>0, <1>4, <2>1, OwnStep DEF Ended
    <2>3. ASSUME NEW q \in Requests, Counting(q)'
          PROVE  Counting(q) /\ after'[q] = after[q] /\ read'[q].count = read[q].count
      <3>1. q # r
        BY <1>0, <1>4, <2>3 DEF Counting, Begin, TypeOK
      <3>2. read'[q] = read[q]
        BY <1>0, <1>4, <3>1 DEF Begin, TypeOK
      <3> QED
        BY <1>0, <1>4, <2>3, <3>1, <3>2, OwnStep DEF Counting
    <2> QED
      BY <1>0, <2>1, <2>2, <2>3, QuietStep
  <1>5. ASSUME NEW r \in Requests, ReadUser(r)
        PROVE  FailuresInv'
    <2>1. Ended' = Ended /\ UNCHANGED <<streak, user, after, op>>
      BY <1>0, <1>5 DEF ReadUser, Ended, TypeOK, db
    <2>2. ASSUME NEW q \in Requests, Counting(q)'
          PROVE  \/ Counting(q) /\ after'[q] = after[q] /\ read'[q].count = read[q].count
                 \/ read'[q].count = user.count
      <3>1. CASE q = r
        <4>1. outcome'[r] = Decide(r) /\ outcome'[r] \in {"failed", "exhausted"}
          BY <1>0, <1>5, <2>2, <3>1 DEF ReadUser, Counting, TypeOK
        <4> HIDE DEF Decide
        <4>2. read'[r].count = user.count
          BY <1>0, <1>5, <4>1 DEF ReadUser, TypeOK
        <4> QED
          BY <3>1, <4>2
      <3>2. CASE q # r
        <4>1. read'[q] = read[q]
          BY <1>0, <1>5, <3>2 DEF ReadUser, TypeOK
        <4> QED
          BY <1>0, <1>5, <2>2, <3>2, <4>1, OwnStep DEF Counting
      <3> QED
        BY <3>1, <3>2
    <2> QED
      BY <1>0, <2>1, <2>2, QuietStep
  <1>6. ASSUME NEW r \in Requests, StartUpdate(r) \/ Write(r)
        PROVE  FailuresInv'
    <2>1. /\ Ended' = Ended /\ UNCHANGED <<streak, user, after, op, read, outcome>>
          /\ \A q \in Requests : Counting(q)' => Counting(q)
      BY <1>0, <1>6 DEF StartUpdate, Write, Ended, Counting, TypeOK, db
    <2> QED
      BY <1>0, <2>1, QuietStep
  <1>7. ASSUME NEW r \in Requests, pc[r] # "done", Refuse(r)
        PROVE  FailuresInv'
    <2>1. Ended' = Ended /\ r \notin Ended /\ UNCHANGED <<streak, user>>
      BY <1>0, <1>7 DEF Refuse, Ended, TypeOK, db
    <2>2. \A q \in Ended : after'[q] = after[q] /\ op'[q] = op[q]
      BY <1>0, <1>7, <2>1, OwnStep DEF Ended
    <2>3. ASSUME NEW q \in Requests, Counting(q)'
          PROVE  Counting(q) /\ after'[q] = after[q] /\ read'[q].count = read[q].count
      <3>1. q # r
        BY <1>0, <1>7, <2>3 DEF Counting, Refuse, TypeOK
      <3>2. read'[q] = read[q]
        BY <1>0, <1>7, <3>1 DEF Refuse, TypeOK
      <3> QED
        BY <1>0, <1>7, <2>3, <3>1, <3>2, OwnStep DEF Counting
    <2> QED
      BY <1>0, <2>1, <2>2, <2>3, QuietStep
  <1>8. ASSUME Suspend \/ Tick \/ UNCHANGED vars
        PROVE  FailuresInv'
    <2>1. UNCHANGED <<pc, op, read, outcome, after, streak>>
      BY <1>8 DEF Suspend, Tick, vars
    <2>2. user'.count = user.count /\ user'.until = user.until
      BY <1>0, <1>8 DEF Suspend, Tick, vars, db, TypeOK, User
    <2>3. Ended' = Ended /\ \A q : Counting(q)' => Counting(q)
      BY <2>1 DEF Ended, Counting
    <2> QED
      BY <1>0, <2>1, <2>2, <2>3, QuietStep
  <1>9. ASSUME NEW r \in Requests,
               UserRefused(r) \/ Rollback(r) \/ \E o \in Op : NotAdmitted(r, o)
        PROVE  pc[r] # "done" /\ Refuse(r)
    BY <1>9 DEF UserRefused, Rollback, NotAdmitted
  <1> QED
    BY <1>1, <1>2, <1>3, <1>4, <1>5, <1>6, <1>7, <1>8, <1>9 DEF Next

\* login.py _record_failure: as long as no two requests on the account overlap,
\* failed_login_count is the number of failures in a row, modulo the limit, and
\* reaching the limit locks the account.
THEOREM FailuresAreCounted == Spec => []SerialFailuresExact
  <1>1. Init => FailuresInv
    <2> SUFFICES ASSUME Init PROVE FailuresInv
      OBVIOUS
    <2>1. Ended = {} /\ \A r \in Requests : pc[r] = "idle"
      BY DEF Init, Ended
    <2>2. user.count = 0 /\ streak = 0
      BY DEF Init
    <2>3. Exact
      BY <2>2, LoginAssumption DEF Exact
    <2> QED
      BY <2>1, <2>3 DEF FailuresInv, Counting
  <1>2. LoginInv /\ CodesInv /\ FailuresInv /\ [Next]_vars => FailuresInv'
    BY FailuresNext DEF CodesInv
  <1>3. FailuresInv => SerialFailuresExact
    <2> SUFFICES ASSUME FailuresInv, Serial PROVE Exact
      BY DEF SerialFailuresExact, Exact
    <2>1. Ended \subseteq Effective
      BY DEF FailuresInv, Ended, Effective
    <2>2. OneByOne
      BY <2>1 DEF OneByOne, Serial, Overlap
    <2> QED
      BY <2>2 DEF FailuresInv
  <1> QED
    BY <1>1, <1>2, <1>3, LoginInvariant, CodesInvariant, PTL DEF Spec
=============================================================================
