------------------------------ MODULE IdentityStore ------------------------------
(* The identity service of the local build (services/identity_service.py over    *)
(* repositories/identity_repository.py, wired in api/identity_deps.py): accounts, *)
(* clients, sessions, reset tokens and second-factor challenges.                  *)
(*                                                                                *)
(* A store is an append-only file.  A handler reads whole files, decides, and     *)
(* appends records one at a time, with no lock: endpoints are plain functions     *)
(* served by a thread pool, so handlers interleave between those accesses, and an *)
(* exception or a stop of the process leaves what was already appended.  A        *)
(* request is therefore its decision (one action per handler: the reads, the      *)
(* checks and the records it will write) followed by its appends, one action      *)
(* each.  A refused call writes nothing but an audit event and is not a step.     *)
(*                                                                                *)
(* Abstractions.  A password or a second-factor secret is the number of the       *)
(* request that set it (each is hashed with a fresh salt, or freshly drawn); the  *)
(* caller is assumed to hold the right one, since a wrong one is a refusal.       *)
(* Names hold no "@" and addresses do, so the two never match each other.  Times  *)
(* are left out of records; expiry is an event.  Sessions, tokens and challenges  *)
(* have one later version each (ended, used, consumed), written by whoever finds  *)
(* the first: a flag stands for it.  Audit events are not modelled.               *)
EXTENDS Integers, Sequences, FiniteSets

CONSTANTS
  Names, Emails, ClientCodes,
  RecoveryCodes,     \* how many recovery codes confirming the second factor draws (8)
  MaxRequests,       \* bound: requests served
  MaxExpired         \* bound: sessions, tokens and challenges that run out

ASSUME IdentityBounds ==
  MaxRequests \in Nat /\ MaxExpired \in Nat /\ RecoveryCodes \in Nat
\* validate_username admits no "@", and validate_email demands one.
ASSUME NamesAreNoAddresses == Names \cap Emails = {}

VARIABLES
  accounts,    \* every version of every Sustentra user and client user, oldest first
  clients,     \* every version of every client
  sessions, resets, challenges,
  expired,     \* what ran out: <<store, position>>
  reqs         \* the requests served, in the order in which they decided
stores == <<accounts, clients, sessions, resets, challenges, expired>>
vars == <<accounts, clients, sessions, resets, challenges, expired, reqs>>

RequestIds == 1..MaxRequests
Account == [id : RequestIds, kind : {"sustentra_user", "client_user"},
            name : Names, email : Emails, password : RequestIds,
            status : {"active", "disabled", "deleted"},
            secret : RequestIds \cup {0}, mfa : BOOLEAN,
            codes : SUBSET (RequestIds \X (1..RecoveryCodes)),
            client : RequestIds \cup {0}, bootstrap : BOOLEAN, by : RequestIds]
Client == [id : RequestIds, code : ClientCodes,
           status : {"active", "inactive", "deleted"}, by : RequestIds]
Session == [account : RequestIds, by : RequestIds, ended : BOOLEAN]
Token == [account : RequestIds, spent : BOOLEAN]

(* What a request still has to do. *)
Work == [do : {"account"}, rec : Account] \cup [do : {"client"}, rec : Client]
        \cup [do : {"session", "reset", "challenge", "revoke", "cascade"}, id : RequestIds]
        \cup [do : {"use", "consume", "end"}, id : Nat]
        \cup [do : {"revoke_each"}, ids : SUBSET Nat]
        \cup [do : {"delete_each"}, recs : SUBSET Account]
Operations ==
  {"create_sustentra_user", "login", "complete_mfa_login", "logout",
   "request_password_reset", "confirm_password_reset", "setup_mfa", "confirm_mfa",
   "disable_mfa", "create_client", "update_client", "delete_client",
   "create_client_user", "update_client_user", "delete_client_user"}
Request == [op : Operations, on : Nat, todo : Seq(Work), cut : SUBSET Nat,
            met : SUBSET Nat, dead : BOOLEAN]
--------------------------------------------------------------------------------
(* Reading an append-only store. *)
Newest(is) == CHOOSE i \in is : \A j \in is : j <= i
Versions(log, id) == {i \in DOMAIN log : log[i].id = id}
Latest(log, id) == log[Newest(Versions(log, id))]
Present(log, id) == Versions(log, id) # {} /\ Latest(log, id).status # "deleted"
ListActive(log) ==
  {rec \in {Latest(log, log[i].id) : i \in DOMAIN log} : rec.status # "deleted"}

(* The newest VERSION that matches, unless it is a deletion: none or one record.  *)
(* It need not be the newest version of its record.                               *)
FindLatest(log, matching) ==
  IF matching = {} THEN {}
  ELSE {rec \in {log[Newest(matching)]} : rec.status # "deleted"}

FindLogin(kind, key) ==
  FindLatest(accounts, {i \in DOMAIN accounts :
    accounts[i].kind = kind /\ key \in {accounts[i].name, accounts[i].email}})
FindLoginRecord(key) ==
  IF FindLogin("sustentra_user", key) # {} THEN FindLogin("sustentra_user", key)
  ELSE FindLogin("client_user", key)

(* The account that a name, or else an address, finds is refused when neither of   *)
(* its two ids is the one to exclude.  One of the two is always missing, and so is *)
(* the id that a creation excludes: 0 stands for it.                               *)
RequireUniqueLogin(name, email, exclude) ==
  LET existing == IF FindLoginRecord(name) # {} THEN FindLoginRecord(name)
                  ELSE FindLoginRecord(email)
  IN  \A rec \in existing : exclude \in {rec.id, 0}

(* Variant: a client that is not active does not hold its code. *)
FindActiveCode(code, except) ==
  {rec \in FindLatest(clients, {i \in DOMAIN clients :
     clients[i].code = code /\ clients[i].id \notin except}) : rec.status = "active"}

FindCode(code, except) ==
  FindLatest(clients, {i \in DOMAIN clients :
    clients[i].code = code /\ clients[i].id \notin except})

(* Variant: the first user counts only once somebody has signed in. *)
BootstrapUntilFirstLogin ==
  {i \in DOMAIN accounts :
     accounts[i].kind = "sustentra_user" /\ reqs[accounts[i].by].op = "login"} = {}

BootstrapRequired == {i \in DOMAIN accounts : accounts[i].kind = "sustentra_user"} = {}

(* resolve_session: the account that may act with a session. *)
Resolves(s) ==
  /\ ~sessions[s].ended /\ <<"session", s>> \notin expired
  /\ Present(accounts, sessions[s].account)
  /\ Latest(accounts, sessions[s].account).status = "active"
MayAct(a) == \E s \in DOMAIN sessions : sessions[s].account = a /\ Resolves(s)
SustentraActor == \E s \in DOMAIN sessions :
  Resolves(s) /\ Latest(accounts, sessions[s].account).kind = "sustentra_user"
--------------------------------------------------------------------------------
(* Requests (Call bounds them).  "met" remembers which other requests were under way with this one.  *)
Running(r) == reqs[r].todo # <<>> /\ ~reqs[r].dead
Finished(r) == reqs[r].todo = <<>> /\ ~reqs[r].dead
Me == Len(reqs) + 1

Begin(op, on, todo) ==
  /\ reqs' = Append(
       [r \in DOMAIN reqs |->
          IF Running(r) THEN [reqs[r] EXCEPT !.met = @ \cup {Me}] ELSE reqs[r]],
       [op |-> op, on |-> on, todo |-> todo, cut |-> {},
        met |-> {r \in DOMAIN reqs : Running(r)}, dead |-> FALSE])
  /\ UNCHANGED stores

SaveActor(rec) == [do |-> "account", rec |-> [rec EXCEPT !.by = Me]]
SaveClientRecord(rec) == [do |-> "client", rec |-> [rec EXCEPT !.by = Me]]
Do(what, id) == [do |-> what, id |-> id]

NewAccount(kind, name, email, client) ==
  [id |-> Me, kind |-> kind, name |-> name, email |-> email, password |-> Me,
   status |-> "active", secret |-> 0, mfa |-> FALSE, codes |-> {}, client |-> client,
   bootstrap |-> kind = "sustentra_user" /\ BootstrapRequired, by |-> Me]

(* The first Sustentra user is created by nobody and becomes admin. *)
CreateSustentraUser(name, email) ==
  /\ BootstrapRequired \/ SustentraActor
  /\ RequireUniqueLogin(name, email, 0)
  /\ Begin("create_sustentra_user", Me,
           <<SaveActor(NewAccount("sustentra_user", name, email, 0))>>)

(* Variant: the account is rebuilt from its required fields. *)
IssueSessionRebuilt(rec) ==
  <<Do("session", rec.id), SaveActor([rec EXCEPT !.secret = 0, !.mfa = FALSE, !.codes = {}])>>

(* A session is saved first, then the account as the login READ it, with a new    *)
(* last_login_at.                                                                 *)
IssueSession(rec) == <<Do("session", rec.id), SaveActor(rec)>>

Login(key) ==
  \E rec \in FindLoginRecord(key) :
    /\ rec.status = "active"
    /\ Begin("login", rec.id,
             IF rec.mfa THEN <<Do("challenge", rec.id)>> ELSE IssueSession(rec))

(* Variant: the session is saved before the challenge is consumed. *)
SessionBeforeConsume(c) ==
  LET rec == Latest(accounts, challenges[c].account)
  IN  /\ ~challenges[c].spent /\ <<"challenge", c>> \notin expired
      /\ Present(accounts, challenges[c].account) /\ rec.mfa
      /\ Begin("complete_mfa_login", c, IssueSession(rec) \o <<Do("consume", c)>>)

(* With the current code of the secret, or with a recovery code, which is taken   *)
(* off the account first.                                                         *)
CompleteMfaLogin(c) ==
  LET a == challenges[c].account
      rec == Latest(accounts, a)
  IN  /\ ~challenges[c].spent /\ <<"challenge", c>> \notin expired
      /\ Present(accounts, a) /\ rec.mfa
      /\ \/ Begin("complete_mfa_login", c, <<Do("consume", c)>> \o IssueSession(rec))
         \/ \E code \in rec.codes :
              LET left == [rec EXCEPT !.codes = @ \ {code}]
              IN  Begin("complete_mfa_login", c,
                        <<SaveActor(left), Do("consume", c)>> \o IssueSession(left))

Logout(s) == ~sessions[s].ended /\ Begin("logout", s, <<Do("end", s)>>)

RequestPasswordReset(email) ==
  \E rec \in FindLoginRecord(email) :
    rec.status = "active" /\ Begin("request_password_reset", rec.id, <<Do("reset", rec.id)>>)

(* Variant: the token is never marked used. *)
ConfirmKeepsToken(t) ==
  LET a == resets[t].account
  IN  /\ ~resets[t].spent /\ <<"reset", t>> \notin expired
      /\ Present(accounts, a)
      /\ Begin("confirm_password_reset", t,
               <<SaveActor([Latest(accounts, a) EXCEPT !.password = Me]), Do("revoke", a)>>)

ConfirmPasswordReset(t) ==
  LET a == resets[t].account
  IN  /\ ~resets[t].spent /\ <<"reset", t>> \notin expired
      /\ Present(accounts, a)
      /\ Begin("confirm_password_reset", t,
               <<SaveActor([Latest(accounts, a) EXCEPT !.password = Me]),
                 Do("use", t), Do("revoke", a)>>)

SetupMfa(a) ==
  /\ MayAct(a) /\ ~Latest(accounts, a).mfa
  /\ Begin("setup_mfa", a, <<SaveActor([Latest(accounts, a) EXCEPT !.secret = Me])>>)

ConfirmMfa(a) ==
  /\ MayAct(a) /\ Latest(accounts, a).secret # 0
  /\ Begin("confirm_mfa", a, <<SaveActor([Latest(accounts, a) EXCEPT
             !.mfa = TRUE, !.codes = {Me} \X (1..RecoveryCodes)])>>)

DisableMfa(a) ==
  /\ MayAct(a)
  /\ Begin("disable_mfa", a, <<SaveActor([Latest(accounts, a) EXCEPT
             !.mfa = FALSE, !.secret = 0, !.codes = {}])>>)

CreateClient(code) ==
  /\ SustentraActor /\ FindCode(code, {}) = {}
  /\ Begin("create_client", Me, <<SaveClientRecord(
             [id |-> Me, code |-> code, status |-> "active", by |-> Me])>>)

(* A code that is not given is the client's own, and is then not looked up.       *)
UpdateClient(k, code, status) ==
  /\ SustentraActor /\ Present(clients, k)
  /\ code = Latest(clients, k).code \/ FindCode(code, {k}) = {}
  /\ Begin("update_client", k, <<SaveClientRecord(
             [Latest(clients, k) EXCEPT !.code = code, !.status = status])>>)

DeleteClient(k) ==
  /\ SustentraActor /\ Present(clients, k)
  /\ Begin("delete_client", k,
           <<SaveClientRecord([Latest(clients, k) EXCEPT !.status = "deleted"]),
             Do("cascade", k)>>)

CreateClientUser(k, name, email) ==
  /\ SustentraActor /\ Present(clients, k) /\ Latest(clients, k).status # "inactive"
  /\ RequireUniqueLogin(name, email, 0)
  /\ Begin("create_client_user", Me, <<SaveActor(NewAccount("client_user", name, email, k))>>)

IsClientUser(a) == Present(accounts, a) /\ Latest(accounts, a).kind = "client_user"

(* Sessions end before the change is saved.  An address not given is the old one. *)
UpdateClientUser(a, email, status, newPassword) ==
  LET rec == Latest(accounts, a)
      cut == <<Do("revoke", a)>>
  IN  /\ SustentraActor /\ IsClientUser(a)
      /\ email = rec.email \/ RequireUniqueLogin(rec.name, email, a)
      /\ Begin("update_client_user", a,
               (IF status = "disabled" THEN cut ELSE <<>>)
               \o (IF newPassword THEN cut ELSE <<>>)
               \o <<SaveActor([rec EXCEPT
                      !.email = email,
                      !.status = IF status = "not_given" THEN @ ELSE status,
                      !.password = IF newPassword THEN Me ELSE @])>>)

DeleteClientUser(a) ==
  /\ SustentraActor /\ IsClientUser(a)
  /\ Begin("delete_client_user", a,
           <<SaveActor([Latest(accounts, a) EXCEPT !.status = "deleted"]), Do("revoke", a)>>)
--------------------------------------------------------------------------------
(* The appends of a request, in the order of its list. *)
Due(r, what) == Running(r) /\ Head(reqs[r].todo).do = what
Item(r) == Head(reqs[r].todo)
Proceed(r, todo) == reqs' = [reqs EXCEPT ![r].todo = todo]
Rest(r) == Tail(reqs[r].todo)

WriteAccount(r) ==
  /\ Due(r, "account") /\ accounts' = Append(accounts, Item(r).rec) /\ Proceed(r, Rest(r))
  /\ UNCHANGED <<clients, sessions, resets, challenges, expired>>
WriteClient(r) ==
  /\ Due(r, "client") /\ clients' = Append(clients, Item(r).rec) /\ Proceed(r, Rest(r))
  /\ UNCHANGED <<accounts, sessions, resets, challenges, expired>>
WriteSession(r) ==
  /\ Due(r, "session") /\ Proceed(r, Rest(r))
  /\ sessions' = Append(sessions, [account |-> Item(r).id, by |-> r, ended |-> FALSE])
  /\ UNCHANGED <<accounts, clients, resets, challenges, expired>>
WriteReset(r) ==
  /\ Due(r, "reset") /\ Proceed(r, Rest(r))
  /\ resets' = Append(resets, [account |-> Item(r).id, spent |-> FALSE])
  /\ UNCHANGED <<accounts, clients, sessions, challenges, expired>>
WriteChallenge(r) ==
  /\ Due(r, "challenge") /\ Proceed(r, Rest(r))
  /\ challenges' = Append(challenges, [account |-> Item(r).id, spent |-> FALSE])
  /\ UNCHANGED <<accounts, clients, sessions, resets, expired>>
UseReset(r) ==
  /\ Due(r, "use") /\ resets' = [resets EXCEPT ![Item(r).id].spent = TRUE]
  /\ Proceed(r, Rest(r))
  /\ UNCHANGED <<accounts, clients, sessions, challenges, expired>>
ConsumeChallenge(r) ==
  /\ Due(r, "consume") /\ challenges' = [challenges EXCEPT ![Item(r).id].spent = TRUE]
  /\ Proceed(r, Rest(r))
  /\ UNCHANGED <<accounts, clients, sessions, resets, expired>>
EndSession(r) ==
  /\ Due(r, "end") /\ sessions' = [sessions EXCEPT ![Item(r).id].ended = TRUE]
  /\ Proceed(r, Rest(r))
  /\ UNCHANGED <<accounts, clients, resets, challenges, expired>>

(* Variant: only the newest session is ended. *)
RevokeNewestSession(r) ==
  /\ Due(r, "revoke")
  /\ LET ids == {s \in DOMAIN sessions : sessions[s].account = Item(r).id}
     IN  reqs' = [reqs EXCEPT
           ![r].cut = @ \cup {Item(r).id},
           ![r].todo = IF ids = {} THEN Rest(r)
                       ELSE <<Do("end", Newest(ids))>> \o Rest(r)]
  /\ UNCHANGED stores

(* The account's sessions are listed once, then read again and ended one by one,  *)
(* the newest first.                                                              *)
RevokeActorSessions(r) ==
  /\ Due(r, "revoke")
  /\ LET ids == {s \in DOMAIN sessions : sessions[s].account = Item(r).id}
     IN  reqs' = [reqs EXCEPT
           ![r].cut = @ \cup {Item(r).id},
           ![r].todo = IF ids = {} THEN Rest(r)
                       ELSE <<[do |-> "revoke_each", ids |-> ids]>> \o Rest(r)]
  /\ UNCHANGED stores
RevokeOne(r) ==
  /\ Due(r, "revoke_each")
  /\ LET s == Newest(Item(r).ids)
         left == Item(r).ids \ {s}
     IN  /\ sessions' = [sessions EXCEPT ![s].ended = TRUE]
         /\ Proceed(r, IF left = {} THEN Rest(r)
                       ELSE <<[do |-> "revoke_each", ids |-> left]>> \o Rest(r))
  /\ UNCHANGED <<accounts, clients, resets, challenges, expired>>

(* Variant: users that are disabled are passed over. *)
CascadeActiveOnly(r) ==
  /\ Due(r, "cascade")
  /\ LET users == {rec \in ListActive(accounts) :
                     rec.client = Item(r).id /\ rec.status = "active"}
     IN  Proceed(r, IF users = {} THEN Rest(r)
                    ELSE <<[do |-> "delete_each", recs |-> users]>> \o Rest(r))
  /\ UNCHANGED stores

(* The client's users are listed once, as they are now; each is then deleted and  *)
(* its sessions ended.                                                            *)
Cascade(r) ==
  /\ Due(r, "cascade")
  /\ LET users == {rec \in ListActive(accounts) :
                     rec.kind = "client_user" /\ rec.client = Item(r).id}
     IN  Proceed(r, IF users = {} THEN Rest(r)
                    ELSE <<[do |-> "delete_each", recs |-> users]>> \o Rest(r))
  /\ UNCHANGED stores
DeleteOne(r) ==
  /\ Due(r, "delete_each")
  /\ \E rec \in Item(r).recs :
       LET left == Item(r).recs \ {rec}
       IN  /\ accounts' = Append(accounts, [rec EXCEPT !.status = "deleted", !.by = r])
           /\ Proceed(r, <<Do("revoke", rec.id)>>
                         \o (IF left = {} THEN Rest(r)
                             ELSE <<[do |-> "delete_each", recs |-> left]>> \o Rest(r)))
  /\ UNCHANGED <<clients, sessions, resets, challenges, expired>>

(* An append fails, or the process stops: the rest of the request never happens.  *)
Stop(r) ==
  /\ Running(r) /\ reqs' = [reqs EXCEPT ![r].dead = TRUE] /\ UNCHANGED stores

Expire(store, i) ==
  /\ Cardinality(expired) < MaxExpired /\ <<store, i>> \notin expired
  /\ expired' = expired \cup {<<store, i>>}
  /\ UNCHANGED <<accounts, clients, sessions, resets, challenges, reqs>>
--------------------------------------------------------------------------------
Init ==
  /\ accounts = <<>> /\ clients = <<>> /\ sessions = <<>>
  /\ resets = <<>> /\ challenges = <<>> /\ expired = {} /\ reqs = <<>>

Call ==
  /\ Len(reqs) < MaxRequests
  /\ \/ \E n \in Names, e \in Emails : CreateSustentraUser(n, e)
     \/ \E key \in Names \cup Emails : Login(key)
     \/ \E c \in DOMAIN challenges : CompleteMfaLogin(c)
     \/ \E s \in DOMAIN sessions : Logout(s)
     \/ \E e \in Emails : RequestPasswordReset(e)
     \/ \E t \in DOMAIN resets : ConfirmPasswordReset(t)
     \/ \E a \in RequestIds : SetupMfa(a)
     \/ \E a \in RequestIds : ConfirmMfa(a)
     \/ \E a \in RequestIds : DisableMfa(a)
     \/ \E c \in ClientCodes : CreateClient(c)
     \/ \E k \in RequestIds, c \in ClientCodes, st \in {"active", "inactive"} :
          UpdateClient(k, c, st)
     \/ \E k \in RequestIds : DeleteClient(k)
     \/ \E k \in RequestIds, n \in Names, e \in Emails : CreateClientUser(k, n, e)
     \/ \E a \in RequestIds, e \in Emails, st \in {"not_given", "active", "disabled"},
           pw \in BOOLEAN : UpdateClientUser(a, e, st, pw)
     \/ \E a \in RequestIds : DeleteClientUser(a)

Progress(r) ==
  \/ WriteAccount(r) \/ WriteClient(r) \/ WriteSession(r) \/ WriteReset(r)
  \/ WriteChallenge(r) \/ UseReset(r) \/ ConsumeChallenge(r) \/ EndSession(r)
  \/ RevokeActorSessions(r) \/ RevokeOne(r) \/ Cascade(r) \/ DeleteOne(r)

TimePasses ==
  \/ \E s \in DOMAIN sessions : Expire("session", s)
  \/ \E t \in DOMAIN resets : Expire("reset", t)
  \/ \E c \in DOMAIN challenges : Expire("challenge", c)

Next == Call \/ (\E r \in DOMAIN reqs : Progress(r) \/ Stop(r)) \/ TimePasses
Spec == Init /\ [][Next]_vars
--------------------------------------------------------------------------------
TypeOK ==
  /\ accounts \in Seq(Account) /\ clients \in Seq(Client) /\ sessions \in Seq(Session)
  /\ resets \in Seq(Token) /\ challenges \in Seq(Token)
  /\ reqs \in Seq(Request) /\ Len(reqs) <= MaxRequests

(* Two requests were under way together. *)
Overlap(q, r) == q \in reqs[r].met \/ r \in reqs[q].met

(* An account that has had two addresses can be found by the old one, through a   *)
(* superseded version.                                                            *)
Renamed(a) ==
  \E i, j \in Versions(accounts, a) : accounts[i].email # accounts[j].email

(* The fields a handler is there to change. *)
Owned(op) ==
  CASE op = "complete_mfa_login" -> {"codes"}
    [] op = "confirm_password_reset" -> {"password"}
    [] op = "setup_mfa" -> {"secret"}
    [] op = "confirm_mfa" -> {"mfa", "codes"}
    [] op = "disable_mfa" -> {"mfa", "secret", "codes"}
    [] op = "update_client_user" -> {"email", "status", "password"}
    [] op \in {"delete_client", "delete_client_user"} -> {"status"}
    [] OTHER -> {}

(* No lost update.  Every handler rewrites the whole account record.  Against the *)
(* version before it, a version differs only in what its request is there to      *)
(* change, unless that request overlapped another or a login found the account    *)
(* under a former address.                                                        *)
SavesChangeOnlyTheirOwn ==
  \A i \in DOMAIN accounts :
    LET before == {j \in Versions(accounts, accounts[i].id) : j < i}
        r == accounts[i].by
    IN  \/ before = {} \/ reqs[r].met # {}
        \/ reqs[r].op = "login" /\ Renamed(accounts[i].id)
        \/ \A f \in {"name", "email", "password", "status", "secret", "mfa", "codes",
                     "client", "kind"} \ Owned(reqs[r].op) :
             accounts[i][f] = accounts[Newest(before)][f]

(* One confirmation per reset token.  The account is saved before the token is    *)
(* marked used: a second confirmation is accepted only if it overlapped the first *)
(* or the first died on the way.                                                  *)
ResetConfirmedOnce ==
  \A q, r \in DOMAIN reqs :
    /\ q < r /\ reqs[q].op = "confirm_password_reset"
    /\ reqs[r].op = "confirm_password_reset" /\ reqs[q].on = reqs[r].on
    => Overlap(q, r) \/ reqs[q].dead

(* One session per challenge, dead or alive: the challenge is consumed before the *)
(* session is saved, so only overlapping completions share one.                   *)
ChallengeAdmitsOnce ==
  \A s, t \in DOMAIN sessions :
    LET q == sessions[s].by
        r == sessions[t].by
    IN  /\ s # t /\ reqs[q].op = "complete_mfa_login" /\ reqs[r].op = "complete_mfa_login"
        /\ reqs[q].on = reqs[r].on
        => Overlap(q, r)

(* Ending every session.  Once a reset, a deletion or a disabling change has      *)
(* finished, no session saved by an earlier request that it did not overlap is    *)
(* left open.                                                                     *)
FinishedCutLeavesNoOldSession ==
  \A r \in DOMAIN reqs : Finished(r) =>
    \A s \in DOMAIN sessions :
      /\ sessions[s].account \in reqs[r].cut /\ sessions[s].by < r
      /\ ~sessions[s].ended
      => sessions[s].by \in reqs[r].met

(* Client codes identify.  Two present clients share a code only if some version  *)
(* with that code was written by a request that overlapped another.  It need not  *)
(* be a version of one of the two: a client that came to share the code beside    *)
(* them hides them once it is deleted.                                            *)
ClientCodesIdentify ==
  \A a, b \in ListActive(clients) :
    a.id # b.id /\ a.code = b.code
    => \E i \in DOMAIN clients :
         clients[i].code = a.code /\ reqs[clients[i].by].met # {}

(* One first administrator, unless creations overlapped. *)
OneBootstrap ==
  \A i, j \in DOMAIN accounts :
    /\ accounts[i].bootstrap /\ accounts[j].bootstrap /\ accounts[i].id # accounts[j].id
    => Overlap(accounts[i].id, accounts[j].id)

(* Deleting a client deletes its users.  A user that is still there is explained: *)
(* the deletion that left the client deleted did not run to its end, or a request *)
(* that overlapped it wrote the user, or the user was found under a former        *)
(* address.  Earlier deletions of the client explain nothing: a change beside one *)
(* of them may have brought the client back.                                      *)
DeletedClientHasNoUsers ==
  \A a \in ListActive(accounts) :
    a.client # 0 /\ ~Present(clients, a.client) =>
      LET r == Latest(clients, a.client).by
      IN  \/ ~Finished(r) \/ Renamed(a.id)
          \/ \E i \in Versions(accounts, a.id) : accounts[i].by \in reqs[r].met
================================================================================
