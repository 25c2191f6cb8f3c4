----------------------------- MODULE MCIdentityStore -----------------------------
(* TLC instance of IdentityStore.  Besides the empty store, runs start from eight *)
(* stores that served calls leave behind, two of them with calls that overlapped, *)
(* so that the bound on requests is spent on what follows: all have an            *)
(* administrator with an open session.  Calls that only read fill each history up.*)
EXTENDS IdentityStore, TLC

CONSTANTS admin, user, adminMail, userMail, newMail, code1

Served(op, on) ==
  [op |-> op, on |-> on, todo |-> <<>>, cut |-> {}, met |-> {}, dead |-> FALSE]
Overlapped(op, on, met) == [Served(op, on) EXCEPT !.met = met]
Upto(n, calls) ==
  calls \o [i \in 1..(n - Len(calls)) |-> Served("status", 0)]
SetUp == <<Served("create_sustentra_user", 1), Served("login", 1),
           Served("create_client", 3), Served("create_client_user", 4)>>

Admin(by) ==
  [id |-> 1, kind |-> "sustentra_user", name |-> admin, email |-> adminMail,
   password |-> 1, status |-> "active", secret |-> 0, mfa |-> FALSE, codes |-> {},
   client |-> 0, bootstrap |-> TRUE, by |-> by]
ClientAs(status, by) == [id |-> 3, code |-> code1, status |-> status, by |-> by]
User(by, changes) ==
  changes @@
  [id |-> 4, kind |-> "client_user", name |-> user, email |-> userMail,
   password |-> 4, status |-> "active", secret |-> 0, mfa |-> FALSE, codes |-> {},
   client |-> 3, bootstrap |-> FALSE, by |-> by]
NoChange == <<>>
Opened(a, by) == [account |-> a, by |-> by, ended |-> FALSE]
Fresh(a) == [account |-> a, spent |-> FALSE]

(* A reset token is waiting. *)
Waiting ==
  /\ reqs = Upto(8, SetUp \o <<Served("request_password_reset", 4)>>)
  /\ accounts = <<Admin(1), Admin(2), User(4, NoChange)>>
  /\ sessions = <<Opened(1, 2)>> /\ challenges = <<>> /\ resets = <<Fresh(4)>>
(* The user's second factor is on and a challenge is waiting. *)
SecondFactor ==
  /\ reqs = SetUp \o <<Served("login", 4), Served("setup_mfa", 4),
                       Served("confirm_mfa", 4), Served("login", 4)>>
  /\ accounts = <<Admin(1), Admin(2), User(4, NoChange), User(5, NoChange),
                  User(6, [secret |-> 6]),
                  User(7, [secret |-> 6, mfa |-> TRUE,
                           codes |-> {7} \X (1..RecoveryCodes)])>>
  /\ sessions = <<Opened(1, 2), Opened(4, 5)>> /\ challenges = <<Fresh(4)>>
  /\ resets = <<>>
(* The user's address was changed. *)
Moved ==
  /\ reqs = Upto(8, SetUp \o <<Served("update_client_user", 4)>>)
  /\ accounts = <<Admin(1), Admin(2), User(4, NoChange),
                  User(5, [email |-> newMail])>>
  /\ sessions = <<Opened(1, 2)>> /\ challenges = <<>> /\ resets = <<>>
(* The user was deleted and its name given to another. *)
Replaced ==
  /\ reqs = Upto(8, SetUp \o <<Served("delete_client_user", 4),
                               Served("create_client_user", 6)>>)
  /\ accounts = <<Admin(1), Admin(2), User(4, NoChange),
                  User(5, [status |-> "deleted"]),
                  User(6, [id |-> 6, password |-> 6])>>
  /\ sessions = <<Opened(1, 2)>> /\ challenges = <<>> /\ resets = <<>>
(* Another user was created with the same name. *)
Namesakes ==
  /\ reqs = Upto(8, SetUp \o <<Served("create_client_user", 5)>>)
  /\ accounts = <<Admin(1), Admin(2), User(4, NoChange),
                  User(5, [id |-> 5, password |-> 5, email |-> newMail])>>
  /\ sessions = <<Opened(1, 2)>> /\ challenges = <<>> /\ resets = <<>>
(* The user's address was changed, it was deleted, and its name given to another; *)
(* a login by the former address brought it back.                                 *)
Returned ==
  /\ reqs = SetUp \o <<Served("update_client_user", 4), Served("delete_client_user", 4),
                       Served("create_client_user", 7), Served("login", 4)>>
  /\ accounts = <<Admin(1), Admin(2), User(4, NoChange),
                  User(5, [email |-> newMail]),
                  User(6, [email |-> newMail, status |-> "deleted"]),
                  User(7, [id |-> 7, password |-> 7, email |-> newMail]),
                  User(8, NoChange)>>
  /\ sessions = <<Opened(1, 2), Opened(4, 8)>> /\ challenges = <<>> /\ resets = <<>>
  /\ clients = <<ClientAs("active", 3)>>
(* Two clients were created together with one code, and one of them deleted; its  *)
(* deletion hid the other, and a third was given the code.                        *)
Twins ==
  /\ reqs = Upto(8, <<Served("create_sustentra_user", 1), Served("login", 1),
                      Overlapped("create_client", 3, {4}),
                      Overlapped("create_client", 4, {3}), Served("delete_client", 4),
                      Served("create_client", 6)>>)
  /\ accounts = <<Admin(1), Admin(2)>>
  /\ sessions = <<Opened(1, 2)>> /\ challenges = <<>> /\ resets = <<>>
  /\ clients = <<ClientAs("active", 3), [ClientAs("active", 4) EXCEPT !.id = 4],
                 [ClientAs("deleted", 5) EXCEPT !.id = 4],
                 [ClientAs("active", 6) EXCEPT !.id = 6]>>
(* The client was deleted beside a change, which brought it back without its user. *)
Reborn ==
  /\ reqs = Upto(8, SetUp \o <<Overlapped("update_client", 3, {6}),
                               Overlapped("delete_client", 3, {5})>>)
  /\ accounts = <<Admin(1), Admin(2), User(4, NoChange),
                  User(6, [status |-> "deleted"])>>
  /\ sessions = <<Opened(1, 2)>> /\ challenges = <<>> /\ resets = <<>>
  /\ clients = <<ClientAs("active", 3), ClientAs("deleted", 6), ClientAs("active", 5)>>
Empty ==
  /\ reqs = Upto(7, <<>>)
  /\ accounts = <<>> /\ sessions = <<>> /\ challenges = <<>> /\ resets = <<>>

MCInit ==
  /\ expired = {}
  /\ \/ Empty /\ clients = <<>>
     \/ /\ Waiting \/ SecondFactor \/ Moved \/ Replaced \/ Namesakes
        /\ clients = <<ClientAs("active", 3)>>
     \/ Returned \/ Twins \/ Reborn
MCSpec == MCInit /\ [][Next]_vars
================================================================================
