--------------------------- MODULE IdentityStoreProofs ---------------------------
(* For any names, any number of requests, and any interleaving, stop and expiry:   *)
(* the state is well typed; reset tokens and challenges are good for one request;  *)
(* a request that has cut an account off leaves no older session of it open, but   *)
(* for requests it met; and there is one first administrator, unless two first     *)
(* calls overlapped.                                                               *)
EXTENDS IdentityStore, SequenceTheorems, WellFoundedInduction, TLAPS

(* A file is a sequence of what it holds, and what is in it has its fields.        *)
IsLog(s) == s \in Seq({s[i] : i \in DOMAIN s})
IsRequest(x) == x = [op |-> x.op, on |-> x.on, todo |-> x.todo, cut |-> x.cut,
                     met |-> x.met, dead |-> x.dead]
IsToken(x) == x = [account |-> x.account, spent |-> x.spent]
IsSession(x) == x = [account |-> x.account, by |-> x.by, ended |-> x.ended]

Shape ==
  /\ IsLog(reqs) /\ \A r \in DOMAIN reqs : IsRequest(reqs[r])
  /\ IsLog(resets) /\ \A t \in DOMAIN resets : IsToken(resets[t])
  /\ IsLog(challenges) /\ \A c \in DOMAIN challenges : IsToken(challenges[c])
  /\ IsLog(sessions) /\ \A s \in DOMAIN sessions : IsSession(sessions[s])

--------------------------------------------------------------------------------
LEMMA LogAppend ==
  ASSUME NEW s, IsLog(s), NEW x
  PROVE  /\ IsLog(Append(s, x))
         /\ Len(s) + 1 \notin DOMAIN s
         /\ DOMAIN Append(s, x) = DOMAIN s \cup {Len(s) + 1}
         /\ \A i \in DOMAIN s : Append(s, x)[i] = s[i]
         /\ Append(s, x)[Len(s) + 1] = x
<1> DEFINE R == {s[i] : i \in DOMAIN s}
           S == R \cup {x}
<1>1. s \in Seq(S) /\ x \in S
  <2>1. R \subseteq S /\ s \in Seq(R)
    BY DEF IsLog
  <2> HIDE DEF R, S
  <2>2. s \in Seq(S)
    BY <2>1, SeqMonotonic
  <2> QED BY <2>2 DEF S
<1>2. /\ Append(s, x) \in Seq(S) /\ Len(Append(s, x)) = Len(s) + 1 /\ Len(s) \in Nat
      /\ \A i \in 1..Len(s) : Append(s, x)[i] = s[i]
      /\ Append(s, x)[Len(s) + 1] = x
  <2> HIDE DEF S
  <2> QED BY <1>1, AppendProperties, LenProperties
<1>3. DOMAIN s = 1..Len(s) /\ DOMAIN Append(s, x) = 1..Len(Append(s, x))
  <2> HIDE DEF S
  <2> QED BY <1>1, <1>2, LenProperties
<1>4. IsLog(Append(s, x))
  <2> DEFINE a == Append(s, x)
             A == {a[i] : i \in DOMAIN a}
  <2>1. \A i \in 1..Len(a) : a[i] \in A
    BY <1>3
  <2>2. Len(a) \in Nat /\ a = [i \in 1..Len(a) |-> a[i]]
    <3> HIDE DEF S
    <3> QED BY <1>2, <1>3, LenProperties
  <2> HIDE DEF a, A
  <2>3. a \in Seq(A)
    BY <2>1, <2>2, IsASeq
  <2> QED BY <2>3 DEF a, A, IsLog
<1> QED BY <1>2, <1>3, <1>4

LEMMA LogReplace ==
  ASSUME NEW s, IsLog(s), NEW t, DOMAIN t = DOMAIN s, t = [i \in DOMAIN s |-> t[i]]
  PROVE  IsLog(t)
<1> DEFINE A == {t[i] : i \in DOMAIN t}
<1>1. Len(s) \in Nat /\ DOMAIN s = 1..Len(s)
  BY LenProperties DEF IsLog
<1>2. \A i \in 1..Len(s) : t[i] \in A
  BY <1>1
<1>3. t = [i \in 1..Len(s) |-> t[i]]
  BY <1>1
<1> HIDE DEF A
<1>4. t \in Seq(A)
  BY <1>1, <1>2, <1>3, IsASeq
<1> QED BY <1>4 DEF A, IsLog

(* A request changes what it has to do next: nothing else of any request changes.  *)
Changed(r, todo, cut, dead) ==
  reqs' = [reqs EXCEPT ![r] = [@ EXCEPT !.todo = todo, !.cut = cut, !.dead = dead]]

LEMMA TodoChanges ==
  ASSUME Shape, NEW r \in DOMAIN reqs, NEW todo, NEW cut, NEW dead,
         Changed(r, todo, cut, dead)
  PROVE  /\ DOMAIN reqs' = DOMAIN reqs
         /\ IsLog(reqs')
         /\ \A q \in DOMAIN reqs : IsRequest(reqs'[q])
         /\ \A q \in DOMAIN reqs : reqs'[q].op = reqs[q].op /\ reqs'[q].on = reqs[q].on
                                   /\ reqs'[q].met = reqs[q].met
         /\ reqs'[r].todo = todo /\ reqs'[r].cut = cut /\ reqs'[r].dead = dead
         /\ \A q \in DOMAIN reqs \ {r} : reqs'[q] = reqs[q]
<1>1. /\ DOMAIN reqs' = DOMAIN reqs
      /\ \A q \in DOMAIN reqs \ {r} : reqs'[q] = reqs[q]
      /\ reqs'[r] = [reqs[r] EXCEPT !.todo = todo, !.cut = cut, !.dead = dead]
      /\ reqs' = [q \in DOMAIN reqs |-> reqs'[q]]
  BY DEF Changed
<1>2. reqs[r] = [op |-> reqs[r].op, on |-> reqs[r].on, todo |-> reqs[r].todo,
                 cut |-> reqs[r].cut, met |-> reqs[r].met, dead |-> reqs[r].dead]
  BY DEF Shape, IsRequest
<1>3. reqs'[r] = [op |-> reqs[r].op, on |-> reqs[r].on, todo |-> todo,
                  cut |-> cut, met |-> reqs[r].met, dead |-> dead]
  BY <1>1, <1>2
<1>4. IsLog(reqs')
  BY <1>1, LogReplace DEF Shape
<1>5. IsRequest(reqs'[r])
  BY <1>3 DEF IsRequest
<1>6. /\ reqs'[r].op = reqs[r].op /\ reqs'[r].on = reqs[r].on /\ reqs'[r].met = reqs[r].met
      /\ reqs'[r].todo = todo /\ reqs'[r].cut = cut /\ reqs'[r].dead = dead
  BY <1>3
<1>7. \A q \in DOMAIN reqs : IsRequest(reqs[q])
  BY DEF Shape
<1> QED BY <1>1, <1>4, <1>5, <1>6, <1>7

(* A request begins: those under way meet it, and it meets them.                   *)
LEMMA RequestsBegin ==
  ASSUME Shape, NEW op, NEW on, NEW todo, Begin(op, on, todo)
  PROVE  /\ UNCHANGED stores
         /\ Me \notin DOMAIN reqs /\ DOMAIN reqs' = DOMAIN reqs \cup {Me}
         /\ IsLog(reqs')
         /\ \A q \in DOMAIN reqs' : IsRequest(reqs'[q])
         /\ \A q \in DOMAIN reqs :
              /\ reqs'[q].op = reqs[q].op /\ reqs'[q].on = reqs[q].on
              /\ reqs'[q].todo = reqs[q].todo /\ reqs'[q].cut = reqs[q].cut
              /\ reqs'[q].dead = reqs[q].dead /\ reqs[q].met \subseteq reqs'[q].met
         /\ reqs'[Me].op = op /\ reqs'[Me].on = on /\ reqs'[Me].todo = todo
         /\ reqs'[Me].cut = {} /\ reqs'[Me].dead = FALSE
         /\ \A q \in DOMAIN reqs : Running(q) => q \in reqs'[Me].met
<1> DEFINE old == [r \in DOMAIN reqs |->
                     IF Running(r) THEN [reqs[r] EXCEPT !.met = @ \cup {Me}] ELSE reqs[r]]
           new == [op |-> op, on |-> on, todo |-> todo, cut |-> {},
                   met |-> {r \in DOMAIN reqs : Running(r)}, dead |-> FALSE]
<1>1. reqs' = Append(old, new) /\ UNCHANGED stores
  BY DEF Begin
<1>2. IsLog(reqs) /\ \A q \in DOMAIN reqs : IsRequest(reqs[q])
  BY DEF Shape
<1>3. IsLog(old) /\ DOMAIN old = DOMAIN reqs
  <2>1. DOMAIN old = DOMAIN reqs /\ old = [i \in DOMAIN reqs |-> old[i]]
    OBVIOUS
  <2> HIDE DEF old
  <2> QED BY <2>1, <1>2, LogReplace
<1>4. Len(old) + 1 = Me
  <2>1. DOMAIN old = 1..Len(old) /\ Len(old) \in Nat
    <3> HIDE DEF old
    <3> QED BY <1>3, LenProperties DEF IsLog
  <2>2. DOMAIN reqs = 1..Len(reqs) /\ Len(reqs) \in Nat
    BY <1>2, LenProperties DEF IsLog
  <2> HIDE DEF old
  <2> QED BY <2>1, <2>2, <1>3 DEF Me
<1>5. ASSUME NEW q \in DOMAIN reqs
      PROVE  /\ IsRequest(old[q])
             /\ old[q].op = reqs[q].op /\ old[q].on = reqs[q].on
             /\ old[q].todo = reqs[q].todo /\ old[q].cut = reqs[q].cut
             /\ old[q].dead = reqs[q].dead /\ reqs[q].met \subseteq old[q].met
  <2>1. reqs[q] = [op |-> reqs[q].op, on |-> reqs[q].on, todo |-> reqs[q].todo,
                   cut |-> reqs[q].cut, met |-> reqs[q].met, dead |-> reqs[q].dead]
    BY <1>2 DEF IsRequest
  <2>2. old[q] = [op |-> reqs[q].op, on |-> reqs[q].on, todo |-> reqs[q].todo,
                  cut |-> reqs[q].cut, dead |-> reqs[q].dead,
                  met |-> IF Running(q) THEN reqs[q].met \cup {Me} ELSE reqs[q].met]
    BY <2>1
  <2> HIDE DEF old
  <2> QED BY <2>2 DEF IsRequest
<1>6. /\ IsRequest(new) /\ new.op = op /\ new.on = on /\ new.todo = todo
      /\ new.cut = {} /\ new.dead = FALSE
      /\ \A q \in DOMAIN reqs : Running(q) => q \in new.met
  BY DEF IsRequest
<1> HIDE DEF old, new
<1>7. /\ IsLog(reqs') /\ Me \notin DOMAIN reqs /\ DOMAIN reqs' = DOMAIN reqs \cup {Me}
      /\ \A q \in DOMAIN reqs : reqs'[q] = old[q]
      /\ reqs'[Me] = new
  BY <1>1, <1>3, <1>4, LogAppend
<1> QED BY <1>1, <1>5, <1>6, <1>7

(* Proceed, with or without an account noted as cut off, and Stop are such changes. *)
LEMMA ProceedIsATodoChange ==
  ASSUME Shape, NEW r \in DOMAIN reqs, NEW todo, NEW a
  PROVE  /\ [reqs EXCEPT ![r].todo = todo]
              = [reqs EXCEPT ![r] =
                   [@ EXCEPT !.todo = todo, !.cut = reqs[r].cut, !.dead = reqs[r].dead]]
         /\ [reqs EXCEPT ![r].cut = @ \cup {a}, ![r].todo = todo]
              = [reqs EXCEPT ![r] =
                   [@ EXCEPT !.todo = todo, !.cut = reqs[r].cut \cup {a}, !.dead = reqs[r].dead]]
         /\ [reqs EXCEPT ![r].dead = TRUE]
              = [reqs EXCEPT ![r] =
                   [@ EXCEPT !.todo = reqs[r].todo, !.cut = reqs[r].cut, !.dead = TRUE]]
<1>1. reqs[r] = [op |-> reqs[r].op, on |-> reqs[r].on, todo |-> reqs[r].todo,
                 cut |-> reqs[r].cut, met |-> reqs[r].met, dead |-> reqs[r].dead]
  BY DEF Shape, IsRequest
<1>2. /\ [reqs[r] EXCEPT !.todo = todo]
           = [reqs[r] EXCEPT !.todo = todo, !.cut = reqs[r].cut, !.dead = reqs[r].dead]
      /\ [[reqs[r] EXCEPT !.cut = @ \cup {a}] EXCEPT !.todo = todo]
           = [reqs[r] EXCEPT !.todo = todo, !.cut = reqs[r].cut \cup {a}, !.dead = reqs[r].dead]
      /\ [reqs[r] EXCEPT !.dead = TRUE]
           = [reqs[r] EXCEPT !.todo = reqs[r].todo, !.cut = reqs[r].cut, !.dead = TRUE]
  BY <1>1
<1> QED BY <1>2

--------------------------------------------------------------------------------
(* Reset tokens.  A confirmation that has not marked its token used yet still has  *)
(* that to do, unless it died; it is then under way for whoever finds the token    *)
(* unused.                                                                          *)
UseComes(x) ==
  \/ \E a, c : a.do = "account" /\ x.todo = <<a, Do("use", x.on), c>>
  \/ \E c : x.todo = <<Do("use", x.on), c>>

ResetInv ==
  /\ Shape
  /\ \A r \in DOMAIN reqs : reqs[r].op = "confirm_password_reset" =>
       /\ reqs[r].on \in DOMAIN resets
       /\ resets[reqs[r].on].spent \/ reqs[r].dead \/ UseComes(reqs[r])
  /\ ResetConfirmedOnce

LEMMA UseComesFacts ==
  ASSUME NEW x, UseComes(x)
  PROVE  /\ x.todo # <<>> /\ Head(x.todo).do \in {"account", "use"}
         /\ Head(x.todo).do = "use" => Head(x.todo) = Do("use", x.on)
         /\ Head(x.todo).do = "account" => \E c : Tail(x.todo) = <<Do("use", x.on), c>>
<1> DEFINE u == Do("use", x.on)
<1>0. u.do = "use"
  BY DEF Do
<1> HIDE DEF u
<1>1. CASE \E a, c : a.do = "account" /\ x.todo = <<a, u, c>>
  <2>1. PICK a, c : a.do = "account" /\ x.todo = <<a, u, c>>
    BY <1>1
  <2>2. <<a, u, c>> # <<>> /\ Head(<<a, u, c>>) = a /\ Tail(<<a, u, c>>) = <<u, c>>
    OBVIOUS
  <2> QED BY <2>1, <2>2 DEF u
<1>2. CASE \E c : x.todo = <<u, c>>
  <2>1. PICK c : x.todo = <<u, c>>
    BY <1>2
  <2>2. <<u, c>> # <<>> /\ Head(<<u, c>>) = u
    OBVIOUS
  <2> QED BY <2>1, <2>2, <1>0 DEF u
<1> QED BY <1>1, <1>2 DEF UseComes, u

LEMMA ResetBegin ==
  ASSUME ResetInv, NEW op, NEW on, NEW todo, Begin(op, on, todo),
         op = "confirm_password_reset" =>
           /\ on \in DOMAIN resets /\ ~resets[on].spent
           /\ \E a, c : a.do = "account" /\ todo = <<a, Do("use", on), c>>
  PROVE  ResetInv'
<1>1. Shape
  BY DEF ResetInv
<1>2. /\ UNCHANGED stores
      /\ Me \notin DOMAIN reqs /\ DOMAIN reqs' = DOMAIN reqs \cup {Me}
      /\ IsLog(reqs')
      /\ \A q \in DOMAIN reqs' : IsRequest(reqs'[q])
      /\ \A q \in DOMAIN reqs :
           /\ reqs'[q].op = reqs[q].op /\ reqs'[q].on = reqs[q].on
           /\ reqs'[q].todo = reqs[q].todo /\ reqs'[q].dead = reqs[q].dead
           /\ reqs[q].met \subseteq reqs'[q].met
      /\ reqs'[Me].op = op /\ reqs'[Me].on = on /\ reqs'[Me].todo = todo
      /\ reqs'[Me].dead = FALSE
      /\ \A q \in DOMAIN reqs : Running(q) => q \in reqs'[Me].met
  BY <1>1, RequestsBegin
<1>3. Shape'
  BY <1>1, <1>2 DEF Shape, stores
<1>4. ASSUME NEW r \in DOMAIN reqs', reqs'[r].op = "confirm_password_reset"
      PROVE  /\ reqs'[r].on \in DOMAIN resets
             /\ resets[reqs'[r].on].spent \/ reqs'[r].dead \/ UseComes(reqs'[r])
  <2>1. CASE r \in DOMAIN reqs
    <3>1. UseComes(reqs[r]) => UseComes(reqs'[r])
      BY <2>1, <1>2 DEF UseComes
    <3> QED BY <3>1, <2>1, <1>2, <1>4 DEF ResetInv
  <2>2. CASE r = Me
    BY <2>2, <1>2, <1>4 DEF UseComes
  <2> QED BY <2>1, <2>2, <1>2
<1>5. ASSUME NEW q \in DOMAIN reqs', NEW r \in DOMAIN reqs', q < r,
             reqs'[q].op = "confirm_password_reset", reqs'[r].op = "confirm_password_reset",
             reqs'[q].on = reqs'[r].on
      PROVE  q \in reqs'[r].met \/ r \in reqs'[q].met \/ reqs'[q].dead
  <2>0. \A i \in DOMAIN reqs : i < Me /\ i \in Nat
    BY <1>1, LenProperties DEF Shape, IsLog, Me
  <2>1. CASE r \in DOMAIN reqs
    <3>1. q \in DOMAIN reqs
      BY <2>0, <2>1, <1>2, <1>5 DEF Me
    <3> QED BY <3>1, <2>1, <1>2, <1>5 DEF ResetInv, ResetConfirmedOnce, Overlap
  <2>2. CASE r = Me
    <3>1. q \in DOMAIN reqs /\ op = "confirm_password_reset" /\ reqs[q].on = on
      BY <2>2, <1>2, <1>5 DEF Me
    <3>2. reqs[q].dead \/ UseComes(reqs[q])
      BY <3>1, <1>2, <1>5 DEF ResetInv
    <3>3. UseComes(reqs[q]) /\ ~reqs[q].dead => Running(q)
      BY UseComesFacts DEF Running
    <3> QED BY <3>1, <3>2, <3>3, <2>2, <1>2
  <2> QED BY <2>1, <2>2, <1>2
<1> QED BY <1>2, <1>3, <1>4, <1>5 DEF ResetInv, ResetConfirmedOnce, Overlap, stores

(* The appends of a request, seen from outside: what it has to do changes, stores  *)
(* grow or have one record marked, and a marked token stays marked.                *)
Longer(old, new) ==
  /\ DOMAIN old \subseteq DOMAIN new
  /\ \A t \in DOMAIN old : old[t].account = new[t].account /\ (old[t].spent => new[t].spent)
StoreShape ==
  /\ IsLog(resets) /\ \A t \in DOMAIN resets : IsToken(resets[t])
  /\ IsLog(challenges) /\ \A c \in DOMAIN challenges : IsToken(challenges[c])
  /\ IsLog(sessions) /\ \A s \in DOMAIN sessions : IsSession(sessions[s])

LEMMA TokenAdded ==
  ASSUME NEW s, IsLog(s), \A t \in DOMAIN s : IsToken(s[t]), NEW a
  PROVE  LET u == Append(s, [account |-> a, spent |-> FALSE])
         IN  IsLog(u) /\ (\A t \in DOMAIN u : IsToken(u[t])) /\ Longer(s, u)
<1> DEFINE x == [account |-> a, spent |-> FALSE]
           u == Append(s, x)
<1>1. IsToken(x)
  BY DEF IsToken
<1> HIDE DEF x
<1>2. /\ IsLog(u) /\ DOMAIN u = DOMAIN s \cup {Len(s) + 1}
      /\ \A t \in DOMAIN s : u[t] = s[t]
      /\ u[Len(s) + 1] = x
  BY LogAppend
<1> HIDE DEF u
<1>3. IsLog(u) /\ (\A t \in DOMAIN u : IsToken(u[t])) /\ Longer(s, u)
  BY <1>1, <1>2 DEF Longer
<1> QED BY <1>3 DEF u, x

LEMMA TokenMarked ==
  ASSUME NEW s, IsLog(s), \A t \in DOMAIN s : IsToken(s[t]), NEW i
  PROVE  LET u == [s EXCEPT ![i].spent = TRUE]
         IN  /\ IsLog(u) /\ (\A t \in DOMAIN u : IsToken(u[t])) /\ Longer(s, u)
             /\ i \in DOMAIN s => u[i].spent
             /\ DOMAIN u = DOMAIN s
<1> DEFINE u == [s EXCEPT ![i].spent = TRUE]
<1>1. /\ DOMAIN u = DOMAIN s /\ u = [t \in DOMAIN s |-> u[t]]
      /\ \A t \in DOMAIN s \ {i} : u[t] = s[t]
      /\ i \in DOMAIN s => u[i] = [s[i] EXCEPT !.spent = TRUE]
  OBVIOUS
<1> HIDE DEF u
<1>2. IsLog(u)
  BY <1>1, LogReplace
<1>3. ASSUME i \in DOMAIN s
      PROVE  IsToken(u[i]) /\ u[i].spent /\ u[i].account = s[i].account
  <2>1. s[i] = [account |-> s[i].account, spent |-> s[i].spent]
    BY <1>3 DEF IsToken
  <2>2. u[i] = [account |-> s[i].account, spent |-> TRUE]
    BY <2>1, <1>1, <1>3
  <2> QED BY <2>2 DEF IsToken
<1>4. IsLog(u) /\ (\A t \in DOMAIN u : IsToken(u[t])) /\ Longer(s, u)
      /\ (i \in DOMAIN s => u[i].spent) /\ DOMAIN u = DOMAIN s
  BY <1>1, <1>2, <1>3 DEF Longer
<1> QED BY <1>4 DEF u

LEMMA SessionEnds ==
  ASSUME NEW s, IsLog(s), \A t \in DOMAIN s : IsSession(s[t]), NEW i
  PROVE  LET u == [s EXCEPT ![i].ended = TRUE]
         IN  /\ IsLog(u) /\ (\A t \in DOMAIN u : IsSession(u[t]))
             /\ DOMAIN u = DOMAIN s /\ \A t \in DOMAIN s : u[t].by = s[t].by
<1> DEFINE u == [s EXCEPT ![i].ended = TRUE]
<1>1. /\ DOMAIN u = DOMAIN s /\ u = [t \in DOMAIN s |-> u[t]]
      /\ \A t \in DOMAIN s \ {i} : u[t] = s[t]
      /\ i \in DOMAIN s => u[i] = [s[i] EXCEPT !.ended = TRUE]
  OBVIOUS
<1> HIDE DEF u
<1>2. IsLog(u)
  BY <1>1, LogReplace
<1>3. ASSUME i \in DOMAIN s
      PROVE  IsSession(u[i]) /\ u[i].by = s[i].by
  <2>1. s[i] = [account |-> s[i].account, by |-> s[i].by, ended |-> s[i].ended]
    BY <1>3 DEF IsSession
  <2>2. u[i] = [account |-> s[i].account, by |-> s[i].by, ended |-> TRUE]
    BY <2>1, <1>1, <1>3
  <2> QED BY <2>2 DEF IsSession
<1>4. IsLog(u) /\ (\A t \in DOMAIN u : IsSession(u[t]))
      /\ DOMAIN u = DOMAIN s /\ \A t \in DOMAIN s : u[t].by = s[t].by
  BY <1>1, <1>2, <1>3
<1> QED BY <1>4 DEF u

LEMMA SessionAdded ==
  ASSUME NEW s, IsLog(s), \A t \in DOMAIN s : IsSession(s[t]), NEW a, NEW r
  PROVE  LET u == Append(s, [account |-> a, by |-> r, ended |-> FALSE])
         IN  /\ IsLog(u) /\ (\A t \in DOMAIN u : IsSession(u[t]))
             /\ DOMAIN u = DOMAIN s \cup {Len(s) + 1}
             /\ \A t \in DOMAIN s : u[t].by = s[t].by
             /\ u[Len(s) + 1].by = r
<1> DEFINE x == [account |-> a, by |-> r, ended |-> FALSE]
           u == Append(s, x)
<1>1. IsSession(x) /\ x.by = r
  BY DEF IsSession
<1> HIDE DEF x
<1>2. /\ IsLog(u) /\ DOMAIN u = DOMAIN s \cup {Len(s) + 1}
      /\ \A t \in DOMAIN s : u[t] = s[t]
      /\ u[Len(s) + 1] = x
  BY LogAppend
<1> HIDE DEF u
<1>3. /\ IsLog(u) /\ (\A t \in DOMAIN u : IsSession(u[t]))
      /\ DOMAIN u = DOMAIN s \cup {Len(s) + 1}
      /\ \A t \in DOMAIN s : u[t].by = s[t].by
      /\ u[Len(s) + 1].by = r
  BY <1>1, <1>2
<1> QED BY <1>3 DEF u, x

(* Every step of a request keeps the files well formed and every mark in place.    *)
LEMMA StoresKeepTheirShape ==
  ASSUME Shape, NEW r \in DOMAIN reqs, Progress(r) \/ Stop(r)
  PROVE  StoreShape' /\ Longer(resets, resets') /\ Longer(challenges, challenges')
<1>0. StoreShape /\ Longer(resets, resets) /\ Longer(challenges, challenges)
  BY DEF Shape, StoreShape, Longer
<1>1. CASE WriteAccount(r) \/ WriteClient(r) \/ RevokeActorSessions(r) \/ Cascade(r)
           \/ DeleteOne(r) \/ Stop(r)
  <2>1. UNCHANGED <<resets, challenges, sessions>>
    BY <1>1 DEF WriteAccount, WriteClient, RevokeActorSessions, Cascade, DeleteOne, Stop, stores
  <2> QED BY <2>1, <1>0 DEF StoreShape
<1>2. CASE WriteSession(r)
  <2>1. UNCHANGED <<resets, challenges>>
        /\ sessions' = Append(sessions, [account |-> Item(r).id, by |-> r, ended |-> FALSE])
    BY <1>2 DEF WriteSession
  <2>2. IsLog(sessions') /\ \A s \in DOMAIN sessions' : IsSession(sessions'[s])
    BY <2>1, <1>0, SessionAdded DEF StoreShape
  <2> QED BY <2>1, <2>2, <1>0 DEF StoreShape
<1>3. CASE WriteReset(r)
  <2>1. UNCHANGED <<sessions, challenges>>
        /\ resets' = Append(resets, [account |-> Item(r).id, spent |-> FALSE])
    BY <1>3 DEF WriteReset
  <2>2. IsLog(resets') /\ (\A s \in DOMAIN resets' : IsToken(resets'[s]))
        /\ Longer(resets, resets')
    BY <2>1, <1>0, TokenAdded DEF StoreShape
  <2> QED BY <2>1, <2>2, <1>0 DEF StoreShape
<1>4. CASE WriteChallenge(r)
  <2>1. UNCHANGED <<sessions, resets>>
        /\ challenges' = Append(challenges, [account |-> Item(r).id, spent |-> FALSE])
    BY <1>4 DEF WriteChallenge
  <2>2. IsLog(challenges') /\ (\A s \in DOMAIN challenges' : IsToken(challenges'[s]))
        /\ Longer(challenges, challenges')
    BY <2>1, <1>0, TokenAdded DEF StoreShape
  <2> QED BY <2>1, <2>2, <1>0 DEF StoreShape
<1>5. CASE UseReset(r)
  <2>1. UNCHANGED <<sessions, challenges>>
        /\ resets' = [resets EXCEPT ![Item(r).id].spent = TRUE]
    BY <1>5 DEF UseReset
  <2>2. IsLog(resets') /\ (\A s \in DOMAIN resets' : IsToken(resets'[s]))
        /\ Longer(resets, resets')
    BY <2>1, <1>0, TokenMarked DEF StoreShape
  <2> QED BY <2>1, <2>2, <1>0 DEF StoreShape
<1>6. CASE ConsumeChallenge(r)
  <2>1. UNCHANGED <<sessions, resets>>
        /\ challenges' = [challenges EXCEPT ![Item(r).id].spent = TRUE]
    BY <1>6 DEF ConsumeChallenge
  <2>2. IsLog(challenges') /\ (\A s \in DOMAIN challenges' : IsToken(challenges'[s]))
        /\ Longer(challenges, challenges')
    BY <2>1, <1>0, TokenMarked DEF StoreShape
  <2> QED BY <2>1, <2>2, <1>0 DEF StoreShape
<1>7. CASE EndSession(r) \/ RevokeOne(r)
  <2>1. UNCHANGED <<challenges, resets>>
    BY <1>7 DEF EndSession, RevokeOne
  <2>2. PICK i : sessions' = [sessions EXCEPT ![i].ended = TRUE]
    BY <1>7 DEF EndSession, RevokeOne
  <2>3. IsLog(sessions') /\ \A s \in DOMAIN sessions' : IsSession(sessions'[s])
    BY <2>2, <1>0, SessionEnds DEF StoreShape
  <2> QED BY <2>1, <2>3, <1>0 DEF StoreShape
<1> QED BY <1>1, <1>2, <1>3, <1>4, <1>5, <1>6, <1>7 DEF Progress

(* ... and changes only what that request still has to do, what it noted as cut    *)
(* off, or whether it lives.                                                        *)
LEMMA OnlyItsOwnTodo ==
  ASSUME Shape, NEW r \in DOMAIN reqs, Progress(r) \/ Stop(r)
  PROVE  /\ DOMAIN reqs' = DOMAIN reqs /\ IsLog(reqs')
         /\ \A q \in DOMAIN reqs : IsRequest(reqs'[q])
         /\ \A q \in DOMAIN reqs : reqs'[q].op = reqs[q].op /\ reqs'[q].on = reqs[q].on
                                   /\ reqs'[q].met = reqs[q].met
         /\ \A q \in DOMAIN reqs \ {r} : reqs'[q] = reqs[q]
         /\ ~reqs[r].dead
         /\ Stop(r) => reqs'[r].dead
<1>1. \E todo, cut, dead : Changed(r, todo, cut, dead) /\ (Stop(r) => dead)
  <2>1. CASE Stop(r)
    <3>1. reqs' = [reqs EXCEPT ![r].dead = TRUE]
      BY <2>1 DEF Stop
    <3>2. Changed(r, reqs[r].todo, reqs[r].cut, TRUE)
      BY <3>1, ProceedIsATodoChange DEF Changed
    <3> QED BY <3>2
  <2>2. CASE RevokeActorSessions(r) /\ ~Stop(r)
    <3>1. PICK a, todo : reqs' = [reqs EXCEPT ![r].cut = @ \cup {a}, ![r].todo = todo]
      BY <2>2 DEF RevokeActorSessions
    <3>2. Changed(r, todo, reqs[r].cut \cup {a}, reqs[r].dead)
      BY <3>1, ProceedIsATodoChange DEF Changed
    <3> QED BY <3>2, <2>2
  <2>3. CASE Progress(r) /\ ~Stop(r) /\ ~RevokeActorSessions(r)
    <3>1. PICK todo : reqs' = [reqs EXCEPT ![r].todo = todo]
      BY <2>3 DEF Progress, WriteAccount, WriteClient, WriteSession, WriteReset,
           WriteChallenge, UseReset, ConsumeChallenge, EndSession, RevokeOne, Cascade,
           DeleteOne, Proceed
    <3>2. Changed(r, todo, reqs[r].cut, reqs[r].dead)
      BY <3>1, ProceedIsATodoChange DEF Changed
    <3> QED BY <3>2, <2>3
  <2> QED BY <2>1, <2>2, <2>3
<1>2. ~reqs[r].dead
  BY DEF Progress, WriteAccount, WriteClient, WriteSession, WriteReset, WriteChallenge,
     UseReset, ConsumeChallenge, EndSession, RevokeActorSessions, RevokeOne, Cascade,
     DeleteOne, Stop, Due, Running
<1>3. PICK todo, cut, dead : Changed(r, todo, cut, dead) /\ (Stop(r) => dead)
  BY <1>1
<1>4. /\ DOMAIN reqs' = DOMAIN reqs /\ IsLog(reqs')
      /\ \A q \in DOMAIN reqs : IsRequest(reqs'[q])
      /\ \A q \in DOMAIN reqs : reqs'[q].op = reqs[q].op /\ reqs'[q].on = reqs[q].on
                                /\ reqs'[q].met = reqs[q].met
      /\ reqs'[r].dead = dead
      /\ \A q \in DOMAIN reqs \ {r} : reqs'[q] = reqs[q]
  BY <1>3, TodoChanges
<1> QED BY <1>2, <1>3, <1>4

LEMMA ProceedSetsTodo ==
  ASSUME Shape, NEW r \in DOMAIN reqs, NEW todo, Proceed(r, todo)
  PROVE  reqs'[r].todo = todo /\ reqs'[r].dead = reqs[r].dead
<1>1. Changed(r, todo, reqs[r].cut, reqs[r].dead)
  BY ProceedIsATodoChange DEF Proceed, Changed
<1> QED BY <1>1, TodoChanges

LEMMA ResetStep ==
  ASSUME ResetInv, NEW r \in DOMAIN reqs, Progress(r) \/ Stop(r)
  PROVE  ResetInv'
<1>0. Shape
  BY DEF ResetInv
<1>1. /\ DOMAIN reqs' = DOMAIN reqs /\ IsLog(reqs')
      /\ \A q \in DOMAIN reqs : IsRequest(reqs'[q])
      /\ \A q \in DOMAIN reqs : reqs'[q].op = reqs[q].op /\ reqs'[q].on = reqs[q].on
                                /\ reqs'[q].met = reqs[q].met
      /\ \A q \in DOMAIN reqs \ {r} : reqs'[q] = reqs[q]
      /\ ~reqs[r].dead
      /\ Stop(r) => reqs'[r].dead
  BY <1>0, OnlyItsOwnTodo
<1>2. StoreShape' /\ Longer(resets, resets')
  BY <1>0, StoresKeepTheirShape
<1>3. Shape'
  BY <1>1, <1>2 DEF Shape, StoreShape
<1>4. ASSUME reqs[r].op = "confirm_password_reset", ~resets'[reqs[r].on].spent, ~Stop(r)
      PROVE  UseComes(reqs'[r])
  <2>1. reqs[r].on \in DOMAIN resets /\ UseComes(reqs[r])
    BY <1>1, <1>2, <1>4 DEF ResetInv, Longer
  <2>2. Item(r).do \in {"account", "use"}
    BY <2>1, UseComesFacts DEF Item
  <2>3. CASE WriteAccount(r)
    <3>1. Item(r).do = "account" /\ Proceed(r, Rest(r))
      BY <2>3 DEF WriteAccount, Due, Item
    <3>2. reqs'[r].todo = Rest(r)
      BY <3>1, <1>0, ProceedSetsTodo
    <3>3. \E c : Rest(r) = <<Do("use", reqs[r].on), c>>
      BY <2>1, <3>1, UseComesFacts DEF Item, Rest
    <3> QED BY <3>2, <3>3, <1>1 DEF UseComes
  <2>4. CASE UseReset(r)
    <3>1. Item(r) = Do("use", reqs[r].on)
      BY <2>1, <2>4, UseComesFacts DEF UseReset, Due, Item
    <3>2. Item(r).id = reqs[r].on /\ resets' = [resets EXCEPT ![Item(r).id].spent = TRUE]
      BY <3>1, <2>4 DEF UseReset, Do
    <3>3. resets'[reqs[r].on].spent
      BY <3>2, <2>1, <1>0, TokenMarked DEF Shape
    <3> QED BY <3>3, <1>4
  <2>5. ~(\/ WriteClient(r) \/ WriteSession(r) \/ WriteReset(r) \/ WriteChallenge(r)
          \/ ConsumeChallenge(r) \/ EndSession(r) \/ RevokeActorSessions(r)
          \/ RevokeOne(r) \/ Cascade(r) \/ DeleteOne(r))
    BY <2>2 DEF WriteClient, WriteSession, WriteReset, WriteChallenge, ConsumeChallenge,
       EndSession, RevokeActorSessions, RevokeOne, Cascade, DeleteOne, Due, Item
  <2> QED BY <2>3, <2>4, <2>5, <1>4 DEF Progress
<1>5. ASSUME NEW q \in DOMAIN reqs', reqs'[q].op = "confirm_password_reset"
      PROVE  /\ reqs'[q].on \in DOMAIN resets'
             /\ resets'[reqs'[q].on].spent \/ reqs'[q].dead \/ UseComes(reqs'[q])
  <2>1. CASE q = r
    BY <2>1, <1>1, <1>2, <1>4, <1>5 DEF ResetInv, Longer
  <2>2. CASE q # r
    BY <2>2, <1>1, <1>2, <1>5 DEF ResetInv, Longer
  <2> QED BY <2>1, <2>2
<1>6. ASSUME NEW q \in DOMAIN reqs', NEW p \in DOMAIN reqs', q < p,
             reqs'[q].op = "confirm_password_reset", reqs'[p].op = "confirm_password_reset",
             reqs'[q].on = reqs'[p].on
      PROVE  q \in reqs'[p].met \/ p \in reqs'[q].met \/ reqs'[q].dead
  <2>1. q \in reqs[p].met \/ p \in reqs[q].met \/ reqs[q].dead
    BY <1>1, <1>6 DEF ResetInv, ResetConfirmedOnce, Overlap
  <2> QED BY <2>1, <1>1
<1> QED BY <1>3, <1>5, <1>6 DEF ResetInv, ResetConfirmedOnce, Overlap

(* A reset token is confirmed once, unless confirmations overlapped or the first    *)
(* died before marking it: of every handler only confirm_password_reset confirms,   *)
(* and it finds the token unused.                                                    *)
THEOREM ResetsConfirmedOnce == Spec => []ResetConfirmedOnce
<1>1. Init => ResetInv
  <2> SUFFICES ASSUME Init PROVE ResetInv
    OBVIOUS
  <2>1. reqs = <<>> /\ resets = <<>> /\ challenges = <<>> /\ sessions = <<>>
    BY DEF Init
  <2>2. IsLog(<<>>) /\ DOMAIN <<>> = {}
    BY DEF IsLog
  <2> QED BY <2>1, <2>2 DEF ResetInv, Shape, ResetConfirmedOnce
<1>2. ResetInv /\ [Next]_vars => ResetInv'
  <2> SUFFICES ASSUME ResetInv, [Next]_vars PROVE ResetInv'
    OBVIOUS
  <2>1. CASE Call
    <3>1. CASE \E t \in DOMAIN resets : ConfirmPasswordReset(t)
      <4>1. PICK t \in DOMAIN resets : ConfirmPasswordReset(t)
        BY <3>1
      <4> DEFINE a == resets[t].account
                 acc == SaveActor([Latest(accounts, a) EXCEPT !.password = Me])
      <4>2. /\ ~resets[t].spent
            /\ Begin("confirm_password_reset", t, <<acc, Do("use", t), Do("revoke", a)>>)
        BY <4>1 DEF ConfirmPasswordReset
      <4>3. acc.do = "account"
        BY DEF SaveActor
      <4> HIDE DEF acc, a
      <4> QED BY <4>2, <4>3, ResetBegin
    <3>2. CASE ~\E t \in DOMAIN resets : ConfirmPasswordReset(t)
      <4>1. \E op, on, todo : op # "confirm_password_reset" /\ Begin(op, on, todo)
        BY <2>1, <3>2 DEF Call, CreateSustentraUser, Login, CompleteMfaLogin, Logout,
           RequestPasswordReset, SetupMfa, ConfirmMfa, DisableMfa, CreateClient,
           UpdateClient, DeleteClient, CreateClientUser, UpdateClientUser, DeleteClientUser
      <4> QED BY <4>1, ResetBegin
    <3> QED BY <3>1, <3>2
  <2>2. CASE \E r \in DOMAIN reqs : Progress(r) \/ Stop(r)
    BY <2>2, ResetStep
  <2>3. CASE TimePasses \/ UNCHANGED vars
    <3>1. UNCHANGED <<accounts, clients, sessions, resets, challenges, reqs>>
      BY <2>3 DEF TimePasses, Expire, vars
    <3> QED BY <3>1 DEF ResetInv, Shape, ResetConfirmedOnce, Overlap, UseComes
  <2> QED BY <2>1, <2>2, <2>3 DEF Next
<1>3. ResetInv => ResetConfirmedOnce
  BY DEF ResetInv
<1> QED BY <1>1, <1>2, <1>3, PTL DEF Spec

--------------------------------------------------------------------------------
(* Challenges.  A completion has not consumed its challenge yet and has admitted   *)
(* nobody; or has consumed it and admits next; or has admitted, once.              *)
AdmitsNobody(r) == \A s \in DOMAIN sessions : sessions[s].by # r
AdmitsOne(r) ==
  \A s, t \in DOMAIN sessions : sessions[s].by = r /\ sessions[t].by = r => s = t
ConsumeComes(x) ==
  \/ \E a, c, d : /\ a.do = "account" /\ c.do = "session" /\ d.do = "account"
                  /\ x.todo = <<a, Do("consume", x.on), c, d>>
  \/ \E c, d : /\ c.do = "session" /\ d.do = "account"
               /\ x.todo = <<Do("consume", x.on), c, d>>
AdmissionComes(x) ==
  \E c, d : c.do = "session" /\ d.do = "account" /\ x.todo = <<c, d>>
Admitted(x) == x.todo = <<>> \/ \E d : d.do = "account" /\ x.todo = <<d>>

Stage(r) ==
  \/ AdmitsNobody(r) /\ (reqs[r].dead \/ ConsumeComes(reqs[r]))
  \/ AdmitsNobody(r) /\ challenges[reqs[r].on].spent /\ AdmissionComes(reqs[r])
  \/ AdmitsOne(r) /\ challenges[reqs[r].on].spent /\ Admitted(reqs[r])

Completion(r) == reqs[r].op = "complete_mfa_login"

ChallengeInv ==
  /\ Shape
  /\ \A s \in DOMAIN sessions : sessions[s].by \in DOMAIN reqs
  /\ \A r \in DOMAIN reqs : Completion(r) =>
       reqs[r].on \in DOMAIN challenges /\ Stage(r)
  /\ \A q, r \in DOMAIN reqs :
       /\ q < r /\ Completion(q) /\ Completion(r) /\ reqs[q].on = reqs[r].on
       => Overlap(q, r) \/ (reqs[q].dead /\ AdmitsNobody(q))

LEMMA ConsumeComesFacts ==
  ASSUME NEW x, ConsumeComes(x)
  PROVE  /\ x.todo # <<>> /\ Head(x.todo).do \in {"account", "consume"}
         /\ Head(x.todo).do = "consume" =>
              /\ Head(x.todo) = Do("consume", x.on)
              /\ \E c, d : /\ c.do = "session" /\ d.do = "account"
                           /\ Tail(x.todo) = <<c, d>>
         /\ Head(x.todo).do = "account" =>
              \E c, d : /\ c.do = "session" /\ d.do = "account"
                        /\ Tail(x.todo) = <<Do("consume", x.on), c, d>>
<1> DEFINE u == Do("consume", x.on)
<1>0. u.do = "consume"
  BY DEF Do
<1> HIDE DEF u
<1>1. CASE \E a, c, d : /\ a.do = "account" /\ c.do = "session" /\ d.do = "account"
                        /\ x.todo = <<a, u, c, d>>
  <2>1. PICK a, c, d : /\ a.do = "account" /\ c.do = "session" /\ d.do = "account"
                       /\ x.todo = <<a, u, c, d>>
    BY <1>1
  <2>2. <<a, u, c, d>> # <<>> /\ Head(<<a, u, c, d>>) = a
        /\ Tail(<<a, u, c, d>>) = <<u, c, d>>
    OBVIOUS
  <2> QED BY <2>1, <2>2 DEF u
<1>2. CASE \E c, d : c.do = "session" /\ d.do = "account" /\ x.todo = <<u, c, d>>
  <2>1. PICK c, d : c.do = "session" /\ d.do = "account" /\ x.todo = <<u, c, d>>
    BY <1>2
  <2>2. <<u, c, d>> # <<>> /\ Head(<<u, c, d>>) = u /\ Tail(<<u, c, d>>) = <<c, d>>
    OBVIOUS
  <2> QED BY <2>1, <2>2, <1>0 DEF u
<1> QED BY <1>1, <1>2 DEF ConsumeComes, u

LEMMA AdmissionComesFacts ==
  ASSUME NEW x, AdmissionComes(x)
  PROVE  /\ Head(x.todo).do = "session"
         /\ \E d : d.do = "account" /\ Tail(x.todo) = <<d>>
<1>1. PICK c, d : c.do = "session" /\ d.do = "account" /\ x.todo = <<c, d>>
  BY DEF AdmissionComes
<1>2. Head(<<c, d>>) = c /\ Tail(<<c, d>>) = <<d>>
  OBVIOUS
<1> QED BY <1>1, <1>2

LEMMA AdmittedFacts ==
  ASSUME NEW x, Admitted(x), x.todo # <<>>
  PROVE  Head(x.todo).do = "account" /\ Tail(x.todo) = <<>>
<1>1. PICK d : d.do = "account" /\ x.todo = <<d>>
  BY DEF Admitted
<1>2. Head(<<d>>) = d /\ Tail(<<d>>) = <<>>
  OBVIOUS
<1> QED BY <1>1, <1>2

LEMMA TuplesJoined ==
  ASSUME NEW a, NEW b, NEW x, NEW y
  PROVE  <<a, b>> \o <<x, y>> = <<a, b, x, y>> /\ <<b>> \o <<x, y>> = <<b, x, y>>
<1> DEFINE S == {a, b, x, y}
<1>1. <<a, b>> \in Seq(S) /\ <<b>> \in Seq(S) /\ <<x, y>> \in Seq(S)
      /\ <<a, b, x, y>> \in Seq(S) /\ <<b, x, y>> \in Seq(S)
  OBVIOUS
<1> HIDE DEF S
<1>2. <<a, b>> \o <<x, y>> = <<a, b, x, y>>
  <2> DEFINE s == <<a, b>> \o <<x, y>>
  <2>1. s \in Seq(S) /\ Len(s) = 4 /\ s[1] = a /\ s[2] = b /\ s[3] = x /\ s[4] = y
    BY <1>1, ConcatProperties
  <2> HIDE DEF s
  <2>2. s = <<a, b, x, y>>
    BY <1>1, <2>1, SeqEqual
  <2> QED BY <2>2 DEF s
<1>3. <<b>> \o <<x, y>> = <<b, x, y>>
  <2> DEFINE s == <<b>> \o <<x, y>>
  <2>1. s \in Seq(S) /\ Len(s) = 3 /\ s[1] = b /\ s[2] = x /\ s[3] = y
    BY <1>1, ConcatProperties
  <2> HIDE DEF s
  <2>2. s = <<b, x, y>>
    BY <1>1, <2>1, SeqEqual
  <2> QED BY <2>2 DEF s
<1> QED BY <1>2, <1>3

LEMMA ChallengeBegin ==
  ASSUME ChallengeInv, NEW op, NEW on, NEW todo, Begin(op, on, todo),
         op = "complete_mfa_login" =>
           /\ on \in DOMAIN challenges /\ ~challenges[on].spent
           /\ \/ \E a, c, d : /\ a.do = "account" /\ c.do = "session" /\ d.do = "account"
                              /\ todo = <<a, Do("consume", on), c, d>>
              \/ \E c, d : /\ c.do = "session" /\ d.do = "account"
                           /\ todo = <<Do("consume", on), c, d>>
  PROVE  ChallengeInv'
<1>1. Shape
  BY DEF ChallengeInv
<1>2. /\ UNCHANGED stores
      /\ Me \notin DOMAIN reqs /\ DOMAIN reqs' = DOMAIN reqs \cup {Me}
      /\ IsLog(reqs')
      /\ \A q \in DOMAIN reqs' : IsRequest(reqs'[q])
      /\ \A q \in DOMAIN reqs :
           /\ reqs'[q].op = reqs[q].op /\ reqs'[q].on = reqs[q].on
           /\ reqs'[q].todo = reqs[q].todo /\ reqs'[q].dead = reqs[q].dead
           /\ reqs[q].met \subseteq reqs'[q].met
      /\ reqs'[Me].op = op /\ reqs'[Me].on = on /\ reqs'[Me].todo = todo
      /\ reqs'[Me].dead = FALSE
      /\ \A q \in DOMAIN reqs : Running(q) => q \in reqs'[Me].met
  BY <1>1, RequestsBegin
<1>3. Shape'
  BY <1>1, <1>2 DEF Shape, stores
<1>4. ASSUME NEW s \in DOMAIN sessions'
      PROVE  sessions'[s].by \in DOMAIN reqs' /\ sessions'[s].by # Me
  BY <1>2 DEF ChallengeInv, stores
<1>5. \A r : AdmitsNobody(r) => AdmitsNobody(r)'
  BY <1>2 DEF AdmitsNobody, stores
<1>6. ASSUME NEW r \in DOMAIN reqs', Completion(r)'
      PROVE  reqs'[r].on \in DOMAIN challenges' /\ Stage(r)'
  <2>1. CASE r \in DOMAIN reqs
    <3>1. Completion(r) /\ Stage(r) /\ reqs[r].on \in DOMAIN challenges
      BY <2>1, <1>2, <1>6 DEF ChallengeInv, Completion
    <3>2. /\ ConsumeComes(reqs[r]) => ConsumeComes(reqs'[r])
          /\ AdmissionComes(reqs[r]) => AdmissionComes(reqs'[r])
          /\ Admitted(reqs[r]) => Admitted(reqs'[r])
      BY <2>1, <1>2 DEF ConsumeComes, AdmissionComes, Admitted
    <3>3. /\ challenges' = challenges /\ sessions' = sessions
          /\ reqs'[r].on = reqs[r].on /\ reqs'[r].dead = reqs[r].dead
      BY <2>1, <1>2 DEF stores
    <3> QED BY <3>1, <3>2, <3>3 DEF Stage, AdmitsNobody, AdmitsOne
  <2>2. CASE r = Me
    <3>1. ConsumeComes(reqs'[Me]) /\ on \in DOMAIN challenges
      BY <2>2, <1>2, <1>6 DEF ConsumeComes, Completion
    <3>2. (AdmitsNobody(r))'
      BY <2>2, <1>4 DEF AdmitsNobody, Me
    <3> QED BY <3>1, <3>2, <2>2, <1>2 DEF Stage, stores
  <2> QED BY <2>1, <2>2, <1>2
<1>7. ASSUME NEW q \in DOMAIN reqs', NEW r \in DOMAIN reqs', q < r,
             Completion(q)', Completion(r)', reqs'[q].on = reqs'[r].on
      PROVE  Overlap(q, r)' \/ (reqs'[q].dead /\ AdmitsNobody(q)')
  <2>0. \A i \in DOMAIN reqs : i < Me /\ i \in Nat
    BY <1>1, LenProperties DEF Shape, IsLog, Me
  <2>1. CASE r \in DOMAIN reqs
    <3>1. q \in DOMAIN reqs
      BY <2>0, <2>1, <1>2, <1>7 DEF Me
    <3>2. Overlap(q, r) \/ (reqs[q].dead /\ AdmitsNobody(q))
      BY <3>1, <2>1, <1>2, <1>7 DEF ChallengeInv, Completion
    <3> QED BY <3>1, <3>2, <2>1, <1>2, <1>5 DEF Overlap
  <2>2. CASE r = Me
    <3>1. q \in DOMAIN reqs /\ Completion(q) /\ op = "complete_mfa_login" /\ reqs[q].on = on
      BY <2>2, <1>2, <1>7 DEF Me, Completion
    <3>2. AdmitsNobody(q) /\ (reqs[q].dead \/ ConsumeComes(reqs[q]))
      BY <3>1 DEF ChallengeInv, Stage
    <3>3. ConsumeComes(reqs[q]) /\ ~reqs[q].dead => Running(q)
      BY ConsumeComesFacts DEF Running
    <3>4. q \in reqs'[Me].met \/ reqs[q].dead
      BY <3>1, <3>2, <3>3, <1>2
    <3> QED BY <3>1, <3>2, <3>4, <2>2, <1>2, <1>5 DEF Overlap
  <2> QED BY <2>1, <2>2, <1>2
<1> QED BY <1>3, <1>4, <1>6, <1>7 DEF ChallengeInv

(* Only WriteSession saves a session, and for the request that takes the step.     *)
LEMMA SessionsAreSavedByTheStep ==
  ASSUME Shape, NEW r \in DOMAIN reqs, Progress(r) \/ Stop(r)
  PROVE  /\ ~WriteSession(r) =>
              /\ DOMAIN sessions' = DOMAIN sessions
              /\ \A s \in DOMAIN sessions : sessions'[s].by = sessions[s].by
         /\ WriteSession(r) => \E new :
              /\ DOMAIN sessions' = DOMAIN sessions \cup {new}
              /\ \A s \in DOMAIN sessions : sessions'[s].by = sessions[s].by
              /\ sessions'[new].by = r
<1>0. IsLog(sessions) /\ \A s \in DOMAIN sessions : IsSession(sessions[s])
  BY DEF Shape
<1>1. ASSUME WriteSession(r)
      PROVE  \E new : /\ DOMAIN sessions' = DOMAIN sessions \cup {new}
                      /\ \A s \in DOMAIN sessions : sessions'[s].by = sessions[s].by
                      /\ sessions'[new].by = r
  <2>1. sessions' = Append(sessions, [account |-> Item(r).id, by |-> r, ended |-> FALSE])
    BY <1>1 DEF WriteSession
  <2>2. /\ DOMAIN sessions' = DOMAIN sessions \cup {Len(sessions) + 1}
        /\ \A s \in DOMAIN sessions : sessions'[s].by = sessions[s].by
        /\ sessions'[Len(sessions) + 1].by = r
    BY <2>1, <1>0, SessionAdded
  <2> QED BY <2>2
<1>2. ASSUME ~WriteSession(r)
      PROVE  /\ DOMAIN sessions' = DOMAIN sessions
             /\ \A s \in DOMAIN sessions : sessions'[s].by = sessions[s].by
  <2>1. CASE EndSession(r) \/ RevokeOne(r)
    <3>1. PICK i : sessions' = [sessions EXCEPT ![i].ended = TRUE]
      BY <2>1 DEF EndSession, RevokeOne
    <3> QED BY <3>1, <1>0, SessionEnds
  <2>2. CASE ~(EndSession(r) \/ RevokeOne(r))
    BY <2>2, <1>2 DEF Progress, Stop, WriteAccount, WriteClient, WriteReset, WriteChallenge,
       UseReset, ConsumeChallenge, RevokeActorSessions, Cascade, DeleteOne, stores
  <2> QED BY <2>1, <2>2
<1> QED BY <1>1, <1>2

(* What the step of a completion makes of its stage. *)
LEMMA StageStep ==
  ASSUME ChallengeInv, NEW r \in DOMAIN reqs, Completion(r), Progress(r) \/ Stop(r)
  PROVE  Stage(r)'
<1>0. Shape /\ Stage(r) /\ reqs[r].on \in DOMAIN challenges
  BY DEF ChallengeInv
<1>1. reqs'[r].on = reqs[r].on /\ ~reqs[r].dead /\ (Stop(r) => reqs'[r].dead)
  BY <1>0, OnlyItsOwnTodo
<1>2. challenges[reqs[r].on].spent => challenges'[reqs[r].on].spent
  BY <1>0, StoresKeepTheirShape DEF Longer
<1>3. ~WriteSession(r) =>
        (AdmitsNobody(r) => AdmitsNobody(r)') /\ (AdmitsOne(r) => AdmitsOne(r)')
  BY <1>0, SessionsAreSavedByTheStep DEF AdmitsNobody, AdmitsOne
<1>4. WriteSession(r) /\ AdmitsNobody(r) => AdmitsOne(r)'
  BY <1>0, SessionsAreSavedByTheStep DEF AdmitsNobody, AdmitsOne
<1>5. CASE Stop(r)
  <2>1. reqs'[r].todo = reqs[r].todo
    BY <1>5, <1>0 DEF Stop, Shape, IsRequest
  <2>2. ~WriteSession(r)
    BY <1>0, <1>1, <1>5, ProceedSetsTodo DEF WriteSession
  <2>3. /\ AdmissionComes(reqs[r]) => AdmissionComes(reqs'[r])
        /\ Admitted(reqs[r]) => Admitted(reqs'[r])
    BY <2>1 DEF AdmissionComes, Admitted
  <2> QED BY <2>2, <2>3, <1>0, <1>1, <1>2, <1>3, <1>5 DEF Stage
<1>6. CASE Progress(r) /\ ~Stop(r)
  <2>1. Running(r)
    BY <1>6 DEF Progress, WriteAccount, WriteClient, WriteSession, WriteReset, WriteChallenge,
       UseReset, ConsumeChallenge, EndSession, RevokeActorSessions, RevokeOne, Cascade,
       DeleteOne, Due
  <2>2. Item(r).do \in {"account", "consume", "session"}
    BY <2>1, <1>0, <1>1, ConsumeComesFacts, AdmissionComesFacts, AdmittedFacts
       DEF Stage, Item, Running
  <2>3. WriteAccount(r) \/ ConsumeChallenge(r) \/ WriteSession(r)
    BY <2>2, <1>6 DEF Progress, WriteClient, WriteReset, WriteChallenge, UseReset, EndSession,
       RevokeActorSessions, RevokeOne, Cascade, DeleteOne, Due, Item
  <2>4. reqs'[r].todo = Rest(r)
    <3>1. Proceed(r, Rest(r))
      BY <2>3 DEF WriteAccount, ConsumeChallenge, WriteSession
    <3> QED BY <3>1, <1>0, ProceedSetsTodo
  <2>5. /\ WriteAccount(r) => Item(r).do = "account"
        /\ ConsumeChallenge(r) => Item(r).do = "consume"
        /\ WriteSession(r) => Item(r).do = "session"
    BY DEF WriteAccount, ConsumeChallenge, WriteSession, Due, Item
  <2>6. CASE AdmitsNobody(r) /\ ConsumeComes(reqs[r])
    <3>1. Item(r).do # "session"
      BY <2>6, ConsumeComesFacts DEF Item
    <3>2. AdmitsNobody(r)'
      BY <3>1, <2>5, <2>6, <1>3
    <3>3. CASE WriteAccount(r)
      <4>1. PICK c, d : /\ c.do = "session" /\ d.do = "account"
                        /\ Rest(r) = <<Do("consume", reqs[r].on), c, d>>
        BY <3>3, <2>5, <2>6, ConsumeComesFacts DEF Item, Rest
      <4>2. ConsumeComes(reqs'[r])
        BY <4>1, <2>4, <1>1 DEF ConsumeComes
      <4> QED BY <4>2, <3>2 DEF Stage
    <3>4. CASE ConsumeChallenge(r)
      <4>1. Item(r) = Do("consume", reqs[r].on)
        BY <3>4, <2>5, <2>6, ConsumeComesFacts DEF Item
      <4>2. PICK c, d : c.do = "session" /\ d.do = "account" /\ Rest(r) = <<c, d>>
        BY <3>4, <2>5, <2>6, ConsumeComesFacts DEF Item, Rest
      <4>3. AdmissionComes(reqs'[r])
        BY <4>2, <2>4 DEF AdmissionComes
      <4>4. Item(r).id = reqs[r].on
            /\ challenges' = [challenges EXCEPT ![Item(r).id].spent = TRUE]
        BY <4>1, <3>4 DEF ConsumeChallenge, Do
      <4>5. challenges'[reqs[r].on].spent
        BY <4>4, <1>0, TokenMarked DEF Shape
      <4> QED BY <4>3, <4>5, <3>2, <1>1 DEF Stage
    <3> QED BY <3>1, <3>3, <3>4, <2>3, <2>5
  <2>7. CASE AdmitsNobody(r) /\ challenges[reqs[r].on].spent /\ AdmissionComes(reqs[r])
    <3>1. Item(r).do = "session" /\ \E d : d.do = "account" /\ Rest(r) = <<d>>
      BY <2>7, AdmissionComesFacts DEF Item, Rest
    <3>2. WriteSession(r) /\ Admitted(reqs'[r])
      BY <3>1, <2>3, <2>4, <2>5 DEF Admitted
    <3> QED BY <3>2, <2>7, <1>1, <1>2, <1>4 DEF Stage
  <2>8. CASE AdmitsOne(r) /\ challenges[reqs[r].on].spent /\ Admitted(reqs[r])
    <3>1. Item(r).do = "account" /\ Rest(r) = <<>>
      BY <2>1, <2>8, AdmittedFacts DEF Item, Rest, Running
    <3>2. ~WriteSession(r) /\ Admitted(reqs'[r])
      BY <3>1, <2>4, <2>5 DEF Admitted
    <3> QED BY <3>2, <2>8, <1>1, <1>2, <1>3 DEF Stage
  <2> QED BY <2>6, <2>7, <2>8, <1>0, <1>1 DEF Stage
<1> QED BY <1>5, <1>6

LEMMA ChallengeStep ==
  ASSUME ChallengeInv, NEW r \in DOMAIN reqs, Progress(r) \/ Stop(r)
  PROVE  ChallengeInv'
<1>0. Shape
  BY DEF ChallengeInv
<1>1. /\ DOMAIN reqs' = DOMAIN reqs /\ IsLog(reqs')
      /\ \A q \in DOMAIN reqs : IsRequest(reqs'[q])
      /\ \A q \in DOMAIN reqs : reqs'[q].op = reqs[q].op /\ reqs'[q].on = reqs[q].on
                                /\ reqs'[q].met = reqs[q].met
      /\ \A q \in DOMAIN reqs \ {r} : reqs'[q] = reqs[q]
      /\ ~reqs[r].dead
  BY <1>0, OnlyItsOwnTodo
<1>2. StoreShape' /\ Longer(challenges, challenges')
  BY <1>0, StoresKeepTheirShape
<1>3. Shape'
  BY <1>1, <1>2 DEF Shape, StoreShape
<1>4. /\ \A s \in DOMAIN sessions' : sessions'[s].by \in DOMAIN reqs'
      /\ \A q : q # r =>
           (AdmitsNobody(q) => AdmitsNobody(q)') /\ (AdmitsOne(q) => AdmitsOne(q)')
  <2>1. CASE WriteSession(r)
    <3>1. PICK new :
            /\ DOMAIN sessions' = DOMAIN sessions \cup {new}
            /\ \A s \in DOMAIN sessions : sessions'[s].by = sessions[s].by
            /\ sessions'[new].by = r
      BY <2>1, <1>0, SessionsAreSavedByTheStep
    <3> QED BY <3>1, <1>1 DEF ChallengeInv, AdmitsNobody, AdmitsOne
  <2>2. CASE ~WriteSession(r)
    <3>1. /\ DOMAIN sessions' = DOMAIN sessions
          /\ \A s \in DOMAIN sessions : sessions'[s].by = sessions[s].by
      BY <2>2, <1>0, SessionsAreSavedByTheStep
    <3> QED BY <3>1, <1>1 DEF ChallengeInv, AdmitsNobody, AdmitsOne
  <2> QED BY <2>1, <2>2
<1>5. ASSUME NEW q \in DOMAIN reqs', Completion(q)'
      PROVE  reqs'[q].on \in DOMAIN challenges' /\ Stage(q)'
  <2>1. /\ q \in DOMAIN reqs /\ Completion(q) /\ Stage(q) /\ reqs[q].on \in DOMAIN challenges
        /\ reqs'[q].on = reqs[q].on
    BY <1>1, <1>5 DEF ChallengeInv, Completion
  <2>2. CASE q = r
    BY <2>1, <2>2, <1>2, StageStep DEF Longer
  <2>3. CASE q # r
    <3>1. reqs'[q] = reqs[q] /\ (challenges[reqs[q].on].spent => challenges'[reqs[q].on].spent)
      BY <2>1, <2>3, <1>1, <1>2 DEF Longer
    <3> QED BY <3>1, <2>1, <2>3, <1>2, <1>4 DEF Stage, Longer
  <2> QED BY <2>2, <2>3
<1>6. ASSUME NEW q \in DOMAIN reqs', NEW p \in DOMAIN reqs', q < p,
             Completion(q)', Completion(p)', reqs'[q].on = reqs'[p].on
      PROVE  Overlap(q, p)' \/ (reqs'[q].dead /\ AdmitsNobody(q)')
  <2>1. Overlap(q, p) \/ (reqs[q].dead /\ AdmitsNobody(q))
    BY <1>1, <1>6 DEF ChallengeInv, Completion
  <2>2. CASE Overlap(q, p)
    BY <2>2, <1>1, <1>6 DEF Overlap
  <2>3. CASE reqs[q].dead /\ AdmitsNobody(q)
    BY <2>3, <1>1, <1>4, <1>6
  <2> QED BY <2>1, <2>2, <2>3
<1> QED BY <1>3, <1>4, <1>5, <1>6 DEF ChallengeInv

(* A challenge admits once: complete_mfa_login saves its session after it has       *)
(* consumed the challenge, so two sessions from one challenge mean that the two      *)
(* completions were under way together.                                              *)
THEOREM ChallengesAdmitOnce == Spec => []ChallengeAdmitsOnce
<1>1. Init => ChallengeInv
  <2> SUFFICES ASSUME Init PROVE ChallengeInv
    OBVIOUS
  <2>1. reqs = <<>> /\ resets = <<>> /\ challenges = <<>> /\ sessions = <<>>
    BY DEF Init
  <2>2. IsLog(<<>>) /\ DOMAIN <<>> = {}
    BY DEF IsLog
  <2> QED BY <2>1, <2>2 DEF ChallengeInv, Shape
<1>2. ChallengeInv /\ [Next]_vars => ChallengeInv'
  <2> SUFFICES ASSUME ChallengeInv, [Next]_vars PROVE ChallengeInv'
    OBVIOUS
  <2>1. CASE Call
    <3>1. CASE \E c \in DOMAIN challenges : CompleteMfaLogin(c)
      <4>1. PICK c \in DOMAIN challenges : CompleteMfaLogin(c)
        BY <3>1
      <4>2. ASSUME NEW rec
            PROVE  /\ IssueSession(rec) = <<Do("session", rec.id), SaveActor(rec)>>
                   /\ Do("session", rec.id).do = "session" /\ SaveActor(rec).do = "account"
        BY DEF IssueSession, Do, SaveActor
      <4>3. ~challenges[c].spent
        BY <4>1 DEF CompleteMfaLogin
      <4>4. \E todo :
              /\ Begin("complete_mfa_login", c, todo)
              /\ \/ \E rec, left : todo = <<SaveActor(left), Do("consume", c)>> \o IssueSession(rec)
                 \/ \E rec : todo = <<Do("consume", c)>> \o IssueSession(rec)
        BY <4>1 DEF CompleteMfaLogin
      <4>5. PICK todo :
              /\ Begin("complete_mfa_login", c, todo)
              /\ \/ \E rec, left : todo = <<SaveActor(left), Do("consume", c)>> \o IssueSession(rec)
                 \/ \E rec : todo = <<Do("consume", c)>> \o IssueSession(rec)
        BY <4>4
      <4>6. \/ \E a, x, y : /\ a.do = "account" /\ x.do = "session" /\ y.do = "account"
                            /\ todo = <<a, Do("consume", c), x, y>>
            \/ \E x, y : /\ x.do = "session" /\ y.do = "account"
                         /\ todo = <<Do("consume", c), x, y>>
        <5>1. CASE \E rec, left :
                     todo = <<SaveActor(left), Do("consume", c)>> \o IssueSession(rec)
          <6>1. PICK rec, left :
                  todo = <<SaveActor(left), Do("consume", c)>> \o IssueSession(rec)
            BY <5>1
          <6>2. todo = <<SaveActor(left), Do("consume", c)>>
                       \o <<Do("session", rec.id), SaveActor(rec)>>
            BY <6>1, <4>2
          <6>3. todo = <<SaveActor(left), Do("consume", c), Do("session", rec.id), SaveActor(rec)>>
            BY <6>2, TuplesJoined
          <6> QED BY <6>3, <4>2
        <5>2. CASE \E rec : todo = <<Do("consume", c)>> \o IssueSession(rec)
          <6>1. PICK rec : todo = <<Do("consume", c)>> \o IssueSession(rec)
            BY <5>2
          <6>2. todo = <<Do("consume", c), Do("session", rec.id), SaveActor(rec)>>
            BY <6>1, <4>2, TuplesJoined
          <6> QED BY <6>2, <4>2
        <5> QED BY <4>5, <5>1, <5>2
      <4> QED BY <4>3, <4>5, <4>6, ChallengeBegin
    <3>2. CASE ~\E c \in DOMAIN challenges : CompleteMfaLogin(c)
      <4>1. \E op, on, todo : op # "complete_mfa_login" /\ Begin(op, on, todo)
        BY <2>1, <3>2 DEF Call, CreateSustentraUser, Login, ConfirmPasswordReset, Logout,
           RequestPasswordReset, SetupMfa, ConfirmMfa, DisableMfa, CreateClient,
           UpdateClient, DeleteClient, CreateClientUser, UpdateClientUser, DeleteClientUser
      <4> QED BY <4>1, ChallengeBegin
    <3> QED BY <3>1, <3>2
  <2>2. CASE \E r \in DOMAIN reqs : Progress(r) \/ Stop(r)
    BY <2>2, ChallengeStep
  <2>3. CASE TimePasses \/ UNCHANGED vars
    <3>1. UNCHANGED <<accounts, clients, sessions, resets, challenges, reqs>>
      BY <2>3 DEF TimePasses, Expire, vars
    <3> QED BY <3>1 DEF ChallengeInv, Shape, Stage, AdmitsNobody, AdmitsOne, Overlap, Completion
  <2> QED BY <2>1, <2>2, <2>3 DEF Next
<1>3. ChallengeInv => ChallengeAdmitsOnce
  <2> SUFFICES ASSUME ChallengeInv,
                      NEW s \in DOMAIN sessions, NEW t \in DOMAIN sessions, s # t,
                      Completion(sessions[s].by), Completion(sessions[t].by),
                      reqs[sessions[s].by].on = reqs[sessions[t].by].on
               PROVE  Overlap(sessions[s].by, sessions[t].by)
    BY DEF ChallengeAdmitsOnce, Completion
  <2> DEFINE q == sessions[s].by
             r == sessions[t].by
  <2>1. q \in DOMAIN reqs /\ r \in DOMAIN reqs /\ ~AdmitsNobody(q) /\ ~AdmitsNobody(r)
    BY DEF ChallengeInv, AdmitsNobody
  <2>2. q \in Nat /\ r \in Nat
    <3>1. DOMAIN reqs = 1..Len(reqs)
      BY LenProperties DEF ChallengeInv, Shape, IsLog
    <3> HIDE DEF q, r
    <3> QED BY <3>1, <2>1
  <2>3. AdmitsOne(q)
    BY <2>1 DEF ChallengeInv, Stage
  <2>4. q # r
    BY <2>3 DEF AdmitsOne
  <2>5. q < r => Overlap(q, r)
    BY <2>1 DEF ChallengeInv
  <2>6. r < q => Overlap(r, q)
    BY <2>1 DEF ChallengeInv
  <2> QED BY <2>2, <2>4, <2>5, <2>6 DEF Overlap
<1> QED BY <1>1, <1>2, <1>3, PTL DEF Spec

--------------------------------------------------------------------------------
(* What a request still has to do is a list throughout.                            *)
LEMMA InSeqIsLog ==
  ASSUME NEW U, NEW s \in Seq(U)
  PROVE  IsLog(s)
<1> DEFINE A == {s[i] : i \in DOMAIN s}
<1>1. Len(s) \in Nat /\ DOMAIN s = 1..Len(s) /\ s = [i \in 1..Len(s) |-> s[i]]
  BY LenProperties
<1>2. \A i \in 1..Len(s) : s[i] \in A
  BY <1>1
<1> HIDE DEF A
<1>3. s \in Seq(A)
  BY <1>1, <1>2, IsASeq
<1> QED BY <1>3 DEF A, IsLog

LEMMA LogsJoin ==
  ASSUME NEW s, IsLog(s), NEW t, IsLog(t)
  PROVE  IsLog(s \o t)
<1> DEFINE A == {s[i] : i \in DOMAIN s}
           B == {t[i] : i \in DOMAIN t}
<1>1. s \in Seq(A) /\ t \in Seq(B)
  BY DEF IsLog
<1> HIDE DEF A, B
<1>2. s \in Seq(A \cup B) /\ t \in Seq(A \cup B)
  BY <1>1, SeqMonotonic
<1>3. s \o t \in Seq(A \cup B)
  BY <1>2, ConcatProperties
<1> QED BY <1>3, InSeqIsLog

LEMMA TuplesAreLogs ==
  /\ IsLog(<<>>)
  /\ \A a : IsLog(<<a>>)
  /\ \A a, b : IsLog(<<a, b>>)
  /\ \A a, b, c : IsLog(<<a, b, c>>)
<1>1. <<>> \in Seq({}) /\ \A a : <<a>> \in Seq({a})
  OBVIOUS
<1>2. \A a, b : <<a, b>> \in Seq({a, b})
  OBVIOUS
<1>3. \A a, b, c : <<a, b, c>> \in Seq({a, b, c})
  OBVIOUS
<1> QED BY <1>1, <1>2, <1>3, InSeqIsLog

LEMMA LogRest ==
  ASSUME NEW s, IsLog(s), s # <<>>
  PROVE  IsLog(Tail(s))
<1> DEFINE A == {s[i] : i \in DOMAIN s}
<1>1. s \in Seq(A)
  BY DEF IsLog
<1> HIDE DEF A
<1>2. Tail(s) \in Seq(A)
  BY <1>1, HeadTailProperties
<1> QED BY <1>2, InSeqIsLog

LEMMA LogPrefixed ==
  ASSUME NEW x, NEW s, IsLog(s)
  PROVE  IsLog(<<x>> \o s) /\ <<x>> \o s # <<>> /\ Head(<<x>> \o s) = x
<1> DEFINE A == {s[i] : i \in DOMAIN s}
           B == A \cup {x}
<1>1. s \in Seq(A) /\ <<x>> \in Seq(B) /\ A \subseteq B /\ x \in B
  BY DEF IsLog
<1> HIDE DEF A, B
<1>2. s \in Seq(B)
  BY <1>1, SeqMonotonic
<1>3. <<x>> \o s \in Seq(B) /\ Len(<<x>> \o s) = 1 + Len(s) /\ (<<x>> \o s)[1] = x
      /\ Len(s) \in Nat
  BY <1>1, <1>2, ConcatProperties, LenProperties
<1>4. <<x>> \o s # <<>>
  <2> DEFINE t == <<x>> \o s
  <2>1. t \in Seq(B) /\ Len(t) # 0
    BY <1>3
  <2> HIDE DEF t
  <2>2. t # <<>>
    BY <2>1
  <2> QED BY <2>2 DEF t
<1>5. Head(<<x>> \o s) = x
  BY <1>3, HeadTailProperties
<1> QED BY <1>3, <1>4, <1>5, InSeqIsLog

LEMMA CallsListWork ==
  ASSUME Call
  PROVE  \E op, on, todo : IsLog(todo) /\ Begin(op, on, todo)
<1>1. \A rec : IsLog(IssueSession(rec))
  BY TuplesAreLogs DEF IssueSession
<1>2. CASE \E c \in DOMAIN challenges : CompleteMfaLogin(c)
  <2>1. PICK c \in DOMAIN challenges : CompleteMfaLogin(c)
    BY <1>2
  <2>2. \E rec, item, todo :
          /\ Begin("complete_mfa_login", c, todo)
          /\ \/ todo = <<item>> \o IssueSession(rec)
             \/ \E other : todo = <<item, other>> \o IssueSession(rec)
    BY <2>1 DEF CompleteMfaLogin
  <2> QED BY <2>2, <1>1, TuplesAreLogs, LogsJoin
<1>3. CASE \E a \in RequestIds, e \in Emails, st \in {"not_given", "active", "disabled"},
             pw \in BOOLEAN : UpdateClientUser(a, e, st, pw)
  <2>1. PICK a, e, st, pw : UpdateClientUser(a, e, st, pw)
    BY <1>3
  <2> DEFINE cut == <<Do("revoke", a)>>
             first == IF st = "disabled" THEN cut ELSE <<>>
             second == IF pw THEN cut ELSE <<>>
  <2>2. \E item : Begin("update_client_user", a, first \o second \o <<item>>)
    BY <2>1 DEF UpdateClientUser
  <2>3. IsLog(first) /\ IsLog(second)
    BY TuplesAreLogs
  <2> HIDE DEF first, second
  <2>4. \A item : IsLog(first \o second \o <<item>>)
    BY <2>3, TuplesAreLogs, LogsJoin
  <2> QED BY <2>2, <2>4
<1>4. CASE ~(\/ \E c \in DOMAIN challenges : CompleteMfaLogin(c)
             \/ \E a \in RequestIds, e \in Emails, st \in {"not_given", "active", "disabled"},
                  pw \in BOOLEAN : UpdateClientUser(a, e, st, pw))
  <2>1. \E op, on, todo :
          /\ Begin(op, on, todo)
          /\ \/ \E x : todo = <<x>>
             \/ \E x, y : todo = <<x, y>>
             \/ \E x, y, z : todo = <<x, y, z>>
    <3>1. \/ \E n \in Names, e \in Emails : CreateSustentraUser(n, e)
          \/ \E k \in RequestIds, n \in Names, e \in Emails : CreateClientUser(k, n, e)
          => \E op, on, x : Begin(op, on, <<x>>)
      BY DEF CreateSustentraUser, CreateClientUser
    <3>2. (\E key \in Names \cup Emails : Login(key))
          => \E op, on, x : Begin(op, on, <<x>>) \/ \E y : Begin(op, on, <<x, y>>)
      BY DEF Login, IssueSession
    <3>3. \/ \E s \in DOMAIN sessions : Logout(s)
          \/ \E e \in Emails : RequestPasswordReset(e)
          \/ \E a \in RequestIds : SetupMfa(a)
          \/ \E a \in RequestIds : ConfirmMfa(a)
          \/ \E a \in RequestIds : DisableMfa(a)
          => \E op, on, x : Begin(op, on, <<x>>)
      BY DEF Logout, RequestPasswordReset, SetupMfa, ConfirmMfa, DisableMfa
    <3>4. (\E t \in DOMAIN resets : ConfirmPasswordReset(t))
          => \E op, on, x, y, z : Begin(op, on, <<x, y, z>>)
      BY DEF ConfirmPasswordReset
    <3>5. \/ \E c \in ClientCodes : CreateClient(c)
          \/ \E k \in RequestIds, c \in ClientCodes, st \in {"active", "inactive"} :
               UpdateClient(k, c, st)
          => \E op, on, x : Begin(op, on, <<x>>)
      BY DEF CreateClient, UpdateClient
    <3>6. \/ \E k \in RequestIds : DeleteClient(k)
          \/ \E a \in RequestIds : DeleteClientUser(a)
          => \E op, on, x, y : Begin(op, on, <<x, y>>)
      BY DEF DeleteClient, DeleteClientUser
    <3>7. \/ \E op, on, x : Begin(op, on, <<x>>)
          \/ \E op, on, x, y : Begin(op, on, <<x, y>>)
          \/ \E op, on, x, y, z : Begin(op, on, <<x, y, z>>)
      BY <1>4, <3>1, <3>2, <3>3, <3>4, <3>5, <3>6 DEF Call
    <3> QED BY <3>7
  <2> QED BY <2>1, TuplesAreLogs
<1> QED BY <1>2, <1>3, <1>4

--------------------------------------------------------------------------------
(* Ending every session.  A request that was under way when another began has met   *)
(* it; and of a living request, an older session of an account it cuts off is       *)
(* ended, or was saved by a request it met, or is on the list it works through.     *)
OnTheList(r, s) ==
  /\ reqs[r].todo # <<>> /\ Head(reqs[r].todo).do = "revoke_each"
  /\ s \in Head(reqs[r].todo).ids
OpenBefore(r, s) ==
  /\ sessions[s].account \in reqs[r].cut /\ sessions[s].by < r /\ ~sessions[s].ended

CutInv ==
  /\ Shape
  /\ \A s \in DOMAIN sessions : sessions[s].by \in DOMAIN reqs
  /\ \A r \in DOMAIN reqs : IsLog(reqs[r].todo)
  /\ \A q, r \in DOMAIN reqs : q < r /\ Running(q) => q \in reqs[r].met
  /\ \A r \in DOMAIN reqs : ~reqs[r].dead =>
       \A s \in DOMAIN sessions : OpenBefore(r, s) =>
         sessions[s].by \in reqs[r].met \/ OnTheList(r, s)

LEMMA CutBegin ==
  ASSUME CutInv, NEW op, NEW on, NEW todo, IsLog(todo), Begin(op, on, todo)
  PROVE  CutInv'
<1>1. Shape
  BY DEF CutInv
<1>2. /\ UNCHANGED stores
      /\ Me \notin DOMAIN reqs /\ DOMAIN reqs' = DOMAIN reqs \cup {Me}
      /\ IsLog(reqs')
      /\ \A q \in DOMAIN reqs' : IsRequest(reqs'[q])
      /\ \A q \in DOMAIN reqs :
           /\ reqs'[q].todo = reqs[q].todo /\ reqs'[q].cut = reqs[q].cut
           /\ reqs'[q].dead = reqs[q].dead /\ reqs[q].met \subseteq reqs'[q].met
      /\ reqs'[Me].todo = todo /\ reqs'[Me].cut = {}
      /\ \A q \in DOMAIN reqs : Running(q) => q \in reqs'[Me].met
  BY <1>1, RequestsBegin
<1>3. Shape'
  BY <1>1, <1>2 DEF Shape, stores
<1>4. \A s \in DOMAIN sessions' : sessions'[s].by \in DOMAIN reqs'
  BY <1>2 DEF CutInv, stores
<1>5. \A r \in DOMAIN reqs' : IsLog(reqs'[r].todo)
  BY <1>2 DEF CutInv
<1>6. ASSUME NEW q \in DOMAIN reqs', NEW r \in DOMAIN reqs', q < r, Running(q)'
      PROVE  q \in reqs'[r].met
  <2>0. \A i \in DOMAIN reqs : i < Me /\ i \in Nat
    BY <1>1, LenProperties DEF Shape, IsLog, Me
  <2>1. Me \in Nat
    BY <1>1, LenProperties DEF Shape, IsLog, Me
  <2>2. q \in DOMAIN reqs
    BY <2>0, <2>1, <1>2, <1>6
  <2>3. Running(q)
    BY <2>2, <1>2, <1>6 DEF Running
  <2> QED BY <2>2, <2>3, <1>2, <1>6 DEF CutInv
<1>7. ASSUME NEW r \in DOMAIN reqs', ~reqs'[r].dead,
             NEW s \in DOMAIN sessions', OpenBefore(r, s)'
      PROVE  sessions'[s].by \in reqs'[r].met \/ OnTheList(r, s)'
  <2>1. sessions' = sessions
    BY <1>2 DEF stores
  <2>2. r \in DOMAIN reqs
    BY <1>2, <1>7 DEF OpenBefore
  <2>3. OpenBefore(r, s) /\ ~reqs[r].dead
    BY <2>1, <2>2, <1>2, <1>7 DEF OpenBefore
  <2>4. OnTheList(r, s) => OnTheList(r, s)'
    BY <2>2, <1>2 DEF OnTheList
  <2> QED BY <2>1, <2>2, <2>3, <2>4, <1>2 DEF CutInv
<1> QED BY <1>3, <1>4, <1>5, <1>6, <1>7 DEF CutInv

(* The sessions after a step of a request: as before, but for one that it ended     *)
(* or saved.                                                                        *)
LEMMA SessionsAfterStep ==
  ASSUME Shape, NEW r \in DOMAIN reqs, Progress(r) \/ Stop(r),
         NEW s \in DOMAIN sessions', ~sessions'[s].ended
  PROVE  \/ /\ s \in DOMAIN sessions /\ ~sessions[s].ended
            /\ sessions'[s].account = sessions[s].account
            /\ sessions'[s].by = sessions[s].by
            /\ RevokeOne(r) => s # Newest(Item(r).ids)
         \/ sessions'[s].by = r
<1>0. IsLog(sessions) /\ \A t \in DOMAIN sessions : IsSession(sessions[t])
  BY DEF Shape
<1>1. CASE WriteSession(r)
  <2> DEFINE x == [account |-> Item(r).id, by |-> r, ended |-> FALSE]
  <2>1. sessions' = Append(sessions, x)
    BY <1>1 DEF WriteSession
  <2>2. x.by = r
    OBVIOUS
  <2>3. ~RevokeOne(r)
    BY <1>1 DEF WriteSession, RevokeOne, Due
  <2> HIDE DEF x
  <2>4. /\ DOMAIN sessions' = DOMAIN sessions \cup {Len(sessions) + 1}
        /\ \A t \in DOMAIN sessions : sessions'[t] = sessions[t]
        /\ sessions'[Len(sessions) + 1] = x
    BY <2>1, <1>0, LogAppend
  <2> QED BY <2>2, <2>3, <2>4
<1>2. CASE EndSession(r) \/ RevokeOne(r)
  <2>1. \E i : /\ sessions' = [sessions EXCEPT ![i].ended = TRUE]
               /\ RevokeOne(r) => i = Newest(Item(r).ids)
    BY <1>2 DEF EndSession, RevokeOne, Due
  <2>2. PICK i : /\ sessions' = [sessions EXCEPT ![i].ended = TRUE]
                 /\ RevokeOne(r) => i = Newest(Item(r).ids)
    BY <2>1
  <2>3. DOMAIN sessions' = DOMAIN sessions
    BY <2>2
  <2>4. s # i
    <3> SUFFICES ASSUME s = i PROVE FALSE
      OBVIOUS
    <3>1. sessions[s] = [account |-> sessions[s].account, by |-> sessions[s].by,
                         ended |-> sessions[s].ended]
      BY <2>3, <1>0 DEF IsSession
    <3>2. sessions'[s] = [sessions[s] EXCEPT !.ended = TRUE]
      BY <2>2, <2>3
    <3>3. sessions'[s].ended = TRUE
      BY <3>1, <3>2
    <3> QED BY <3>3
  <2>5. sessions'[s] = sessions[s]
    BY <2>2, <2>3, <2>4
  <2> QED BY <2>2, <2>3, <2>4, <2>5
<1>3. CASE ~(WriteSession(r) \/ EndSession(r) \/ RevokeOne(r))
  <2>1. sessions' = sessions
    BY <1>3 DEF Progress, Stop, WriteAccount, WriteClient, WriteReset, WriteChallenge,
       UseReset, ConsumeChallenge, RevokeActorSessions, Cascade, DeleteOne, stores
  <2> QED BY <2>1, <1>3
<1> QED BY <1>1, <1>2, <1>3

(* What a step makes of its own request: the list goes on, an account is noted as   *)
(* cut off together with all its sessions, and a session leaves the list only when  *)
(* it is ended.                                                                     *)
LEMMA CutOwnStep ==
  ASSUME CutInv, NEW r \in DOMAIN reqs, Progress(r)
  PROVE  /\ Running(r) /\ IsLog(reqs'[r].todo) /\ reqs'[r].dead = reqs[r].dead
         /\ RevokeActorSessions(r) =>
              /\ reqs'[r].cut = reqs[r].cut \cup {Item(r).id}
              /\ \A s \in DOMAIN sessions :
                   sessions[s].account = Item(r).id => OnTheList(r, s)'
         /\ ~RevokeActorSessions(r) => reqs'[r].cut = reqs[r].cut
         /\ RevokeOne(r) =>
              \A s \in Item(r).ids : s # Newest(Item(r).ids) => OnTheList(r, s)'
         /\ ~RevokeOne(r) => \A s : ~OnTheList(r, s)
<1>0. Shape /\ IsLog(reqs[r].todo)
  BY DEF CutInv
<1>1. Running(r) /\ reqs[r].todo # <<>>
  BY DEF Progress, WriteAccount, WriteClient, WriteSession, WriteReset, WriteChallenge,
     UseReset, ConsumeChallenge, EndSession, RevokeActorSessions, RevokeOne, Cascade,
     DeleteOne, Due, Running
<1>2. IsLog(Rest(r))
  BY <1>0, <1>1, LogRest DEF Rest
<1>3. ~RevokeOne(r) => \A s : ~OnTheList(r, s)
  BY DEF Progress, WriteAccount, WriteClient, WriteSession, WriteReset, WriteChallenge,
     UseReset, ConsumeChallenge, EndSession, RevokeActorSessions, RevokeOne, Cascade,
     DeleteOne, Due, OnTheList
<1>4. ASSUME NEW todo, Proceed(r, todo), IsLog(todo)
      PROVE  /\ IsLog(reqs'[r].todo) /\ reqs'[r].todo = todo
             /\ reqs'[r].dead = reqs[r].dead /\ reqs'[r].cut = reqs[r].cut
  <2>1. Changed(r, todo, reqs[r].cut, reqs[r].dead)
    BY <1>0, <1>4, ProceedIsATodoChange DEF Proceed, Changed
  <2> QED BY <2>1, <1>0, <1>4, TodoChanges
<1>6. CASE RevokeActorSessions(r)
  <2> DEFINE ids == {s \in DOMAIN sessions : sessions[s].account = Item(r).id}
             item == [do |-> "revoke_each", ids |-> ids]
             todo == IF ids = {} THEN Rest(r) ELSE <<item>> \o Rest(r)
  <2>1. reqs' = [reqs EXCEPT ![r].cut = @ \cup {Item(r).id}, ![r].todo = todo]
    BY <1>6 DEF RevokeActorSessions
  <2>2. item.do = "revoke_each" /\ item.ids = ids
    OBVIOUS
  <2>3. ~RevokeOne(r)
    BY <1>6 DEF RevokeActorSessions, RevokeOne, Due
  <2>4. IsLog(todo) /\ (ids # {} => todo # <<>> /\ Head(todo) = item)
    <3> HIDE DEF item, ids
    <3> QED BY <1>2, LogPrefixed
  <2> HIDE DEF item, todo
  <2>5. Changed(r, todo, reqs[r].cut \cup {Item(r).id}, reqs[r].dead)
    BY <2>1, <1>0, ProceedIsATodoChange DEF Changed
  <2>6. /\ reqs'[r].todo = todo /\ reqs'[r].cut = reqs[r].cut \cup {Item(r).id}
        /\ reqs'[r].dead = reqs[r].dead
    BY <2>5, <1>0, TodoChanges
  <2>7. ASSUME NEW s \in DOMAIN sessions, sessions[s].account = Item(r).id
        PROVE  OnTheList(r, s)'
    <3>1. s \in ids
      BY <2>7
    <3> HIDE DEF ids
    <3> QED BY <3>1, <2>2, <2>4, <2>6 DEF OnTheList
  <2> QED BY <1>1, <1>3, <1>6, <2>3, <2>4, <2>6, <2>7
<1>7. CASE RevokeOne(r)
  <2> DEFINE left == Item(r).ids \ {Newest(Item(r).ids)}
             item == [do |-> "revoke_each", ids |-> left]
             todo == IF left = {} THEN Rest(r) ELSE <<item>> \o Rest(r)
  <2>1. Proceed(r, todo)
    BY <1>7 DEF RevokeOne
  <2>2. item.do = "revoke_each" /\ item.ids = left
    OBVIOUS
  <2>3. ~RevokeActorSessions(r)
    BY <1>7 DEF RevokeActorSessions, RevokeOne, Due
  <2>4. IsLog(todo) /\ (left # {} => todo # <<>> /\ Head(todo) = item)
    <3> HIDE DEF item, left
    <3> QED BY <1>2, LogPrefixed
  <2> HIDE DEF item, todo
  <2>5. /\ IsLog(reqs'[r].todo) /\ reqs'[r].todo = todo
        /\ reqs'[r].dead = reqs[r].dead /\ reqs'[r].cut = reqs[r].cut
    BY <1>4, <2>1, <2>4
  <2>6. ASSUME NEW s \in Item(r).ids, s # Newest(Item(r).ids)
        PROVE  OnTheList(r, s)'
    <3>1. s \in left
      BY <2>6
    <3> HIDE DEF left
    <3> QED BY <3>1, <2>2, <2>4, <2>5 DEF OnTheList
  <2> QED BY <1>1, <1>7, <2>3, <2>5, <2>6
<1>8. CASE ~RevokeActorSessions(r) /\ ~RevokeOne(r)
  <2>1. \E todo : IsLog(todo) /\ Proceed(r, todo)
    <3>1. CASE WriteAccount(r) \/ WriteClient(r) \/ WriteSession(r) \/ WriteReset(r)
               \/ WriteChallenge(r) \/ UseReset(r) \/ ConsumeChallenge(r) \/ EndSession(r)
      <4>1. Proceed(r, Rest(r))
        BY <3>1 DEF WriteAccount, WriteClient, WriteSession, WriteReset, WriteChallenge,
           UseReset, ConsumeChallenge, EndSession
      <4> QED BY <4>1, <1>2
    <3>2. CASE Cascade(r)
      <4> DEFINE users == {rec \in ListActive(accounts) :
                             rec.kind = "client_user" /\ rec.client = Item(r).id}
                 item == [do |-> "delete_each", recs |-> users]
                 todo == IF users = {} THEN Rest(r) ELSE <<item>> \o Rest(r)
      <4>1. Proceed(r, todo)
        BY <3>2 DEF Cascade
      <4>2. IsLog(todo)
        <5> HIDE DEF users, item
        <5> QED BY <1>2, LogPrefixed
      <4> HIDE DEF todo
      <4> QED BY <4>1, <4>2
    <3>3. CASE DeleteOne(r)
      <4>1. PICK rec \in Item(r).recs :
              LET left == Item(r).recs \ {rec}
              IN  Proceed(r, <<Do("revoke", rec.id)>>
                             \o (IF left = {} THEN Rest(r)
                                 ELSE <<[do |-> "delete_each", recs |-> left]>> \o Rest(r)))
        BY <3>3 DEF DeleteOne
      <4> DEFINE left == Item(r).recs \ {rec}
                 item == [do |-> "delete_each", recs |-> left]
                 cut == Do("revoke", rec.id)
                 todo == <<cut>> \o (IF left = {} THEN Rest(r) ELSE <<item>> \o Rest(r))
      <4>2. Proceed(r, todo)
        BY <4>1
      <4>3. IsLog(todo)
        <5> HIDE DEF left, item, cut
        <5> QED BY <1>2, LogPrefixed
      <4> HIDE DEF todo
      <4> QED BY <4>2, <4>3
    <3> QED BY <3>1, <3>2, <3>3, <1>8 DEF Progress
  <2> QED BY <2>1, <1>1, <1>3, <1>4, <1>8
<1> QED BY <1>6, <1>7, <1>8

LEMMA CutStep ==
  ASSUME CutInv, NEW r \in DOMAIN reqs, Progress(r) \/ Stop(r)
  PROVE  CutInv'
<1>0. Shape
  BY DEF CutInv
<1>1. /\ DOMAIN reqs' = DOMAIN reqs /\ IsLog(reqs')
      /\ \A q \in DOMAIN reqs : IsRequest(reqs'[q])
      /\ \A q \in DOMAIN reqs : reqs'[q].met = reqs[q].met
      /\ \A q \in DOMAIN reqs \ {r} : reqs'[q] = reqs[q]
      /\ Stop(r) => reqs'[r].dead
  BY <1>0, OnlyItsOwnTodo
<1>2. StoreShape'
  BY <1>0, StoresKeepTheirShape
<1>3. Shape'
  BY <1>1, <1>2 DEF Shape, StoreShape
<1>4. Stop(r) => Running(r) /\ reqs'[r].todo = reqs[r].todo
  BY <1>0 DEF Stop, Shape, IsRequest
<1>5. Running(r)
  BY <1>4, CutOwnStep
<1>6. \A s \in DOMAIN sessions' : sessions'[s].by \in DOMAIN reqs'
  <2>1. CASE WriteSession(r)
    <3>1. PICK new :
            /\ DOMAIN sessions' = DOMAIN sessions \cup {new}
            /\ \A s \in DOMAIN sessions : sessions'[s].by = sessions[s].by
            /\ sessions'[new].by = r
      BY <2>1, <1>0, SessionsAreSavedByTheStep
    <3> QED BY <3>1, <1>1 DEF CutInv
  <2>2. CASE ~WriteSession(r)
    BY <2>2, <1>0, <1>1, SessionsAreSavedByTheStep DEF CutInv
  <2> QED BY <2>1, <2>2
<1>7. \A q \in DOMAIN reqs' : IsLog(reqs'[q].todo)
  BY <1>1, <1>4, CutOwnStep DEF CutInv
<1>8. \A q \in DOMAIN reqs' : Running(q)' => Running(q)
  BY <1>1, <1>5 DEF Running
<1>9. \A q, p \in DOMAIN reqs' : q < p /\ Running(q)' => q \in reqs'[p].met
  BY <1>1, <1>8 DEF CutInv
<1>10. ASSUME NEW p \in DOMAIN reqs', ~reqs'[p].dead,
              NEW s \in DOMAIN sessions', OpenBefore(p, s)'
       PROVE  sessions'[s].by \in reqs'[p].met \/ OnTheList(p, s)'
  <2> DEFINE q == sessions'[s].by
  <2>1. CASE q = r
    BY <2>1, <1>1, <1>5, <1>10 DEF CutInv, OpenBefore
  <2>2. CASE q # r
    <3>1. /\ s \in DOMAIN sessions /\ ~sessions[s].ended
          /\ sessions'[s].account = sessions[s].account
          /\ sessions'[s].by = sessions[s].by
          /\ RevokeOne(r) => s # Newest(Item(r).ids)
      BY <2>2, <1>0, <1>10, SessionsAfterStep DEF OpenBefore
    <3>2. CASE p # r
      <4>1. reqs'[p] = reqs[p]
        BY <3>2, <1>1
      <4>2. OpenBefore(p, s) /\ ~reqs[p].dead
        BY <4>1, <3>1, <1>10 DEF OpenBefore
      <4>3. sessions[s].by \in reqs[p].met \/ OnTheList(p, s)
        BY <4>2, <3>1, <1>1 DEF CutInv
      <4> QED BY <4>1, <4>3, <3>1 DEF OnTheList
    <3>3. CASE p = r
      <4>1. Progress(r) /\ ~reqs[r].dead
        BY <3>3, <1>1, <1>5, <1>10 DEF Running
      <4>2. sessions[s].account \in reqs[r].cut =>
              sessions[s].by \in reqs[r].met \/ OnTheList(r, s)
        BY <3>1, <3>3, <4>1, <1>10 DEF OpenBefore, CutInv
      <4>3. CASE RevokeActorSessions(r)
        <5>1. ~RevokeOne(r)
          BY <4>3 DEF RevokeActorSessions, RevokeOne, Due
        <5>2. reqs'[r].cut = reqs[r].cut \cup {Item(r).id}
              /\ (sessions[s].account = Item(r).id => OnTheList(r, s)')
              /\ ~OnTheList(r, s)
          BY <4>1, <4>3, <5>1, <3>1, CutOwnStep
        <5> QED BY <5>2, <4>2, <3>1, <3>3, <1>1, <1>10 DEF OpenBefore
      <4>4. CASE ~RevokeActorSessions(r)
        <5>1. /\ reqs'[r].cut = reqs[r].cut
              /\ RevokeOne(r) =>
                   \A t \in Item(r).ids : t # Newest(Item(r).ids) => OnTheList(r, t)'
              /\ ~RevokeOne(r) => ~OnTheList(r, s)
          BY <4>1, <4>4, CutOwnStep
        <5>2. OnTheList(r, s) => s \in Item(r).ids
          BY DEF OnTheList, Item
        <5> QED BY <5>1, <5>2, <4>2, <3>1, <3>3, <1>1, <1>10 DEF OpenBefore
      <4> QED BY <4>3, <4>4
    <3> QED BY <3>2, <3>3
  <2> QED BY <2>1, <2>2
<1> QED BY <1>3, <1>6, <1>7, <1>9, <1>10 DEF CutInv

(* Once a reset, a deletion or a disabling change has finished, no older session of *)
(* an account it cut off is open, unless the request that saved it overlapped it:   *)
(* _revoke_actor_sessions lists the sessions after every request that ended earlier *)
(* has saved its own.                                                               *)
THEOREM FinishedCutsAreComplete == Spec => []FinishedCutLeavesNoOldSession
<1>1. Init => CutInv
  <2> SUFFICES ASSUME Init PROVE CutInv
    OBVIOUS
  <2>1. reqs = <<>> /\ resets = <<>> /\ challenges = <<>> /\ sessions = <<>>
    BY DEF Init
  <2>2. IsLog(<<>>) /\ DOMAIN <<>> = {}
    BY DEF IsLog
  <2> QED BY <2>1, <2>2 DEF CutInv, Shape
<1>2. CutInv /\ [Next]_vars => CutInv'
  <2> SUFFICES ASSUME CutInv, [Next]_vars PROVE CutInv'
    OBVIOUS
  <2>1. CASE Call
    BY <2>1, CallsListWork, CutBegin
  <2>2. CASE \E r \in DOMAIN reqs : Progress(r) \/ Stop(r)
    BY <2>2, CutStep
  <2>3. CASE TimePasses \/ UNCHANGED vars
    <3>1. UNCHANGED <<accounts, clients, sessions, resets, challenges, reqs>>
      BY <2>3 DEF TimePasses, Expire, vars
    <3> QED BY <3>1 DEF CutInv, Shape, Running, OpenBefore, OnTheList
  <2> QED BY <2>1, <2>2, <2>3 DEF Next
<1>3. CutInv => FinishedCutLeavesNoOldSession
  BY DEF CutInv, FinishedCutLeavesNoOldSession, Finished, OpenBefore, OnTheList
<1> QED BY <1>1, <1>2, <1>3, PTL DEF Spec

--------------------------------------------------------------------------------
(* Types.  The newest of a set of versions is one of them, and what a handler saves *)
(* is a record it read or made, with some fields changed.                            *)
LEMMA NewestIsIn ==
  ASSUME NEW n \in Nat, NEW is \in SUBSET (1..n), is # {}
  PROVE  Newest(is) \in is /\ \A j \in is : j <= Newest(is)
<1> DEFINE back == {n - i : i \in is}
           R == OpToRel(<, Nat)
<1>1. back \subseteq Nat /\ back # {}
  <2>1. \A i \in is : n - i \in Nat
    OBVIOUS
  <2> QED BY <2>1
<1>2. PICK x \in back : \A y \in back : ~(<<y, x>> \in R)
  <2> HIDE DEF back, R
  <2>1. IsWellFoundedOn(R, Nat)
    BY NatLessThanWellFounded DEF R
  <2> QED BY <1>1, <2>1, WFMin
<1>3. \A y \in back : ~(y < x)
  BY <1>1, <1>2 DEF OpToRel
<1>4. PICK i \in is : x = n - i
  BY <1>2
<1>5. \A j \in is : j <= i
  <2> SUFFICES ASSUME NEW j \in is PROVE j <= i
    OBVIOUS
  <2>1. ~(n - j < n - i)
    BY <1>3, <1>4
  <2> QED BY <2>1
<1> QED BY <1>4, <1>5 DEF Newest, Operations

WorkOf(A) ==
  [do : {"account"}, rec : A] \cup [do : {"client"}, rec : Client]
  \cup [do : {"session", "reset", "challenge", "revoke", "cascade"}, id : RequestIds]
  \cup [do : {"use", "consume", "end"}, id : Nat]
  \cup [do : {"revoke_each"}, ids : SUBSET Nat]
  \cup [do : {"delete_each"}, recs : SUBSET A]

Codes == SUBSET (RequestIds \X (1..RecoveryCodes))

(* A set of accounts that does not tell a record from what a handler makes of it.  *)
Closed(A) ==
  /\ A \subseteq Account
  /\ \A rec \in A, x \in Account :
       /\ x.id = rec.id /\ x.name = rec.name
       /\ x.kind = rec.kind /\ x.bootstrap = rec.bootstrap /\ x.client = rec.client
       => x \in A

LEMMA AccountsAreClosed == Closed(Account)
  BY DEF Closed

LEMMA ItemTypes ==
  ASSUME NEW A
  PROVE  /\ \A rec \in A : [do |-> "account", rec |-> rec] \in WorkOf(A)
         /\ \A k \in Client : [do |-> "client", rec |-> k] \in WorkOf(A)
         /\ \A x \in {"session", "reset", "challenge", "revoke", "cascade"},
               i \in RequestIds : Do(x, i) \in WorkOf(A)
         /\ \A x \in {"use", "consume", "end"}, i \in Nat : Do(x, i) \in WorkOf(A)
         /\ \A is \in SUBSET Nat : [do |-> "revoke_each", ids |-> is] \in WorkOf(A)
         /\ \A rs \in SUBSET A : [do |-> "delete_each", recs |-> rs] \in WorkOf(A)
  BY DEF WorkOf, Do

LEMMA ItemFields ==
  ASSUME NEW A, NEW w \in WorkOf(A)
  PROVE  /\ w.do = "account" => w = [do |-> "account", rec |-> w.rec] /\ w.rec \in A
         /\ w.do = "client" => w.rec \in Client
         /\ w.do \in {"session", "reset", "challenge", "revoke", "cascade"} => w.id \in RequestIds
         /\ w.do \in {"use", "consume", "end"} => w.id \in Nat
         /\ w.do = "revoke_each" => w.ids \in SUBSET Nat
         /\ w.do = "delete_each" => w.recs \in SUBSET A
  BY DEF WorkOf

LEMMA Updates ==
  ASSUME NEW A, Closed(A), NEW rec \in A, NEW b \in RequestIds
  PROVE  /\ [rec EXCEPT !.by = b] \in A
         /\ \A p \in RequestIds : [rec EXCEPT !.password = p] \in A
         /\ \A sec \in RequestIds : [rec EXCEPT !.secret = sec] \in A
         /\ \A cs \in Codes : [rec EXCEPT !.mfa = TRUE, !.codes = cs] \in A
         /\ \A cs \in Codes : [rec EXCEPT !.codes = cs] \in A
         /\ [rec EXCEPT !.mfa = FALSE, !.secret = 0, !.codes = {}] \in A
         /\ [rec EXCEPT !.status = "deleted"] \in A
         /\ [rec EXCEPT !.status = "deleted", !.by = b] \in A
         /\ \A e \in Emails, st \in {"active", "disabled", "deleted"}, p \in RequestIds :
              [rec EXCEPT !.email = e, !.status = st, !.password = p] \in A
<1> DEFINE Same(x) == /\ x.id = rec.id /\ x.name = rec.name
                      /\ x.kind = rec.kind /\ x.bootstrap = rec.bootstrap
                      /\ x.client = rec.client
<1>1. rec \in Account
  BY DEF Closed
<1>2. \A x \in Account : Same(x) => x \in A
  BY DEF Closed
<1>3. [rec EXCEPT !.by = b] \in A
  <2>1. [rec EXCEPT !.by = b] \in Account
    BY <1>1 DEF Account, Codes
  <2>2. Same([rec EXCEPT !.by = b])
    BY <1>1 DEF Account
  <2> QED BY <2>1, <2>2, <1>2
<1>4. ASSUME NEW p \in RequestIds
      PROVE  [rec EXCEPT !.password = p] \in A
  <2>1. [rec EXCEPT !.password = p] \in Account
    BY <1>1 DEF Account, Codes
  <2>2. Same([rec EXCEPT !.password = p])
    BY <1>1 DEF Account
  <2> QED BY <2>1, <2>2, <1>2
<1>5. ASSUME NEW sec \in RequestIds
      PROVE  [rec EXCEPT !.secret = sec] \in A
  <2>1. [rec EXCEPT !.secret = sec] \in Account
    BY <1>1 DEF Account, Codes
  <2>2. Same([rec EXCEPT !.secret = sec])
    BY <1>1 DEF Account
  <2> QED BY <2>1, <2>2, <1>2
<1>6. ASSUME NEW cs \in Codes
      PROVE  [rec EXCEPT !.mfa = TRUE, !.codes = cs] \in A
  <2>1. [rec EXCEPT !.mfa = TRUE, !.codes = cs] \in Account
    BY <1>1 DEF Account, Codes
  <2>2. Same([rec EXCEPT !.mfa = TRUE, !.codes = cs])
    BY <1>1 DEF Account
  <2> QED BY <2>1, <2>2, <1>2
<1>7. ASSUME NEW cs \in Codes
      PROVE  [rec EXCEPT !.codes = cs] \in A
  <2>1. [rec EXCEPT !.codes = cs] \in Account
    BY <1>1 DEF Account, Codes
  <2>2. Same([rec EXCEPT !.codes = cs])
    BY <1>1 DEF Account
  <2> QED BY <2>1, <2>2, <1>2
<1>8. [rec EXCEPT !.mfa = FALSE, !.secret = 0, !.codes = {}] \in A
  <2>1. [rec EXCEPT !.mfa = FALSE, !.secret = 0, !.codes = {}] \in Account
    BY <1>1 DEF Account, Codes
  <2>2. Same([rec EXCEPT !.mfa = FALSE, !.secret = 0, !.codes = {}])
    BY <1>1 DEF Account
  <2> QED BY <2>1, <2>2, <1>2
<1>9. [rec EXCEPT !.status = "deleted"] \in A
  <2>1. [rec EXCEPT !.status = "deleted"] \in Account
    BY <1>1 DEF Account, Codes
  <2>2. Same([rec EXCEPT !.status = "deleted"])
    BY <1>1 DEF Account
  <2> QED BY <2>1, <2>2, <1>2
<1>10. [rec EXCEPT !.status = "deleted", !.by = b] \in A
  <2>1. [rec EXCEPT !.status = "deleted", !.by = b] \in Account
    BY <1>1 DEF Account, Codes
  <2>2. Same([rec EXCEPT !.status = "deleted", !.by = b])
    BY <1>1 DEF Account
  <2> QED BY <2>1, <2>2, <1>2
<1>11. ASSUME NEW e \in Emails, NEW st \in {"active", "disabled", "deleted"},
             NEW p \in RequestIds
      PROVE  [rec EXCEPT !.email = e, !.status = st, !.password = p] \in A
  <2>1. [rec EXCEPT !.email = e, !.status = st, !.password = p] \in Account
    BY <1>1 DEF Account, Codes
  <2>2. Same([rec EXCEPT !.email = e, !.status = st, !.password = p])
    BY <1>1 DEF Account
  <2> QED BY <2>1, <2>2, <1>2
<1> QED BY <1>3, <1>4, <1>5, <1>6, <1>7, <1>8, <1>9, <1>10, <1>11

(* What reading a file of records of A finds is a record of A. *)
LEMMA Found ==
  ASSUME NEW A, NEW log \in Seq(A), NEW id
  PROVE  /\ Versions(log, id) # {} =>
              /\ Newest(Versions(log, id)) \in Versions(log, id)
              /\ Latest(log, id) \in A /\ Latest(log, id).id = id
         /\ Present(log, id) => Latest(log, id) \in A /\ Latest(log, id).id = id
         /\ \A is \in SUBSET DOMAIN log : FindLatest(log, is) \subseteq A
<1>1. Len(log) \in Nat /\ DOMAIN log = 1..Len(log) /\ \A i \in 1..Len(log) : log[i] \in A
  BY LenProperties, ElementOfSeq
<1>2. ASSUME NEW is \in SUBSET DOMAIN log, is # {}
      PROVE  Newest(is) \in is
  BY <1>1, <1>2, NewestIsIn
<1>3. Versions(log, id) \subseteq DOMAIN log
  BY DEF Versions
<1>4. ASSUME Versions(log, id) # {}
      PROVE  /\ Newest(Versions(log, id)) \in Versions(log, id)
             /\ Latest(log, id) \in A /\ Latest(log, id).id = id
  <2>1. Newest(Versions(log, id)) \in Versions(log, id)
    BY <1>2, <1>3, <1>4
  <2> QED BY <1>1, <1>3, <2>1 DEF Latest, Versions
<1>5. ASSUME NEW is \in SUBSET DOMAIN log
      PROVE  FindLatest(log, is) \subseteq A
  <2>1. CASE is = {}
    BY <2>1 DEF FindLatest
  <2>2. CASE is # {}
    <3>1. Newest(is) \in is
      BY <1>2, <2>2
    <3> QED BY <1>1, <2>2, <3>1 DEF FindLatest
  <2> QED BY <2>1, <2>2
<1> QED BY <1>4, <1>5 DEF Present, Operations

LEMMA ListedAreFound ==
  ASSUME NEW A, NEW log \in Seq(A)
  PROVE  ListActive(log) \subseteq A
<1>1. ASSUME NEW i \in DOMAIN log
      PROVE  Latest(log, log[i].id) \in A
  <2>1. Versions(log, log[i].id) # {}
    BY DEF Versions
  <2> QED BY <2>1, Found
<1> QED BY <1>1 DEF ListActive

LEMMA LoginFinds ==
  ASSUME NEW A, accounts \in Seq(A), NEW key
  PROVE  FindLoginRecord(key) \subseteq A
<1>1. \A kind : FindLogin(kind, key) \subseteq A
  BY Found DEF FindLogin
<1> QED BY <1>1 DEF FindLoginRecord

LEMMA WorkIsTyped ==
  ASSUME NEW A, Closed(A), Me \in RequestIds
  PROVE  /\ \A rec \in A : SaveActor(rec) \in WorkOf(A)
         /\ \A k \in Client : SaveClientRecord(k) \in WorkOf(A)
         /\ \A rec \in A : IssueSession(rec) \in Seq(WorkOf(A))
<1>1. ASSUME NEW rec \in A
      PROVE  SaveActor(rec) \in WorkOf(A)
  BY Updates, ItemTypes DEF SaveActor
<1>2. ASSUME NEW k \in Client
      PROVE  SaveClientRecord(k) \in WorkOf(A)
  <2>1. [k EXCEPT !.by = Me] \in Client
    BY DEF Client
  <2> QED BY <2>1, ItemTypes DEF SaveClientRecord
<1>3. ASSUME NEW rec \in A
      PROVE  IssueSession(rec) \in Seq(WorkOf(A))
  <2>1. rec.id \in RequestIds
    BY DEF Closed, Account
  <2>2. Do("session", rec.id) \in WorkOf(A)
    BY <2>1, ItemTypes
  <2> QED BY <2>2, <1>1 DEF IssueSession
<1> QED BY <1>1, <1>2, <1>3

(* What a call is to save, beside the files as it read them.  An account that was   *)
(* there, in its newest version but for what the operation is there to change, or,  *)
(* of a login, an account that was renamed; an account or client under a name or a  *)
(* code that no record was found by, or under its own.                              *)
Fields == {"name", "email", "password", "status", "secret", "mfa", "codes", "client", "kind"}
Agree(op, x, y) == \A f \in Fields \ Owned(op) : x[f] = y[f]
NamesStay ==
  \A i, j \in DOMAIN accounts : accounts[i].id = accounts[j].id =>
    accounts[i].name = accounts[j].name /\ accounts[i].kind = accounts[j].kind
Read(op, x) ==
  /\ x.by = Me /\ Versions(accounts, x.id) # {}
  /\ \/ Present(accounts, x.id) /\ Agree(op, x, Latest(accounts, x.id))
     \/ op = "login" /\ (NamesStay => Renamed(x.id))
ReadClient(x) ==
  /\ x.by = Me /\ x.status # "deleted"
  /\ \/ Present(clients, x.id) /\ Latest(clients, x.id).code = x.code
     \/ FindCode(x.code, {}) = {} \/ FindCode(x.code, {x.id}) = {}
OwnWork(A, op) ==
  {w \in WorkOf(A) : /\ w.do \notin {"client", "cascade", "delete_each"}
                     /\ w.do = "account" => Read(op, w.rec)}
Creation(op, todo) ==
  \E name \in Names, email \in Emails :
    /\ \/ /\ op = "create_sustentra_user"
          /\ todo = <<SaveActor(NewAccount("sustentra_user", name, email, 0))>>
       \/ /\ op = "create_client_user"
          /\ \E k \in RequestIds :
               /\ Present(clients, k)
               /\ todo = <<SaveActor(NewAccount("client_user", name, email, k))>>
Change(op, todo) ==
  /\ op \in {"create_client", "update_client"}
  /\ \E x \in Client : ReadClient(x) /\ todo = <<[do |-> "client", rec |-> x]>>
Deletion(op, todo) ==
  /\ op = "delete_client"
  /\ \E k \in RequestIds :
       /\ Present(clients, k)
       /\ todo = <<SaveClientRecord([Latest(clients, k) EXCEPT !.status = "deleted"]),
                   Do("cascade", k)>>

LEMMA AgreeByField ==
  ASSUME NEW op, NEW x, NEW y,
         x.name = y.name, x.kind = y.kind, x.client = y.client,
         x.email = y.email \/ "email" \in Owned(op),
         x.password = y.password \/ "password" \in Owned(op),
         x.status = y.status \/ "status" \in Owned(op),
         x.secret = y.secret \/ "secret" \in Owned(op),
         x.mfa = y.mfa \/ "mfa" \in Owned(op),
         x.codes = y.codes \/ "codes" \in Owned(op)
  PROVE  Agree(op, x, y)
  BY DEF Agree, Fields

(* A login finds the newest version of an account that has had one address only.    *)
LEMMA LoginFindsNewest ==
  ASSUME accounts \in Seq(Account), NEW key, NEW rec \in FindLoginRecord(key)
  PROVE  /\ Versions(accounts, rec.id) # {}
         /\ NamesStay /\ ~Renamed(rec.id) =>
              rec = Latest(accounts, rec.id) /\ Present(accounts, rec.id)
<1>1. Len(accounts) \in Nat /\ DOMAIN accounts = 1..Len(accounts)
  BY LenProperties
<1>2. PICK kind : rec \in FindLogin(kind, key)
  BY DEF FindLoginRecord
<1> DEFINE is == {i \in DOMAIN accounts :
                    accounts[i].kind = kind /\ key \in {accounts[i].name, accounts[i].email}}
           n == Newest(is)
           vs == Versions(accounts, rec.id)
           m == Newest(vs)
<1>3. is # {} /\ rec = accounts[n] /\ rec.status # "deleted"
  BY <1>2 DEF FindLogin, FindLatest
<1>4. n \in is /\ \A j \in is : j <= n
  <2>1. is \in SUBSET (1..Len(accounts))
    BY <1>1
  <2> HIDE DEF is
  <2> QED BY <1>1, <1>3, <2>1, NewestIsIn
<1>5. n \in vs
  BY <1>3, <1>4 DEF Versions
<1>6. m \in vs /\ \A j \in vs : j <= m
  <2>1. vs \in SUBSET (1..Len(accounts)) /\ vs # {}
    BY <1>1, <1>5 DEF Versions
  <2> HIDE DEF vs
  <2> QED BY <1>1, <2>1, NewestIsIn
<1>7. ASSUME NamesStay, ~Renamed(rec.id)
      PROVE  rec = Latest(accounts, rec.id)
  <2>1. m \in DOMAIN accounts /\ n \in DOMAIN accounts /\ accounts[m].id = accounts[n].id
    BY <1>3, <1>4, <1>6 DEF Versions
  <2>2. accounts[m].email = accounts[n].email
    <3> HIDE DEF m, n
    <3> QED BY <1>5, <1>6, <1>7 DEF Renamed
  <2>3. accounts[m].name = accounts[n].name /\ accounts[m].kind = accounts[n].kind
    <3> HIDE DEF m, n
    <3> QED BY <2>1, <1>7 DEF NamesStay
  <2>4. m \in is
    <3> HIDE DEF m, n
    <3> QED BY <2>1, <2>2, <2>3, <1>4
  <2>5. m <= n /\ n <= m /\ m \in Nat /\ n \in Nat
    BY <2>1, <2>4, <1>1, <1>4, <1>5, <1>6
  <2>6. m = n
    <3> HIDE DEF m, n
    <3> QED BY <2>5
  <2> QED BY <2>6, <1>3 DEF Latest
<1> QED BY <1>3, <1>5, <1>7 DEF Present

(* What a call begins with: one new account, the deletion of a client, or work about *)
(* what it read.                                                                     *)
LEMMA CallsSaveTheirOwn ==
  ASSUME TypeOK, NEW A, Closed(A), accounts \in Seq(A), Call
  PROVE  \E op, on, todo :
           /\ op \in Operations /\ on \in Nat /\ Begin(op, on, todo)
           /\ \/ Creation(op, todo) \/ Change(op, todo) \/ Deletion(op, todo)
              \/ op # "delete_client" /\ todo \in Seq(OwnWork(A, op))
<1> DEFINE W(op) == OwnWork(A, op)
           Begun == \E op, on, todo :
                      /\ op \in Operations /\ on \in Nat /\ Begin(op, on, todo)
                      /\ \/ Creation(op, todo) \/ Change(op, todo) \/ Deletion(op, todo)
                         \/ op # "delete_client" /\ todo \in Seq(W(op))
<1>0. /\ Me \in RequestIds /\ RequestIds \subseteq Nat
      /\ DOMAIN sessions \subseteq Nat /\ DOMAIN resets \subseteq Nat
      /\ DOMAIN challenges \subseteq Nat
      /\ \A t \in DOMAIN resets : resets[t].account \in RequestIds
      /\ \A c \in DOMAIN challenges : challenges[c].account \in RequestIds
  <2>1. Len(reqs) \in Nat /\ Len(reqs) < MaxRequests
    BY LenProperties DEF Call, TypeOK
  <2>2. Me \in RequestIds /\ RequestIds \subseteq Nat
    BY <2>1, IdentityBounds DEF Me, RequestIds
  <2>3. /\ DOMAIN sessions \subseteq Nat /\ DOMAIN resets \subseteq Nat
        /\ DOMAIN challenges \subseteq Nat
    BY LenProperties DEF TypeOK
  <2>4. /\ \A t \in DOMAIN resets : resets[t] \in Token
        /\ \A c \in DOMAIN challenges : challenges[c] \in Token
    BY ElementOfSeq, LenProperties DEF TypeOK
  <2> QED BY <2>2, <2>3, <2>4 DEF Token
<1>1. /\ \A rec \in A : rec \in Account /\ rec.id \in RequestIds
      /\ \A a : Present(accounts, a) =>
           /\ Latest(accounts, a) \in A /\ Latest(accounts, a).id = a
           /\ Versions(accounts, a) # {}
      /\ \A k : Present(clients, k) => Latest(clients, k) \in Client /\ Latest(clients, k).id = k
      /\ \A key : FindLoginRecord(key) \subseteq A
      /\ \A a : MayAct(a) => Present(accounts, a)
  <2>1. \A rec \in A : rec \in Account /\ rec.id \in RequestIds
    BY DEF Closed, Account
  <2> QED BY <2>1, Found, LoginFinds DEF TypeOK, MayAct, Resolves, Present
<1>2. ASSUME NEW op
      PROVE  /\ \A x \in {"session", "reset", "challenge", "revoke"}, i \in RequestIds :
                  Do(x, i) \in W(op)
             /\ \A x \in {"use", "consume", "end"}, i \in Nat : Do(x, i) \in W(op)
  <2>1. \A x, i : Do(x, i).do = x
    BY DEF Do
  <2> QED BY <2>1, ItemTypes DEF OwnWork
<1>3. ASSUME NEW op, NEW rec \in A, Versions(accounts, rec.id) # {},
             \/ Present(accounts, rec.id) /\ Agree(op, rec, Latest(accounts, rec.id))
             \/ op = "login" /\ (NamesStay => Renamed(rec.id))
      PROVE  SaveActor(rec) \in W(op) /\ IssueSession(rec) \in Seq(W(op))
  <2> DEFINE x == [rec EXCEPT !.by = Me]
  <2>1. x \in A /\ x.id = rec.id /\ x.by = Me
    BY <1>0, <1>1, Updates DEF Account
  <2>2. Agree(op, rec, Latest(accounts, rec.id)) => Agree(op, x, Latest(accounts, rec.id))
    <3>1. rec \in Account
      BY <1>1
    <3>2. \A f \in Fields : x[f] = rec[f]
      BY <3>1 DEF Fields, Account
    <3> HIDE DEF x
    <3> QED BY <3>2 DEF Agree
  <2> HIDE DEF x
  <2>3. Read(op, x)
    BY <2>1, <2>2, <1>3 DEF Read
  <2>4. [do |-> "account", rec |-> x] \in W(op)
    <3> DEFINE w == [do |-> "account", rec |-> x]
    <3>1. w \in WorkOf(A)
      BY <2>1, ItemTypes
    <3> QED BY <3>1, <2>3 DEF OwnWork
  <2>5. SaveActor(rec) \in W(op)
    BY <2>4 DEF SaveActor, x
  <2>6. Do("session", rec.id) \in W(op)
    BY <1>1, <1>2
  <2> HIDE DEF W
  <2> QED BY <2>5, <2>6 DEF IssueSession
<1>4. ASSUME NEW op
      PROVE  /\ \A x \in W(op) : <<x>> \in Seq(W(op))
             /\ \A x \in W(op), y \in W(op) : <<x, y>> \in Seq(W(op))
             /\ \A x \in W(op), y \in W(op), z \in W(op) : <<x, y, z>> \in Seq(W(op))
  <2> HIDE DEF W
  <2> QED OBVIOUS
<1>5. ASSUME NEW op \in Operations, NEW on \in Nat, NEW todo, Begin(op, on, todo),
             \/ Creation(op, todo) \/ Change(op, todo) \/ Deletion(op, todo)
             \/ op # "delete_client" /\ todo \in Seq(W(op))
      PROVE  Begun
  BY <1>5
<1> HIDE DEF W, Begun
<1>6. ASSUME NEW n \in Names, NEW e \in Emails, CreateSustentraUser(n, e)
      PROVE  Begun
  <2> DEFINE op == "create_sustentra_user"
             todo == <<SaveActor(NewAccount("sustentra_user", n, e, 0))>>
  <2>1. Begin(op, Me, todo)
    BY <1>6 DEF CreateSustentraUser
  <2>2. Creation(op, todo)
    BY <1>6 DEF Creation, CreateSustentraUser
  <2>3. op \in Operations /\ Me \in Nat
    BY <1>0 DEF Operations
  <2> HIDE DEF op, todo
  <2> QED BY <2>1, <2>2, <2>3, <1>5
<1>7. ASSUME NEW key, Login(key)
      PROVE  Begun
  <2>1. PICK rec \in FindLoginRecord(key) :
          Begin("login", rec.id,
                IF rec.mfa THEN <<Do("challenge", rec.id)>> ELSE IssueSession(rec))
    BY <1>7 DEF Login
  <2>2. rec \in A /\ rec.id \in RequestIds /\ rec.id \in Nat
    BY <1>0, <1>1
  <2>3. /\ Versions(accounts, rec.id) # {}
        /\ NamesStay /\ ~Renamed(rec.id) =>
             rec = Latest(accounts, rec.id) /\ Present(accounts, rec.id)
    BY LoginFindsNewest DEF TypeOK
  <2>4. IssueSession(rec) \in Seq(W("login"))
    <3>1. Agree("login", rec, rec)
      BY DEF Agree
    <3> QED BY <3>1, <2>2, <2>3, <1>3
  <2>5. <<Do("challenge", rec.id)>> \in Seq(W("login"))
    BY <2>2, <1>2, <1>4
  <2> QED BY <2>1, <2>2, <2>4, <2>5, <1>5 DEF Operations
<1>8. ASSUME NEW c \in DOMAIN challenges, CompleteMfaLogin(c)
      PROVE  Begun
  <2> DEFINE op == "complete_mfa_login"
             rec == Latest(accounts, challenges[c].account)
  <2>1. /\ rec \in A /\ c \in Nat /\ op \in Operations
        /\ Versions(accounts, rec.id) # {} /\ rec = Latest(accounts, rec.id)
        /\ Present(accounts, rec.id)
    BY <1>0, <1>1, <1>8 DEF CompleteMfaLogin, Operations
  <2>2. Do("consume", c) \in W(op) /\ <<Do("consume", c)>> \in Seq(W(op))
    BY <2>1, <1>2, <1>4
  <2>3. CASE Begin(op, c, <<Do("consume", c)>> \o IssueSession(rec))
    <3>1. Agree(op, rec, Latest(accounts, rec.id))
      BY <2>1 DEF Agree
    <3>2. IssueSession(rec) \in Seq(W(op))
      BY <3>1, <2>1, <1>3
    <3>3. <<Do("consume", c)>> \o IssueSession(rec) \in Seq(W(op))
      BY <3>2, <2>2, ConcatProperties
    <3> QED BY <3>3, <2>1, <2>3, <1>5
  <2>4. CASE \E code \in rec.codes :
               LET left == [rec EXCEPT !.codes = @ \ {code}]
               IN  Begin(op, c, <<SaveActor(left), Do("consume", c)>> \o IssueSession(left))
    <3>1. PICK code \in rec.codes :
            LET left == [rec EXCEPT !.codes = @ \ {code}]
            IN  Begin(op, c, <<SaveActor(left), Do("consume", c)>> \o IssueSession(left))
      BY <2>4
    <3> DEFINE left == [rec EXCEPT !.codes = rec.codes \ {code}]
    <3>2. Begin(op, c, <<SaveActor(left), Do("consume", c)>> \o IssueSession(left))
      BY <3>1
    <3>3. left \in A
      <4>1. rec.codes \in Codes
        BY <2>1, <1>1 DEF Account, Codes
      <4>2. rec.codes \ {code} \in Codes
        BY <4>1 DEF Codes
      <4> HIDE DEF rec
      <4> QED BY <4>2, <2>1, <1>0, Updates
    <3>4. left.id = rec.id /\ Agree(op, left, rec)
      <4>1. rec \in Account
        BY <2>1, <1>1
      <4> HIDE DEF rec
      <4>2. /\ left.id = rec.id /\ left.name = rec.name /\ left.kind = rec.kind
            /\ left.client = rec.client /\ left.email = rec.email
            /\ left.password = rec.password /\ left.status = rec.status
            /\ left.secret = rec.secret /\ left.mfa = rec.mfa
        BY <4>1 DEF Account
      <4>3. "codes" \in Owned(op)
        BY DEF Owned
      <4> HIDE DEF left
      <4> QED BY <4>2, <4>3, AgreeByField
    <3> HIDE DEF left
    <3>5. SaveActor(left) \in W(op) /\ IssueSession(left) \in Seq(W(op))
      <4> HIDE DEF rec, op
      <4> QED BY <3>3, <3>4, <2>1, <1>3
    <3>6. <<SaveActor(left), Do("consume", c)>> \in Seq(W(op))
      BY <3>5, <2>2, <1>4
    <3>7. <<SaveActor(left), Do("consume", c)>> \o IssueSession(left) \in Seq(W(op))
      BY <3>5, <3>6, ConcatProperties
    <3> QED BY <3>2, <3>7, <2>1, <1>5
  <2> QED BY <2>3, <2>4, <1>8 DEF CompleteMfaLogin
<1>9. ASSUME NEW s \in DOMAIN sessions, Logout(s)
      PROVE  Begun
  <2>1. s \in Nat /\ <<Do("end", s)>> \in Seq(W("logout"))
    BY <1>0, <1>2, <1>4
  <2> QED BY <2>1, <1>5, <1>9 DEF Logout, Operations
<1>10. ASSUME NEW e \in Emails, RequestPasswordReset(e)
       PROVE  Begun
  <2>1. PICK rec \in FindLoginRecord(e) :
          Begin("request_password_reset", rec.id, <<Do("reset", rec.id)>>)
    BY <1>10 DEF RequestPasswordReset
  <2>2. rec.id \in RequestIds /\ rec.id \in Nat
    BY <1>0, <1>1
  <2>3. <<Do("reset", rec.id)>> \in Seq(W("request_password_reset"))
    BY <2>2, <1>2, <1>4
  <2> QED BY <2>1, <2>2, <2>3, <1>5 DEF Operations
<1>11. ASSUME NEW t \in DOMAIN resets, ConfirmPasswordReset(t)
       PROVE  Begun
  <2> DEFINE op == "confirm_password_reset"
             a == resets[t].account
             old == Latest(accounts, a)
             rec == [old EXCEPT !.password = Me]
  <2>1. /\ old \in A /\ old.id = a /\ a \in RequestIds /\ t \in Nat
        /\ Versions(accounts, a) # {} /\ Present(accounts, a)
    BY <1>0, <1>1, <1>11 DEF ConfirmPasswordReset
  <2>2. Begin(op, t, <<SaveActor(rec), Do("use", t), Do("revoke", a)>>)
    BY <1>11 DEF ConfirmPasswordReset
  <2>3. SaveActor(rec) \in W(op)
    <3>1. old \in Account
      BY <2>1, <1>1
    <3> HIDE DEF old
    <3>2. rec \in A
      BY <2>1, <1>0, Updates
    <3>3. /\ rec.id = old.id /\ rec.name = old.name /\ rec.kind = old.kind
          /\ rec.client = old.client /\ rec.email = old.email /\ rec.status = old.status
          /\ rec.secret = old.secret /\ rec.mfa = old.mfa /\ rec.codes = old.codes
      BY <3>1 DEF Account
    <3>4. "password" \in Owned(op)
      BY DEF Owned
    <3> HIDE DEF rec, op
    <3>5. Agree(op, rec, old)
      BY <3>3, <3>4, AgreeByField
    <3> QED BY <3>2, <3>3, <3>5, <2>1, <1>3 DEF old
  <2>4. /\ Do("use", t) \in W(op) /\ Do("revoke", a) \in W(op)
        /\ op \in Operations /\ op # "delete_client"
    BY <2>1, <1>2 DEF Operations
  <2> HIDE DEF rec, a, op
  <2>5. <<SaveActor(rec), Do("use", t), Do("revoke", a)>> \in Seq(W(op))
    BY <2>3, <2>4, <1>4
  <2> QED BY <2>1, <2>2, <2>4, <2>5, <1>5
<1>12. ASSUME NEW a \in RequestIds, SetupMfa(a) \/ ConfirmMfa(a) \/ DisableMfa(a)
       PROVE  Begun
  <2> DEFINE old == Latest(accounts, a)
             codes == {Me} \X (1..RecoveryCodes)
  <2>1. PICK op, rec :
          /\ Begin(op, a, <<SaveActor(rec)>>)
          /\ \/ op = "setup_mfa" /\ rec = [old EXCEPT !.secret = Me]
             \/ op = "confirm_mfa" /\ rec = [old EXCEPT !.mfa = TRUE, !.codes = codes]
             \/ op = "disable_mfa" /\ rec = [old EXCEPT !.mfa = FALSE, !.secret = 0, !.codes = {}]
    BY <1>12 DEF SetupMfa, ConfirmMfa, DisableMfa
  <2>2. /\ old \in A /\ old.id = a /\ Versions(accounts, a) # {} /\ old \in Account
        /\ Present(accounts, a)
    BY <1>1, <1>12 DEF SetupMfa, ConfirmMfa, DisableMfa
  <2>3. codes \in Codes
    BY <1>0 DEF Codes
  <2> HIDE DEF codes
  <2>4. SaveActor(rec) \in W(op) /\ op \in Operations
    <3> HIDE DEF old
    <3>1. rec \in A
      <4>1. /\ [old EXCEPT !.secret = Me] \in A
            /\ [old EXCEPT !.mfa = TRUE, !.codes = codes] \in A
            /\ [old EXCEPT !.mfa = FALSE, !.secret = 0, !.codes = {}] \in A
        BY <2>2, <2>3, <1>0, Updates
      <4> QED BY <4>1, <2>1
    <3>2. /\ rec.id = old.id /\ rec.name = old.name /\ rec.kind = old.kind
          /\ rec.client = old.client /\ rec.email = old.email /\ rec.status = old.status
          /\ rec.password = old.password
          /\ rec.secret = old.secret \/ op \in {"setup_mfa", "disable_mfa"}
          /\ rec.mfa = old.mfa \/ op \in {"confirm_mfa", "disable_mfa"}
          /\ rec.codes = old.codes \/ op \in {"confirm_mfa", "disable_mfa"}
      BY <2>1, <2>2 DEF Account
    <3>3. /\ op \in {"setup_mfa", "disable_mfa"} => "secret" \in Owned(op)
          /\ op \in {"confirm_mfa", "disable_mfa"} => "mfa" \in Owned(op) /\ "codes" \in Owned(op)
      BY DEF Owned
    <3>4. Agree(op, rec, old)
      BY <3>2, <3>3, AgreeByField
    <3>5. SaveActor(rec) \in W(op)
      BY <3>1, <3>2, <3>4, <2>2, <1>3 DEF old
    <3> QED BY <3>5, <2>1 DEF Operations
  <2>5. <<SaveActor(rec)>> \in Seq(W(op))
    BY <2>4, <1>4
  <2> QED BY <2>1, <2>4, <2>5, <1>0, <1>5
<1>13. ASSUME NEW op \in {"create_client", "update_client"}, NEW k \in Client,
              ReadClient([k EXCEPT !.by = Me])
       PROVE  Change(op, <<SaveClientRecord(k)>>)
  <2>1. [k EXCEPT !.by = Me] \in Client
    BY <1>0 DEF Client
  <2> QED BY <2>1, <1>13 DEF Change, SaveClientRecord
<1>14. ASSUME NEW c \in ClientCodes, CreateClient(c)
       PROVE  Begun
  <2> DEFINE k == [id |-> Me, code |-> c, status |-> "active", by |-> Me]
  <2>1. k \in Client /\ [k EXCEPT !.by = Me] = k
    BY <1>0 DEF Client
  <2>2. ReadClient(k)
    BY <1>14 DEF ReadClient, CreateClient
  <2>3. Begin("create_client", Me, <<SaveClientRecord(k)>>)
    BY <1>14 DEF CreateClient
  <2> HIDE DEF k
  <2>4. Change("create_client", <<SaveClientRecord(k)>>)
    BY <2>1, <2>2, <1>13
  <2> QED BY <2>3, <2>4, <1>0, <1>5 DEF Operations
<1>15. ASSUME NEW k \in RequestIds,
              \/ DeleteClient(k)
              \/ \E c \in ClientCodes, st \in {"active", "inactive"} : UpdateClient(k, c, st)
       PROVE  Begun
  <2> DEFINE old == Latest(clients, k)
  <2>1. CASE DeleteClient(k)
    <3>1. /\ Begin("delete_client", k,
                   <<SaveClientRecord([old EXCEPT !.status = "deleted"]), Do("cascade", k)>>)
          /\ Present(clients, k)
      BY <2>1 DEF DeleteClient
    <3> QED BY <3>1, <1>0, <1>5 DEF Deletion, Operations
  <2>2. CASE \E c \in ClientCodes, st \in {"active", "inactive"} : UpdateClient(k, c, st)
    <3>1. PICK c \in ClientCodes, st \in {"active", "inactive"} : UpdateClient(k, c, st)
      BY <2>2
    <3> DEFINE rec == [old EXCEPT !.code = c, !.status = st]
               new == [rec EXCEPT !.by = Me]
    <3>2. old \in Client /\ Present(clients, k) /\ old.id = k
      BY <3>1, <1>1 DEF UpdateClient
    <3>3. /\ Begin("update_client", k, <<SaveClientRecord(rec)>>)
          /\ c = old.code \/ FindCode(c, {k}) = {}
      BY <3>1 DEF UpdateClient
    <3>4. rec \in Client /\ rec.id = k /\ rec.code = c /\ rec.status = st
      <4> HIDE DEF old
      <4> QED BY <3>2 DEF Client
    <3>5. /\ new.id = rec.id /\ new.code = rec.code /\ new.status = rec.status
          /\ new.by = Me
      <4> HIDE DEF rec
      <4> QED BY <3>4 DEF Client
    <3> HIDE DEF rec, new
    <3>6. ReadClient(new)
      BY <3>2, <3>3, <3>4, <3>5 DEF ReadClient
    <3>7. Change("update_client", <<SaveClientRecord(rec)>>)
      BY <3>4, <3>6, <1>13 DEF new
    <3> QED BY <3>3, <3>7, <1>0, <1>5 DEF Operations
  <2> QED BY <2>1, <2>2, <1>15
<1>16. ASSUME NEW k \in RequestIds, NEW n \in Names, NEW e \in Emails, CreateClientUser(k, n, e)
       PROVE  Begun
  <2> DEFINE op == "create_client_user"
             todo == <<SaveActor(NewAccount("client_user", n, e, k))>>
  <2>1. Begin(op, Me, todo)
    BY <1>16 DEF CreateClientUser
  <2>2. Creation(op, todo)
    BY <1>16 DEF Creation, CreateClientUser
  <2>3. op \in Operations /\ Me \in Nat
    BY <1>0 DEF Operations
  <2> HIDE DEF op, todo
  <2> QED BY <2>1, <2>2, <2>3, <1>5
<1>17. ASSUME NEW a \in RequestIds, NEW e \in Emails,
              NEW st \in {"not_given", "active", "disabled"}, NEW pw \in BOOLEAN,
              UpdateClientUser(a, e, st, pw)
       PROVE  Begun
  <2> DEFINE op == "update_client_user"
             old == Latest(accounts, a)
             status == IF st = "not_given" THEN old.status ELSE st
             password == IF pw THEN Me ELSE old.password
             rec == [old EXCEPT !.email = e, !.status = status, !.password = password]
             cut == <<Do("revoke", a)>>
             first == IF st = "disabled" THEN cut ELSE <<>>
             second == IF pw THEN cut ELSE <<>>
  <2>1. Begin(op, a, first \o second \o <<SaveActor(rec)>>)
    BY <1>17 DEF UpdateClientUser
  <2>2. /\ old \in A /\ old.id = a /\ Versions(accounts, a) # {} /\ old \in Account
        /\ Present(accounts, a)
    BY <1>1, <1>17 DEF UpdateClientUser, IsClientUser
  <2>3. /\ status \in {"active", "disabled", "deleted"} /\ password \in RequestIds
    BY <2>2, <1>0 DEF Account
  <2>4. SaveActor(rec) \in W(op)
    <3> HIDE DEF old, status, password
    <3>1. rec \in A
      BY <2>2, <2>3, <1>0, Updates
    <3>2. /\ rec.id = old.id /\ rec.name = old.name /\ rec.kind = old.kind
          /\ rec.client = old.client /\ rec.secret = old.secret /\ rec.mfa = old.mfa
          /\ rec.codes = old.codes
      BY <2>2 DEF Account
    <3>3. "email" \in Owned(op) /\ "status" \in Owned(op) /\ "password" \in Owned(op)
      BY DEF Owned
    <3> HIDE DEF rec, op
    <3>4. Agree(op, rec, old)
      BY <3>2, <3>3, AgreeByField
    <3> QED BY <3>1, <3>2, <3>4, <2>2, <1>3 DEF old
  <2>5. first \in Seq(W(op)) /\ second \in Seq(W(op))
    <3>1. cut \in Seq(W(op))
      BY <1>2, <1>4
    <3>2. <<>> \in Seq(W(op))
      BY EmptySeq
    <3> HIDE DEF cut
    <3> QED BY <3>1, <3>2
  <2>6. op \in Operations /\ op # "delete_client"
    BY DEF Operations
  <2> HIDE DEF rec, first, second, op
  <2>7. <<SaveActor(rec)>> \in Seq(W(op))
    BY <2>4, <1>4
  <2>8. first \o second \o <<SaveActor(rec)>> \in Seq(W(op))
    BY <2>5, <2>7, ConcatProperties
  <2> QED BY <2>1, <2>6, <2>8, <1>0, <1>5
<1>18. ASSUME NEW a \in RequestIds, DeleteClientUser(a)
       PROVE  Begun
  <2> DEFINE op == "delete_client_user"
             old == Latest(accounts, a)
             rec == [old EXCEPT !.status = "deleted"]
  <2>1. /\ old \in A /\ old.id = a /\ Versions(accounts, a) # {} /\ old \in Account
        /\ Present(accounts, a)
    BY <1>1, <1>18 DEF DeleteClientUser, IsClientUser
  <2>2. Begin(op, a, <<SaveActor(rec), Do("revoke", a)>>)
    BY <1>18 DEF DeleteClientUser
  <2>3. SaveActor(rec) \in W(op)
    <3> HIDE DEF old
    <3>1. rec \in A
      BY <2>1, <1>0, Updates
    <3>2. /\ rec.id = old.id /\ rec.name = old.name /\ rec.kind = old.kind
          /\ rec.client = old.client /\ rec.email = old.email
          /\ rec.password = old.password /\ rec.secret = old.secret
          /\ rec.mfa = old.mfa /\ rec.codes = old.codes
      BY <2>1 DEF Account
    <3>3. "status" \in Owned(op)
      BY DEF Owned
    <3> HIDE DEF rec, op
    <3>4. Agree(op, rec, old)
      BY <3>2, <3>3, AgreeByField
    <3> QED BY <3>1, <3>2, <3>4, <2>1, <1>3 DEF old
  <2>4. Do("revoke", a) \in W(op) /\ op \in Operations /\ op # "delete_client"
    BY <1>2 DEF Operations
  <2> HIDE DEF rec, op
  <2>5. <<SaveActor(rec), Do("revoke", a)>> \in Seq(W(op))
    BY <2>3, <2>4, <1>4
  <2> QED BY <2>2, <2>4, <2>5, <1>0, <1>5
<1>19. Begun
  BY <1>6, <1>7, <1>8, <1>9, <1>10, <1>11, <1>12, <1>13, <1>14, <1>15, <1>16, <1>17,
     <1>18 DEF Call
<1> QED BY <1>19 DEF Begun, W

LEMMA DeletionIsTyped ==
  ASSUME clients \in Seq(Client), NEW A, Closed(A), Me \in RequestIds,
         NEW op, NEW todo, Deletion(op, todo)
  PROVE  todo \in Seq(WorkOf(A))
<1>1. PICK k \in RequestIds :
        /\ Present(clients, k)
        /\ todo = <<SaveClientRecord([Latest(clients, k) EXCEPT !.status = "deleted"]),
                    Do("cascade", k)>>
  BY DEF Deletion
<1> DEFINE old == Latest(clients, k)
           rec == [old EXCEPT !.status = "deleted"]
<1>2. old \in Client
  BY <1>1, Found
<1>3. rec \in Client
  <2> HIDE DEF old
  <2> QED BY <1>2 DEF Client
<1>4. SaveClientRecord(rec) \in WorkOf(A) /\ Do("cascade", k) \in WorkOf(A)
  <2> HIDE DEF rec
  <2> QED BY <1>3, WorkIsTyped, ItemTypes
<1>5. todo = <<SaveClientRecord(rec), Do("cascade", k)>>
  BY <1>1
<1> HIDE DEF rec
<1> QED BY <1>4, <1>5

LEMMA ChangeIsTyped ==
  ASSUME NEW A, NEW op, NEW todo, Change(op, todo)
  PROVE  todo \in Seq(WorkOf(A))
<1>1. PICK x \in Client : todo = <<[do |-> "client", rec |-> x]>>
  BY DEF Change
<1>2. [do |-> "client", rec |-> x] \in WorkOf(A)
  BY ItemTypes
<1> QED BY <1>1, <1>2

(* The work a call begins with is about records of A, if the files are.            *)
Begins(A) == \E op \in Operations, on \in Nat, todo \in Seq(WorkOf(A)) : Begin(op, on, todo)

LEMMA CallsAreTyped ==
  ASSUME TypeOK, NEW A, Closed(A), accounts \in Seq(A), Call,
         \A name \in Names, email \in Emails, k \in RequestIds :
           /\ NewAccount("client_user", name, email, k) \in A
           /\ NewAccount("sustentra_user", name, email, 0) \in A
  PROVE  Begins(A)
<1>1. PICK op, on, todo :
        /\ op \in Operations /\ on \in Nat /\ Begin(op, on, todo)
        /\ \/ Creation(op, todo) \/ Change(op, todo) \/ Deletion(op, todo)
           \/ op # "delete_client" /\ todo \in Seq(OwnWork(A, op))
  BY CallsSaveTheirOwn
<1>2. Me \in RequestIds
  BY LenProperties, IdentityBounds DEF Call, TypeOK, Me, RequestIds
<1>3. CASE Creation(op, todo)
  <2>1. PICK rec \in A : todo = <<SaveActor(rec)>>
    BY <1>2, <1>3 DEF Creation
  <2>2. SaveActor(rec) \in WorkOf(A)
    BY <1>2, WorkIsTyped
  <2>3. todo \in Seq(WorkOf(A))
    BY <2>1, <2>2
  <2> QED BY <2>3, <1>1 DEF Begins
<1>4. CASE todo \in Seq(OwnWork(A, op))
  <2>1. OwnWork(A, op) \subseteq WorkOf(A)
    BY DEF OwnWork
  <2>2. todo \in Seq(WorkOf(A))
    BY <2>1, <1>4, SeqMonotonic
  <2> QED BY <2>2, <1>1 DEF Begins
<1>5. CASE Change(op, todo) \/ Deletion(op, todo)
  <2>1. todo \in Seq(WorkOf(A))
    BY <1>2, <1>5, ChangeIsTyped, DeletionIsTyped DEF TypeOK
  <2> QED BY <2>1, <1>1 DEF Begins
<1> QED BY <1>1, <1>3, <1>4, <1>5

LEMMA SeqReplace ==
  ASSUME NEW S, NEW s \in Seq(S), NEW t, DOMAIN t = DOMAIN s, t = [i \in DOMAIN s |-> t[i]],
         \A i \in DOMAIN s : t[i] \in S
  PROVE  t \in Seq(S) /\ Len(t) = Len(s)
<1>1. Len(s) \in Nat /\ DOMAIN s = 1..Len(s)
  BY LenProperties
<1>2. t \in Seq(S)
  BY <1>1, IsASeq
<1>3. DOMAIN t = 1..Len(t) /\ Len(t) \in Nat
  BY <1>2, LenProperties
<1> QED BY <1>1, <1>2, <1>3

LEMMA TypedIsShaped ==
  ASSUME TypeOK
  PROVE  /\ Shape
         /\ DOMAIN reqs \subseteq RequestIds /\ RequestIds \subseteq Nat
         /\ \A r \in DOMAIN reqs : reqs[r] \in Request
<1>1. /\ DOMAIN reqs = 1..Len(reqs) /\ Len(reqs) \in Nat
      /\ \A r \in DOMAIN reqs : reqs[r] \in Request
      /\ \A t \in DOMAIN resets : resets[t] \in Token
      /\ \A c \in DOMAIN challenges : challenges[c] \in Token
      /\ \A s \in DOMAIN sessions : sessions[s] \in Session
  BY LenProperties, ElementOfSeq DEF TypeOK
<1>2. \A x \in Request : IsRequest(x)
  BY DEF Request, IsRequest
<1>3. \A x \in Token : IsToken(x)
  BY DEF Token, IsToken
<1>4. \A x \in Session : IsSession(x)
  BY DEF Session, IsSession
<1>5. IsLog(reqs) /\ IsLog(resets) /\ IsLog(challenges) /\ IsLog(sessions)
  BY InSeqIsLog DEF TypeOK
<1>6. DOMAIN reqs \subseteq RequestIds /\ RequestIds \subseteq Nat
  BY <1>1, IdentityBounds DEF TypeOK, RequestIds
<1> QED BY <1>1, <1>2, <1>3, <1>4, <1>5, <1>6 DEF Shape

LEMMA WorkIsAllWork == WorkOf(Account) = Work
  BY DEF WorkOf, Work

LEMMA BeginIsTyped ==
  ASSUME TypeOK, Len(reqs) < MaxRequests, Begins(Account)
  PROVE  TypeOK'
<1>1. PICK op \in Operations, on \in Nat, todo \in Seq(Work) : Begin(op, on, todo)
  BY WorkIsAllWork DEF Begins
<1> DEFINE old == [r \in DOMAIN reqs |->
                     IF Running(r) THEN [reqs[r] EXCEPT !.met = @ \cup {Me}] ELSE reqs[r]]
           new == [op |-> op, on |-> on, todo |-> todo, cut |-> {},
                   met |-> {r \in DOMAIN reqs : Running(r)}, dead |-> FALSE]
<1>2. reqs' = Append(old, new) /\ UNCHANGED stores
  BY <1>1 DEF Begin
<1>3. /\ DOMAIN reqs \subseteq Nat /\ Me \in Nat /\ Len(reqs) \in Nat
      /\ \A r \in DOMAIN reqs : reqs[r] \in Request
  BY TypedIsShaped, LenProperties DEF TypeOK, Me
<1>4. old \in Seq(Request) /\ Len(old) = Len(reqs)
  <2>1. \A x \in Request : [x EXCEPT !.met = x.met \cup {Me}] \in Request
    BY <1>3 DEF Request
  <2>2. DOMAIN old = DOMAIN reqs /\ old = [i \in DOMAIN reqs |-> old[i]]
        /\ \A i \in DOMAIN reqs : old[i] \in Request
    BY <1>3, <2>1
  <2> HIDE DEF old
  <2> QED BY <2>2, SeqReplace DEF TypeOK
<1>5. new \in Request
  BY <1>3 DEF Request
<1> HIDE DEF old, new
<1>6. reqs' \in Seq(Request) /\ Len(reqs') = Len(reqs) + 1
  BY <1>2, <1>4, <1>5, AppendProperties
<1> QED BY <1>2, <1>3, <1>6, IdentityBounds DEF TypeOK, stores

(* A step of a request keeps to records of A, if its work and the files do.        *)
LEMMA ProgressIsTyped ==
  ASSUME TypeOK, NEW A, Closed(A), accounts \in Seq(A), NEW r \in DOMAIN reqs,
         reqs[r].todo \in Seq(WorkOf(A)), Progress(r)
  PROVE  /\ accounts' \in Seq(A)
         /\ \E todo \in Seq(WorkOf(A)), cut \in SUBSET Nat :
              Changed(r, todo, cut, reqs[r].dead)
<1> DEFINE W == WorkOf(A)
<1>0. /\ Shape /\ r \in RequestIds /\ r \in Nat /\ RequestIds \subseteq Nat
      /\ reqs[r].cut \in SUBSET Nat
  BY TypedIsShaped DEF Request
<1>1. reqs[r].todo # <<>>
  BY DEF Progress, WriteAccount, WriteClient, WriteSession, WriteReset, WriteChallenge,
     UseReset, ConsumeChallenge, EndSession, RevokeActorSessions, RevokeOne, Cascade,
     DeleteOne, Due, Running
<1>2. Item(r) \in W /\ Rest(r) \in Seq(W)
  BY <1>1, HeadTailProperties DEF Item, Rest
<1>3. /\ Item(r).do = "account" => Item(r).rec \in A
      /\ Item(r).do \in {"revoke"} => Item(r).id \in RequestIds
      /\ Item(r).do = "revoke_each" => Item(r).ids \in SUBSET Nat
      /\ Item(r).do = "delete_each" => Item(r).recs \in SUBSET A
  BY <1>2, ItemFields
<1>4. ASSUME NEW x \in W, NEW rest \in Seq(W)
      PROVE  <<x>> \o rest \in Seq(W)
  <2> HIDE DEF W
  <2>1. <<x>> \in Seq(W)
    OBVIOUS
  <2> QED BY <2>1, ConcatProperties
<1>5. ASSUME NEW todo \in Seq(W), Proceed(r, todo)
      PROVE  \E t \in Seq(WorkOf(A)), cut \in SUBSET Nat : Changed(r, t, cut, reqs[r].dead)
  <2>1. Changed(r, todo, reqs[r].cut, reqs[r].dead)
    BY <1>0, <1>5, ProceedIsATodoChange DEF Proceed, Changed
  <2> QED BY <2>1, <1>0
<1>6. CASE WriteAccount(r)
  <2>1. accounts' = Append(accounts, Item(r).rec) /\ Item(r).rec \in A /\ Proceed(r, Rest(r))
    BY <1>3, <1>6 DEF WriteAccount, Due, Item
  <2>2. accounts' \in Seq(A)
    BY <2>1, AppendProperties
  <2> HIDE DEF W
  <2> QED BY <2>1, <2>2, <1>2, <1>5
<1>7. CASE WriteClient(r) \/ WriteSession(r) \/ WriteReset(r) \/ WriteChallenge(r)
           \/ UseReset(r) \/ ConsumeChallenge(r) \/ EndSession(r)
  <2>1. accounts' = accounts /\ Proceed(r, Rest(r))
    BY <1>7 DEF WriteClient, WriteSession, WriteReset, WriteChallenge, UseReset,
       ConsumeChallenge, EndSession
  <2> HIDE DEF W
  <2> QED BY <2>1, <1>2, <1>5
<1>8. CASE RevokeActorSessions(r)
  <2> DEFINE ids == {s \in DOMAIN sessions : sessions[s].account = Item(r).id}
             item == [do |-> "revoke_each", ids |-> ids]
             todo == IF ids = {} THEN Rest(r) ELSE <<item>> \o Rest(r)
             cut == reqs[r].cut \cup {Item(r).id}
  <2>1. reqs' = [reqs EXCEPT ![r].cut = @ \cup {Item(r).id}, ![r].todo = todo]
        /\ accounts' = accounts
    BY <1>8 DEF RevokeActorSessions, stores
  <2>2. ids \in SUBSET Nat
    BY LenProperties DEF TypeOK
  <2>3. item \in W
    <3> HIDE DEF ids
    <3> QED BY <2>2, ItemTypes
  <2>4. todo \in Seq(W)
    <3> HIDE DEF item, ids, W
    <3> QED BY <2>3, <1>2, <1>4
  <2>5. cut \in SUBSET Nat
    BY <1>0, <1>3, <1>8 DEF RevokeActorSessions, Due, Item
  <2> HIDE DEF todo
  <2>6. Changed(r, todo, cut, reqs[r].dead)
    BY <2>1, <1>0, ProceedIsATodoChange DEF Changed
  <2> HIDE DEF cut
  <2> QED BY <2>1, <2>4, <2>5, <2>6
<1>9. CASE RevokeOne(r)
  <2> DEFINE left == Item(r).ids \ {Newest(Item(r).ids)}
             item == [do |-> "revoke_each", ids |-> left]
             todo == IF left = {} THEN Rest(r) ELSE <<item>> \o Rest(r)
  <2>1. Proceed(r, todo) /\ accounts' = accounts
    BY <1>9 DEF RevokeOne
  <2>2. left \in SUBSET Nat
    BY <1>3, <1>9 DEF RevokeOne, Due, Item
  <2>3. item \in W
    <3> HIDE DEF left
    <3> QED BY <2>2, ItemTypes
  <2>4. todo \in Seq(W)
    <3> HIDE DEF item, left, W
    <3> QED BY <2>3, <1>2, <1>4
  <2> HIDE DEF todo
  <2> QED BY <2>1, <2>4, <1>5
<1>10. CASE Cascade(r)
  <2> DEFINE users == {rec \in ListActive(accounts) :
                         rec.kind = "client_user" /\ rec.client = Item(r).id}
             item == [do |-> "delete_each", recs |-> users]
             todo == IF users = {} THEN Rest(r) ELSE <<item>> \o Rest(r)
  <2>1. Proceed(r, todo) /\ accounts' = accounts
    BY <1>10 DEF Cascade, stores
  <2>2. users \in SUBSET A
    BY ListedAreFound
  <2>3. item \in W
    <3> HIDE DEF users
    <3> QED BY <2>2, ItemTypes
  <2>4. todo \in Seq(W)
    <3> HIDE DEF item, users, W
    <3> QED BY <2>3, <1>2, <1>4
  <2> HIDE DEF todo
  <2> QED BY <2>1, <2>4, <1>5
<1>11. CASE DeleteOne(r)
  <2>1. PICK rec \in Item(r).recs :
          LET left == Item(r).recs \ {rec}
          IN  /\ accounts' = Append(accounts, [rec EXCEPT !.status = "deleted", !.by = r])
              /\ Proceed(r, <<Do("revoke", rec.id)>>
                            \o (IF left = {} THEN Rest(r)
                                ELSE <<[do |-> "delete_each", recs |-> left]>> \o Rest(r)))
    BY <1>11 DEF DeleteOne
  <2> DEFINE left == Item(r).recs \ {rec}
             item == [do |-> "delete_each", recs |-> left]
             cut == Do("revoke", rec.id)
             more == IF left = {} THEN Rest(r) ELSE <<item>> \o Rest(r)
             new == [rec EXCEPT !.status = "deleted", !.by = r]
  <2>2. accounts' = Append(accounts, new) /\ Proceed(r, <<cut>> \o more)
    BY <2>1
  <2>3. Item(r).recs \in SUBSET A
    BY <1>3, <1>11 DEF DeleteOne, Due, Item
  <2>4. rec \in A /\ new \in A
    BY <2>3, <1>0, Updates
  <2>5. rec.id \in RequestIds
    BY <2>4 DEF Closed, Account
  <2>6. cut \in W
    BY <2>5, ItemTypes
  <2>7. item \in W
    <3>1. left \in SUBSET A
      BY <2>3
    <3> HIDE DEF left
    <3> QED BY <3>1, ItemTypes
  <2>8. more \in Seq(W)
    <3> HIDE DEF item, left, W
    <3> QED BY <2>7, <1>2, <1>4
  <2> HIDE DEF cut, more, new
  <2>9. <<cut>> \o more \in Seq(W)
    BY <2>6, <2>8, <1>4
  <2>10. accounts' \in Seq(A)
    BY <2>2, <2>4, AppendProperties
  <2> QED BY <2>2, <2>9, <2>10, <1>5
<1> QED BY <1>6, <1>7, <1>8, <1>9, <1>10, <1>11 DEF Progress

LEMMA FilesStayTyped ==
  ASSUME TypeOK, NEW r \in DOMAIN reqs, Progress(r) \/ Stop(r)
  PROVE  /\ clients' \in Seq(Client) /\ sessions' \in Seq(Session)
         /\ resets' \in Seq(Token) /\ challenges' \in Seq(Token)
<1>1. ASSUME Progress(r)
      PROVE  /\ Item(r).do = "client" => Item(r).rec \in Client
             /\ Item(r).do \in {"session", "reset", "challenge"} => Item(r).id \in RequestIds
  <2>1. reqs[r].todo # <<>>
    BY <1>1 DEF Progress, WriteAccount, WriteClient, WriteSession, WriteReset,
       WriteChallenge, UseReset, ConsumeChallenge, EndSession, RevokeActorSessions,
       RevokeOne, Cascade, DeleteOne, Due, Running
  <2>2. reqs[r].todo \in Seq(WorkOf(Account))
    BY TypedIsShaped, WorkIsAllWork DEF Request
  <2>3. Item(r) \in WorkOf(Account)
    BY <2>1, <2>2, HeadTailProperties DEF Item
  <2> QED BY <2>3, ItemFields
<1>2. ASSUME NEW s \in Seq(Token), NEW i
      PROVE  [s EXCEPT ![i].spent = TRUE] \in Seq(Token)
  <2> DEFINE t == [s EXCEPT ![i].spent = TRUE]
  <2>1. \A x \in Token : [x EXCEPT !.spent = TRUE] \in Token
    BY DEF Token
  <2>2. \A j \in DOMAIN s : s[j] \in Token
    BY LenProperties, ElementOfSeq
  <2>3. DOMAIN t = DOMAIN s /\ t = [j \in DOMAIN s |-> t[j]] /\ \A j \in DOMAIN s : t[j] \in Token
    BY <2>1, <2>2
  <2> HIDE DEF t
  <2>4. t \in Seq(Token)
    BY <2>3, SeqReplace
  <2> QED BY <2>4 DEF t
<1>3. ASSUME NEW i
      PROVE  [sessions EXCEPT ![i].ended = TRUE] \in Seq(Session)
  <2> DEFINE t == [sessions EXCEPT ![i].ended = TRUE]
  <2>1. \A x \in Session : [x EXCEPT !.ended = TRUE] \in Session
    BY DEF Session
  <2>2. \A j \in DOMAIN sessions : sessions[j] \in Session
    BY LenProperties, ElementOfSeq DEF TypeOK
  <2>3. DOMAIN t = DOMAIN sessions /\ t = [j \in DOMAIN sessions |-> t[j]]
        /\ \A j \in DOMAIN sessions : t[j] \in Session
    BY <2>1, <2>2
  <2> HIDE DEF t
  <2>4. t \in Seq(Session)
    BY <2>3, SeqReplace DEF TypeOK
  <2> QED BY <2>4 DEF t
<1>4. CASE WriteAccount(r) \/ RevokeActorSessions(r) \/ Cascade(r) \/ DeleteOne(r) \/ Stop(r)
  BY <1>4 DEF WriteAccount, RevokeActorSessions, Cascade, DeleteOne, Stop, stores, TypeOK
<1>5. CASE WriteClient(r)
  <2>1. clients' = Append(clients, Item(r).rec) /\ Item(r).rec \in Client
        /\ UNCHANGED <<sessions, resets, challenges>>
    BY <1>1, <1>5 DEF WriteClient, Due, Item, Progress
  <2> QED BY <2>1, AppendProperties DEF TypeOK
<1>6. CASE WriteSession(r)
  <2> DEFINE x == [account |-> Item(r).id, by |-> r, ended |-> FALSE]
  <2>1. sessions' = Append(sessions, x) /\ Item(r).id \in RequestIds
        /\ UNCHANGED <<clients, resets, challenges>>
    BY <1>1, <1>6 DEF WriteSession, Due, Item, Progress
  <2>2. x \in Session
    BY <2>1, TypedIsShaped DEF Session
  <2> HIDE DEF x
  <2> QED BY <2>1, <2>2, AppendProperties DEF TypeOK
<1>7. CASE WriteReset(r) \/ WriteChallenge(r)
  <2> DEFINE x == [account |-> Item(r).id, spent |-> FALSE]
  <2>1. Item(r).id \in RequestIds /\ UNCHANGED <<clients, sessions>>
        /\ \/ resets' = Append(resets, x) /\ UNCHANGED challenges
           \/ challenges' = Append(challenges, x) /\ UNCHANGED resets
    BY <1>1, <1>7 DEF WriteReset, WriteChallenge, Due, Item, Progress
  <2>2. x \in Token
    BY <2>1 DEF Token
  <2> HIDE DEF x
  <2>3. Append(resets, x) \in Seq(Token) /\ Append(challenges, x) \in Seq(Token)
    BY <2>2, AppendProperties DEF TypeOK
  <2> QED BY <2>1, <2>3 DEF TypeOK
<1>8. CASE UseReset(r) \/ ConsumeChallenge(r)
  <2>1. UNCHANGED <<clients, sessions>> /\ \E i :
          \/ resets' = [resets EXCEPT ![i].spent = TRUE] /\ UNCHANGED challenges
          \/ challenges' = [challenges EXCEPT ![i].spent = TRUE] /\ UNCHANGED resets
    BY <1>8 DEF UseReset, ConsumeChallenge
  <2>2. resets \in Seq(Token) /\ challenges \in Seq(Token)
    BY DEF TypeOK
  <2>3. \A i : /\ [resets EXCEPT ![i].spent = TRUE] \in Seq(Token)
               /\ [challenges EXCEPT ![i].spent = TRUE] \in Seq(Token)
    BY <2>2, <1>2
  <2>4. resets' \in Seq(Token) /\ challenges' \in Seq(Token)
    BY <2>1, <2>2, <2>3
  <2> QED BY <2>1, <2>4 DEF TypeOK
<1>9. CASE EndSession(r) \/ RevokeOne(r)
  <2>1. UNCHANGED <<clients, resets, challenges>>
        /\ \E i : sessions' = [sessions EXCEPT ![i].ended = TRUE]
    BY <1>9 DEF EndSession, RevokeOne
  <2> QED BY <2>1, <1>3 DEF TypeOK
<1> QED BY <1>4, <1>5, <1>6, <1>7, <1>8, <1>9 DEF Progress

LEMMA StepIsTyped ==
  ASSUME TypeOK, NEW r \in DOMAIN reqs, Progress(r) \/ Stop(r)
  PROVE  TypeOK'
<1>1. Shape /\ reqs[r] \in Request /\ \A q \in DOMAIN reqs : reqs[q] \in Request
  BY TypedIsShaped
<1>2. /\ accounts' \in Seq(Account)
      /\ \E todo \in Seq(Work), cut \in SUBSET Nat, dead \in BOOLEAN :
           Changed(r, todo, cut, dead)
  <2>1. CASE Progress(r)
    <3>1. reqs[r].todo \in Seq(WorkOf(Account)) /\ reqs[r].dead \in BOOLEAN
      BY <1>1, WorkIsAllWork DEF Request
    <3> QED BY <2>1, <3>1, ProgressIsTyped, AccountsAreClosed, WorkIsAllWork DEF TypeOK
  <2>2. CASE Stop(r)
    <3>1. reqs' = [reqs EXCEPT ![r].dead = TRUE] /\ accounts' = accounts
      BY <2>2 DEF Stop, stores
    <3>2. Changed(r, reqs[r].todo, reqs[r].cut, TRUE)
      BY <1>1, <3>1, ProceedIsATodoChange DEF Changed
    <3>3. reqs[r].todo \in Seq(Work) /\ reqs[r].cut \in SUBSET Nat
      BY <1>1 DEF Request
    <3> QED BY <3>1, <3>2, <3>3 DEF TypeOK
  <2> QED BY <2>1, <2>2
<1>3. PICK todo \in Seq(Work), cut \in SUBSET Nat, dead \in BOOLEAN :
        Changed(r, todo, cut, dead)
  BY <1>2
<1>4. [reqs[r] EXCEPT !.todo = todo, !.cut = cut, !.dead = dead] \in Request
  BY <1>1 DEF Request
<1>5. /\ DOMAIN reqs' = DOMAIN reqs /\ reqs' = [q \in DOMAIN reqs |-> reqs'[q]]
      /\ \A q \in DOMAIN reqs : reqs'[q] \in Request
  BY <1>1, <1>3, <1>4 DEF Changed
<1>6. reqs' \in Seq(Request) /\ Len(reqs') = Len(reqs)
  BY <1>5, SeqReplace DEF TypeOK
<1> QED BY <1>2, <1>6, FilesStayTyped DEF TypeOK

(* The records of the identity service are well formed: every handler saves records *)
(* it read or made, and what it still has to do is a list of such work.             *)
THEOREM IdentityTypeCorrect == Spec => []TypeOK
<1>1. Init => TypeOK
  <2>1. <<>> \in Seq(Account) /\ <<>> \in Seq(Client) /\ <<>> \in Seq(Session)
        /\ <<>> \in Seq(Token) /\ <<>> \in Seq(Request) /\ Len(<<>>) = 0
    BY EmptySeq
  <2> QED BY <2>1, IdentityBounds DEF Init, TypeOK
<1>2. TypeOK /\ [Next]_vars => TypeOK'
  <2> SUFFICES ASSUME TypeOK, [Next]_vars PROVE TypeOK'
    OBVIOUS
  <2>1. CASE Call
    <3>1. Len(reqs) < MaxRequests
      BY <2>1 DEF Call
    <3>2. Me \in RequestIds
      BY <3>1, LenProperties, IdentityBounds DEF TypeOK, Me, RequestIds
    <3>3. \A name \in Names, email \in Emails, k \in RequestIds :
            /\ NewAccount("client_user", name, email, k) \in Account
            /\ NewAccount("sustentra_user", name, email, 0) \in Account
      BY <3>2 DEF NewAccount, Account
    <3>4. Begins(Account)
      BY <2>1, <3>3, CallsAreTyped, AccountsAreClosed DEF TypeOK
    <3> QED BY <3>1, <3>4, BeginIsTyped
  <2>2. CASE \E r \in DOMAIN reqs : Progress(r) \/ Stop(r)
    BY <2>2, StepIsTyped
  <2>3. CASE TimePasses \/ UNCHANGED vars
    <3>1. UNCHANGED <<accounts, clients, sessions, resets, challenges, reqs>>
      BY <2>3 DEF TimePasses, Expire, vars
    <3> QED BY <3>1 DEF TypeOK
  <2> QED BY <2>1, <2>2, <2>3 DEF Next
<1> QED BY <1>1, <1>2, PTL DEF Spec

--------------------------------------------------------------------------------
(* The first administrator.  A bootstrap account is a Sustentra user that is in the *)
(* file under its request's number, or is still to be saved by that request.        *)
Boots == {accounts[i].id : i \in {j \in DOMAIN accounts : accounts[j].bootstrap}}
Firsts(ids) ==
  {x \in Account : x.bootstrap => x.kind = "sustentra_user" /\ x.id \in ids}
Candidate(r) == r \in Boots \/ reqs[r].todo \notin Seq(WorkOf(Firsts(Boots)))

BootInv ==
  /\ TypeOK
  /\ accounts \in Seq(Firsts(Boots)) /\ Boots \subseteq DOMAIN reqs
  /\ \A r \in DOMAIN reqs : reqs[r].todo \in Seq(WorkOf(Firsts(Boots \cup {r})))
  /\ \A q, r \in DOMAIN reqs : q < r /\ Candidate(q) /\ Candidate(r) =>
       Overlap(q, r) \/ (reqs[q].dead /\ q \notin Boots)

LEMMA FirstsGrow ==
  ASSUME NEW ids, NEW more, ids \subseteq more
  PROVE  /\ Closed(Firsts(ids))
         /\ Firsts(ids) \subseteq Firsts(more) /\ Firsts(ids) \subseteq Account
         /\ WorkOf(Firsts(ids)) \subseteq WorkOf(Firsts(more))
         /\ WorkOf(Firsts(ids)) \subseteq Work
         /\ \A s \in Seq(Firsts(ids)) : s \in Seq(Firsts(more))
         /\ \A s \in Seq(WorkOf(Firsts(ids))) : s \in Seq(WorkOf(Firsts(more))) /\ s \in Seq(Work)
<1>1. Closed(Firsts(ids))
  BY DEF Closed, Firsts
<1>2. Firsts(ids) \subseteq Firsts(more) /\ Firsts(ids) \subseteq Account
  BY DEF Firsts
<1>3. ASSUME NEW A, NEW B, A \subseteq B
      PROVE  WorkOf(A) \subseteq WorkOf(B)
  BY <1>3 DEF WorkOf
<1>4. /\ WorkOf(Firsts(ids)) \subseteq WorkOf(Firsts(more))
      /\ WorkOf(Firsts(ids)) \subseteq Work
  BY <1>2, <1>3, WorkIsAllWork
<1> QED BY <1>1, <1>2, <1>4, SeqMonotonic

LEMMA BootBegin ==
  ASSUME BootInv, Call
  PROVE  BootInv'
<1> DEFINE ids == Boots \cup (IF BootstrapRequired THEN {Me} ELSE {})
           A == Firsts(ids)
<1>0. TypeOK /\ Shape /\ Len(reqs) < MaxRequests
  BY TypedIsShaped DEF BootInv, Call
<1>1. Me \in RequestIds /\ Me \in Nat
  BY <1>0, LenProperties, IdentityBounds DEF TypeOK, Me, RequestIds
<1>2. Closed(A) /\ accounts \in Seq(A)
  BY FirstsGrow DEF BootInv
<1>3. \A name \in Names, email \in Emails, k \in RequestIds :
        /\ NewAccount("client_user", name, email, k) \in A
        /\ NewAccount("sustentra_user", name, email, 0) \in A
  <2> SUFFICES ASSUME NEW name \in Names, NEW email \in Emails, NEW k \in RequestIds
               PROVE  /\ NewAccount("client_user", name, email, k) \in A
                      /\ NewAccount("sustentra_user", name, email, 0) \in A
    OBVIOUS
  <2>1. /\ NewAccount("client_user", name, email, k) \in Account
        /\ NewAccount("sustentra_user", name, email, 0) \in Account
    BY <1>1 DEF NewAccount, Account
  <2>2. /\ ~NewAccount("client_user", name, email, k).bootstrap
        /\ NewAccount("sustentra_user", name, email, 0).bootstrap => BootstrapRequired
        /\ NewAccount("sustentra_user", name, email, 0).kind = "sustentra_user"
        /\ NewAccount("sustentra_user", name, email, 0).id = Me
    BY DEF NewAccount
  <2> QED BY <2>1, <2>2 DEF Firsts
<1>4. Begins(A)
  <2> HIDE DEF A
  <2> QED BY <1>0, <1>2, <1>3, CallsAreTyped
<1>5. PICK op \in Operations, on \in Nat, todo \in Seq(WorkOf(A)) : Begin(op, on, todo)
  BY <1>4 DEF Begins
<1>6. TypeOK'
  <2>1. todo \in Seq(Work)
    BY FirstsGrow
  <2>2. Begins(Account)
    BY <2>1, <1>5, WorkIsAllWork DEF Begins
  <2> QED BY <2>2, <1>0, BeginIsTyped
<1>7. /\ UNCHANGED stores
      /\ Me \notin DOMAIN reqs /\ DOMAIN reqs' = DOMAIN reqs \cup {Me}
      /\ \A q \in DOMAIN reqs :
           /\ reqs'[q].todo = reqs[q].todo /\ reqs'[q].dead = reqs[q].dead
           /\ reqs[q].met \subseteq reqs'[q].met
      /\ reqs'[Me].todo = todo
      /\ \A q \in DOMAIN reqs : Running(q) => q \in reqs'[Me].met
  BY <1>0, <1>5, RequestsBegin
<1>8. Boots' = Boots /\ accounts' = accounts
  BY <1>7 DEF Boots, stores
<1>9. accounts' \in Seq(Firsts(Boots')) /\ Boots' \subseteq DOMAIN reqs'
  BY <1>7, <1>8 DEF BootInv
<1>10. \A r \in DOMAIN reqs' : reqs'[r].todo \in Seq(WorkOf(Firsts(Boots' \cup {r})))
  <2>1. ids \subseteq Boots \cup {Me}
    OBVIOUS
  <2>2. todo \in Seq(WorkOf(Firsts(Boots \cup {Me})))
    BY <2>1, FirstsGrow
  <2> QED BY <2>2, <1>7, <1>8 DEF BootInv
<1>11. ASSUME NEW q \in DOMAIN reqs', NEW r \in DOMAIN reqs', q < r,
              Candidate(q)', Candidate(r)'
       PROVE  Overlap(q, r)' \/ (reqs'[q].dead /\ q \notin Boots')
  <2>0. \A i \in DOMAIN reqs : i < Me /\ i \in Nat
    BY <1>0, LenProperties DEF TypeOK, Me
  <2>1. q \in DOMAIN reqs
    BY <2>0, <1>1, <1>7, <1>11
  <2>2. Candidate(q)
    BY <2>1, <1>7, <1>8, <1>11 DEF Candidate
  <2>3. CASE r \in DOMAIN reqs
    <3>1. Candidate(r)
      BY <2>3, <1>7, <1>8, <1>11 DEF Candidate
    <3>2. Overlap(q, r) \/ (reqs[q].dead /\ q \notin Boots)
      BY <2>1, <2>2, <2>3, <3>1, <1>11 DEF BootInv
    <3>3. CASE Overlap(q, r)
      BY <3>3, <2>1, <2>3, <1>7 DEF Overlap
    <3> QED BY <3>2, <3>3, <2>1, <1>7, <1>8
  <2>4. CASE r = Me
    <3>1. Me \notin Boots
      BY <1>7 DEF BootInv
    <3>2. todo \notin Seq(WorkOf(Firsts(Boots)))
      BY <3>1, <2>4, <1>7, <1>8, <1>11 DEF Candidate
    <3>3. BootstrapRequired
      BY <3>2, <1>5
    <3>4. Boots = {}
      <4>1. \A i \in DOMAIN accounts : accounts[i] \in Firsts(Boots)
        BY LenProperties, ElementOfSeq DEF BootInv
      <4>2. \A i \in DOMAIN accounts :
              accounts[i].bootstrap => accounts[i].kind = "sustentra_user"
        BY <4>1 DEF Firsts
      <4> QED BY <3>3, <4>2 DEF BootstrapRequired, Boots
    <3>5. reqs[q].todo # <<>>
      BY <2>2, <3>4, EmptySeq DEF Candidate
    <3>6. reqs[q].dead \/ Running(q)
      BY <3>5 DEF Running
    <3> QED BY <3>4, <3>6, <2>1, <2>4, <1>7, <1>8 DEF Overlap
  <2> QED BY <2>3, <2>4, <1>7
<1> QED BY <1>6, <1>9, <1>10, <1>11 DEF BootInv

LEMMA BootStep ==
  ASSUME BootInv, NEW r \in DOMAIN reqs, Progress(r) \/ Stop(r)
  PROVE  BootInv'
<1>0. TypeOK /\ Shape /\ TypeOK'
  BY TypedIsShaped, StepIsTyped DEF BootInv
<1>1. /\ DOMAIN reqs' = DOMAIN reqs
      /\ \A q \in DOMAIN reqs : reqs'[q].met = reqs[q].met
      /\ \A q \in DOMAIN reqs \ {r} : reqs'[q] = reqs[q]
      /\ ~reqs[r].dead
  BY <1>0, OnlyItsOwnTodo
<1>2. ASSUME NEW ids, Boots \subseteq ids, reqs[r].todo \in Seq(WorkOf(Firsts(ids)))
      PROVE  accounts' \in Seq(Firsts(ids)) /\ reqs'[r].todo \in Seq(WorkOf(Firsts(ids)))
  <2>1. Closed(Firsts(ids)) /\ accounts \in Seq(Firsts(ids))
    BY <1>2, FirstsGrow DEF BootInv
  <2>2. CASE Progress(r)
    <3>1. /\ accounts' \in Seq(Firsts(ids))
          /\ \E todo \in Seq(WorkOf(Firsts(ids))), cut \in SUBSET Nat :
               Changed(r, todo, cut, reqs[r].dead)
      BY <2>1, <2>2, <1>0, <1>2, ProgressIsTyped
    <3>2. PICK todo \in Seq(WorkOf(Firsts(ids))), cut \in SUBSET Nat :
            Changed(r, todo, cut, reqs[r].dead)
      BY <3>1
    <3>3. reqs'[r].todo = todo
      BY <3>2, <1>0, TodoChanges
    <3> QED BY <3>1, <3>3
  <2>3. CASE Stop(r)
    <3>1. accounts' = accounts /\ reqs'[r].todo = reqs[r].todo
      BY <2>3, <1>0 DEF Stop, stores, Shape, IsRequest
    <3> QED BY <3>1, <2>1, <1>2
  <2> QED BY <2>2, <2>3
<1>3. Boots \subseteq Boots'
  <2>1. DOMAIN accounts \subseteq DOMAIN accounts'
        /\ \A i \in DOMAIN accounts : accounts'[i] = accounts[i]
    <3>1. accounts' = accounts \/ \E x : accounts' = Append(accounts, x)
      BY DEF Progress, Stop, WriteAccount, WriteClient, WriteSession, WriteReset,
         WriteChallenge, UseReset, ConsumeChallenge, EndSession, RevokeActorSessions,
         RevokeOne, Cascade, DeleteOne, stores
    <3>2. IsLog(accounts)
      BY <1>0, InSeqIsLog DEF TypeOK
    <3> QED BY <3>1, <3>2, LogAppend
  <2> QED BY <2>1 DEF Boots
<1>4. ASSUME NEW ids, accounts' \in Seq(Firsts(ids))
      PROVE  Boots' \subseteq ids
  <2>1. \A i \in DOMAIN accounts' : accounts'[i] \in Firsts(ids)
    BY <1>4, LenProperties, ElementOfSeq
  <2> QED BY <2>1 DEF Boots, Firsts
<1>5. /\ accounts' \in Seq(Firsts(Boots \cup {r})) /\ Boots' \subseteq Boots \cup {r}
      /\ reqs'[r].todo \in Seq(WorkOf(Firsts(Boots \cup {r})))
  BY <1>2, <1>4 DEF BootInv
<1>6. ~Candidate(r) => Boots' = Boots /\ reqs'[r].todo \in Seq(WorkOf(Firsts(Boots)))
  BY <1>2, <1>3, <1>4 DEF Candidate
<1>7. accounts' \in Seq(Firsts(Boots'))
  <2>1. \A i \in DOMAIN accounts' : accounts'[i] \in Firsts(Boots \cup {r})
    BY <1>5, LenProperties, ElementOfSeq
  <2>2. \A i \in DOMAIN accounts' : accounts'[i] \in Firsts(Boots')
    BY <2>1 DEF Boots, Firsts
  <2>3. DOMAIN accounts' = 1..Len(accounts') /\ Len(accounts') \in Nat
        /\ accounts' = [i \in 1..Len(accounts') |-> accounts'[i]]
    BY <1>5, LenProperties
  <2>4. \A i \in 1..Len(accounts') : accounts'[i] \in Firsts(Boots')
    BY <2>2, <2>3
  <2> QED BY <2>3, <2>4, IsASeq
<1>8. Boots' \subseteq DOMAIN reqs'
  BY <1>1, <1>5 DEF BootInv
<1>9. \A q \in DOMAIN reqs' : reqs'[q].todo \in Seq(WorkOf(Firsts(Boots' \cup {q})))
  <2> SUFFICES ASSUME NEW q \in DOMAIN reqs'
               PROVE  reqs'[q].todo \in Seq(WorkOf(Firsts(Boots' \cup {q})))
    OBVIOUS
  <2>1. reqs'[q].todo \in Seq(WorkOf(Firsts(Boots \cup {q})))
    BY <1>1, <1>5 DEF BootInv
  <2>2. Boots \cup {q} \subseteq Boots' \cup {q}
    BY <1>3
  <2> QED BY <2>1, <2>2, FirstsGrow
<1>10. ASSUME NEW q \in DOMAIN reqs, Candidate(q)'
       PROVE  Candidate(q)
  <2>1. CASE q = r
    <3>1. ~Candidate(r) => ~Candidate(r)'
      BY <1>6 DEF Candidate
    <3> QED BY <3>1, <2>1, <1>10
  <2>2. CASE q # r
    <3>1. reqs'[q].todo = reqs[q].todo /\ (q \in Boots' => q \in Boots)
      BY <2>2, <1>1, <1>5
    <3>2. reqs[q].todo \in Seq(WorkOf(Firsts(Boots))) =>
            reqs[q].todo \in Seq(WorkOf(Firsts(Boots')))
      BY <1>3, FirstsGrow
    <3> QED BY <3>1, <3>2, <1>10 DEF Candidate
  <2> QED BY <2>1, <2>2
<1>11. ASSUME NEW q \in DOMAIN reqs', NEW p \in DOMAIN reqs', q < p,
              Candidate(q)', Candidate(p)'
       PROVE  Overlap(q, p)' \/ (reqs'[q].dead /\ q \notin Boots')
  <2>1. Overlap(q, p) \/ (reqs[q].dead /\ q \notin Boots)
    BY <1>1, <1>10, <1>11 DEF BootInv
  <2>2. CASE Overlap(q, p)
    BY <2>2, <1>1, <1>11 DEF Overlap
  <2>3. CASE reqs[q].dead /\ q \notin Boots
    <3>1. q # r
      BY <2>3, <1>1
    <3> QED BY <3>1, <2>3, <1>1, <1>5, <1>11
  <2> QED BY <2>1, <2>2, <2>3
<1> QED BY <1>0, <1>7, <1>8, <1>9, <1>11 DEF BootInv

(* One first administrator: create_sustentra_user makes its account an admin when it *)
(* finds no Sustentra user, so two such accounts mean that the two creations were    *)
(* under way together.                                                               *)
THEOREM OneFirstAdministrator == Spec => []OneBootstrap
<1>1. Init => BootInv
  <2> SUFFICES ASSUME Init PROVE BootInv
    OBVIOUS
  <2>1. accounts = <<>> /\ reqs = <<>> /\ DOMAIN <<>> = {}
    BY DEF Init
  <2>2. <<>> \in Seq(Account) /\ <<>> \in Seq(Client) /\ <<>> \in Seq(Session)
        /\ <<>> \in Seq(Token) /\ <<>> \in Seq(Request) /\ Len(<<>>) = 0
        /\ <<>> \in Seq(Firsts({}))
    BY EmptySeq
  <2>3. TypeOK
    BY <2>2, IdentityBounds DEF Init, TypeOK
  <2>4. Boots = {}
    BY <2>1 DEF Boots
  <2> QED BY <2>1, <2>2, <2>3, <2>4 DEF BootInv
<1>2. BootInv /\ [Next]_vars => BootInv'
  <2> SUFFICES ASSUME BootInv, [Next]_vars PROVE BootInv'
    OBVIOUS
  <2>1. CASE Call
    BY <2>1, BootBegin
  <2>2. CASE \E r \in DOMAIN reqs : Progress(r) \/ Stop(r)
    BY <2>2, BootStep
  <2>3. CASE TimePasses \/ UNCHANGED vars
    <3>1. UNCHANGED <<accounts, clients, sessions, resets, challenges, reqs>>
      BY <2>3 DEF TimePasses, Expire, vars
    <3>2. TypeOK'
      BY <3>1 DEF BootInv, TypeOK
    <3>3. Boots' = Boots
      BY <3>1 DEF Boots
    <3>4. \A r \in DOMAIN reqs : Candidate(r)' <=> Candidate(r)
      BY <3>1, <3>3 DEF Candidate
    <3>5. \A q, r : Overlap(q, r)' <=> Overlap(q, r)
      BY <3>1 DEF Overlap
    <3> QED BY <3>1, <3>2, <3>3, <3>4, <3>5 DEF BootInv
  <2> QED BY <2>1, <2>2, <2>3 DEF Next
<1>3. BootInv => OneBootstrap
  <2> SUFFICES ASSUME BootInv, NEW i \in DOMAIN accounts, NEW j \in DOMAIN accounts,
                      accounts[i].bootstrap, accounts[j].bootstrap,
                      accounts[i].id # accounts[j].id
               PROVE  Overlap(accounts[i].id, accounts[j].id)
    BY DEF OneBootstrap
  <2> DEFINE q == accounts[i].id
             r == accounts[j].id
  <2>1. q \in Boots /\ r \in Boots
    BY DEF Boots
  <2>2. q \in DOMAIN reqs /\ r \in DOMAIN reqs /\ Candidate(q) /\ Candidate(r)
    BY <2>1 DEF BootInv, Candidate
  <2>3. DOMAIN reqs \subseteq Nat
    BY TypedIsShaped DEF BootInv
  <2> HIDE DEF q, r
  <2>4. q < r => Overlap(q, r)
    BY <2>1, <2>2 DEF BootInv
  <2>5. r < q => Overlap(r, q)
    BY <2>1, <2>2 DEF BootInv
  <2>6. q < r \/ r < q
    BY <2>2, <2>3 DEF q, r
  <2> QED BY <2>4, <2>5, <2>6 DEF Overlap, q, r
<1> QED BY <1>1, <1>2, <1>3, PTL DEF Spec

--------------------------------------------------------------------------------
(* What the store keeps of its accounts and clients.  First, no lost update: a       *)
(* request that met no other changes of an account only what it is there to change,  *)
(* but for a login that found the account under a former address.  Then, on top of   *)
(* that, client codes identify, and a deleted client has no users.                   *)

(* Accounts whose name and kind are those their creation gave them.                *)
Known(f) == {x \in Account : x.id \in DOMAIN reqs /\ f[x.id] = <<x.name, x.kind>>}
NamesKnown ==
  \E f : /\ accounts \in Seq(Known(f))
         /\ \A r \in DOMAIN reqs : reqs[r].todo \in Seq(WorkOf(Known(f)))

(* What a request that met no other is to save is the newest version, as far as it *)
(* is not the request's to change.  For one that met another nothing is claimed.   *)
Told(r, x) ==
  \/ reqs[r].met # {}
  \/ /\ Versions(accounts, x.id) # {}
     /\ \/ Agree(reqs[r].op, x, Latest(accounts, x.id))
        \/ reqs[r].op = "login" /\ Renamed(x.id)
Kept(r) ==
  {w \in Work : /\ w.do \in {"cascade", "delete_each"} => reqs[r].op = "delete_client"
                /\ w.do = "account" => w.rec.by = r /\ Told(r, w.rec)
                /\ w.do = "delete_each" => \A x \in w.recs : Told(r, x)}
Creates(r) ==
  \E x \in Account :
    /\ reqs[r].todo = <<[do |-> "account", rec |-> x]>> /\ x.by = r
    /\ reqs[r].met # {} \/ Versions(accounts, x.id) = {}

SavesInv ==
  /\ TypeOK
  /\ NamesKnown
  /\ \A q, r \in DOMAIN reqs : q # r /\ Running(q) /\ Running(r) => q \in reqs[r].met
  /\ \A r \in DOMAIN reqs : Running(r) => Creates(r) \/ reqs[r].todo \in Seq(Kept(r))
  /\ \A i \in DOMAIN accounts : accounts[i].by \in DOMAIN reqs
  /\ SavesChangeOnlyTheirOwn

--------------------------------------------------------------------------------
LEMMA KnownAreClosed ==
  ASSUME NEW f, accounts \in Seq(Known(f))
  PROVE  /\ Closed(Known(f)) /\ NamesStay
         /\ \A i \in DOMAIN accounts : accounts[i].id \in DOMAIN reqs
<1>1. Closed(Known(f))
  BY DEF Closed, Known
<1>2. \A i \in DOMAIN accounts : accounts[i] \in Known(f)
  BY LenProperties, ElementOfSeq
<1>3. ASSUME NEW i \in DOMAIN accounts, NEW j \in DOMAIN accounts,
             accounts[i].id = accounts[j].id
      PROVE  accounts[i].name = accounts[j].name /\ accounts[i].kind = accounts[j].kind
  <2>1. <<accounts[i].name, accounts[i].kind>> = <<accounts[j].name, accounts[j].kind>>
    BY <1>2, <1>3 DEF Known
  <2> QED BY <2>1
<1> QED BY <1>1, <1>2, <1>3 DEF NamesStay, Known

(* The versions of an account after one more is appended.                          *)
LEMMA OneMoreVersion ==
  ASSUME accounts \in Seq(Account), NEW x, accounts' = Append(accounts, x), NEW id
  PROVE  /\ Len(accounts) + 1 \notin DOMAIN accounts
         /\ DOMAIN accounts' = DOMAIN accounts \cup {Len(accounts) + 1}
         /\ \A i \in DOMAIN accounts :
              i < Len(accounts) + 1 /\ i \in Nat /\ accounts'[i] = accounts[i]
         /\ accounts'[Len(accounts) + 1] = x
         /\ Versions(accounts, id) \subseteq Versions(accounts, id)'
         /\ x.id # id => Versions(accounts, id)' = Versions(accounts, id)
         /\ x.id = id => Latest(accounts, id)' = x /\ Versions(accounts, id)' # {}
         /\ x.id # id /\ Versions(accounts, id) # {}
              => Latest(accounts, id)' = Latest(accounts, id)
         /\ Renamed(id) => Renamed(id)'
<1> DEFINE n == Len(accounts) + 1
           vs == Versions(accounts, id)
           us == Versions(accounts, id)'
<1>1. /\ n \notin DOMAIN accounts /\ DOMAIN accounts' = DOMAIN accounts \cup {n}
      /\ \A i \in DOMAIN accounts : accounts'[i] = accounts[i]
      /\ accounts'[n] = x
  BY InSeqIsLog, LogAppend
<1>2. Len(accounts) \in Nat /\ DOMAIN accounts = 1..Len(accounts)
  BY LenProperties
<1>3. vs \subseteq us /\ vs \subseteq DOMAIN accounts /\ us \subseteq vs \cup {n}
      /\ (x.id # id => us = vs) /\ (x.id = id => n \in us)
  BY <1>1 DEF Versions
<1>4. x.id = id => Newest(us) = n
  <2> SUFFICES ASSUME x.id = id PROVE Newest(us) = n
    OBVIOUS
  <2>1. us \in SUBSET (1..n) /\ us # {} /\ n \in Nat
    BY <1>2, <1>3
  <2>2. n \in us
    BY <1>3
  <2> HIDE DEF us, n
  <2>3. PICK m : m = Newest(us) /\ m \in us /\ \A j \in us : j <= m
    BY <2>1, NewestIsIn
  <2>4. m \in 1..n /\ n <= m
    BY <2>1, <2>2, <2>3
  <2>5. m = n
    BY <2>1, <2>4
  <2> QED BY <2>3, <2>5
<1>5. x.id = id => Latest(accounts, id)' = x
  BY <1>1, <1>4 DEF Latest
<1>6. ASSUME x.id # id, vs # {}
      PROVE  Latest(accounts, id)' = Latest(accounts, id)
  <2>1. Newest(vs) \in vs
    <3>1. vs \in SUBSET (1..Len(accounts))
      BY <1>2, <1>3
    <3> HIDE DEF vs
    <3> QED BY <3>1, <1>2, <1>6, NewestIsIn
  <2>2. us = vs /\ Newest(vs) \in DOMAIN accounts
    BY <2>1, <1>3, <1>6
  <2> QED BY <2>2, <1>1 DEF Latest
<1>7. Renamed(id) => Renamed(id)'
  BY <1>1, <1>3 DEF Renamed
<1> QED BY <1>1, <1>2, <1>3, <1>5, <1>6, <1>7

(* An account is saved by a request that was told of it.                           *)
Fine(i, a) ==
  LET before == {j \in Versions(accounts, a.id) : j < i}
  IN  \/ before = {} \/ reqs[a.by].met # {}
      \/ reqs[a.by].op = "login" /\ Renamed(a.id)
      \/ \A f \in Fields \ Owned(reqs[a.by].op) : a[f] = accounts[Newest(before)][f]

LEMMA FineIsTheirOwn ==
  /\ SavesChangeOnlyTheirOwn <=> \A i \in DOMAIN accounts : Fine(i, accounts[i])
  /\ (\A i \in DOMAIN accounts' : \A a : a = accounts'[i] => Fine(i, a)')
       => SavesChangeOnlyTheirOwn'
<1>1. SavesChangeOnlyTheirOwn <=> \A i \in DOMAIN accounts : Fine(i, accounts[i])
  BY DEF SavesChangeOnlyTheirOwn, Fine, Fields
<1>2. (\A i \in DOMAIN accounts' : \A a : a = accounts'[i] => Fine(i, a)')
        => SavesChangeOnlyTheirOwn'
  BY DEF SavesChangeOnlyTheirOwn, Fine, Fields
<1> QED BY <1>1, <1>2

LEMMA ToldIsSaved ==
  ASSUME accounts \in Seq(Account), SavesChangeOnlyTheirOwn,
         \A i \in DOMAIN accounts : accounts[i].by \in DOMAIN reqs,
         NEW x, accounts' = Append(accounts, x), x.by \in DOMAIN reqs,
         \A q \in DOMAIN reqs : reqs'[q].op = reqs[q].op /\ reqs'[q].met = reqs[q].met,
         DOMAIN reqs' = DOMAIN reqs,
         Told(x.by, x) \/ Versions(accounts, x.id) = {}
  PROVE  /\ SavesChangeOnlyTheirOwn'
         /\ \A i \in DOMAIN accounts' : accounts'[i].by \in DOMAIN reqs'
<1>0. PICK n : n = Len(accounts) + 1
  OBVIOUS
<1>1. /\ n \notin DOMAIN accounts /\ DOMAIN accounts' = DOMAIN accounts \cup {n}
      /\ \A i \in DOMAIN accounts : i < n /\ i \in Nat /\ accounts'[i] = accounts[i]
      /\ accounts'[n] = x
  BY <1>0, OneMoreVersion
<1>2. Len(accounts) \in Nat /\ DOMAIN accounts = 1..Len(accounts)
  BY LenProperties
<1>3. \A i \in DOMAIN accounts' : accounts'[i].by \in DOMAIN reqs'
  BY <1>1
<1>4. ASSUME NEW b, b \subseteq DOMAIN accounts, b # {}
      PROVE  Newest(b) \in DOMAIN accounts
  BY <1>2, <1>4, NewestIsIn
<1>5. ASSUME NEW i \in DOMAIN accounts, NEW a, a = accounts[i]
      PROVE  Fine(i, a)'
  <2> DEFINE before == {j \in Versions(accounts, a.id) : j < i}
  <2>1. before' = before /\ before \subseteq DOMAIN accounts
    BY <1>1 DEF Versions
  <2>2. a.by \in DOMAIN reqs
    BY <1>5
  <2>3. Renamed(a.id) => Renamed(a.id)'
    BY OneMoreVersion
  <2>4. \/ before = {} \/ reqs[a.by].met # {}
        \/ reqs[a.by].op = "login" /\ Renamed(a.id)
        \/ \A f \in Fields \ Owned(reqs[a.by].op) : a[f] = accounts[Newest(before)][f]
    BY <1>5, FineIsTheirOwn DEF Fine
  <2> HIDE DEF before
  <2>5. before # {} => accounts'[Newest(before)] = accounts[Newest(before)]
    BY <2>1, <1>1, <1>4
  <2>6. \/ before' = {} \/ reqs'[a.by].met # {}
        \/ reqs'[a.by].op = "login" /\ Renamed(a.id)'
        \/ \A f \in Fields \ Owned(reqs'[a.by].op) : a[f] = accounts'[Newest(before')][f]
    BY <2>1, <2>2, <2>3, <2>4, <2>5
  <2> QED BY <2>6 DEF Fine, before
<1>6. Fine(n, x)'
  <2> DEFINE before == Versions(accounts, x.id)
  <2>1. {j \in Versions(accounts, x.id)' : j < n} = before /\ before \subseteq DOMAIN accounts
    BY <1>1 DEF Versions
  <2>2. Renamed(x.id) => Renamed(x.id)'
    BY OneMoreVersion
  <2>3. \/ before = {} \/ reqs[x.by].met # {}
        \/ reqs[x.by].op = "login" /\ Renamed(x.id)
        \/ \A f \in Fields \ Owned(reqs[x.by].op) : x[f] = accounts[Newest(before)][f]
    BY DEF Told, Agree, Latest
  <2> HIDE DEF before
  <2>4. before # {} => accounts'[Newest(before)] = accounts[Newest(before)]
    BY <2>1, <1>1, <1>4
  <2>5. \/ before = {} \/ reqs'[x.by].met # {}
        \/ reqs'[x.by].op = "login" /\ Renamed(x.id)'
        \/ \A f \in Fields \ Owned(reqs'[x.by].op) : x[f] = accounts'[Newest(before)][f]
    BY <2>2, <2>3, <2>4
  <2> QED BY <2>1, <2>5 DEF Fine
<1>7. \A i \in DOMAIN accounts' : \A a : a = accounts'[i] => Fine(i, a)'
  BY <1>1, <1>5, <1>6
<1> QED BY <1>3, <1>7, FineIsTheirOwn

(* What else the request was told of it still may save.                            *)
LEMMA ToldStaysTold ==
  ASSUME accounts \in Seq(Account), NEW r \in DOMAIN reqs, NEW x, NEW y,
         accounts' = Append(accounts, x), Told(r, x), Told(r, y),
         reqs'[r].op = reqs[r].op, reqs'[r].met = reqs[r].met
  PROVE  Told(r, y)'
<1>1. /\ Versions(accounts, y.id) \subseteq Versions(accounts, y.id)'
      /\ x.id = y.id => Latest(accounts, y.id)' = x
      /\ x.id # y.id /\ Versions(accounts, y.id) # {}
           => Latest(accounts, y.id)' = Latest(accounts, y.id)
      /\ Renamed(y.id) => Renamed(y.id)'
  BY OneMoreVersion
<1>2. CASE reqs[r].met # {}
  BY <1>2 DEF Told
<1>3. CASE reqs[r].op = "login" /\ Renamed(y.id) /\ Versions(accounts, y.id) # {}
  BY <1>1, <1>3 DEF Told
<1>4. CASE /\ Versions(accounts, y.id) # {} /\ Agree(reqs[r].op, y, Latest(accounts, y.id))
           /\ reqs[r].met = {} /\ ~(reqs[r].op = "login" /\ Renamed(y.id))
  <2>1. CASE x.id = y.id
    <3>1. Agree(reqs[r].op, x, Latest(accounts, y.id))
      BY <2>1, <1>4 DEF Told
    <3>2. Agree(reqs[r].op, y, x)
      BY <3>1, <1>4 DEF Agree
    <3>3. Agree(reqs[r].op, y, Latest(accounts, y.id)')
      BY <3>2, <2>1, <1>1
    <3>4. Agree(reqs'[r].op, y, Latest(accounts, y.id)')
      BY <3>3
    <3> QED BY <3>4, <1>1, <1>4 DEF Told, Agree
  <2>2. CASE x.id # y.id
    <3>1. Agree(reqs'[r].op, y, Latest(accounts, y.id)')
      BY <2>2, <1>1, <1>4
    <3> QED BY <3>1, <1>1, <1>4 DEF Told, Agree
  <2> QED BY <2>1, <2>2
<1> QED BY <1>2, <1>3, <1>4 DEF Told

LEMMA SameAccounts ==
  ASSUME accounts' = accounts
  PROVE  \A id : /\ Versions(accounts, id)' = Versions(accounts, id)
                 /\ Latest(accounts, id)' = Latest(accounts, id)
                 /\ Renamed(id)' = Renamed(id)
  BY DEF Versions, Latest, Renamed

LEMMA WorkGrows ==
  ASSUME NEW A, NEW B, A \subseteq B
  PROVE  WorkOf(A) \subseteq WorkOf(B) /\ Seq(WorkOf(A)) \subseteq Seq(WorkOf(B))
<1>1. WorkOf(A) \subseteq WorkOf(B)
  BY DEF WorkOf
<1> QED BY <1>1, SeqMonotonic

--------------------------------------------------------------------------------
(* A request begins.  It and those under way meet; what it is to save it has read. *)
LEMMA AllMeet ==
  ASSUME Shape, NEW op, NEW on, NEW todo, Begin(op, on, todo)
  PROVE  \A q \in DOMAIN reqs : Running(q) => Me \in reqs'[q].met
<1> DEFINE old == [r \in DOMAIN reqs |->
                     IF Running(r) THEN [reqs[r] EXCEPT !.met = @ \cup {Me}] ELSE reqs[r]]
<1>1. PICK new : reqs' = Append(old, new)
  BY DEF Begin
<1>2. IsLog(old) /\ DOMAIN old = DOMAIN reqs
  <2>1. DOMAIN old = DOMAIN reqs /\ old = [i \in DOMAIN reqs |-> old[i]]
    OBVIOUS
  <2> HIDE DEF old
  <2> QED BY <2>1, LogReplace DEF Shape
<1>3. ASSUME NEW q \in DOMAIN reqs, Running(q)
      PROVE  Me \in old[q].met
  <2>1. reqs[q] = [op |-> reqs[q].op, on |-> reqs[q].on, todo |-> reqs[q].todo,
                   cut |-> reqs[q].cut, met |-> reqs[q].met, dead |-> reqs[q].dead]
    BY DEF Shape, IsRequest
  <2>2. old[q] = [reqs[q] EXCEPT !.met = reqs[q].met \cup {Me}]
    BY <1>3
  <2> HIDE DEF old
  <2>3. old[q].met = reqs[q].met \cup {Me}
    BY <2>1, <2>2
  <2> QED BY <2>3
<1> HIDE DEF old
<1> QED BY <1>1, <1>2, <1>3, LogAppend

(* What the deletion of a client is to save.                                       *)
LEMMA DeletionSaves ==
  ASSUME clients \in Seq(Client), Me \in RequestIds, NEW op, NEW todo, Deletion(op, todo)
  PROVE  \E k \in RequestIds, rec \in Client :
           /\ todo = <<[do |-> "client", rec |-> rec], Do("cascade", k)>>
           /\ rec.id = k /\ rec.by = Me /\ rec.status = "deleted"
           /\ Present(clients, k) /\ rec.code = Latest(clients, k).code
<1>1. PICK k \in RequestIds :
        /\ Present(clients, k)
        /\ todo = <<SaveClientRecord([Latest(clients, k) EXCEPT !.status = "deleted"]),
                    Do("cascade", k)>>
  BY DEF Deletion
<1> DEFINE old == Latest(clients, k)
           gone == [old EXCEPT !.status = "deleted"]
           rec == [gone EXCEPT !.by = Me]
<1>2. old \in Client /\ old.id = k
  BY <1>1, Found
<1>3. gone \in Client /\ gone.id = k /\ gone.code = old.code /\ gone.status = "deleted"
  <2> HIDE DEF old
  <2> QED BY <1>2 DEF Client
<1>4. /\ rec \in Client /\ rec.id = k /\ rec.code = old.code /\ rec.status = "deleted"
      /\ rec.by = Me
  <2> HIDE DEF gone, old
  <2> QED BY <1>3 DEF Client
<1>5. todo = <<[do |-> "client", rec |-> rec], Do("cascade", k)>>
  BY <1>1 DEF SaveClientRecord
<1> HIDE DEF rec, gone
<1> QED BY <1>1, <1>4, <1>5

LEMMA SavesBegin ==
  ASSUME SavesInv, Call
  PROVE  SavesInv'
<1>0. TypeOK /\ Shape /\ Len(reqs) < MaxRequests
  BY TypedIsShaped DEF SavesInv, Call
<1>1. PICK m : m = Me
  OBVIOUS
<1>2. m \in RequestIds /\ DOMAIN reqs \subseteq RequestIds
  BY <1>0, <1>1, TypedIsShaped, LenProperties, IdentityBounds DEF TypeOK, Me, RequestIds
<1>3. PICK f : /\ accounts \in Seq(Known(f))
               /\ \A r \in DOMAIN reqs : reqs[r].todo \in Seq(WorkOf(Known(f)))
  BY DEF SavesInv, NamesKnown
<1>4. Closed(Known(f)) /\ NamesStay /\ \A i \in DOMAIN accounts : accounts[i].id \in DOMAIN reqs
  BY <1>3, KnownAreClosed
<1>5. PICK op, on, todo :
        /\ op \in Operations /\ on \in Nat /\ Begin(op, on, todo)
        /\ \/ Creation(op, todo) \/ Change(op, todo) \/ Deletion(op, todo)
           \/ op # "delete_client" /\ todo \in Seq(OwnWork(Known(f), op))
  BY <1>0, <1>3, <1>4, CallsSaveTheirOwn
<1>6. /\ accounts' = accounts
      /\ m \notin DOMAIN reqs /\ DOMAIN reqs' = DOMAIN reqs \cup {m}
      /\ \A q \in DOMAIN reqs :
           /\ reqs'[q].op = reqs[q].op /\ reqs'[q].todo = reqs[q].todo
           /\ reqs'[q].dead = reqs[q].dead /\ reqs[q].met \subseteq reqs'[q].met
           /\ Running(q) => q \in reqs'[m].met /\ m \in reqs'[q].met
      /\ reqs'[m].op = op /\ reqs'[m].todo = todo
  BY <1>0, <1>1, <1>5, RequestsBegin, AllMeet DEF stores
<1>7. \A q \in DOMAIN reqs : Running(q)' <=> Running(q)
  BY <1>6 DEF Running
<1>8. \/ /\ \E x \in Account : /\ todo = <<[do |-> "account", rec |-> x]>>
                              /\ x.by = m /\ x.id = m
      \/ Change(op, todo) \/ Deletion(op, todo)
      \/ todo \in Seq(OwnWork(Known(f), op))
  <2> SUFFICES ASSUME Creation(op, todo)
               PROVE  \E x \in Account : /\ todo = <<[do |-> "account", rec |-> x]>>
                                         /\ x.by = m /\ x.id = m
    BY <1>5
  <2>1. PICK rec \in Account : rec.id = m /\ todo = <<SaveActor(rec)>>
    <3>1. \A n \in Names, e \in Emails, k \in RequestIds :
            /\ NewAccount("client_user", n, e, k) \in Account
            /\ NewAccount("client_user", n, e, k).id = m
            /\ NewAccount("sustentra_user", n, e, 0) \in Account
            /\ NewAccount("sustentra_user", n, e, 0).id = m
      BY <1>1, <1>2 DEF NewAccount, Account
    <3>2. PICK n \in Names, e \in Emails :
            \/ todo = <<SaveActor(NewAccount("sustentra_user", n, e, 0))>>
            \/ \E k \in RequestIds :
                 todo = <<SaveActor(NewAccount("client_user", n, e, k))>>
      BY DEF Creation
    <3>3. CASE todo = <<SaveActor(NewAccount("sustentra_user", n, e, 0))>>
      BY <3>1, <3>3, <1>2
    <3>4. CASE \E k \in RequestIds : todo = <<SaveActor(NewAccount("client_user", n, e, k))>>
      BY <3>1, <3>4
    <3> QED BY <3>2, <3>3, <3>4
  <2> DEFINE x == [rec EXCEPT !.by = m]
  <2>2. x \in Account /\ x.by = m /\ x.id = m
    BY <2>1, <1>2 DEF Account
  <2>3. todo = <<[do |-> "account", rec |-> x]>>
    BY <2>1, <1>1 DEF SaveActor
  <2> QED BY <2>2, <2>3
<1>9. /\ todo \in Seq(Work)
      /\ \E g : /\ \A i \in DOMAIN reqs : g[i] = f[i]
               /\ todo \in Seq(WorkOf(Known(g)'))
  <2>1. CASE \E x \in Account : /\ todo = <<[do |-> "account", rec |-> x]>>
                               /\ x.by = m /\ x.id = m
    <3>1. PICK x \in Account : /\ todo = <<[do |-> "account", rec |-> x]>> /\ x.id = m
      BY <2>1
    <3> DEFINE g == [i \in RequestIds |-> IF i = m THEN <<x.name, x.kind>> ELSE f[i]]
    <3>2. (\A i \in DOMAIN reqs : g[i] = f[i]) /\ g[m] = <<x.name, x.kind>>
      BY <1>2, <1>6
    <3> HIDE DEF g
    <3>3. x \in Known(g)'
      BY <3>1, <3>2, <1>6 DEF Known
    <3>4. /\ [do |-> "account", rec |-> x] \in WorkOf(Known(g)')
          /\ [do |-> "account", rec |-> x] \in Work
      BY <3>3, ItemTypes, WorkIsAllWork
    <3>5. todo \in Seq(WorkOf(Known(g)')) /\ todo \in Seq(Work)
      BY <3>1, <3>4
    <3> QED BY <3>2, <3>5
  <2>2. CASE todo \in Seq(OwnWork(Known(f), op)) \/ Change(op, todo) \/ Deletion(op, todo)
    <3>1. OwnWork(Known(f), op) \subseteq WorkOf(Known(f))
      BY DEF OwnWork
    <3>2. Known(f) \subseteq Known(f)' /\ Known(f) \subseteq Account
      BY <1>6 DEF Known
    <3>3. todo \in Seq(WorkOf(Known(f)))
      <4>1. CASE todo \in Seq(OwnWork(Known(f), op))
        BY <4>1, <3>1, SeqMonotonic
      <4>2. CASE Deletion(op, todo)
        <5>1. clients \in Seq(Client) /\ Me \in RequestIds
          BY <1>0, <1>1, <1>2 DEF TypeOK
        <5> QED BY <4>2, <5>1, <1>4, DeletionIsTyped
      <4>3. CASE Change(op, todo)
        BY <4>3, ChangeIsTyped
      <4> QED BY <2>2, <4>1, <4>2, <4>3
    <3>4. todo \in Seq(WorkOf(Known(f)')) /\ todo \in Seq(Work)
      BY <3>2, <3>3, WorkGrows, WorkIsAllWork
    <3> QED BY <3>4
  <2> QED BY <1>8, <2>1, <2>2
<1>10. TypeOK'
  <2>1. Begins(Account)
    BY <1>5, <1>9, WorkIsAllWork DEF Begins
  <2> QED BY <2>1, <1>0, BeginIsTyped
<1>11. NamesKnown'
  <2>1. PICK g : /\ \A i \in DOMAIN reqs : g[i] = f[i]
                 /\ todo \in Seq(WorkOf(Known(g)'))
    BY <1>9
  <2>2. Known(f) \subseteq Known(g)'
    BY <2>1, <1>6 DEF Known
  <2>3. accounts' \in Seq(Known(g)')
    BY <2>2, <1>3, <1>6, SeqMonotonic
  <2>4. \A r \in DOMAIN reqs' : reqs'[r].todo \in Seq(WorkOf(Known(g)'))
    <3> HIDE DEF Known
    <3> QED BY <2>1, <2>2, <1>3, <1>6, WorkGrows
  <2> QED BY <2>3, <2>4 DEF NamesKnown
<1>12. \A q, r \in DOMAIN reqs' : q # r /\ Running(q)' /\ Running(r)' => q \in reqs'[r].met
  BY <1>6, <1>7 DEF SavesInv
<1>13. ASSUME NEW r \in DOMAIN reqs', Running(r)'
       PROVE  Creates(r)' \/ reqs'[r].todo \in Seq(Kept(r)')
  <2>1. CASE r \in DOMAIN reqs
    <3>1. Running(r) /\ reqs'[r].met # {}
      BY <2>1, <1>6, <1>7, <1>13
    <3>2. CASE Creates(r)
      BY <2>1, <3>1, <3>2, <1>6 DEF Creates
    <3>3. CASE reqs[r].todo \in Seq(Kept(r))
      <4>1. Kept(r) \subseteq Kept(r)'
        BY <2>1, <3>1, <1>6 DEF Kept, Told
      <4> QED BY <4>1, <2>1, <3>3, <1>6, SeqMonotonic
    <3> QED BY <2>1, <3>1, <3>2, <3>3 DEF SavesInv
  <2>2. CASE r = m
    <3>1. CASE \E x \in Account : /\ todo = <<[do |-> "account", rec |-> x]>>
                                 /\ x.by = m /\ x.id = m
      <4>1. PICK x \in Account : /\ todo = <<[do |-> "account", rec |-> x]>>
                                /\ x.by = m /\ x.id = m
        BY <3>1
      <4>2. Versions(accounts, x.id)' = {}
        BY <4>1, <1>4, <1>6 DEF Versions
      <4> QED BY <4>1, <4>2, <2>2, <1>6 DEF Creates
    <3>2. CASE todo \in Seq(OwnWork(Known(f), op))
      <4>1. ASSUME NEW w \in OwnWork(Known(f), op)
            PROVE  w \in Kept(m)'
        <5>1. w \in Work
          <6>1. Known(f) \subseteq Account
            BY DEF Known
          <6> QED BY <6>1, <4>1, WorkGrows, WorkIsAllWork DEF OwnWork
        <5>2. w.do \notin {"cascade", "delete_each"} /\ (w.do = "account" => Read(op, w.rec))
          BY <4>1 DEF OwnWork
        <5>3. w.do = "account" => w.rec.by = m /\ Told(m, w.rec)'
          BY <5>2, <1>1, <1>4, <1>6, SameAccounts DEF Read, Told, Agree
        <5> QED BY <5>1, <5>2, <5>3, <1>6 DEF Kept
      <4>2. todo \in Seq(Kept(m)')
        <5>1. OwnWork(Known(f), op) \subseteq Kept(m)'
          BY <4>1
        <5> QED BY <5>1, <3>2, SeqMonotonic
      <4> QED BY <4>2, <2>2, <1>6
    <3>3. CASE Deletion(op, todo)
      <4>1. PICK k \in RequestIds, rec \in Client :
              todo = <<[do |-> "client", rec |-> rec], Do("cascade", k)>>
        BY <3>3, <1>0, <1>1, <1>2, DeletionSaves DEF TypeOK
      <4>2. [do |-> "client", rec |-> rec] \in Kept(m)'
        BY ItemTypes, WorkIsAllWork DEF Kept
      <4>3. Do("cascade", k) \in Kept(m)'
        <5>1. op = "delete_client"
          BY <3>3 DEF Deletion
        <5> QED BY <5>1, <1>6, ItemTypes, WorkIsAllWork DEF Kept, Do
      <4>4. todo \in Seq(Kept(m)')
        BY <4>1, <4>2, <4>3
      <4> QED BY <4>4, <2>2, <1>6
    <3>4. CASE Change(op, todo)
      <4>1. PICK x \in Client : todo = <<[do |-> "client", rec |-> x]>>
        BY <3>4 DEF Change
      <4>2. [do |-> "client", rec |-> x] \in Kept(m)'
        BY ItemTypes, WorkIsAllWork DEF Kept
      <4>3. todo \in Seq(Kept(m)')
        BY <4>1, <4>2
      <4> QED BY <4>3, <2>2, <1>6
    <3> QED BY <3>1, <3>2, <3>3, <3>4, <1>8
  <2> QED BY <2>1, <2>2, <1>6
<1>14. \A i \in DOMAIN accounts' : accounts'[i].by \in DOMAIN reqs'
  BY <1>6 DEF SavesInv
<1>15. SavesChangeOnlyTheirOwn'
  <2> SUFFICES ASSUME NEW i \in DOMAIN accounts', NEW a, a = accounts'[i]
               PROVE  Fine(i, a)'
    BY FineIsTheirOwn
  <2>1. Fine(i, a) /\ a.by \in DOMAIN reqs
    BY <1>6, FineIsTheirOwn DEF SavesInv
  <2>2. reqs'[a.by].op = reqs[a.by].op /\ reqs[a.by].met \subseteq reqs'[a.by].met
    BY <2>1, <1>6
  <2> QED BY <2>1, <2>2, <1>6, SameAccounts DEF Fine
<1> QED BY <1>10, <1>11, <1>12, <1>13, <1>14, <1>15 DEF SavesInv

--------------------------------------------------------------------------------
(* A request goes on.  Alone, it saves what it was told of, and it still was told  *)
(* of the rest; if others are under way it has met them.                           *)
LEMMA KeptProgress ==
  ASSUME SavesInv, NEW r \in DOMAIN reqs, reqs[r].todo \in Seq(Kept(r)), Progress(r)
  PROVE  /\ reqs'[r].todo \in Seq(Kept(r)')
         /\ SavesChangeOnlyTheirOwn'
         /\ \A i \in DOMAIN accounts' : accounts'[i].by \in DOMAIN reqs'
<1> DEFINE K == Kept(r)
<1>0. /\ TypeOK /\ Shape /\ r \in RequestIds /\ RequestIds \subseteq Nat
      /\ accounts \in Seq(Account)
      /\ SavesChangeOnlyTheirOwn /\ \A i \in DOMAIN accounts : accounts[i].by \in DOMAIN reqs
  BY TypedIsShaped DEF SavesInv, TypeOK
<1>1. /\ DOMAIN reqs' = DOMAIN reqs
      /\ \A q \in DOMAIN reqs : reqs'[q].op = reqs[q].op /\ reqs'[q].met = reqs[q].met
  BY <1>0, OnlyItsOwnTodo
<1>2. reqs[r].todo # <<>>
  BY DEF Progress, WriteAccount, WriteClient, WriteSession, WriteReset, WriteChallenge,
     UseReset, ConsumeChallenge, EndSession, RevokeActorSessions, RevokeOne, Cascade,
     DeleteOne, Due, Running
<1>3. Item(r) \in K /\ Rest(r) \in Seq(K)
  BY <1>2, HeadTailProperties DEF Item, Rest
<1>4. Item(r) \in WorkOf(Account)
  BY <1>3, WorkIsAllWork DEF Kept
<1>5. /\ Item(r).do = "account" =>
           Item(r).rec \in Account /\ Item(r).rec.by = r /\ Told(r, Item(r).rec)
      /\ Item(r).do \in {"cascade", "delete_each"} => reqs[r].op = "delete_client"
      /\ Item(r).do = "delete_each" =>
           Item(r).recs \in SUBSET Account /\ \A x \in Item(r).recs : Told(r, x)
      /\ Item(r).do = "revoke_each" => Item(r).ids \in SUBSET Nat
  BY <1>3, <1>4, ItemFields DEF Kept
\* Nothing is saved: what is left is kept.
<1>6. ASSUME accounts' = accounts
      PROVE  /\ K = Kept(r)'
             /\ SavesChangeOnlyTheirOwn'
             /\ \A i \in DOMAIN accounts' : accounts'[i].by \in DOMAIN reqs'
  <2>1. \A x : Told(r, x)' <=> Told(r, x)
    BY <1>1, <1>6, SameAccounts DEF Told, Agree
  <2>2. K = Kept(r)'
    BY <2>1, <1>1 DEF Kept
  <2>3. SavesChangeOnlyTheirOwn'
    <3> SUFFICES ASSUME NEW i \in DOMAIN accounts', NEW a, a = accounts'[i]
                 PROVE  Fine(i, a)'
      BY FineIsTheirOwn
    <3>1. Fine(i, a) /\ a.by \in DOMAIN reqs
      BY <1>0, <1>6, FineIsTheirOwn
    <3> QED BY <3>1, <1>1, <1>6, SameAccounts DEF Fine
  <2> QED BY <2>2, <2>3, <1>0, <1>1, <1>6
\* x is saved: so is it, and what is left is kept.
<1>7. ASSUME NEW x \in Account, accounts' = Append(accounts, x), x.by = r, Told(r, x)
      PROVE  /\ K \subseteq Kept(r)'
             /\ SavesChangeOnlyTheirOwn'
             /\ \A i \in DOMAIN accounts' : accounts'[i].by \in DOMAIN reqs'
  <2>1. \A y : Told(r, y) => Told(r, y)'
    BY <1>0, <1>1, <1>7, ToldStaysTold
  <2>2. K \subseteq Kept(r)'
    BY <2>1, <1>1 DEF Kept
  <2> QED BY <2>2, <1>0, <1>1, <1>7, ToldIsSaved
<1>8. /\ \A a \in RequestIds : Do("revoke", a) \in Kept(r)'
      /\ \A is \in SUBSET Nat : [do |-> "revoke_each", ids |-> is] \in Kept(r)'
      /\ reqs[r].op = "delete_client" =>
           \A xs \in SUBSET Account : (\A x \in xs : Told(r, x)')
             => [do |-> "delete_each", recs |-> xs] \in Kept(r)'
  BY <1>1, ItemTypes, WorkIsAllWork DEF Kept, Do
<1>9. ASSUME NEW w, NEW s, w \in Kept(r)', s \in Seq(Kept(r)')
      PROVE  <<w>> \o s \in Seq(Kept(r)')
  <2> DEFINE L == Kept(r)'
  <2> HIDE DEF L
  <2>1. \A y \in L : <<y>> \in Seq(L)
    OBVIOUS
  <2>2. \A y \in L, t \in Seq(L) : <<y>> \o t \in Seq(L)
    BY <2>1, ConcatProperties
  <2> QED BY <2>2, <1>9 DEF L
<1>10. ASSUME NEW todo, Proceed(r, todo)
       PROVE  reqs'[r].todo = todo
  BY <1>0, <1>10, ProceedSetsTodo
<1> HIDE DEF K
<1>11. CASE WriteAccount(r)
  <2>1. PICK x \in Account : /\ accounts' = Append(accounts, x) /\ x.by = r /\ Told(r, x)
    BY <1>5, <1>11 DEF WriteAccount, Due, Item
  <2>2. reqs'[r].todo = Rest(r)
    BY <1>10, <1>11 DEF WriteAccount
  <2> QED BY <2>1, <2>2, <1>3, <1>7, SeqMonotonic
<1>12. CASE WriteClient(r) \/ WriteSession(r) \/ WriteReset(r) \/ WriteChallenge(r)
            \/ UseReset(r) \/ ConsumeChallenge(r) \/ EndSession(r)
  <2>1. accounts' = accounts /\ Proceed(r, Rest(r))
    BY <1>12 DEF WriteClient, WriteSession, WriteReset, WriteChallenge, UseReset,
       ConsumeChallenge, EndSession
  <2> QED BY <2>1, <1>3, <1>6, <1>10
<1>13. CASE RevokeActorSessions(r)
  <2> DEFINE ids == {s \in DOMAIN sessions : sessions[s].account = Item(r).id}
             item == [do |-> "revoke_each", ids |-> ids]
             todo == IF ids = {} THEN Rest(r) ELSE <<item>> \o Rest(r)
  <2>1. reqs' = [reqs EXCEPT ![r].cut = @ \cup {Item(r).id}, ![r].todo = todo]
        /\ accounts' = accounts
    BY <1>13 DEF RevokeActorSessions, stores
  <2>2. ids \in SUBSET Nat
    BY <1>0, LenProperties DEF TypeOK
  <2>3. item \in Kept(r)'
    <3> HIDE DEF ids
    <3> QED BY <2>2, <1>8
  <2>4. Rest(r) \in Seq(Kept(r)') /\ <<item>> \o Rest(r) \in Seq(Kept(r)')
    <3> HIDE DEF item
    <3> QED BY <2>1, <2>3, <1>3, <1>6, <1>9
  <2>5. todo \in Seq(Kept(r)')
    BY <2>4
  <2>6. reqs'[r].todo = todo
    <3> HIDE DEF todo
    <3>1. Changed(r, todo, reqs[r].cut \cup {Item(r).id}, reqs[r].dead)
      BY <2>1, <1>0, ProceedIsATodoChange DEF Changed
    <3> QED BY <3>1, <1>0, TodoChanges
  <2> HIDE DEF todo
  <2> QED BY <2>1, <2>5, <2>6, <1>6
<1>14. CASE RevokeOne(r)
  <2> DEFINE left == Item(r).ids \ {Newest(Item(r).ids)}
             item == [do |-> "revoke_each", ids |-> left]
             todo == IF left = {} THEN Rest(r) ELSE <<item>> \o Rest(r)
  <2>1. Proceed(r, todo) /\ accounts' = accounts
    BY <1>14 DEF RevokeOne
  <2>2. left \in SUBSET Nat
    BY <1>5, <1>14 DEF RevokeOne, Due, Item
  <2>3. item \in Kept(r)'
    <3> HIDE DEF left
    <3> QED BY <2>2, <1>8
  <2>4. Rest(r) \in Seq(Kept(r)') /\ <<item>> \o Rest(r) \in Seq(Kept(r)')
    <3> HIDE DEF item
    <3> QED BY <2>1, <2>3, <1>3, <1>6, <1>9
  <2>5. todo \in Seq(Kept(r)')
    BY <2>4
  <2> HIDE DEF todo
  <2> QED BY <2>1, <2>5, <1>6, <1>10
<1>15. CASE Cascade(r)
  <2> DEFINE users == {rec \in ListActive(accounts) :
                         rec.kind = "client_user" /\ rec.client = Item(r).id}
             item == [do |-> "delete_each", recs |-> users]
             todo == IF users = {} THEN Rest(r) ELSE <<item>> \o Rest(r)
  <2>1. Proceed(r, todo) /\ accounts' = accounts
    BY <1>15 DEF Cascade, stores
  <2>2. reqs[r].op = "delete_client"
    BY <1>5, <1>15 DEF Cascade, Due, Item
  <2>3. users \in SUBSET Account
    BY <1>0, ListedAreFound
  <2>4. ASSUME NEW x \in users
        PROVE  Told(r, x)'
    <3>1. PICK i \in DOMAIN accounts : x = Latest(accounts, accounts[i].id)
      BY DEF ListActive
    <3>2. Versions(accounts, accounts[i].id) # {}
      BY DEF Versions
    <3>3. x.id = accounts[i].id
      BY <3>1, <3>2, <1>0, Found
    <3>4. Told(r, x)
      BY <3>1, <3>2, <3>3 DEF Told, Agree
    <3> QED BY <3>4, <2>1, <1>1, SameAccounts DEF Told, Agree
  <2>5. item \in Kept(r)'
    <3> HIDE DEF users
    <3> QED BY <2>2, <2>3, <2>4, <1>8
  <2>6. Rest(r) \in Seq(Kept(r)') /\ <<item>> \o Rest(r) \in Seq(Kept(r)')
    <3> HIDE DEF item
    <3> QED BY <2>1, <2>5, <1>3, <1>6, <1>9
  <2>7. todo \in Seq(Kept(r)')
    BY <2>6
  <2> HIDE DEF todo
  <2> QED BY <2>1, <2>7, <1>6, <1>10
<1>16. CASE DeleteOne(r)
  <2>1. PICK rec \in Item(r).recs :
          LET left == Item(r).recs \ {rec}
          IN  /\ accounts' = Append(accounts, [rec EXCEPT !.status = "deleted", !.by = r])
              /\ Proceed(r, <<Do("revoke", rec.id)>>
                            \o (IF left = {} THEN Rest(r)
                                ELSE <<[do |-> "delete_each", recs |-> left]>> \o Rest(r)))
    BY <1>16 DEF DeleteOne
  <2> DEFINE left == Item(r).recs \ {rec}
             item == [do |-> "delete_each", recs |-> left]
             cut == Do("revoke", rec.id)
             more == IF left = {} THEN Rest(r) ELSE <<item>> \o Rest(r)
             new == [rec EXCEPT !.status = "deleted", !.by = r]
  <2>2. accounts' = Append(accounts, new) /\ Proceed(r, <<cut>> \o more)
    BY <2>1
  <2>3. /\ Item(r).recs \in SUBSET Account /\ \A x \in Item(r).recs : Told(r, x)
        /\ reqs[r].op = "delete_client"
    BY <1>5, <1>16 DEF DeleteOne, Due, Item
  <2>4. rec \in Account /\ new \in Account /\ rec.id \in RequestIds /\ Told(r, rec)
    <3>1. rec \in Account /\ Told(r, rec)
      BY <2>3
    <3>2. new \in Account
      BY <3>1, <1>0, Updates, AccountsAreClosed
    <3>3. rec.id \in RequestIds
      BY <3>1 DEF Account
    <3> QED BY <3>1, <3>2, <3>3
  <2>5. /\ new.id = rec.id /\ new.by = r /\ new.name = rec.name /\ new.kind = rec.kind
        /\ new.client = rec.client /\ new.email = rec.email /\ new.password = rec.password
        /\ new.secret = rec.secret /\ new.mfa = rec.mfa /\ new.codes = rec.codes
    BY <2>4 DEF Account
  <2>6. Told(r, new)
    <3>1. "status" \in Owned(reqs[r].op)
      BY <2>3 DEF Owned
    <3> HIDE DEF new
    <3>2. Agree(reqs[r].op, new, rec)
      BY <3>1, <2>5, AgreeByField
    <3> QED BY <3>2, <2>4, <2>5 DEF Told, Agree
  <2> HIDE DEF new
  <2>7. /\ K \subseteq Kept(r)' /\ SavesChangeOnlyTheirOwn'
        /\ \A i \in DOMAIN accounts' : accounts'[i].by \in DOMAIN reqs'
    BY <2>2, <2>4, <2>5, <2>6, <1>7
  <2>8. Rest(r) \in Seq(Kept(r)')
    BY <2>7, <1>3, SeqMonotonic
  <2>9. item \in Kept(r)'
    <3>1. \A x \in left : Told(r, x)'
      BY <2>2, <2>3, <2>6, <1>0, <1>1, ToldStaysTold
    <3>2. left \in SUBSET Account
      BY <2>3
    <3> HIDE DEF left
    <3> QED BY <3>1, <3>2, <2>3, <1>8
  <2>10. cut \in Kept(r)'
    BY <2>4, <1>8
  <2> HIDE DEF cut, item
  <2>11. <<item>> \o Rest(r) \in Seq(Kept(r)')
    BY <2>8, <2>9, <1>9
  <2>12. more \in Seq(Kept(r)')
    BY <2>8, <2>11
  <2> HIDE DEF more
  <2>13. <<cut>> \o more \in Seq(Kept(r)')
    BY <2>10, <2>12, <1>9
  <2> QED BY <2>2, <2>7, <2>13, <1>10
<1> QED BY <1>11, <1>12, <1>13, <1>14, <1>15, <1>16 DEF Progress

LEMMA CreationEnds ==
  ASSUME SavesInv, NEW r \in DOMAIN reqs, Creates(r), Progress(r)
  PROVE  /\ reqs'[r].todo = <<>>
         /\ SavesChangeOnlyTheirOwn'
         /\ \A i \in DOMAIN accounts' : accounts'[i].by \in DOMAIN reqs'
<1>0. /\ TypeOK /\ Shape /\ accounts \in Seq(Account)
      /\ SavesChangeOnlyTheirOwn /\ \A i \in DOMAIN accounts : accounts[i].by \in DOMAIN reqs
  BY TypedIsShaped DEF SavesInv, TypeOK
<1>1. /\ DOMAIN reqs' = DOMAIN reqs
      /\ \A q \in DOMAIN reqs : reqs'[q].op = reqs[q].op /\ reqs'[q].met = reqs[q].met
  BY <1>0, OnlyItsOwnTodo
<1>2. PICK x \in Account :
        /\ reqs[r].todo = <<[do |-> "account", rec |-> x]>> /\ x.by = r
        /\ reqs[r].met # {} \/ Versions(accounts, x.id) = {}
  BY DEF Creates
<1>3. Item(r) = [do |-> "account", rec |-> x] /\ Rest(r) = <<>>
  <2>1. \A w : Head(<<w>>) = w /\ Tail(<<w>>) = <<>>
    OBVIOUS
  <2> QED BY <2>1, <1>2 DEF Item, Rest
<1>4. WriteAccount(r)
  <2>1. \A what : Due(r, what) => what = "account"
    BY <1>3 DEF Due, Item
  <2> QED BY <2>1 DEF Progress, WriteClient, WriteSession, WriteReset, WriteChallenge,
     UseReset, ConsumeChallenge, EndSession, RevokeActorSessions, RevokeOne, Cascade,
     DeleteOne
<1>5. accounts' = Append(accounts, x) /\ reqs'[r].todo = <<>>
  BY <1>0, <1>3, <1>4, ProceedSetsTodo DEF WriteAccount
<1>6. Told(r, x) \/ Versions(accounts, x.id) = {}
  BY <1>2 DEF Told
<1> QED BY <1>0, <1>1, <1>2, <1>5, <1>6, ToldIsSaved

LEMMA SavesStep ==
  ASSUME SavesInv, NEW r \in DOMAIN reqs, Progress(r) \/ Stop(r)
  PROVE  SavesInv'
<1>0. TypeOK /\ Shape /\ TypeOK'
  BY TypedIsShaped, StepIsTyped DEF SavesInv
<1>1. /\ DOMAIN reqs' = DOMAIN reqs
      /\ \A q \in DOMAIN reqs : reqs'[q].op = reqs[q].op /\ reqs'[q].met = reqs[q].met
      /\ \A q \in DOMAIN reqs \ {r} : reqs'[q] = reqs[q]
      /\ Stop(r) => reqs'[r].dead
  BY <1>0, OnlyItsOwnTodo
<1>2. Running(r)
  BY DEF Progress, WriteAccount, WriteClient, WriteSession, WriteReset, WriteChallenge,
     UseReset, ConsumeChallenge, EndSession, RevokeActorSessions, RevokeOne, Cascade,
     DeleteOne, Stop, Due
<1>3. NamesKnown'
  <2>1. PICK f : /\ accounts \in Seq(Known(f))
                 /\ \A q \in DOMAIN reqs : reqs[q].todo \in Seq(WorkOf(Known(f)))
    BY DEF SavesInv, NamesKnown
  <2>2. Known(f)' = Known(f) /\ Closed(Known(f))
    BY <2>1, <1>1, KnownAreClosed DEF Known
  <2>3. accounts' \in Seq(Known(f)) /\ reqs'[r].todo \in Seq(WorkOf(Known(f)))
    <3>1. CASE Progress(r)
      <4>1. PICK todo \in Seq(WorkOf(Known(f))), cut \in SUBSET Nat :
              Changed(r, todo, cut, reqs[r].dead)
        BY <2>1, <2>2, <3>1, <1>0, ProgressIsTyped
      <4>2. accounts' \in Seq(Known(f))
        BY <2>1, <2>2, <3>1, <1>0, ProgressIsTyped
      <4> QED BY <4>1, <4>2, <1>0, TodoChanges
    <3>2. CASE Stop(r)
      <4>1. accounts' = accounts /\ reqs'[r].todo = reqs[r].todo
        BY <3>2, <1>0 DEF Stop, stores, Shape, IsRequest
      <4> QED BY <4>1, <2>1
    <3> QED BY <3>1, <3>2
  <2>4. \A q \in DOMAIN reqs' : reqs'[q].todo \in Seq(WorkOf(Known(f)'))
    BY <2>1, <2>2, <2>3, <1>1
  <2> QED BY <2>2, <2>3, <2>4 DEF NamesKnown
<1>4. ASSUME NEW q \in DOMAIN reqs, Running(q)'
      PROVE  Running(q)
  BY <1>1, <1>2, <1>4 DEF Running
<1>5. \A q, p \in DOMAIN reqs' : q # p /\ Running(q)' /\ Running(p)' => q \in reqs'[p].met
  BY <1>1, <1>4 DEF SavesInv
<1>6. /\ Running(r)' => reqs'[r].todo \in Seq(Kept(r)')
      /\ SavesChangeOnlyTheirOwn'
      /\ \A i \in DOMAIN accounts' : accounts'[i].by \in DOMAIN reqs'
  <2>1. CASE Progress(r)
    <3>1. Creates(r) \/ reqs[r].todo \in Seq(Kept(r))
      BY <1>2 DEF SavesInv
    <3>2. CASE Creates(r)
      BY <2>1, <3>2, CreationEnds DEF Running
    <3>3. CASE reqs[r].todo \in Seq(Kept(r))
      BY <2>1, <3>3, KeptProgress
    <3> QED BY <3>1, <3>2, <3>3
  <2>2. CASE Stop(r)
    <3>1. accounts' = accounts /\ ~Running(r)'
      BY <2>2, <1>1 DEF Stop, stores, Running
    <3>2. SavesChangeOnlyTheirOwn'
      <4> SUFFICES ASSUME NEW i \in DOMAIN accounts', NEW a, a = accounts'[i]
                   PROVE  Fine(i, a)'
        BY FineIsTheirOwn
      <4>1. Fine(i, a) /\ a.by \in DOMAIN reqs
        BY <3>1, FineIsTheirOwn DEF SavesInv
      <4> QED BY <4>1, <3>1, <1>1, SameAccounts DEF Fine
    <3> QED BY <3>1, <3>2, <1>1 DEF SavesInv
  <2> QED BY <2>1, <2>2
<1>7. ASSUME NEW q \in DOMAIN reqs', Running(q)'
      PROVE  Creates(q)' \/ reqs'[q].todo \in Seq(Kept(q)')
  <2>1. CASE q = r
    BY <2>1, <1>6, <1>7
  <2>2. CASE q # r
    <3>1. Running(q) /\ reqs[q].met # {} /\ reqs'[q] = reqs[q]
      BY <2>2, <1>1, <1>2, <1>4, <1>7 DEF SavesInv
    <3>2. Creates(q) => Creates(q)'
      BY <3>1 DEF Creates
    <3>3. Kept(q) \subseteq Kept(q)'
      BY <3>1 DEF Kept, Told
    <3>4. Creates(q) \/ reqs[q].todo \in Seq(Kept(q))
      BY <3>1, <1>1, <1>7 DEF SavesInv
    <3> QED BY <3>1, <3>2, <3>3, <3>4, SeqMonotonic
  <2> QED BY <2>1, <2>2
<1> QED BY <1>0, <1>3, <1>5, <1>6, <1>7 DEF SavesInv

LEMMA SavesStart ==
  ASSUME Init
  PROVE  SavesInv
<1>1. accounts = <<>> /\ reqs = <<>> /\ DOMAIN <<>> = {}
  BY DEF Init
<1>2. <<>> \in Seq(Account) /\ <<>> \in Seq(Client) /\ <<>> \in Seq(Session)
      /\ <<>> \in Seq(Token) /\ <<>> \in Seq(Request) /\ Len(<<>>) = 0
      /\ <<>> \in Seq(Known(<<>>))
  BY EmptySeq
<1>3. TypeOK
  BY <1>2, IdentityBounds DEF Init, TypeOK
<1> QED BY <1>1, <1>2, <1>3 DEF SavesInv, NamesKnown, SavesChangeOnlyTheirOwn

LEMMA SavesStay ==
  ASSUME SavesInv, UNCHANGED <<accounts, clients, sessions, resets, challenges, reqs>>
  PROVE  SavesInv'
<1>1. TypeOK' /\ NamesKnown'
  BY DEF SavesInv, TypeOK, NamesKnown, Known
<1>2. SavesChangeOnlyTheirOwn'
  <2> SUFFICES ASSUME NEW i \in DOMAIN accounts', NEW a, a = accounts'[i]
               PROVE  Fine(i, a)'
    BY FineIsTheirOwn
  <2>1. Fine(i, a)
    BY FineIsTheirOwn DEF SavesInv
  <2> QED BY <2>1, SameAccounts DEF Fine
<1>3. \A r : /\ Running(r)' <=> Running(r)
             /\ Creates(r)' <=> Creates(r)
             /\ Kept(r)' = Kept(r)
  BY SameAccounts DEF Running, Creates, Kept, Told, Agree
<1> QED BY <1>1, <1>2, <1>3 DEF SavesInv

(* No lost update: every handler of the identity service rewrites the whole account *)
(* record it read (repositories/identity_repository.py appends it); yet a request   *)
(* that met no other changes only what it is there to change, but for a login by a  *)
(* former address.                                                                   *)
THEOREM NoLostUpdate == Spec => []SavesChangeOnlyTheirOwn
<1>1. Init => SavesInv
  BY SavesStart
<1>2. SavesInv /\ [Next]_vars => SavesInv'
  <2> SUFFICES ASSUME SavesInv, [Next]_vars PROVE SavesInv'
    OBVIOUS
  <2>1. CASE Call
    BY <2>1, SavesBegin
  <2>2. CASE \E r \in DOMAIN reqs : Progress(r) \/ Stop(r)
    BY <2>2, SavesStep
  <2>3. CASE TimePasses \/ UNCHANGED vars
    <3>1. UNCHANGED <<accounts, clients, sessions, resets, challenges, reqs>>
      BY <2>3 DEF TimePasses, Expire, vars
    <3> QED BY <3>1, SavesStay
  <2> QED BY <2>1, <2>2, <2>3 DEF Next
<1>3. SavesInv => SavesChangeOnlyTheirOwn
  BY DEF SavesInv
<1> QED BY <1>1, <1>2, <1>3, PTL DEF Spec
--------------------------------------------------------------------------------
(* What is in a list of work, and the accounts and clients it is there to save.    *)
Items(s) == {s[j] : j \in DOMAIN s}
AccountsOf(w) == IF w.do = "account" THEN {w.rec}
                 ELSE IF w.do = "delete_each" THEN w.recs ELSE {}
ClientsOf(w) == IF w.do = "client" THEN {w.rec} ELSE {}
ToSave(r) == UNION {AccountsOf(w) : w \in Items(reqs[r].todo)}
ClientsToSave(r) == UNION {ClientsOf(w) : w \in Items(reqs[r].todo)}

LEMMA ItemsOfLists ==
  ASSUME NEW S
  PROVE  /\ Items(<<>>) = {}
         /\ \A s \in Seq(S) : Items(s) \subseteq S
         /\ \A s \in Seq(S) : s # <<>> => Items(s) = {Head(s)} \cup Items(Tail(s))
         /\ \A w \in S, s \in Seq(S) : Items(<<w>> \o s) = {w} \cup Items(s)
<1>1. Items(<<>>) = {}
  BY DEF Items
<1>2. ASSUME NEW s \in Seq(S)
      PROVE  Items(s) \subseteq S
  BY LenProperties, ElementOfSeq DEF Items
<1>3. ASSUME NEW s \in Seq(S), s # <<>>
      PROVE  Items(s) = {Head(s)} \cup Items(Tail(s))
  <2>1. /\ Tail(s) \in Seq(S) /\ Len(Tail(s)) = Len(s) - 1 /\ Head(s) = s[1]
        /\ \A i \in 1..Len(Tail(s)) : Tail(s)[i] = s[i + 1]
    BY <1>3, HeadTailProperties
  <2>2. /\ DOMAIN s = 1..Len(s) /\ Len(s) \in Nat
        /\ DOMAIN Tail(s) = 1..Len(Tail(s)) /\ Len(s) # 0
    BY <1>3, <2>1, LenProperties, EmptySeq
  <2>3. ASSUME NEW i \in DOMAIN s
        PROVE  s[i] \in {Head(s)} \cup Items(Tail(s))
    <3>1. CASE i = 1
      BY <2>1, <3>1
    <3>2. CASE i # 1
      <4>1. i - 1 \in DOMAIN Tail(s) /\ Tail(s)[i - 1] = s[i]
        BY <2>1, <2>2, <3>2
      <4> QED BY <4>1 DEF Items
    <3> QED BY <3>1, <3>2
  <2>4. ASSUME NEW i \in DOMAIN Tail(s)
        PROVE  Tail(s)[i] \in Items(s)
    <3>1. i + 1 \in DOMAIN s /\ Tail(s)[i] = s[i + 1]
      BY <2>1, <2>2
    <3> QED BY <3>1 DEF Items
  <2>5. Head(s) \in Items(s)
    BY <2>1, <2>2 DEF Items
  <2> QED BY <2>3, <2>4, <2>5 DEF Items
<1>4. ASSUME NEW w \in S, NEW s \in Seq(S)
      PROVE  Items(<<w>> \o s) = {w} \cup Items(s)
  <2> DEFINE t == <<w>> \o s
  <2>1. <<w>> \in Seq(S)
    OBVIOUS
  <2>2. t \in Seq(S) /\ Head(t) = w /\ Tail(t) = s /\ t # <<>>
    <3>1. /\ t \in Seq(S) /\ Len(t) = 1 + Len(s) /\ Len(s) \in Nat
          /\ \A i \in 1..(1 + Len(s)) : t[i] = IF i <= 1 THEN w ELSE s[i - 1]
      BY <2>1, ConcatProperties, LenProperties
    <3> HIDE DEF t
    <3>2. t # <<>> /\ Head(t) = w
      BY <3>1, EmptySeq
    <3>3. /\ Tail(t) \in Seq(S) /\ Len(Tail(t)) = Len(s)
          /\ \A i \in 1..Len(s) : Tail(t)[i] = t[i + 1]
      BY <3>1, <3>2, HeadTailProperties
    <3>4. \A i \in 1..Len(s) : Tail(t)[i] = s[i]
      BY <3>1, <3>3
    <3>5. Tail(t) = s
      BY <3>3, <3>4, SeqEqual
    <3> QED BY <3>1, <3>2, <3>5
  <2> HIDE DEF t
  <2> QED BY <2>2, <1>3 DEF t
<1> QED BY <1>1, <1>2, <1>3, <1>4

(* One step of a request: the first item is done, and what is left of it comes     *)
(* before the rest.                                                                *)
ItemDone(r, w, rest, left) ==
  /\ Items(reqs[r].todo) = {w} \cup rest /\ w = Head(reqs[r].todo)
  /\ Items(reqs'[r].todo) = left \cup rest
  /\ \/ /\ w.do = "account" /\ accounts' = Append(accounts, w.rec)
        /\ clients' = clients /\ left = {}
     \/ /\ w.do = "client" /\ clients' = Append(clients, w.rec)
        /\ accounts' = accounts /\ left = {} /\ reqs'[r].todo = Tail(reqs[r].todo)
     \/ /\ w.do = "delete_each" /\ clients' = clients
        /\ \E x \in w.recs :
             /\ accounts' = Append(accounts, [x EXCEPT !.status = "deleted", !.by = r])
             /\ left = {Do("revoke", x.id)} \cup
                  (IF w.recs = {x} THEN {}
                   ELSE {[do |-> "delete_each", recs |-> w.recs \ {x}]})
     \/ /\ w.do = "cascade" /\ UNCHANGED <<accounts, clients>>
        /\ \E xs \in SUBSET ListActive(accounts) :
             /\ xs = {x \in ListActive(accounts) :
                        x.kind = "client_user" /\ x.client = w.id}
             /\ left = IF xs = {} THEN {} ELSE {[do |-> "delete_each", recs |-> xs]}
     \/ /\ w.do \notin {"account", "client", "delete_each", "cascade"}
        /\ UNCHANGED <<accounts, clients>>
        /\ \A v \in left : v.do = "revoke_each"

LEMMA ItemIsDone ==
  ASSUME TypeOK, NEW r \in DOMAIN reqs, Progress(r)
  PROVE  \E w \in Work, rest \in SUBSET Work, left \in SUBSET Work : ItemDone(r, w, rest, left)
<1> DEFINE w == Item(r)
           rest == Items(Rest(r))
<1>0. /\ Shape /\ r \in RequestIds /\ r \in Nat /\ RequestIds \subseteq Nat
      /\ reqs[r].todo \in Seq(Work) /\ accounts \in Seq(Account)
  BY TypedIsShaped DEF TypeOK, Request
<1>1. reqs[r].todo # <<>>
  BY DEF Progress, WriteAccount, WriteClient, WriteSession, WriteReset, WriteChallenge,
     UseReset, ConsumeChallenge, EndSession, RevokeActorSessions, RevokeOne, Cascade,
     DeleteOne, Due, Running
<1>2. /\ w \in Work /\ Rest(r) \in Seq(Work) /\ rest \in SUBSET Work
      /\ w = Head(reqs[r].todo)
      /\ Items(reqs[r].todo) = {w} \cup rest
  BY <1>0, <1>1, HeadTailProperties, ItemsOfLists DEF Item, Rest
<1>3. /\ w.do = "revoke_each" => w.ids \in SUBSET Nat
      /\ w.do = "delete_each" => w.recs \in SUBSET Account
  BY <1>2, WorkIsAllWork, ItemFields
<1>4. ASSUME NEW todo, Proceed(r, todo)
      PROVE  reqs'[r].todo = todo
  BY <1>0, <1>4, ProceedSetsTodo
<1>5. ASSUME NEW v \in Work
      PROVE  Items(<<v>> \o Rest(r)) = {v} \cup rest
  BY <1>2, ItemsOfLists
<1>6. /\ \A a \in RequestIds : Do("revoke", a) \in Work
      /\ \A is \in SUBSET Nat : [do |-> "revoke_each", ids |-> is] \in Work
      /\ \A xs \in SUBSET Account : [do |-> "delete_each", recs |-> xs] \in Work
  BY WorkIsAllWork, ItemTypes
<1>7. CASE WriteAccount(r)
  <2>1. /\ w.do = "account" /\ accounts' = Append(accounts, w.rec) /\ clients' = clients
        /\ reqs'[r].todo = Rest(r)
    BY <1>4, <1>7 DEF WriteAccount, Due, Item
  <2>2. Items(reqs'[r].todo) = {} \cup rest
    BY <2>1
  <2> HIDE DEF w, rest
  <2> QED BY <2>1, <2>2, <1>2 DEF ItemDone
<1>8. CASE WriteClient(r)
  <2>1. /\ w.do = "client" /\ clients' = Append(clients, w.rec) /\ accounts' = accounts
        /\ reqs'[r].todo = Tail(reqs[r].todo)
    BY <1>4, <1>8 DEF WriteClient, Due, Item, Rest
  <2>2. Items(reqs'[r].todo) = {} \cup rest
    BY <2>1 DEF Rest
  <2> HIDE DEF w, rest
  <2> QED BY <2>1, <2>2, <1>2 DEF ItemDone
<1>9. CASE WriteSession(r) \/ WriteReset(r) \/ WriteChallenge(r)
           \/ UseReset(r) \/ ConsumeChallenge(r) \/ EndSession(r)
  <2>1. /\ w.do \notin {"account", "client", "delete_each", "cascade"}
        /\ UNCHANGED <<accounts, clients>> /\ Proceed(r, Rest(r))
    BY <1>9 DEF WriteSession, WriteReset, WriteChallenge, UseReset, ConsumeChallenge,
       EndSession, Due, Item
  <2>2. PICK left : left = {}
    OBVIOUS
  <2>3. Items(reqs'[r].todo) = left \cup rest
    BY <2>1, <2>2, <1>4
  <2>4. left \in SUBSET Work /\ \A v \in left : v.do = "revoke_each"
    BY <2>2
  <2> HIDE DEF w, rest
  <2> QED BY <2>1, <2>3, <2>4, <1>2 DEF ItemDone
<1>10. CASE RevokeActorSessions(r)
  <2> DEFINE ids == {s \in DOMAIN sessions : sessions[s].account = w.id}
             item == [do |-> "revoke_each", ids |-> ids]
             todo == IF ids = {} THEN Rest(r) ELSE <<item>> \o Rest(r)
             left == IF ids = {} THEN {} ELSE {item}
  <2>1. /\ w.do = "revoke" /\ UNCHANGED <<accounts, clients>>
        /\ reqs' = [reqs EXCEPT ![r].cut = @ \cup {w.id}, ![r].todo = todo]
    BY <1>10 DEF RevokeActorSessions, Due, Item, stores
  <2>2. item \in Work
    <3>1. ids \in SUBSET Nat
      BY LenProperties DEF TypeOK
    <3> HIDE DEF ids
    <3> QED BY <3>1, <1>6
  <2>3. reqs'[r].todo = todo
    <3> HIDE DEF todo
    <3>1. Changed(r, todo, reqs[r].cut \cup {w.id}, reqs[r].dead)
      BY <2>1, <1>0, ProceedIsATodoChange DEF Changed
    <3> QED BY <3>1, <1>0, TodoChanges
  <2>4. Items(reqs'[r].todo) = left \cup rest
    <3> HIDE DEF ids, item, rest
    <3> QED BY <2>2, <2>3, <1>5 DEF rest
  <2>5. left \in SUBSET Work /\ \A v \in left : v.do = "revoke_each"
    BY <2>2
  <2> HIDE DEF w, rest, left
  <2> QED BY <2>1, <2>4, <2>5, <1>2 DEF ItemDone
<1>11. CASE RevokeOne(r)
  <2> DEFINE ids == w.ids \ {Newest(w.ids)}
             item == [do |-> "revoke_each", ids |-> ids]
             todo == IF ids = {} THEN Rest(r) ELSE <<item>> \o Rest(r)
             left == IF ids = {} THEN {} ELSE {item}
  <2>1. /\ w.do = "revoke_each" /\ UNCHANGED <<accounts, clients>> /\ Proceed(r, todo)
    BY <1>11 DEF RevokeOne, Due, Item
  <2>2. item \in Work
    <3>1. ids \in SUBSET Nat
      BY <2>1, <1>3
    <3> HIDE DEF ids
    <3> QED BY <3>1, <1>6
  <2>3. reqs'[r].todo = todo
    BY <2>1, <1>4
  <2>4. Items(reqs'[r].todo) = left \cup rest
    <3> HIDE DEF ids, item, rest
    <3> QED BY <2>2, <2>3, <1>5 DEF rest
  <2>5. left \in SUBSET Work /\ \A v \in left : v.do = "revoke_each"
    BY <2>2
  <2> HIDE DEF w, rest, left
  <2> QED BY <2>1, <2>4, <2>5, <1>2 DEF ItemDone
<1>12. CASE Cascade(r)
  <2> DEFINE xs == {x \in ListActive(accounts) : x.kind = "client_user" /\ x.client = w.id}
             item == [do |-> "delete_each", recs |-> xs]
             todo == IF xs = {} THEN Rest(r) ELSE <<item>> \o Rest(r)
             left == IF xs = {} THEN {} ELSE {item}
  <2>1. /\ w.do = "cascade" /\ UNCHANGED <<accounts, clients>> /\ Proceed(r, todo)
    BY <1>12 DEF Cascade, Due, Item, stores
  <2>2. item \in Work
    <3>1. xs \in SUBSET Account
      BY <1>0, ListedAreFound
    <3> HIDE DEF xs
    <3> QED BY <3>1, <1>6
  <2>3. reqs'[r].todo = todo
    BY <2>1, <1>4
  <2>4. Items(reqs'[r].todo) = left \cup rest
    <3> HIDE DEF xs, item, rest
    <3> QED BY <2>2, <2>3, <1>5 DEF rest
  <2>5. left \in SUBSET Work /\ xs \in SUBSET ListActive(accounts)
    BY <2>2
  <2>6. \E ys \in SUBSET ListActive(accounts) :
          /\ ys = {x \in ListActive(accounts) : x.kind = "client_user" /\ x.client = w.id}
          /\ left = IF ys = {} THEN {} ELSE {[do |-> "delete_each", recs |-> ys]}
    BY <2>5
  <2> HIDE DEF w, rest, left
  <2>7. ItemDone(r, w, rest, left)
    BY <2>1, <2>4, <2>6, <1>2 DEF ItemDone
  <2> QED BY <2>5, <2>7, <1>2
<1>13. CASE DeleteOne(r)
  <2>1. PICK x \in w.recs :
          LET others == w.recs \ {x}
          IN  /\ accounts' = Append(accounts, [x EXCEPT !.status = "deleted", !.by = r])
              /\ Proceed(r, <<Do("revoke", x.id)>>
                            \o (IF others = {} THEN Rest(r)
                                ELSE <<[do |-> "delete_each", recs |-> others]>> \o Rest(r)))
    BY <1>13 DEF DeleteOne, Item
  <2> DEFINE others == w.recs \ {x}
             item == [do |-> "delete_each", recs |-> others]
             cut == Do("revoke", x.id)
             more == IF others = {} THEN Rest(r) ELSE <<item>> \o Rest(r)
             last == IF others = {} THEN {} ELSE {item}
             left == {cut} \cup last
  <2>2. /\ w.do = "delete_each" /\ clients' = clients
        /\ accounts' = Append(accounts, [x EXCEPT !.status = "deleted", !.by = r])
        /\ Proceed(r, <<cut>> \o more)
    BY <2>1, <1>13 DEF DeleteOne, Due, Item
  <2>3. item \in Work /\ cut \in Work
    <3>1. others \in SUBSET Account /\ x.id \in RequestIds
      BY <2>2, <1>3 DEF Account
    <3> HIDE DEF others
    <3> QED BY <3>1, <1>6
  <2>4. more \in Seq(Work) /\ Items(more) = last \cup rest
    <3> HIDE DEF others, item, rest
    <3>1. <<item>> \in Seq(Work)
      BY <2>3
    <3>2. <<item>> \o Rest(r) \in Seq(Work)
      BY <3>1, <1>2, ConcatProperties
    <3> QED BY <3>2, <2>3, <1>2, <1>5 DEF rest
  <2>5. Items(reqs'[r].todo) = left \cup rest
    <3> HIDE DEF more, last, cut, rest
    <3>1. Items(<<cut>> \o more) = {cut} \cup Items(more)
      BY <2>3, <2>4, ItemsOfLists
    <3> QED BY <3>1, <2>2, <2>4, <1>4
  <2>6. left \in SUBSET Work
    BY <2>3
  <2>7. left = {Do("revoke", x.id)} \cup
                 (IF w.recs = {x} THEN {}
                  ELSE {[do |-> "delete_each", recs |-> w.recs \ {x}]})
    <3>1. others = {} <=> w.recs = {x}
      OBVIOUS
    <3> QED BY <3>1
  <2>8. \E y \in w.recs :
          /\ accounts' = Append(accounts, [y EXCEPT !.status = "deleted", !.by = r])
          /\ left = {Do("revoke", y.id)} \cup
                 (IF w.recs = {y} THEN {}
                  ELSE {[do |-> "delete_each", recs |-> w.recs \ {y}]})
    <3> HIDE DEF left
    <3> QED BY <2>1, <2>2, <2>7
  <2> HIDE DEF w, rest, left
  <2>9. ItemDone(r, w, rest, left)
    BY <2>2, <2>5, <2>8, <1>2 DEF ItemDone
  <2> QED BY <2>6, <2>9, <1>2
<1> QED BY <1>7, <1>8, <1>9, <1>10, <1>11, <1>12, <1>13 DEF Progress

--------------------------------------------------------------------------------
(* What a store lists is what is present in it.                                    *)
LEMMA ListedIsLatest ==
  ASSUME NEW S, NEW log \in Seq(S)
  PROVE  /\ \A rec \in ListActive(log) :
              /\ Present(log, rec.id) /\ rec = Latest(log, rec.id) /\ rec \in S
              /\ rec.status # "deleted" /\ Newest(Versions(log, rec.id)) \in DOMAIN log
              /\ rec = log[Newest(Versions(log, rec.id))]
         /\ \A id : Present(log, id) =>
              Latest(log, id) \in ListActive(log) /\ Latest(log, id).id = id
<1>1. ASSUME NEW rec \in ListActive(log)
      PROVE  /\ Present(log, rec.id) /\ rec = Latest(log, rec.id) /\ rec \in S
             /\ rec.status # "deleted" /\ Newest(Versions(log, rec.id)) \in DOMAIN log
             /\ rec = log[Newest(Versions(log, rec.id))]
  <2>1. PICK i \in DOMAIN log : rec = Latest(log, log[i].id) /\ rec.status # "deleted"
    BY DEF ListActive
  <2>2. Versions(log, log[i].id) # {}
    BY DEF Versions
  <2>3. rec.id = log[i].id /\ rec \in S
        /\ Newest(Versions(log, log[i].id)) \in Versions(log, log[i].id)
    BY <2>1, <2>2, Found
  <2>4. Versions(log, log[i].id) \subseteq DOMAIN log
    BY DEF Versions
  <2> QED BY <2>1, <2>2, <2>3, <2>4 DEF Present, Latest
<1>2. ASSUME NEW id, Present(log, id)
      PROVE  Latest(log, id) \in ListActive(log) /\ Latest(log, id).id = id
  <2>1. /\ Latest(log, id).id = id /\ Latest(log, id).status # "deleted"
        /\ Newest(Versions(log, id)) \in Versions(log, id)
    BY <1>2, Found DEF Present
  <2>2. PICK i \in DOMAIN log : log[i].id = id
    BY <2>1 DEF Versions
  <2> QED BY <2>1, <2>2 DEF ListActive
<1> QED BY <1>1, <1>2

(* A store after one more record is appended.                                      *)
Extends(more, log, x) ==
  /\ Len(log) \in Nat /\ DOMAIN log = 1..Len(log)
  /\ DOMAIN more = DOMAIN log \cup {Len(log) + 1} /\ more[Len(log) + 1] = x
  /\ \A i \in DOMAIN log : more[i] = log[i]
  /\ \A id : Versions(log, id) \subseteq Versions(more, id)
  /\ Versions(more, x.id) # {} /\ Latest(more, x.id) = x
  /\ Newest(Versions(more, x.id)) = Len(log) + 1
  /\ \A id : id # x.id => Versions(more, id) = Versions(log, id)
  /\ \A id : id # x.id /\ Versions(log, id) # {} => Latest(more, id) = Latest(log, id)
  /\ \A rec \in ListActive(more) :
       \/ rec = x /\ x.status # "deleted"
       \/ rec \in ListActive(log) /\ rec.id # x.id

LEMMA OneMoreRecord ==
  ASSUME NEW S, NEW log \in Seq(S), NEW x
  PROVE  Extends(Append(log, x), log, x)
<1> DEFINE more == Append(log, x)
<1> HIDE DEF more
<1>0. PICK n : n = Len(log) + 1
  OBVIOUS
<1>1. /\ n \notin DOMAIN log /\ DOMAIN more = DOMAIN log \cup {n}
      /\ \A i \in DOMAIN log : more[i] = log[i]
      /\ more[n] = x
  BY <1>0, InSeqIsLog, LogAppend DEF more
<1>2. Len(log) \in Nat /\ DOMAIN log = 1..Len(log) /\ n \in Nat /\ DOMAIN more = 1..n
  BY <1>0, <1>1, LenProperties
<1>3. \A id : /\ Versions(log, id) \subseteq Versions(more, id)
              /\ Versions(log, id) \subseteq DOMAIN log
              /\ id # x.id => Versions(more, id) = Versions(log, id)
  BY <1>1 DEF Versions
<1>4. Newest(Versions(more, x.id)) = n
  <2> DEFINE vs == Versions(more, x.id)
  <2>1. n \in vs /\ vs \in SUBSET (1..n)
    BY <1>1, <1>2 DEF Versions
  <2> HIDE DEF vs
  <2>2. PICK m : m = Newest(vs) /\ m \in vs /\ \A j \in vs : j <= m
    BY <2>1, <1>2, NewestIsIn
  <2>3. m = n
    BY <2>1, <2>2, <1>2
  <2> QED BY <2>2, <2>3 DEF vs
<1>5. Versions(more, x.id) # {} /\ Latest(more, x.id) = x
  <2>1. n \in Versions(more, x.id)
    BY <1>1 DEF Versions
  <2> QED BY <2>1, <1>1, <1>4 DEF Latest
<1>6. ASSUME NEW id, id # x.id, Versions(log, id) # {}
      PROVE  Latest(more, id) = Latest(log, id)
  <2>1. Newest(Versions(log, id)) \in DOMAIN log
    BY <1>3, <1>6, Found
  <2> QED BY <2>1, <1>1, <1>3, <1>6 DEF Latest
<1>7. ASSUME NEW rec \in ListActive(more)
      PROVE  \/ rec = x /\ x.status # "deleted"
             \/ rec \in ListActive(log) /\ rec.id # x.id
  <2>1. PICK i \in DOMAIN more : rec = Latest(more, more[i].id) /\ rec.status # "deleted"
    BY DEF ListActive
  <2>2. CASE more[i].id = x.id
    BY <2>1, <2>2, <1>5
  <2>3. CASE more[i].id # x.id
    <3>1. i \in DOMAIN log /\ log[i].id # x.id /\ more[i] = log[i]
      BY <2>3, <1>1
    <3>2. Versions(log, log[i].id) # {}
      BY <3>1 DEF Versions
    <3>3. rec = Latest(log, log[i].id) /\ rec.id = log[i].id
      BY <2>1, <3>1, <3>2, <1>6, Found
    <3> QED BY <2>1, <3>1, <3>3 DEF ListActive
  <2> QED BY <2>2, <2>3
<1>8. Extends(more, log, x)
  BY <1>0, <1>1, <1>2, <1>3, <1>4, <1>5, <1>6, <1>7 DEF Extends
<1> QED BY <1>8 DEF more

--------------------------------------------------------------------------------
(* A field that tells records apart: of those that are present and hold v, each    *)
(* has the newest version that holds it, so there is one at most.                  *)
Last(log, f, v) ==
  \A rec \in ListActive(log), i \in DOMAIN log :
    rec[f] = v /\ log[i][f] = v => i <= Newest(Versions(log, rec.id))
OneOf(recs, f, v) == \A x, y \in recs : x[f] = v /\ y[f] = v => x.id = y.id

LEMMA LastIsOne ==
  ASSUME NEW S, NEW log \in Seq(S), NEW f, NEW v, Last(log, f, v)
  PROVE  OneOf(ListActive(log), f, v)
<1> SUFFICES ASSUME NEW x \in ListActive(log), NEW y \in ListActive(log), x[f] = v, y[f] = v
             PROVE  x.id = y.id
  BY DEF OneOf
<1>1. PICK i, j :
        /\ i = Newest(Versions(log, x.id)) /\ i \in DOMAIN log /\ x = log[i]
        /\ j = Newest(Versions(log, y.id)) /\ j \in DOMAIN log /\ y = log[j]
  BY ListedIsLatest
<1>2. i <= j /\ j <= i
  BY <1>1 DEF Last
<1>3. i = j
  BY <1>1, <1>2, LenProperties
<1> QED BY <1>1, <1>3

(* A record is appended that is no other than the one it would share v with.       *)
LEMMA LastStays ==
  ASSUME NEW S, NEW log \in Seq(S), NEW x, NEW more, more = Append(log, x),
         NEW f, NEW v, Last(log, f, v),
         x[f] = v => \A rec \in ListActive(log) : rec[f] = v => rec.id = x.id
  PROVE  Last(more, f, v)
<1> SUFFICES ASSUME NEW rec \in ListActive(more), NEW i \in DOMAIN more,
                    rec[f] = v, more[i][f] = v
             PROVE  i <= Newest(Versions(more, rec.id))
  BY DEF Last
<1>0. PICK n : n = Len(log) + 1
  OBVIOUS
<1>1. Len(log) \in Nat /\ DOMAIN log = 1..Len(log)
  BY LenProperties
<1>2. n \in Nat /\ \A j \in DOMAIN log : j \in Nat /\ j <= n
  BY <1>0, <1>1
<1>3. /\ DOMAIN more = DOMAIN log \cup {Len(log) + 1}
      /\ more[Len(log) + 1] = x /\ \A j \in DOMAIN log : more[j] = log[j]
      /\ Newest(Versions(more, x.id)) = Len(log) + 1
      /\ \A id : id # x.id => Versions(more, id) = Versions(log, id)
      /\ \/ rec = x
         \/ rec \in ListActive(log) /\ rec.id # x.id
  <2>1. Extends(more, log, x)
    BY OneMoreRecord
  <2> QED BY <2>1 DEF Extends
<1>4. CASE rec = x
  BY <1>0, <1>2, <1>3, <1>4
<1>5. CASE rec \in ListActive(log) /\ rec.id # x.id
  <2>1. i \in DOMAIN log
    BY <1>0, <1>3, <1>5
  <2>2. log[i][f] = v
    BY <2>1, <1>3
  <2> QED BY <2>1, <2>2, <1>3, <1>5 DEF Last
<1> QED BY <1>3, <1>4, <1>5

LEMMA FewerAreOne ==
  ASSUME NEW A, NEW B, A \subseteq B, NEW f, NEW v, OneOf(B, f, v)
  PROVE  OneOf(A, f, v)
  BY DEF OneOf

(* Under a code that no client is found by, but for one, none is present but it.   *)
LEMMA NobodyElseHasTheCode ==
  ASSUME clients \in Seq(Client), NEW c, NEW except, Last(clients, "code", c),
         FindCode(c, except) = {}
  PROVE  \A rec \in ListActive(clients) : rec.code = c => rec.id \in except
<1> SUFFICES ASSUME NEW rec \in ListActive(clients), rec.code = c, rec.id \notin except
             PROVE  FALSE
  OBVIOUS
<1> DEFINE is == {i \in DOMAIN clients : clients[i].code = c /\ clients[i].id \notin except}
<1>1. Len(clients) \in Nat /\ DOMAIN clients = 1..Len(clients)
  BY LenProperties
<1>2. PICK m : /\ m = Newest(Versions(clients, rec.id)) /\ m \in DOMAIN clients
               /\ rec = clients[m] /\ rec \in Client /\ rec.status # "deleted"
  BY ListedIsLatest
<1>3. m \in is /\ is \in SUBSET (1..Len(clients))
  BY <1>1, <1>2
<1>4. \A i \in is : i <= m
  BY <1>2 DEF Last
<1> HIDE DEF is
<1>5. PICK j : j = Newest(is) /\ j \in is /\ \A i \in is : i <= j
  BY <1>1, <1>3, NewestIsIn
<1>6. j = m
  BY <1>1, <1>3, <1>4, <1>5
<1> QED BY <1>2, <1>3, <1>5, <1>6 DEF FindCode, FindLatest, is

--------------------------------------------------------------------------------
(* What a step appends is what its request was to save, at most marked deleted;    *)
(* what the request then is to save it was to save before, or is listed now.       *)
AppendsOne(r) ==
  \E y \in ToSave(r), x \in Account :
    /\ accounts' = Append(accounts, x) /\ x.by = r /\ x.id = y.id /\ x.name = y.name
    /\ x.kind = y.kind /\ x.client = y.client
    /\ \/ x = y /\ \E w \in Items(reqs[r].todo) : w.do = "account"
       \/ x.status = "deleted"

LEMMA SavedAreAccounts ==
  ASSUME TypeOK, NEW r \in DOMAIN reqs
  PROVE  /\ Items(reqs[r].todo) \subseteq Work
         /\ ToSave(r) \subseteq Account /\ ClientsToSave(r) \subseteq Client
         /\ Items(reqs[r].todo) \subseteq WorkOf(Account)
<1>1. reqs[r].todo \in Seq(Work)
  BY TypedIsShaped DEF Request
<1>2. Items(reqs[r].todo) \subseteq Work
  BY <1>1, ItemsOfLists
<1>3. \A w \in Items(reqs[r].todo) : AccountsOf(w) \subseteq Account /\ ClientsOf(w) \subseteq Client
  BY <1>2, WorkIsAllWork, ItemFields DEF AccountsOf, ClientsOf
<1> QED BY <1>2, <1>3, WorkIsAllWork DEF ToSave, ClientsToSave

LEMMA SavesAreOnes ==
  ASSUME SavesInv, NEW r \in DOMAIN reqs, Running(r), NEW w \in Items(reqs[r].todo),
         w.do = "account"
  PROVE  w.rec \in Account /\ w.rec.by = r
<1>1. w.rec \in Account
  BY SavedAreAccounts, ItemFields DEF SavesInv
<1>2. CASE Creates(r)
  <2>1. PICK x \in Account : reqs[r].todo = <<[do |-> "account", rec |-> x]>> /\ x.by = r
    BY <1>2 DEF Creates
  <2>2. Items(reqs[r].todo) = {[do |-> "account", rec |-> x]}
    BY <2>1 DEF Items
  <2> QED BY <2>1, <2>2, <1>1
<1>3. CASE reqs[r].todo \in Seq(Kept(r))
  <2>1. w \in Kept(r)
    BY <1>3, ItemsOfLists
  <2> QED BY <2>1, <1>1 DEF Kept
<1> QED BY <1>2, <1>3 DEF SavesInv

LEMMA StepOnStores ==
  ASSUME SavesInv, NEW r \in DOMAIN reqs, Progress(r)
  PROVE  /\ ToSave(r)' \subseteq ToSave(r) \cup ListActive(accounts)
         /\ accounts' = accounts \/ AppendsOne(r)
         /\ ClientsToSave(r)' \subseteq ClientsToSave(r)
         /\ clients' = clients \/ \E y \in ClientsToSave(r) : clients' = Append(clients, y)
<1>0. TypeOK /\ Running(r)
  BY DEF SavesInv, Progress, WriteAccount, WriteClient, WriteSession, WriteReset,
     WriteChallenge, UseReset, ConsumeChallenge, EndSession, RevokeActorSessions, RevokeOne,
     Cascade, DeleteOne, Due
<1>1. PICK w \in Work, rest \in SUBSET Work, left \in SUBSET Work : ItemDone(r, w, rest, left)
  BY <1>0, ItemIsDone
<1>2. /\ \A x : x \in ToSave(r) <=> x \in AccountsOf(w) \/ \E v \in rest : x \in AccountsOf(v)
      /\ \A x : x \in ToSave(r)' <=> \E v \in left \cup rest : x \in AccountsOf(v)
      /\ \A x : x \in ClientsToSave(r) <=> x \in ClientsOf(w) \/ \E v \in rest : x \in ClientsOf(v)
      /\ \A x : x \in ClientsToSave(r)' <=> \E v \in left \cup rest : x \in ClientsOf(v)
  BY <1>1 DEF ItemDone, ToSave, ClientsToSave
<1>3. ASSUME left = {}
      PROVE  ToSave(r)' \subseteq ToSave(r) /\ ClientsToSave(r)' \subseteq ClientsToSave(r)
  BY <1>2, <1>3
<1>4. /\ \A a : AccountsOf(Do("revoke", a)) = {} /\ ClientsOf(Do("revoke", a)) = {}
      /\ \A xs : /\ AccountsOf([do |-> "delete_each", recs |-> xs]) = xs
                 /\ ClientsOf([do |-> "delete_each", recs |-> xs]) = {}
      /\ \A v : v.do = "revoke_each" => AccountsOf(v) = {} /\ ClientsOf(v) = {}
  BY DEF AccountsOf, ClientsOf, Do
<1>5. CASE /\ w.do = "account" /\ accounts' = Append(accounts, w.rec)
           /\ clients' = clients /\ left = {}
  <2>1. w.rec \in Account /\ w.rec.by = r /\ w.rec \in ToSave(r)
    BY <1>0, <1>1, <1>2, <1>5, SavesAreOnes DEF AccountsOf, ItemDone
  <2>2. AppendsOne(r)
    BY <2>1, <1>1, <1>5 DEF AppendsOne, ItemDone
  <2> QED BY <2>2, <1>3, <1>5
<1>6. CASE /\ w.do = "client" /\ clients' = Append(clients, w.rec)
           /\ accounts' = accounts /\ left = {}
  <2>1. w.rec \in ClientsToSave(r)
    BY <1>2, <1>6 DEF ClientsOf
  <2> QED BY <2>1, <1>3, <1>6
<1>7. CASE /\ w.do = "delete_each" /\ clients' = clients
           /\ \E x \in w.recs :
                /\ accounts' = Append(accounts, [x EXCEPT !.status = "deleted", !.by = r])
                /\ left = {Do("revoke", x.id)} \cup
                     (IF w.recs = {x} THEN {}
                      ELSE {[do |-> "delete_each", recs |-> w.recs \ {x}]})
  <2>1. PICK x \in w.recs :
          /\ accounts' = Append(accounts, [x EXCEPT !.status = "deleted", !.by = r])
          /\ left = {Do("revoke", x.id)} \cup
               (IF w.recs = {x} THEN {}
                ELSE {[do |-> "delete_each", recs |-> w.recs \ {x}]})
    BY <1>7
  <2>2. AccountsOf(w) = w.recs /\ w.recs \subseteq ToSave(r)
    BY <1>2, <1>7 DEF AccountsOf
  <2>3. ASSUME NEW v \in left
        PROVE  AccountsOf(v) \subseteq w.recs /\ ClientsOf(v) = {}
    BY <2>1, <1>4
  <2>4. ToSave(r)' \subseteq ToSave(r) /\ ClientsToSave(r)' \subseteq ClientsToSave(r)
    BY <2>2, <2>3, <1>2
  <2>5. x \in Account /\ r \in RequestIds
    BY <2>2, <1>0, SavedAreAccounts, TypedIsShaped
  <2> DEFINE new == [x EXCEPT !.status = "deleted", !.by = r]
  <2>6. /\ new \in Account /\ new.by = r /\ new.id = x.id /\ new.name = x.name
        /\ new.kind = x.kind /\ new.client = x.client /\ new.status = "deleted"
    BY <2>5 DEF Account
  <2>7. accounts' = Append(accounts, new)
    BY <2>1
  <2> HIDE DEF new
  <2>8. AppendsOne(r)
    BY <2>2, <2>6, <2>7 DEF AppendsOne
  <2> QED BY <2>4, <2>8, <1>7
<1>8. CASE /\ w.do = "cascade" /\ UNCHANGED <<accounts, clients>>
           /\ \E xs \in SUBSET ListActive(accounts) :
                left = IF xs = {} THEN {} ELSE {[do |-> "delete_each", recs |-> xs]}
  <2>1. PICK xs \in SUBSET ListActive(accounts) :
          left = IF xs = {} THEN {} ELSE {[do |-> "delete_each", recs |-> xs]}
    BY <1>8
  <2>2. \A v \in left : AccountsOf(v) \subseteq ListActive(accounts) /\ ClientsOf(v) = {}
    BY <2>1, <1>4
  <2>3. /\ ToSave(r)' \subseteq ToSave(r) \cup ListActive(accounts)
        /\ ClientsToSave(r)' \subseteq ClientsToSave(r)
    BY <2>2, <1>2
  <2> QED BY <2>3, <1>8
<1>9. CASE /\ w.do \notin {"account", "client", "delete_each", "cascade"}
           /\ UNCHANGED <<accounts, clients>>
           /\ \A v \in left : v.do = "revoke_each"
  <2>1. /\ ToSave(r)' \subseteq ToSave(r) /\ ClientsToSave(r)' \subseteq ClientsToSave(r)
    BY <1>2, <1>4, <1>9
  <2> QED BY <2>1, <1>9
<1> QED BY <1>1, <1>5, <1>6, <1>7, <1>8, <1>9 DEF ItemDone

(* One of the records to save is appended under its id and name: all others keep   *)
(* apart from it.                                                                  *)
LEMMA OneOfStays ==
  ASSUME NEW S, NEW log \in Seq(S), NEW x, NEW more, more = Append(log, x),
         NEW f, NEW v, NEW recs, NEW later, later \subseteq recs \cup ListActive(log),
         NEW y \in recs, x.id = y.id, x[f] = y[f],
         OneOf(recs \cup ListActive(log), f, v)
  PROVE  /\ OneOf(later \cup ListActive(more), f, v)
         /\ x[f] = v => \A rec \in ListActive(log) : rec[f] = v => rec.id = x.id
<1>1. Extends(more, log, x)
  BY OneMoreRecord
<1>2. \A a \in ListActive(more) : a = x \/ a \in ListActive(log)
  BY <1>1 DEF Extends
<1>3. ASSUME NEW a \in later \cup ListActive(more), a[f] = v
      PROVE  \E b \in recs \cup ListActive(log) : b.id = a.id /\ b[f] = v
  <2>1. CASE a = x
    BY <2>1, <1>3
  <2>2. CASE a # x
    BY <2>2, <1>2, <1>3
  <2> QED BY <2>1, <2>2
<1> QED BY <1>3 DEF OneOf

--------------------------------------------------------------------------------
(* Codes identify.  Unless a version with the code was written by a request that   *)
(* met another, the code tells the present clients apart, together with what a     *)
(* request that met none is to save.                                               *)
CleanCode(c) ==
  \A i \in DOMAIN clients : clients[i].code = c => reqs[clients[i].by].met = {}
Alone(r) == Running(r) /\ reqs[r].met = {}
CodeApart(c) ==
  /\ Last(clients, "code", c)
  /\ \A r \in DOMAIN reqs : Alone(r) => OneOf(ClientsToSave(r) \cup ListActive(clients), "code", c)
CodesInv ==
  /\ SavesInv
  /\ \A r \in DOMAIN reqs : \A x \in ClientsToSave(r) : x.by = r
  /\ \A i \in DOMAIN clients : clients[i].by \in DOMAIN reqs
  /\ \A c \in ClientCodes : CleanCode(c) => CodeApart(c)

(* A record under another value disturbs nothing.                                  *)
LEMMA OtherValueStays ==
  ASSUME NEW S, NEW log \in Seq(S), NEW x, NEW more, more = Append(log, x),
         NEW f, NEW v, x[f] # v, Last(log, f, v)
  PROVE  Last(more, f, v)
  BY LastStays

LEMMA RunningOnes ==
  ASSUME SavesInv, NEW r \in DOMAIN reqs, Progress(r) \/ Stop(r)
  PROVE  /\ DOMAIN reqs' = DOMAIN reqs /\ Running(r)
         /\ \A q \in DOMAIN reqs : reqs'[q].met = reqs[q].met /\ reqs'[q].op = reqs[q].op
         /\ \A q \in DOMAIN reqs : Running(q)' => Running(q)
         /\ \A q \in DOMAIN reqs \ {r} : reqs'[q] = reqs[q]
         /\ \A q \in DOMAIN reqs : Alone(q)' => q = r
<1>1. /\ DOMAIN reqs' = DOMAIN reqs
      /\ \A q \in DOMAIN reqs : reqs'[q].op = reqs[q].op /\ reqs'[q].met = reqs[q].met
      /\ \A q \in DOMAIN reqs \ {r} : reqs'[q] = reqs[q]
  BY TypedIsShaped, OnlyItsOwnTodo DEF SavesInv
<1>2. Running(r)
  BY DEF Progress, WriteAccount, WriteClient, WriteSession, WriteReset, WriteChallenge,
     UseReset, ConsumeChallenge, EndSession, RevokeActorSessions, RevokeOne, Cascade,
     DeleteOne, Stop, Due
<1>3. \A q \in DOMAIN reqs : Running(q)' => Running(q)
  BY <1>1, <1>2 DEF Running
<1>4. ASSUME NEW q \in DOMAIN reqs, Alone(q)', q # r
      PROVE  FALSE
  <2>1. Running(q) /\ reqs[q].met = {}
    BY <1>1, <1>3, <1>4 DEF Alone
  <2>2. r \in reqs[q].met
    BY <2>1, <1>2, <1>4 DEF SavesInv
  <2> QED BY <2>1, <2>2
<1> QED BY <1>1, <1>2, <1>3, <1>4

LEMMA StopOnStores ==
  ASSUME TypeOK, NEW r \in DOMAIN reqs, Stop(r)
  PROVE  /\ accounts' = accounts /\ clients' = clients
         /\ reqs'[r].todo = reqs[r].todo
         /\ ToSave(r)' = ToSave(r) /\ ClientsToSave(r)' = ClientsToSave(r)
<1>1. accounts' = accounts /\ clients' = clients /\ reqs'[r].todo = reqs[r].todo
  BY TypedIsShaped DEF Stop, stores, Shape, IsRequest
<1> QED BY <1>1 DEF ToSave, ClientsToSave

(* What a step does to the stores, whether the request goes on or stops.           *)
LEMMA AnyStepOnStores ==
  ASSUME SavesInv, NEW r \in DOMAIN reqs, Progress(r) \/ Stop(r)
  PROVE  /\ ToSave(r)' \subseteq ToSave(r) \cup ListActive(accounts)
         /\ accounts' = accounts \/ AppendsOne(r)
         /\ ClientsToSave(r)' \subseteq ClientsToSave(r)
         /\ clients' = clients \/ \E y \in ClientsToSave(r) : clients' = Append(clients, y)
         /\ \A q \in DOMAIN reqs \ {r} :
              ToSave(q)' = ToSave(q) /\ ClientsToSave(q)' = ClientsToSave(q)
<1>1. TypeOK
  BY DEF SavesInv
<1>2. \A q \in DOMAIN reqs \ {r} :
        ToSave(q)' = ToSave(q) /\ ClientsToSave(q)' = ClientsToSave(q)
  BY RunningOnes DEF ToSave, ClientsToSave
<1>3. CASE Progress(r)
  BY <1>2, <1>3, StepOnStores
<1>4. CASE Stop(r)
  BY <1>1, <1>2, <1>4, StopOnStores
<1> QED BY <1>3, <1>4

LEMMA CodesStep ==
  ASSUME CodesInv, NEW r \in DOMAIN reqs, Progress(r) \/ Stop(r)
  PROVE  CodesInv'
<1>0. /\ SavesInv /\ TypeOK /\ accounts \in Seq(Account) /\ clients \in Seq(Client)
      /\ \A i \in DOMAIN accounts : accounts[i].by \in DOMAIN reqs
  BY DEF CodesInv, SavesInv, TypeOK
<1>1. SavesInv'
  BY <1>0, SavesStep
<1>2. /\ DOMAIN reqs' = DOMAIN reqs /\ Running(r)
      /\ \A q \in DOMAIN reqs : reqs'[q].met = reqs[q].met
      /\ \A q \in DOMAIN reqs : Alone(q)' => q = r
  BY <1>0, RunningOnes
<1>3. /\ ToSave(r)' \subseteq ToSave(r) \cup ListActive(accounts)
      /\ accounts' = accounts \/ AppendsOne(r)
      /\ ClientsToSave(r)' \subseteq ClientsToSave(r)
      /\ clients' = clients \/ \E y \in ClientsToSave(r) : clients' = Append(clients, y)
      /\ \A q \in DOMAIN reqs \ {r} : ClientsToSave(q)' = ClientsToSave(q)
  BY <1>0, AnyStepOnStores
<1>4. \A q \in DOMAIN reqs' : \A x \in ClientsToSave(q)' : x.by = q
  BY <1>2, <1>3 DEF CodesInv
<1>5. \A x : clients' = Append(clients, x) => Extends(clients', clients, x)
  BY <1>0, OneMoreRecord
<1>6. \A i \in DOMAIN clients' : clients'[i].by \in DOMAIN reqs'
  <2>1. CASE clients' = clients
    BY <2>1, <1>2 DEF CodesInv
  <2>2. ASSUME NEW y \in ClientsToSave(r), clients' = Append(clients, y)
        PROVE  \A i \in DOMAIN clients' : clients'[i].by \in DOMAIN reqs'
    BY <2>2, <1>2, <1>5 DEF CodesInv, Extends
  <2> QED BY <2>1, <2>2, <1>3
<1>8. ASSUME NEW c \in ClientCodes, CleanCode(c)'
      PROVE  CodeApart(c)'
  <2>1. CASE clients' = clients
    <3>1. CleanCode(c)
      BY <2>1, <1>2, <1>8 DEF CleanCode, CodesInv
    <3>2. CodeApart(c)
      BY <3>1 DEF CodesInv
    <3>3. ASSUME Alone(r)'
          PROVE  OneOf(ClientsToSave(r)' \cup ListActive(clients), "code", c)
      <4>1. OneOf(ClientsToSave(r) \cup ListActive(clients), "code", c)
        BY <3>2, <3>3, <1>2 DEF CodeApart, Alone
      <4>2. ClientsToSave(r)' \cup ListActive(clients) \subseteq ClientsToSave(r) \cup ListActive(clients)
        BY <1>3
      <4> QED BY <4>1, <4>2, FewerAreOne
    <3> QED BY <2>1, <3>2, <3>3, <1>2 DEF CodeApart
  <2>2. ASSUME NEW y \in ClientsToSave(r), clients' = Append(clients, y)
        PROVE  CodeApart(c)'
    <3>1. Extends(clients', clients, y) /\ y.by = r
      BY <2>2, <1>0, OneMoreRecord DEF CodesInv
    <3>2. CleanCode(c)
      BY <3>1, <1>2, <1>8 DEF CleanCode, CodesInv, Extends
    <3>3. CodeApart(c)
      BY <3>2 DEF CodesInv
    <3>4. y.code = c => reqs[r].met = {}
      BY <2>2, <3>1, <1>2, <1>8 DEF CleanCode, Extends
    <3>5. Last(clients', "code", c)
      <4>1. CASE y.code # c
        BY <4>1, <2>2, <3>3, <1>0, OtherValueStays DEF CodeApart
      <4>2. CASE y.code = c
        <5>1. OneOf(ClientsToSave(r) \cup ListActive(clients), "code", c)
          BY <4>2, <3>3, <3>4, <1>2 DEF CodeApart, Alone
        <5>2. y["code"] = c => \A rec \in ListActive(clients) : rec["code"] = c => rec.id = y.id
          BY <5>1, <2>2 DEF OneOf
        <5> QED BY <5>2, <2>2, <3>3, <1>0, LastStays DEF CodeApart
      <4> QED BY <4>1, <4>2
    <3>6. ASSUME Alone(r)'
          PROVE  OneOf(ClientsToSave(r)' \cup ListActive(clients'), "code", c)
      <4>1. OneOf(ClientsToSave(r) \cup ListActive(clients), "code", c)
        BY <3>3, <3>6, <1>2 DEF CodeApart, Alone
      <4>2. ClientsToSave(r)' \subseteq ClientsToSave(r) \cup ListActive(clients)
        BY <1>3
      <4>3. y.id = y.id /\ y["code"] = y["code"]
        OBVIOUS
      <4> QED BY <4>1, <4>2, <4>3, <2>2, <1>0, OneOfStays
    <3> QED BY <3>5, <3>6, <1>2 DEF CodeApart, ListActive
  <2> QED BY <2>1, <2>2, <1>3
<1> QED BY <1>1, <1>4, <1>6, <1>8 DEF CodesInv

(* The records a list of work is there to save.                                    *)
AccountsIn(todo) == UNION {AccountsOf(w) : w \in Items(todo)}
ClientsIn(todo) == UNION {ClientsOf(w) : w \in Items(todo)}

(* What a call is to save of clients is one record, under a code that was not      *)
(* found, or under its own.                                                        *)
LEMMA OneClientChanges ==
  ASSUME clients \in Seq(Client), Me \in RequestIds, NEW op, NEW todo,
         Change(op, todo) \/ Deletion(op, todo)
  PROVE  \E x \in Client :
           /\ ClientsIn(todo) = {x} /\ x.by = Me
           /\ \/ Present(clients, x.id) /\ Latest(clients, x.id).code = x.code
              \/ FindCode(x.code, {}) = {} \/ FindCode(x.code, {x.id}) = {}
<1>1. CASE Change(op, todo)
  <2>1. PICK x \in Client : ReadClient(x) /\ todo = <<[do |-> "client", rec |-> x]>>
    BY <1>1 DEF Change
  <2>2. Items(todo) = {[do |-> "client", rec |-> x]}
    BY <2>1 DEF Items
  <2>3. ClientsIn(todo) = {x}
    BY <2>2 DEF ClientsIn, ClientsOf
  <2> QED BY <2>1, <2>3 DEF ReadClient
<1>2. CASE Deletion(op, todo)
  <2>1. PICK k \in RequestIds, rec \in Client :
          /\ todo = <<[do |-> "client", rec |-> rec], Do("cascade", k)>>
          /\ rec.id = k /\ rec.by = Me
          /\ Present(clients, k) /\ rec.code = Latest(clients, k).code
    BY <1>2, DeletionSaves
  <2>2. Items(todo) = {[do |-> "client", rec |-> rec], Do("cascade", k)}
    BY <2>1 DEF Items
  <2>3. ClientsIn(todo) = {rec}
    BY <2>2 DEF ClientsIn, ClientsOf, Do
  <2> QED BY <2>1, <2>3
<1> QED BY <1>1, <1>2

LEMMA NewCodeIsApart ==
  ASSUME TypeOK, Me \in RequestIds, NEW op, NEW todo, NEW c,
         Last(clients, "code", c), Change(op, todo) \/ Deletion(op, todo)
  PROVE  OneOf(ClientsIn(todo) \cup ListActive(clients), "code", c)
<1>0. clients \in Seq(Client) /\ OneOf(ListActive(clients), "code", c)
  BY LastIsOne DEF TypeOK
<1>1. PICK x : /\ ClientsIn(todo) = {x}
               /\ \/ Present(clients, x.id) /\ Latest(clients, x.id).code = x.code
                  \/ FindCode(x.code, {}) = {} \/ FindCode(x.code, {x.id}) = {}
  BY <1>0, OneClientChanges
<1>2. x.code = c => \A rec \in ListActive(clients) : rec.code = c => rec.id = x.id
  <2> SUFFICES ASSUME x.code = c, NEW rec \in ListActive(clients), rec.code = c
               PROVE  rec.id = x.id
    OBVIOUS
  <2>1. CASE Present(clients, x.id) /\ Latest(clients, x.id).code = x.code
    <3>1. Latest(clients, x.id) \in ListActive(clients) /\ Latest(clients, x.id).id = x.id
      BY <2>1, <1>0, ListedIsLatest
    <3> QED BY <3>1, <2>1, <1>0 DEF OneOf
  <2>2. CASE FindCode(x.code, {}) = {} \/ FindCode(x.code, {x.id}) = {}
    <3>1. rec.id \in {} \/ rec.id \in {x.id}
      BY <2>2, <1>0, NobodyElseHasTheCode
    <3> QED BY <3>1
  <2> QED BY <2>1, <2>2, <1>1
<1>3. x["code"] = c => \A rec \in ListActive(clients) : rec["code"] = c => rec.id = x.id
  BY <1>2
<1> QED BY <1>0, <1>1, <1>3 DEF OneOf

(* What calls of the other kinds are not there to save.                            *)
LEMMA OtherStoreIsLeft ==
  ASSUME NEW A, NEW op, NEW todo, Me \in RequestIds, clients \in Seq(Client)
  PROVE  /\ Creation(op, todo) \/ todo \in Seq(OwnWork(A, op)) => ClientsIn(todo) = {}
         /\ Change(op, todo) \/ Deletion(op, todo) => AccountsIn(todo) = {}
<1>1. ASSUME Creation(op, todo)
      PROVE  ClientsIn(todo) = {}
  <2>1. PICK rec : todo = <<SaveActor(rec)>>
    BY <1>1 DEF Creation
  <2>2. Items(todo) = {SaveActor(rec)}
    BY <2>1 DEF Items
  <2> QED BY <2>2 DEF ClientsIn, ClientsOf, SaveActor
<1>2. ASSUME todo \in Seq(OwnWork(A, op))
      PROVE  ClientsIn(todo) = {}
  <2>1. \A w \in Items(todo) : ClientsOf(w) = {}
    BY <1>2, ItemsOfLists DEF ClientsOf, OwnWork
  <2> QED BY <2>1 DEF ClientsIn
<1>3. ASSUME Change(op, todo)
      PROVE  AccountsIn(todo) = {}
  <2>1. PICK x : todo = <<[do |-> "client", rec |-> x]>>
    BY <1>3 DEF Change
  <2>2. Items(todo) = {[do |-> "client", rec |-> x]}
    BY <2>1 DEF Items
  <2> QED BY <2>2 DEF AccountsIn, AccountsOf
<1>4. ASSUME Deletion(op, todo)
      PROVE  AccountsIn(todo) = {}
  <2>1. PICK k \in RequestIds, rec \in Client :
          todo = <<[do |-> "client", rec |-> rec], Do("cascade", k)>>
    BY <1>4, DeletionSaves
  <2>2. Items(todo) = {[do |-> "client", rec |-> rec], Do("cascade", k)}
    BY <2>1 DEF Items
  <2> QED BY <2>2 DEF AccountsIn, AccountsOf, Do
<1> QED BY <1>1, <1>2, <1>3, <1>4

LEMMA CodesBegin ==
  ASSUME CodesInv, Call
  PROVE  CodesInv'
<1>0. /\ SavesInv /\ TypeOK /\ Shape /\ Len(reqs) < MaxRequests
      /\ \A i \in DOMAIN accounts : accounts[i].by \in DOMAIN reqs
  BY TypedIsShaped DEF CodesInv, SavesInv, Call
<1>1. PICK m : m = Me
  OBVIOUS
<1>2. m \in RequestIds
  BY <1>0, <1>1, LenProperties, IdentityBounds DEF TypeOK, Me, RequestIds
<1>3. PICK f : accounts \in Seq(Known(f))
  BY <1>0 DEF SavesInv, NamesKnown
<1>4. Closed(Known(f))
  BY <1>3, KnownAreClosed
<1>5. PICK op, on, todo :
        /\ op \in Operations /\ on \in Nat /\ Begin(op, on, todo)
        /\ \/ Creation(op, todo) \/ Change(op, todo) \/ Deletion(op, todo)
           \/ op # "delete_client" /\ todo \in Seq(OwnWork(Known(f), op))
  BY <1>0, <1>3, <1>4, CallsSaveTheirOwn
<1>6. /\ accounts' = accounts /\ clients' = clients
      /\ m \notin DOMAIN reqs /\ DOMAIN reqs' = DOMAIN reqs \cup {m}
      /\ \A q \in DOMAIN reqs :
           /\ reqs'[q].todo = reqs[q].todo /\ reqs'[q].dead = reqs[q].dead
           /\ reqs[q].met \subseteq reqs'[q].met
           /\ Running(q) => m \in reqs'[q].met
      /\ reqs'[m].todo = todo
  BY <1>0, <1>1, <1>5, RequestsBegin, AllMeet DEF stores
<1>7. SavesInv'
  BY <1>0, SavesBegin
<1>8. \A q \in DOMAIN reqs' : Alone(q)' => q = m
  BY <1>6 DEF Alone, Running
<1>9. /\ \A q \in DOMAIN reqs : ClientsToSave(q)' = ClientsToSave(q)
      /\ ToSave(m)' = AccountsIn(todo) /\ ClientsToSave(m)' = ClientsIn(todo)
  BY <1>6 DEF ToSave, ClientsToSave, AccountsIn, ClientsIn
<1>10. \A q \in DOMAIN reqs' : \A x \in ClientsToSave(q)' : x.by = q
  <2>1. \A x \in ClientsIn(todo) : x.by = m
    <3>1. CASE Change(op, todo) \/ Deletion(op, todo)
      BY <3>1, <1>0, <1>1, <1>2, OneClientChanges DEF TypeOK
    <3>2. CASE Creation(op, todo) \/ todo \in Seq(OwnWork(Known(f), op))
      BY <3>2, <1>0, <1>1, <1>2, OtherStoreIsLeft DEF TypeOK
    <3> QED BY <3>1, <3>2, <1>5
  <2> QED BY <2>1, <1>6, <1>9 DEF CodesInv
<1>11. \A i \in DOMAIN clients' : clients'[i].by \in DOMAIN reqs'
  BY <1>6 DEF CodesInv
<1>13. ASSUME NEW c \in ClientCodes, CleanCode(c)'
       PROVE  CodeApart(c)'
  <2>1. CleanCode(c)
    <3>1. \A i \in DOMAIN clients :
            reqs[clients[i].by].met \subseteq reqs'[clients[i].by].met
      BY <1>6 DEF CodesInv
    <3> QED BY <3>1, <1>6, <1>13 DEF CleanCode
  <2>2. CodeApart(c)
    BY <2>1 DEF CodesInv
  <2>3. OneOf(ClientsIn(todo) \cup ListActive(clients), "code", c)
    <3>1. CASE Change(op, todo) \/ Deletion(op, todo)
      BY <3>1, <2>2, <1>0, <1>1, <1>2, NewCodeIsApart DEF CodeApart
    <3>2. CASE Creation(op, todo) \/ todo \in Seq(OwnWork(Known(f), op))
      <4>1. ClientsIn(todo) = {}
        BY <3>2, <1>0, <1>1, <1>2, OtherStoreIsLeft DEF TypeOK
      <4>2. OneOf(ListActive(clients), "code", c)
        BY <2>2, <1>0, LastIsOne DEF TypeOK, CodeApart
      <4> QED BY <4>1, <4>2
    <3> QED BY <3>1, <3>2, <1>5
  <2> QED BY <2>2, <2>3, <1>6, <1>8, <1>9 DEF CodeApart, ListActive
<1> QED BY <1>7, <1>10, <1>11, <1>13 DEF CodesInv

LEMMA CodesStart ==
  ASSUME Init
  PROVE  CodesInv
<1>1. accounts = <<>> /\ clients = <<>> /\ reqs = <<>> /\ DOMAIN <<>> = {}
  BY DEF Init
<1>2. SavesInv
  BY SavesStart
<1>3. \A f, v : Last(<<>>, f, v)
  BY <1>1 DEF Last
<1> QED BY <1>1, <1>2, <1>3 DEF CodesInv, CodeApart

LEMMA CodesStayApart ==
  ASSUME CodesInv, UNCHANGED <<accounts, clients, sessions, resets, challenges, reqs>>
  PROVE  CodesInv'
<1>1. SavesInv'
  BY SavesStay DEF CodesInv
<1>3. \A c : /\ CleanCode(c)' <=> CleanCode(c)
             /\ CodeApart(c)' <=> CodeApart(c)
  BY DEF CleanCode, CodeApart, Alone, Running, ClientsToSave
<1>4. \A r : ClientsToSave(r)' = ClientsToSave(r)
  BY DEF ClientsToSave
<1> QED BY <1>1, <1>3, <1>4 DEF CodesInv

(* Client codes identify (the code checks of create_client and update_client): two  *)
(* present clients share a code only if some version with it was written by a      *)
(* request that met another.                                                        *)
THEOREM CodesTellApart == Spec => []ClientCodesIdentify
<1>1. Init => CodesInv
  BY CodesStart
<1>2. CodesInv /\ [Next]_vars => CodesInv'
  <2> SUFFICES ASSUME CodesInv, [Next]_vars PROVE CodesInv'
    OBVIOUS
  <2>1. CASE Call
    BY <2>1, CodesBegin
  <2>2. CASE \E r \in DOMAIN reqs : Progress(r) \/ Stop(r)
    BY <2>2, CodesStep
  <2>3. CASE TimePasses \/ UNCHANGED vars
    <3>1. UNCHANGED <<accounts, clients, sessions, resets, challenges, reqs>>
      BY <2>3 DEF TimePasses, Expire, vars
    <3> QED BY <3>1, CodesStayApart
  <2> QED BY <2>1, <2>2, <2>3 DEF Next
<1>3. CodesInv => ClientCodesIdentify
  <2> SUFFICES ASSUME CodesInv PROVE ClientCodesIdentify
    OBVIOUS
  <2>0. clients \in Seq(Client)
    BY DEF CodesInv, SavesInv, TypeOK
  <2> SUFFICES ASSUME NEW a \in ListActive(clients), NEW b \in ListActive(clients),
                      a.id # b.id, a.code = b.code, CleanCode(a.code)
               PROVE  FALSE
    BY DEF ClientCodesIdentify, CleanCode
  <2>1. a.code \in ClientCodes
    <3>1. a \in Client
      BY <2>0, ListedAreFound
    <3> QED BY <3>1 DEF Client
  <2>2. OneOf(ListActive(clients), "code", a.code)
    BY <2>1, <2>0, LastIsOne DEF CodesInv, CodeApart
  <2>3. a["code"] = a.code /\ b["code"] = a.code
    OBVIOUS
  <2> QED BY <2>2, <2>3 DEF OneOf
<1> QED BY <1>1, <1>2, <1>3, PTL DEF Spec

--------------------------------------------------------------------------------
(* Deleting a client deletes its users.  A user is the deletion's own to delete    *)
(* while it awaits it; one that it does not await was written by a request that    *)
(* overlapped it, or is found under a former address.                              *)
Owners ==
  {x \in Account : \/ x.client = 0
                   \/ x.kind = "client_user" /\ Versions(clients, x.client) # {}}
Excused(r, id) == Renamed(id) \/ \E i \in Versions(accounts, id) : accounts[i].by \in reqs[r].met
Awaits(r, k, id) ==
  \E w \in Items(reqs[r].todo) :
    \/ w.do = "cascade" /\ w.id = k
    \/ w.do = "delete_each" /\ \E x \in w.recs : x.id = id
LeftBy(r, k) ==
  /\ Versions(clients, k) # {} /\ Latest(clients, k).status = "deleted"
  /\ Latest(clients, k).by = r

(* A deletion marks the client before it looks for its users; nobody else marks a  *)
(* client deleted.                                                                 *)
Marks(r) ==
  \E rec \in Client :
    /\ rec.status = "deleted"
    /\ reqs[r].todo = <<[do |-> "client", rec |-> rec], Do("cascade", rec.id)>>
Marked(r) == ClientsToSave(r) = {} /\ \A w \in Items(reqs[r].todo) : w.do # "account"

UsersExcused(r, k) ==
  /\ \A a \in ListActive(accounts) : a.client = k => Awaits(r, k, a.id) \/ Excused(r, a.id)
  /\ \A q \in DOMAIN reqs \ {r} : Running(q) =>
       \A x \in ToSave(q) : x.client = k => q \in reqs[r].met \/ Excused(r, x.id)

DelInv ==
  /\ CodesInv
  /\ accounts \in Seq(Owners) /\ \A r \in DOMAIN reqs : ToSave(r) \subseteq Owners
  /\ \A r \in DOMAIN reqs :
       IF reqs[r].op = "delete_client" THEN Marks(r) \/ Marked(r)
       ELSE \A rec \in ClientsToSave(r) : rec.status # "deleted"
  /\ \A i \in DOMAIN clients : clients[i].status = "deleted" =>
       reqs[clients[i].by].op = "delete_client" /\ Marked(clients[i].by)
  /\ \A k \in RequestIds, r \in DOMAIN reqs :
       LeftBy(r, k) /\ ~reqs[r].dead => UsersExcused(r, k)

LEMMA MarkOf ==
  ASSUME NEW r, NEW rec \in Client,
         reqs[r].todo = <<[do |-> "client", rec |-> rec], Do("cascade", rec.id)>>
  PROVE  /\ ClientsToSave(r) = {rec} /\ Head(reqs[r].todo) = [do |-> "client", rec |-> rec]
         /\ Tail(reqs[r].todo) = <<Do("cascade", rec.id)>>
         /\ Items(Tail(reqs[r].todo)) = {Do("cascade", rec.id)}
<1> DEFINE v == [do |-> "client", rec |-> rec]
           c == Do("cascade", rec.id)
<1>1. Items(<<v, c>>) = {v, c} /\ Items(<<c>>) = {c}
  BY DEF Items
<1>2. v.do = "client" /\ v.rec = rec /\ c.do = "cascade"
  BY DEF Do
<1>3. Head(<<v, c>>) = v /\ Tail(<<v, c>>) = <<c>>
  OBVIOUS
<1>4. ClientsOf(v) = {rec} /\ ClientsOf(c) = {}
  BY <1>2 DEF ClientsOf
<1> HIDE DEF v, c
<1>5. Items(reqs[r].todo) = {v, c}
  BY <1>1 DEF v, c
<1>6. ClientsToSave(r) = {rec}
  BY <1>4, <1>5 DEF ClientsToSave
<1> QED BY <1>1, <1>3, <1>6 DEF v, c

(* A step takes a deletion from marking to having marked, and no further back.     *)
LEMMA MarkingStep ==
  ASSUME DelInv, NEW r \in DOMAIN reqs, Progress(r) \/ Stop(r), reqs[r].op = "delete_client"
  PROVE  /\ Marks(r)' \/ Marked(r)'
         /\ Marked(r) => Marked(r)' /\ clients' = clients
         /\ \A y : clients' = Append(clients, y) /\ clients' # clients =>
              /\ Marked(r)' /\ accounts' = accounts
              /\ Do("cascade", y.id) \in Items(reqs'[r].todo)
<1>0. SavesInv /\ TypeOK
  BY DEF DelInv, CodesInv, SavesInv
<1>1. CASE Stop(r)
  <2>1. /\ accounts' = accounts /\ clients' = clients /\ reqs'[r].todo = reqs[r].todo
        /\ ClientsToSave(r)' = ClientsToSave(r)
    BY <1>0, <1>1, StopOnStores
  <2>2. (Marks(r)' <=> Marks(r)) /\ (Marked(r)' <=> Marked(r))
    BY <2>1 DEF Marks, Marked
  <2> QED BY <2>1, <2>2 DEF DelInv
<1>2. CASE Progress(r)
  <2>1. PICK w \in Work, rest \in SUBSET Work, left \in SUBSET Work : ItemDone(r, w, rest, left)
    BY <1>0, <1>2, ItemIsDone
  <2>2. CASE Marks(r)
    <3>1. PICK rec \in Client :
            reqs[r].todo = <<[do |-> "client", rec |-> rec], Do("cascade", rec.id)>>
      BY <2>2 DEF Marks
    <3>2. /\ ClientsToSave(r) = {rec} /\ Head(reqs[r].todo) = [do |-> "client", rec |-> rec]
          /\ Items(Tail(reqs[r].todo)) = {Do("cascade", rec.id)}
      BY <3>1, MarkOf
    <3>3. w.do = "client" /\ w.rec = rec
      <4>1. w = Head(reqs[r].todo)
        BY <2>1 DEF ItemDone
      <4>2. w = [do |-> "client", rec |-> rec]
        BY <4>1, <3>2
      <4> QED BY <4>2
    <3>4. /\ clients' = Append(clients, rec) /\ accounts' = accounts
          /\ Items(reqs'[r].todo) = {Do("cascade", rec.id)}
      BY <3>2, <3>3, <2>1 DEF ItemDone
    <3>5. Marked(r)'
      BY <3>4 DEF Marked, ClientsToSave, ClientsOf, Do
    <3>6. \A y : clients' = Append(clients, y) => y = rec
      <4> SUFFICES ASSUME NEW y, clients' = Append(clients, y)
                   PROVE  y = rec
        OBVIOUS
      <4>1. Extends(clients', clients, y) /\ Extends(clients', clients, rec)
        BY <1>0, <3>4, OneMoreRecord DEF TypeOK
      <4> QED BY <4>1 DEF Extends
    <3>7. ~Marked(r)
      BY <3>2 DEF Marked
    <3> QED BY <3>4, <3>5, <3>6, <3>7
  <2>3. CASE Marked(r)
    <3>1. ClientsToSave(r)' = {} /\ clients' = clients
      BY <2>3, <1>0, <1>2, StepOnStores DEF Marked
    <3>2. \A v \in left \cup rest : v.do # "account"
      <4>1. \A v \in rest : v.do # "account"
        BY <2>1, <2>3 DEF Marked, ItemDone
      <4>2. \A v \in left : v.do # "account"
        <5>1. CASE \E x : left = {Do("revoke", x.id)} \cup
                        (IF w.recs = {x} THEN {}
                         ELSE {[do |-> "delete_each", recs |-> w.recs \ {x}]})
          BY <5>1 DEF Do
        <5>2. CASE \E xs : left = IF xs = {} THEN {} ELSE {[do |-> "delete_each", recs |-> xs]}
          BY <5>2
        <5>3. CASE left = {} \/ \A v \in left : v.do = "revoke_each"
          BY <5>3
        <5> QED BY <5>1, <5>2, <5>3, <2>1 DEF ItemDone
      <4> QED BY <4>1, <4>2
    <3>3. Marked(r)'
      BY <3>1, <3>2, <2>1 DEF Marked, ItemDone
    <3> QED BY <3>1, <3>3
  <2> QED BY <2>2, <2>3 DEF DelInv
<1> QED BY <1>1, <1>2

LEMMA ExcuseStays ==
  ASSUME accounts \in Seq(Account), \A i \in DOMAIN accounts : accounts[i].by \in DOMAIN reqs,
         NEW r \in DOMAIN reqs, reqs[r].met \subseteq reqs'[r].met, NEW id, Excused(r, id),
         accounts' = accounts \/ \E x : accounts' = Append(accounts, x)
  PROVE  Excused(r, id)'
<1>1. CASE accounts' = accounts
  BY <1>1, SameAccounts DEF Excused
<1>2. ASSUME NEW x, accounts' = Append(accounts, x)
      PROVE  Excused(r, id)'
  <2>1. /\ \A i \in DOMAIN accounts : accounts'[i] = accounts[i]
        /\ Versions(accounts, id) \subseteq Versions(accounts, id)'
        /\ Renamed(id) => Renamed(id)'
    BY <1>2, OneMoreVersion
  <2>2. Versions(accounts, id) \subseteq DOMAIN accounts
    BY DEF Versions
  <2> QED BY <2>1, <2>2 DEF Excused
<1> QED BY <1>1, <1>2

(* What a deletion awaits it goes on to await, until it has deleted it.            *)
LEMMA AwaitedStays ==
  ASSUME DelInv, NEW r \in DOMAIN reqs, Progress(r), NEW k \in RequestIds,
         NEW a \in ListActive(accounts), a.client = k, Awaits(r, k, a.id)
  PROVE  Awaits(r, k, a.id)' \/ \E x : accounts' = Append(accounts, x) /\ x.id = a.id
<1>0. TypeOK /\ accounts \in Seq(Owners) /\ k # 0
  BY DEF DelInv, CodesInv, SavesInv, RequestIds
<1>1. PICK w \in Work, rest \in SUBSET Work, left \in SUBSET Work : ItemDone(r, w, rest, left)
  BY <1>0, ItemIsDone
<1>2. PICK v \in {w} \cup rest : \/ v.do = "cascade" /\ v.id = k
                                 \/ v.do = "delete_each" /\ \E x \in v.recs : x.id = a.id
  BY <1>1 DEF Awaits, ItemDone
<1>3. CASE v \in rest
  BY <1>1, <1>2, <1>3 DEF Awaits, ItemDone
<1>4. CASE v = w /\ w.do = "cascade"
  <2>1. a.kind = "client_user"
    <3>1. a \in Owners
      BY <1>0, ListedAreFound
    <3> QED BY <3>1, <1>0 DEF Owners
  <2>2. PICK xs : /\ xs = {x \in ListActive(accounts) : x.kind = "client_user" /\ x.client = w.id}
                  /\ left = IF xs = {} THEN {} ELSE {[do |-> "delete_each", recs |-> xs]}
    BY <1>1, <1>4 DEF ItemDone
  <2>3. a \in xs
    BY <2>1, <2>2, <1>2, <1>4
  <2> DEFINE item == [do |-> "delete_each", recs |-> xs]
  <2>4. item \in Items(reqs'[r].todo) /\ item.do = "delete_each" /\ a \in item.recs
    BY <2>2, <2>3, <1>1 DEF ItemDone
  <2> HIDE DEF item
  <2> QED BY <2>4 DEF Awaits
<1>5. CASE v = w /\ w.do = "delete_each"
  <2>1. PICK x \in w.recs :
          /\ accounts' = Append(accounts, [x EXCEPT !.status = "deleted", !.by = r])
          /\ left = {Do("revoke", x.id)} \cup
               (IF w.recs = {x} THEN {}
                ELSE {[do |-> "delete_each", recs |-> w.recs \ {x}]})
    BY <1>1, <1>5 DEF ItemDone
  <2>2. PICK y \in w.recs : y.id = a.id
    BY <1>2, <1>5
  <2>3. CASE y = x
    <3> DEFINE new == [x EXCEPT !.status = "deleted", !.by = r]
    <3>1. x \in Account
      <4>1. w \in WorkOf(Account)
        BY WorkIsAllWork
      <4> QED BY <4>1, <1>5, ItemFields
    <3>2. new.id = a.id
      BY <3>1, <2>2, <2>3 DEF Account
    <3>3. accounts' = Append(accounts, new)
      BY <2>1
    <3> HIDE DEF new
    <3> QED BY <3>2, <3>3
  <2>4. CASE y # x
    <3> DEFINE item == [do |-> "delete_each", recs |-> w.recs \ {x}]
    <3>1. y \in item.recs /\ w.recs # {x}
      BY <2>2, <2>4
    <3>2. item \in left
      BY <2>1, <3>1
    <3>3. item.do = "delete_each"
      OBVIOUS
    <3> HIDE DEF item
    <3>4. item \in Items(reqs'[r].todo)
      BY <3>2, <1>1 DEF ItemDone
    <3> QED BY <3>1, <3>3, <3>4, <2>2 DEF Awaits
  <2> QED BY <2>3, <2>4
<1> QED BY <1>2, <1>3, <1>4, <1>5

LEMMA OwnersStay ==
  ASSUME clients \in Seq(Client), clients' = clients \/ \E y : clients' = Append(clients, y)
  PROVE  Owners \subseteq Owners'
<1>1. \A id : Versions(clients, id) \subseteq Versions(clients', id)
  <2>1. \A y : clients' = Append(clients, y) => Extends(clients', clients, y)
    BY OneMoreRecord
  <2> QED BY <2>1 DEF Extends
<1> QED BY <1>1 DEF Owners, Versions

LEMMA DeletionStep ==
  ASSUME DelInv, NEW p \in DOMAIN reqs, Progress(p) \/ Stop(p)
  PROVE  DelInv'
<1>0. /\ CodesInv /\ SavesInv /\ TypeOK /\ accounts \in Seq(Account) /\ clients \in Seq(Client)
      /\ \A i \in DOMAIN accounts : accounts[i].by \in DOMAIN reqs
      /\ \A i \in DOMAIN clients : clients[i].by \in DOMAIN reqs
  BY DEF DelInv, CodesInv, SavesInv, TypeOK
<1>1. CodesInv'
  BY <1>0, CodesStep
<1>2. /\ DOMAIN reqs' = DOMAIN reqs /\ Running(p)
      /\ \A q \in DOMAIN reqs : reqs'[q].met = reqs[q].met /\ reqs'[q].op = reqs[q].op
      /\ \A q \in DOMAIN reqs : Running(q)' => Running(q)
      /\ \A q \in DOMAIN reqs \ {p} : reqs'[q] = reqs[q]
  BY <1>0, RunningOnes
<1>3. /\ ToSave(p)' \subseteq ToSave(p) \cup ListActive(accounts)
      /\ accounts' = accounts \/ AppendsOne(p)
      /\ ClientsToSave(p)' \subseteq ClientsToSave(p)
      /\ clients' = clients \/ \E y \in ClientsToSave(p) : clients' = Append(clients, y)
      /\ \A q \in DOMAIN reqs \ {p} :
           ToSave(q)' = ToSave(q) /\ ClientsToSave(q)' = ClientsToSave(q)
  BY <1>0, AnyStepOnStores
<1>4. Owners \subseteq Owners'
  BY <1>0, <1>3, OwnersStay
<1>5. accounts' \in Seq(Owners') /\ \A q \in DOMAIN reqs' : ToSave(q)' \subseteq Owners'
  <2>1. accounts \in Seq(Owners) /\ \A q \in DOMAIN reqs : ToSave(q) \subseteq Owners
    BY DEF DelInv
  <2>2. ListActive(accounts) \subseteq Owners
    BY <2>1, ListedAreFound
  <2>3. accounts' \in Seq(Owners)
    <3>1. ASSUME NEW y \in ToSave(p), NEW x \in Account, accounts' = Append(accounts, x),
                 x.kind = y.kind, x.client = y.client
          PROVE  accounts' \in Seq(Owners)
      <4>1. x \in Owners
        BY <2>1, <3>1 DEF Owners
      <4> QED BY <4>1, <2>1, <3>1, AppendProperties
    <3> QED BY <2>1, <3>1, <1>3 DEF AppendsOne
  <2>4. accounts' \in Seq(Owners')
    BY <2>3, <1>4, SeqMonotonic
  <2>5. \A q \in DOMAIN reqs : ToSave(q)' \subseteq Owners
    BY <2>1, <2>2, <1>3
  <2> QED BY <2>4, <2>5, <1>2, <1>4
<1>6. ASSUME NEW q \in DOMAIN reqs'
      PROVE  IF reqs'[q].op = "delete_client" THEN Marks(q)' \/ Marked(q)'
             ELSE \A rec \in ClientsToSave(q)' : rec.status # "deleted"
  <2>1. IF reqs[q].op = "delete_client" THEN Marks(q) \/ Marked(q)
        ELSE \A rec \in ClientsToSave(q) : rec.status # "deleted"
    BY <1>2, <1>6 DEF DelInv
  <2>2. CASE q = p
    BY <2>1, <2>2, <1>2, <1>3, MarkingStep
  <2>3. CASE q # p
    <3>1. (Marks(q)' <=> Marks(q)) /\ (Marked(q)' <=> Marked(q))
      BY <2>3, <1>2, <1>3, <1>6 DEF Marks, Marked
    <3> QED BY <2>1, <2>3, <3>1, <1>2, <1>3, <1>6
  <2> QED BY <2>2, <2>3
\* What is newly marked deleted is so by the deletion that takes this step.
<1>7. ASSUME NEW y \in ClientsToSave(p), clients' = Append(clients, y), y.status = "deleted"
      PROVE  /\ y.by = p /\ reqs[p].op = "delete_client" /\ Marked(p)' /\ accounts' = accounts
             /\ Do("cascade", y.id) \in Items(reqs'[p].todo)
  <2>1. y.by = p /\ reqs[p].op = "delete_client"
    BY <1>0, <1>7 DEF CodesInv, DelInv
  <2>2. clients' # clients
    <3>1. Extends(clients', clients, y)
      BY <1>0, <1>7, OneMoreRecord
    <3>2. Len(clients) + 1 \in DOMAIN clients' /\ Len(clients) + 1 \notin DOMAIN clients
      BY <3>1 DEF Extends
    <3> QED BY <3>2
  <2> QED BY <2>1, <2>2, <1>7, MarkingStep
<1>8. ASSUME NEW i \in DOMAIN clients', clients'[i].status = "deleted",
             NEW q, q = clients'[i].by
      PROVE  reqs'[q].op = "delete_client" /\ Marked(q)'
  <2>1. ASSUME i \in DOMAIN clients, clients'[i] = clients[i]
        PROVE  reqs'[q].op = "delete_client" /\ Marked(q)'
    <3>1. q = clients[i].by /\ q \in DOMAIN reqs
      BY <2>1, <1>0, <1>8
    <3>2. reqs[q].op = "delete_client" /\ Marked(q)
      BY <3>1, <2>1, <1>8 DEF DelInv
    <3>3. Marked(q)'
      <4>1. CASE q = p
        BY <4>1, <3>2, MarkingStep
      <4>2. CASE q # p
        BY <4>2, <3>1, <3>2, <1>2, <1>3 DEF Marked
      <4> QED BY <4>1, <4>2
    <3> QED BY <3>1, <3>2, <3>3, <1>2
  <2>2. ASSUME NEW y \in ClientsToSave(p), clients' = Append(clients, y)
        PROVE  reqs'[q].op = "delete_client" /\ Marked(q)'
    <3>1. \/ i \in DOMAIN clients /\ clients'[i] = clients[i]
          \/ clients'[i] = y
      <4>1. Extends(clients', clients, y)
        BY <2>2, <1>0, OneMoreRecord
      <4> QED BY <4>1, <1>8 DEF Extends
    <3>2. CASE clients'[i] = y
      BY <3>2, <2>2, <1>2, <1>7, <1>8
    <3> QED BY <3>1, <3>2, <2>1
  <2> QED BY <2>1, <2>2, <1>3, <1>8
<1>9. ASSUME NEW k \in RequestIds, NEW r \in DOMAIN reqs, LeftBy(r, k)', ~reqs'[r].dead,
             ~LeftBy(r, k)
      PROVE  UsersExcused(r, k)'
  <2>1. PICK y \in ClientsToSave(p) : clients' = Append(clients, y)
    BY <1>3, <1>9 DEF LeftBy, Versions, Latest
  <2>2. Extends(clients', clients, y)
    BY <2>1, <1>0, OneMoreRecord
  <2>3. y.id = k
    <3> SUFFICES ASSUME y.id # k PROVE FALSE
      OBVIOUS
    <3>1. Versions(clients', k) = Versions(clients, k)
      BY <2>2 DEF Extends
    <3>2. Versions(clients, k) # {}
      BY <3>1, <1>9 DEF LeftBy, Versions
    <3>3. Latest(clients', k) = Latest(clients, k)
      BY <2>2, <3>2 DEF Extends
    <3> QED BY <3>2, <3>3, <1>9 DEF LeftBy, Latest, Versions
  <2>4. Latest(clients', k) = y
    BY <2>2, <2>3 DEF Extends
  <2>5. y.status = "deleted" /\ y.by = r
    BY <2>4, <1>9 DEF LeftBy, Latest, Versions
  <2>6. p = r /\ accounts' = accounts /\ Do("cascade", k) \in Items(reqs'[r].todo)
    BY <2>1, <2>3, <2>5, <1>7
  <2>7. \A id : Awaits(r, k, id)'
    <3>1. Do("cascade", k).do = "cascade" /\ Do("cascade", k).id = k
      BY DEF Do
    <3> QED BY <3>1, <2>6 DEF Awaits
  <2>8. \A q \in DOMAIN reqs' \ {r} : Running(q)' => q \in reqs'[r].met
    BY <2>6, <1>0, <1>2 DEF SavesInv
  <2> QED BY <2>7, <2>8 DEF UsersExcused
<1>10. ASSUME NEW k \in RequestIds, NEW r \in DOMAIN reqs, LeftBy(r, k), ~reqs'[r].dead
       PROVE  UsersExcused(r, k)'
  <2>1. ~reqs[r].dead /\ (p = r => Progress(p))
    <3>1. p = r => ~reqs[r].dead
      BY <1>2 DEF Running
    <3>2. Stop(p) => reqs'[p].dead
      BY TypedIsShaped, OnlyItsOwnTodo, <1>0
    <3> QED BY <3>1, <3>2, <1>2, <1>10
  <2>2. UsersExcused(r, k) /\ Marked(r)
    <3>1. Newest(Versions(clients, k)) \in DOMAIN clients
      <4>1. Versions(clients, k) # {} /\ Versions(clients, k) \subseteq DOMAIN clients
        BY <1>10 DEF LeftBy, Versions
      <4> QED BY <4>1, <1>0, Found
    <3>2. Marked(r)
      BY <3>1, <1>10 DEF DelInv, LeftBy, Latest
    <3> QED BY <2>1, <3>2, <1>10 DEF DelInv
  <2>3. \A id : Excused(r, id) => Excused(r, id)'
    BY <1>0, <1>2, <1>3, ExcuseStays DEF AppendsOne
  <2>4. p # r => p \in reqs[r].met \/ (reqs[r].todo = <<>>)
    BY <2>1, <1>0, <1>2 DEF SavesInv, Running
  <2>5. ASSUME NEW a \in ListActive(accounts'), a.client = k
        PROVE  Awaits(r, k, a.id)' \/ Excused(r, a.id)'
    <3>1. CASE a \in ListActive(accounts) /\ \A x : accounts' = Append(accounts, x) => x.id # a.id
      <4>1. Awaits(r, k, a.id) \/ Excused(r, a.id)
        BY <3>1, <2>2, <2>5 DEF UsersExcused
      <4>2. Awaits(r, k, a.id) => Awaits(r, k, a.id)'
        <5>1. CASE p = r
          BY <5>1, <3>1, <2>1, <2>5, AwaitedStays
        <5>2. CASE p # r
          BY <5>2, <1>2 DEF Awaits
        <5> QED BY <5>1, <5>2
      <4> QED BY <4>1, <4>2, <2>3
    <3>2. ASSUME NEW y \in ToSave(p), NEW x \in Account, accounts' = Append(accounts, x),
                 x.by = p, x.id = y.id, x.client = y.client, a = x, a.status # "deleted",
                 \/ x = y /\ \E w \in Items(reqs[p].todo) : w.do = "account"
                 \/ x.status = "deleted"
          PROVE  Excused(r, a.id)'
      <4>1. x = y /\ p # r
        BY <3>2, <2>2 DEF Marked
      <4>2. p \in reqs[r].met \/ Excused(r, x.id)
        BY <4>1, <3>2, <2>2, <2>5, <1>2 DEF UsersExcused
      <4>3. CASE p \in reqs[r].met
        <5>1. Extends(accounts', accounts, x)
          BY <3>2, <1>0, OneMoreRecord
        <5>2. Len(accounts) + 1 \in Versions(accounts', x.id) /\ accounts'[Len(accounts) + 1] = x
          BY <5>1 DEF Extends, Versions
        <5> QED BY <5>2, <4>3, <3>2, <1>2 DEF Excused, Versions
      <4> QED BY <4>2, <4>3, <3>2, <2>3
    <3>3. CASE accounts' = accounts
      <4>1. a \in ListActive(accounts)
        BY <3>3, <2>5
      <4>2. \A x : accounts' = Append(accounts, x) => FALSE
        <5>1. \A x : accounts' = Append(accounts, x) => Extends(accounts', accounts, x)
          BY <1>0, OneMoreRecord
        <5>2. Len(accounts) + 1 \notin DOMAIN accounts
          BY <1>0, LenProperties
        <5> QED BY <5>1, <5>2, <3>3 DEF Extends
      <4> QED BY <4>1, <4>2, <3>1
    <3>4. CASE AppendsOne(p)
      <4>1. PICK y \in ToSave(p), x \in Account :
              /\ accounts' = Append(accounts, x) /\ x.by = p /\ x.id = y.id
              /\ x.client = y.client
              /\ \/ x = y /\ \E w \in Items(reqs[p].todo) : w.do = "account"
                 \/ x.status = "deleted"
        BY <3>4 DEF AppendsOne
      <4>2. \/ a = x /\ x.status # "deleted"
            \/ a \in ListActive(accounts) /\ a.id # x.id
        <5>1. Extends(accounts', accounts, x)
          BY <4>1, <1>0, OneMoreRecord
        <5> QED BY <5>1, <2>5 DEF Extends
      <4>3. CASE a = x /\ x.status # "deleted"
        BY <4>1, <4>3, <3>2
      <4>4. CASE a \in ListActive(accounts) /\ a.id # x.id
        <5>1. \A z : accounts' = Append(accounts, z) => z = x
          <6> SUFFICES ASSUME NEW z, accounts' = Append(accounts, z) PROVE z = x
            OBVIOUS
          <6>1. Extends(accounts', accounts, z) /\ Extends(accounts', accounts, x)
            BY <4>1, <1>0, OneMoreRecord
          <6> QED BY <6>1 DEF Extends
        <5> QED BY <4>4, <5>1, <3>1
      <4> QED BY <4>2, <4>3, <4>4
    <3> QED BY <3>3, <3>4, <1>3
  <2>6. ASSUME NEW q \in DOMAIN reqs \ {r}, Running(q)', NEW x \in ToSave(q)', x.client = k
        PROVE  q \in reqs'[r].met \/ Excused(r, x.id)'
    <3>1. Running(q)
      BY <2>6, <1>2
    <3>2. CASE x \in ToSave(q)
      BY <3>1, <3>2, <2>2, <2>3, <2>6, <1>2 DEF UsersExcused
    <3>3. CASE q = p /\ x \in ListActive(accounts)
      <4>1. Awaits(r, k, x.id) \/ Excused(r, x.id)
        BY <3>3, <2>2, <2>6 DEF UsersExcused
      <4>2. Awaits(r, k, x.id) => reqs[r].todo # <<>>
        BY ItemsOfLists DEF Awaits
      <4> QED BY <4>1, <4>2, <3>3, <2>3, <2>4, <2>6, <1>2
    <3> QED BY <3>2, <3>3, <2>6, <1>3
  <2>7. \A a \in ListActive(accounts)' : a.client = k => Awaits(r, k, a.id)' \/ Excused(r, a.id)'
    BY <2>5 DEF ListActive, Latest, Versions
  <2>8. \A q \in (DOMAIN reqs)' \ {r} : Running(q)' =>
          \A x \in ToSave(q)' : x.client = k => q \in (reqs[r].met)' \/ Excused(r, x.id)'
    BY <2>6, <1>2
  <2> QED BY <2>7, <2>8 DEF UsersExcused
<1> QED BY <1>1, <1>2, <1>5, <1>6, <1>8, <1>9, <1>10 DEF DelInv

(* A call reads what a finished deletion left: an account it finds present was      *)
(* excused before, and it creates none for a client that is not present.            *)
LEMMA NewWorkIsExcused ==
  ASSUME TypeOK, NamesStay, Me \in RequestIds, NEW op, NEW todo,
         Creation(op, todo) \/ todo \in Seq(OwnWork(Owners, op)),
         NEW x \in AccountsIn(todo), NEW k \in RequestIds, x.client = k
  PROVE  \/ Present(clients, k) \/ Renamed(x.id)
         \/ \E a \in ListActive(accounts) : a.id = x.id /\ a.client = k
<1>0. accounts \in Seq(Account) /\ k # 0
  BY DEF TypeOK, RequestIds
<1>1. CASE Creation(op, todo)
  <2>1. PICK rec : /\ todo = <<SaveActor(rec)>>
                   /\ \/ \E n, e : rec = NewAccount("sustentra_user", n, e, 0)
                      \/ \E n, e, c : Present(clients, c) /\ rec = NewAccount("client_user", n, e, c)
    BY <1>1 DEF Creation
  <2> DEFINE new == [rec EXCEPT !.by = Me]
  <2>2. new.client = 0 \/ Present(clients, new.client)
    <3>1. CASE \E n, e : rec = NewAccount("sustentra_user", n, e, 0)
      BY <3>1 DEF NewAccount
    <3>2. CASE \E n, e, c : Present(clients, c) /\ rec = NewAccount("client_user", n, e, c)
      BY <3>2 DEF NewAccount
    <3> QED BY <3>1, <3>2, <2>1
  <2>3. todo = <<[do |-> "account", rec |-> new]>>
    BY <2>1 DEF SaveActor
  <2> HIDE DEF new
  <2>4. Items(todo) = {[do |-> "account", rec |-> new]}
    BY <2>3 DEF Items
  <2>5. x = new
    BY <2>4 DEF AccountsIn, AccountsOf
  <2> QED BY <2>2, <2>5, <1>0
<1>2. CASE todo \in Seq(OwnWork(Owners, op))
  <2>1. PICK w \in Items(todo) : x \in AccountsOf(w)
    BY DEF AccountsIn
  <2>2. w \in OwnWork(Owners, op)
    BY <2>1, <1>2, ItemsOfLists
  <2>3. Read(op, x)
    BY <2>1, <2>2 DEF AccountsOf, OwnWork
  <2>4. CASE Present(accounts, x.id) /\ Agree(op, x, Latest(accounts, x.id))
    <3>1. Latest(accounts, x.id) \in ListActive(accounts) /\ Latest(accounts, x.id).id = x.id
      BY <2>4, <1>0, ListedIsLatest
    <3>2. "client" \in Fields \ Owned(op)
      BY DEF Fields, Owned
    <3>3. x["client"] = Latest(accounts, x.id)["client"]
      BY <2>4, <3>2 DEF Agree
    <3> QED BY <3>1, <3>3
  <2> QED BY <2>3, <2>4 DEF Read
<1> QED BY <1>1, <1>2

LEMMA NewWorkIsOwned ==
  ASSUME TypeOK, accounts \in Seq(Owners), Me \in RequestIds, NEW op, NEW todo,
         \/ Creation(op, todo) \/ Change(op, todo) \/ Deletion(op, todo)
         \/ todo \in Seq(OwnWork(Owners, op))
  PROVE  AccountsIn(todo) \subseteq Owners
<1>1. CASE Creation(op, todo)
  <2>1. PICK n, e, rec :
          /\ n \in Names /\ e \in Emails
          /\ todo = <<SaveActor(rec)>>
          /\ \/ rec = NewAccount("sustentra_user", n, e, 0)
             \/ \E k \in RequestIds :
                  Present(clients, k) /\ rec = NewAccount("client_user", n, e, k)
    BY <1>1 DEF Creation
  <2>2. /\ rec \in Account
        /\ \/ rec.client = 0
           \/ rec.kind = "client_user" /\ Versions(clients, rec.client) # {}
    <3>1. CASE rec = NewAccount("sustentra_user", n, e, 0)
      <4>1. NewAccount("sustentra_user", n, e, 0) \in Account
        BY <2>1 DEF NewAccount, Account
      <4>2. NewAccount("sustentra_user", n, e, 0).client = 0
        BY DEF NewAccount
      <4> QED BY <3>1, <4>1, <4>2
    <3>2. ASSUME NEW k \in RequestIds, Present(clients, k), rec = NewAccount("client_user", n, e, k)
          PROVE  rec \in Account /\ rec.kind = "client_user" /\ Versions(clients, rec.client) # {}
      <4>1. NewAccount("client_user", n, e, k) \in Account
        BY <2>1 DEF NewAccount, Account
      <4>2. rec.client = k /\ rec.kind = "client_user"
        BY <3>2 DEF NewAccount
      <4>3. Versions(clients, k) # {}
        BY <3>2 DEF Present
      <4> QED BY <3>2, <4>1, <4>2, <4>3
    <3> QED BY <2>1, <3>1, <3>2
  <2> DEFINE new == [rec EXCEPT !.by = Me]
  <2>3. new \in Account /\ new.client = rec.client /\ new.kind = rec.kind
    BY <2>2 DEF Account
  <2>4. todo = <<[do |-> "account", rec |-> new]>>
    BY <2>1 DEF SaveActor
  <2> HIDE DEF new
  <2>5. Items(todo) = {[do |-> "account", rec |-> new]}
    BY <2>4 DEF Items
  <2>6. AccountsIn(todo) = {new}
    BY <2>5 DEF AccountsIn, AccountsOf
  <2> QED BY <2>2, <2>3, <2>6 DEF Owners
<1>2. CASE Change(op, todo) \/ Deletion(op, todo)
  BY <1>2, OtherStoreIsLeft DEF TypeOK
<1>3. CASE todo \in Seq(OwnWork(Owners, op))
  <2>1. ASSUME NEW x \in AccountsIn(todo)
        PROVE  x \in Owners
    <3>1. PICK w \in Items(todo) : x \in AccountsOf(w)
      BY DEF AccountsIn
    <3>2. w \in OwnWork(Owners, op)
      BY <3>1, <1>3, ItemsOfLists
    <3>3. w.do = "account" /\ x = w.rec /\ w \in WorkOf(Owners)
      BY <3>1, <3>2 DEF AccountsOf, OwnWork
    <3> QED BY <3>3, ItemFields
  <2> QED BY <2>1
<1> QED BY <1>1, <1>2, <1>3

LEMMA DeletionBegin ==
  ASSUME DelInv, Call
  PROVE  DelInv'
<1>0. /\ CodesInv /\ SavesInv /\ TypeOK /\ Shape /\ Len(reqs) < MaxRequests
      /\ accounts \in Seq(Account) /\ clients \in Seq(Client) /\ accounts \in Seq(Owners)
      /\ \A i \in DOMAIN accounts : accounts[i].by \in DOMAIN reqs
      /\ \A i \in DOMAIN clients : clients[i].by \in DOMAIN reqs
  BY TypedIsShaped DEF DelInv, CodesInv, SavesInv, TypeOK, Call
<1>1. PICK m : m = Me
  OBVIOUS
<1>2. m \in RequestIds
  BY <1>0, <1>1, LenProperties, IdentityBounds DEF TypeOK, Me, RequestIds
<1>3. Closed(Owners) /\ NamesStay
  <2>1. Closed(Owners)
    BY DEF Closed, Owners
  <2>2. PICK f : accounts \in Seq(Known(f))
    BY <1>0 DEF SavesInv, NamesKnown
  <2> QED BY <2>1, <2>2, KnownAreClosed
<1>4. PICK op, on, todo :
        /\ op \in Operations /\ on \in Nat /\ Begin(op, on, todo)
        /\ \/ Creation(op, todo) \/ Change(op, todo) \/ Deletion(op, todo)
           \/ op # "delete_client" /\ todo \in Seq(OwnWork(Owners, op))
  BY <1>0, <1>3, CallsSaveTheirOwn
<1>5. /\ accounts' = accounts /\ clients' = clients
      /\ m \notin DOMAIN reqs /\ DOMAIN reqs' = DOMAIN reqs \cup {m}
      /\ \A q \in DOMAIN reqs :
           /\ reqs'[q].todo = reqs[q].todo /\ reqs'[q].dead = reqs[q].dead
           /\ reqs'[q].op = reqs[q].op /\ reqs[q].met \subseteq reqs'[q].met
           /\ Running(q) => m \in reqs'[q].met
      /\ reqs'[m].todo = todo /\ reqs'[m].op = op
  BY <1>0, <1>1, <1>4, RequestsBegin, AllMeet DEF stores
<1>6. CodesInv'
  BY <1>0, CodesBegin
<1>7. /\ \A q \in DOMAIN reqs : /\ ToSave(q)' = ToSave(q) /\ ClientsToSave(q)' = ClientsToSave(q)
                                /\ Marked(q)' <=> Marked(q)
                                /\ Marks(q)' <=> Marks(q)
                                /\ Running(q)' <=> Running(q)
                                /\ \A k, id : Awaits(q, k, id)' <=> Awaits(q, k, id)
      /\ ToSave(m)' = AccountsIn(todo) /\ ClientsToSave(m)' = ClientsIn(todo)
      /\ Owners' = Owners /\ ListActive(accounts') = ListActive(accounts)
      /\ \A k : /\ Versions(clients, k)' = Versions(clients, k)
                /\ Latest(clients, k)' = Latest(clients, k)
  <2>1. \A k : Versions(clients, k)' = Versions(clients, k) /\ Latest(clients, k)' = Latest(clients, k)
    BY <1>5 DEF Versions, Latest
  <2>2. Owners' = Owners
    BY <2>1 DEF Owners
  <2>3. \A q \in DOMAIN reqs : ToSave(q)' = ToSave(q) /\ ClientsToSave(q)' = ClientsToSave(q)
    BY <1>5 DEF ToSave, ClientsToSave
  <2>4. \A q \in DOMAIN reqs : /\ Marked(q)' <=> Marked(q)
                               /\ Marks(q)' <=> Marks(q)
                               /\ Running(q)' <=> Running(q)
                               /\ \A k, id : Awaits(q, k, id)' <=> Awaits(q, k, id)
    BY <2>3, <1>5 DEF Marked, Marks, Running, Awaits
  <2>5. ToSave(m)' = AccountsIn(todo) /\ ClientsToSave(m)' = ClientsIn(todo)
    BY <1>5 DEF ToSave, ClientsToSave, AccountsIn, ClientsIn
  <2> QED BY <2>1, <2>2, <2>3, <2>4, <2>5, <1>5
<1>8. accounts' \in Seq(Owners') /\ \A q \in DOMAIN reqs' : ToSave(q)' \subseteq Owners'
  <2>1. AccountsIn(todo) \subseteq Owners
    BY <1>0, <1>1, <1>2, <1>4, NewWorkIsOwned
  <2> QED BY <2>1, <1>0, <1>5, <1>7 DEF DelInv
<1>9. ASSUME NEW q \in DOMAIN reqs'
      PROVE  /\ reqs'[q].op = "delete_client" => Marks(q)' \/ Marked(q)'
             /\ reqs'[q].op # "delete_client" =>
                  \A rec \in ClientsToSave(q)' : rec.status # "deleted"
  <2>1. CASE q \in DOMAIN reqs
    BY <2>1, <1>5, <1>7 DEF DelInv
  <2>2. CASE q = m
    <3>1. CASE Deletion(op, todo)
      <4>1. PICK k \in RequestIds, rec \in Client :
              /\ todo = <<[do |-> "client", rec |-> rec], Do("cascade", k)>>
              /\ rec.id = k /\ rec.status = "deleted"
        BY <3>1, <1>0, <1>1, <1>2, DeletionSaves
      <4>2. Marks(m)'
        BY <4>1, <1>5 DEF Marks
      <4> QED BY <4>2, <3>1, <2>2, <1>5 DEF Deletion
    <3>2. CASE Change(op, todo)
      <4>1. PICK x \in Client : ReadClient(x) /\ todo = <<[do |-> "client", rec |-> x]>>
        BY <3>2 DEF Change
      <4>2. Items(todo) = {[do |-> "client", rec |-> x]}
        BY <4>1 DEF Items
      <4>3. ClientsIn(todo) = {x}
        BY <4>2 DEF ClientsIn, ClientsOf
      <4> QED BY <4>1, <4>3, <3>2, <2>2, <1>5, <1>7 DEF Change, ReadClient
    <3>3. CASE \/ Creation(op, todo)
               \/ op # "delete_client" /\ todo \in Seq(OwnWork(Owners, op))
      <4>1. ClientsIn(todo) = {} /\ op # "delete_client"
        BY <3>3, <1>0, <1>1, <1>2, OtherStoreIsLeft DEF Creation
      <4>2. ClientsToSave(m)' = {} /\ reqs'[m].op # "delete_client"
        BY <4>1, <1>5, <1>7
      <4> QED BY <4>2, <2>2
    <3> QED BY <3>1, <3>2, <3>3, <1>4
  <2> QED BY <2>1, <2>2, <1>5
<1>10. ASSUME NEW i \in DOMAIN clients', clients'[i].status = "deleted", NEW q, q = clients'[i].by
       PROVE  reqs'[q].op = "delete_client" /\ Marked(q)'
  BY <1>0, <1>5, <1>7, <1>10 DEF DelInv
<1>11. ASSUME NEW k \in RequestIds, NEW r \in DOMAIN reqs', LeftBy(r, k)', ~reqs'[r].dead
       PROVE  UsersExcused(r, k)'
  <2>1. LeftBy(r, k)
    BY <1>7, <1>11 DEF LeftBy
  <2>2. r \in DOMAIN reqs
    <3>1. Newest(Versions(clients, k)) \in DOMAIN clients
      <4>1. Versions(clients, k) # {} /\ Versions(clients, k) \subseteq DOMAIN clients
        BY <2>1 DEF LeftBy, Versions
      <4> QED BY <4>1, <1>0, Found
    <3> QED BY <3>1, <2>1, <1>0 DEF LeftBy, Latest
  <2>3. UsersExcused(r, k)
    BY <2>1, <2>2, <1>5, <1>11 DEF DelInv
  <2>4. \A id : Excused(r, id) => Excused(r, id)'
    BY <2>2, <1>0, <1>5, ExcuseStays
  <2>5. \A a \in ListActive(accounts) : a.client = k => Awaits(r, k, a.id)' \/ Excused(r, a.id)'
    BY <2>2, <2>3, <2>4, <1>7 DEF UsersExcused
  <2>6. ASSUME NEW x \in AccountsIn(todo), x.client = k
        PROVE  m \in reqs'[r].met \/ Excused(r, x.id)'
    <3>1. CASE Running(r)
      BY <3>1, <2>2, <1>5
    <3>2. CASE ~Running(r)
      <4>1. \A id : ~Awaits(r, k, id)
        <5>1. reqs[r].todo = <<>>
          BY <3>2, <2>2, <1>5, <1>11 DEF Running
        <5> QED BY <5>1, ItemsOfLists DEF Awaits
      <4>2. Creation(op, todo) \/ todo \in Seq(OwnWork(Owners, op))
        BY <2>6, <1>0, <1>1, <1>2, <1>4, OtherStoreIsLeft
      <4>3. ~Present(clients, k)
        BY <2>1 DEF LeftBy, Present
      <4>4. \/ Renamed(x.id)
            \/ \E a \in ListActive(accounts) : a.id = x.id /\ a.client = k
        BY <4>2, <4>3, <2>6, <1>0, <1>1, <1>2, <1>3, NewWorkIsExcused
      <4>5. Excused(r, x.id)
        BY <4>1, <4>4, <2>3 DEF UsersExcused, Excused
      <4> QED BY <4>5, <2>4
    <3> QED BY <3>1, <3>2
  <2>7. ASSUME NEW q \in (DOMAIN reqs)' \ {r}, Running(q)', NEW x \in ToSave(q)', x.client = k
        PROVE  q \in (reqs[r].met)' \/ Excused(r, x.id)'
    <3>1. CASE q = m
      BY <3>1, <2>6, <2>7, <1>7
    <3>2. CASE q \in DOMAIN reqs
      BY <3>2, <2>2, <2>3, <2>4, <2>7, <1>5, <1>7 DEF UsersExcused
    <3> QED BY <3>1, <3>2, <2>7, <1>5
  <2>8. \A a \in ListActive(accounts)' : a.client = k => Awaits(r, k, a.id)' \/ Excused(r, a.id)'
    <3>1. ListActive(accounts)' = ListActive(accounts)
      BY <1>5 DEF ListActive, Latest, Versions
    <3> QED BY <3>1, <2>5
  <2> QED BY <2>7, <2>8 DEF UsersExcused
<1> QED BY <1>6, <1>8, <1>9, <1>10, <1>11 DEF DelInv

(* Deleting a client deletes its users (delete_client marks the client and then      *)
(* lists and deletes them): a user that is still there is one the deletion that left *)
(* the client deleted has still to reach, or a request that overlapped it wrote the  *)
(* user, or the user is found under a former address.                                *)
THEOREM DeletionsReachAllUsers == Spec => []DeletedClientHasNoUsers
<1>1. Init => DelInv
  <2> SUFFICES ASSUME Init PROVE DelInv
    OBVIOUS
  <2>1. accounts = <<>> /\ clients = <<>> /\ reqs = <<>> /\ DOMAIN <<>> = {}
    BY DEF Init
  <2>2. CodesInv
    BY CodesStart
  <2>3. accounts \in Seq(Owners)
    BY <2>1, EmptySeq
  <2> QED BY <2>1, <2>2, <2>3 DEF DelInv
<1>2. DelInv /\ [Next]_vars => DelInv'
  <2> SUFFICES ASSUME DelInv, [Next]_vars PROVE DelInv'
    OBVIOUS
  <2>1. CASE Call
    BY <2>1, DeletionBegin
  <2>2. CASE \E r \in DOMAIN reqs : Progress(r) \/ Stop(r)
    BY <2>2, DeletionStep
  <2>3. CASE TimePasses \/ UNCHANGED vars
    <3>1. UNCHANGED <<accounts, clients, sessions, resets, challenges, reqs>>
      BY <2>3 DEF TimePasses, Expire, vars
    <3>2. CodesInv'
      BY <3>1, CodesStayApart DEF DelInv
    <3>3. \A k : /\ Versions(clients, k)' = Versions(clients, k)
                 /\ Latest(clients, k)' = Latest(clients, k)
      BY <3>1 DEF Versions, Latest
    <3>4. \A r : /\ ToSave(r)' = ToSave(r) /\ ClientsToSave(r)' = ClientsToSave(r)
                 /\ Marked(r)' <=> Marked(r)
                 /\ Marks(r)' <=> Marks(r)
                 /\ Running(r)' <=> Running(r)
                 /\ \A id : Excused(r, id)' <=> Excused(r, id)
                 /\ \A k, id : Awaits(r, k, id)' <=> Awaits(r, k, id)
      BY <3>1, SameAccounts DEF ToSave, ClientsToSave, Marked, Marks, Running, Excused, Awaits
    <3>5. Owners' = Owners /\ ListActive(accounts)' = ListActive(accounts)
      BY <3>1, <3>3, SameAccounts DEF Owners, ListActive
    <3>6. \A r, k : (LeftBy(r, k)' <=> LeftBy(r, k)) /\ (UsersExcused(r, k)' <=> UsersExcused(r, k))
      BY <3>1, <3>3, <3>4, <3>5 DEF LeftBy, UsersExcused
    <3> QED BY <3>1, <3>2, <3>4, <3>5, <3>6 DEF DelInv
  <2> QED BY <2>1, <2>2, <2>3 DEF Next
<1>3. DelInv => DeletedClientHasNoUsers
  <2> SUFFICES ASSUME DelInv, NEW a \in ListActive(accounts), a.client # 0,
                      ~Present(clients, a.client), NEW r, r = Latest(clients, a.client).by,
                      Finished(r)
               PROVE  Excused(r, a.id)
    BY DEF DeletedClientHasNoUsers, Excused
  <2>1. a \in Owners /\ a \in Account
    BY ListedAreFound DEF DelInv, Owners
  <2>2. /\ a.client \in RequestIds /\ Versions(clients, a.client) # {}
        /\ Latest(clients, a.client).status = "deleted"
    BY <2>1 DEF Owners, Account, Present
  <2>3. r \in DOMAIN reqs
    <3>1. Newest(Versions(clients, a.client)) \in DOMAIN clients
      <4>1. clients \in Seq(Client) /\ Versions(clients, a.client) \subseteq DOMAIN clients
        BY DEF DelInv, CodesInv, SavesInv, TypeOK, Versions
      <4> QED BY <4>1, <2>2, Found
    <3> QED BY <3>1 DEF DelInv, CodesInv, Latest
  <2>4. UsersExcused(r, a.client)
    BY <2>2, <2>3 DEF DelInv, LeftBy, Finished
  <2>5. ~Awaits(r, a.client, a.id)
    BY ItemsOfLists DEF Awaits, Finished
  <2> QED BY <2>4, <2>5 DEF UsersExcused
<1> QED BY <1>1, <1>2, <1>3, PTL DEF Spec
================================================================================
