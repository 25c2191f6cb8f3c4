------------------------- MODULE EvidenceStagesProofs -------------------------
(* For any documents, settings, vocabulary and configurations that the assumptions *)
(* of EvidenceStages allow: the six properties of the stages hold.                 *)
(*                                                                                 *)
(* The invariant of the run (StagesInv) only says that each stage's result is that *)
(* of the ones before it.  The work is in what the stages compute: whatever parser *)
(* reads a document, every text it reports is cited where it stands (About), and a *)
(* parse that did not fail leaves no row out of the context (Complete) and makes   *)
(* each a line or a row of a table (Rendered); whatever method finds a value, it   *)
(* stands where the hit says (AllStand); and a result the classifier is confident  *)
(* of rests on variants the text warrants (Confident).                             *)
(* The operators take sequences apart and put them together again: what that keeps *)
(* is proved first.                                                                *)
EXTENDS EvidenceStages, FiniteSetTheorems, WellFoundedInduction, TLAPS

\* A set of numbers that is not empty has a least one.
LEMMA Least ==
  ASSUME NEW T \in SUBSET Nat, T # {}
  PROVE  \E n \in T : \A m \in T : n <= m
<1> DEFINE R == OpToRel(<, Nat)
<1>1. PICK n \in T : \A m \in T : ~(<<m, n>> \in R)
  <2> HIDE DEF R
  <2>1. IsWellFoundedOn(R, Nat)
    BY NatLessThanWellFounded DEF R
  <2> QED BY <2>1, WFMin
<1>2. \A m \in T : ~(m < n)
  BY <1>1 DEF OpToRel
<1> QED BY <1>2

\* What holds at zero and passes from each number to the next holds at every number.
LEMMA Everywhere ==
  ASSUME NEW T \in SUBSET Nat, 0 \in T, \A n \in T : n + 1 \in T
  PROVE  T = Nat
<1> SUFFICES ASSUME Nat \ T # {} PROVE FALSE
  OBVIOUS
<1>1. PICK n \in Nat \ T : \A m \in Nat \ T : n <= m
  <2> DEFINE U == Nat \ T
  <2>1. U \in SUBSET Nat /\ U # {}
    OBVIOUS
  <2> HIDE DEF U
  <2>2. \E n \in U : \A m \in U : n <= m
    BY <2>1, Least
  <2> QED BY <2>2 DEF U
<1>2. n - 1 \in T
  BY <1>1
<1> QED BY <1>1, <1>2

\* The concatenations of 1, 2, .. n of the sequences, one after the other.
Glued(ss, f, n) ==
  \A i \in 1..n : f[i] = (IF i = 1 THEN ss[i] ELSE f[i - 1] \o ss[i])

\* The elements of s are those of the first n of the sequences, and the first
\* is the first of the first one that has any.
InTurn(ss, s, n) ==
  /\ \A x : x \in ToSet(s) <=> \E i \in 1..n : x \in ToSet(ss[i])
  /\ s # <<>> => \E i \in 1..n : /\ ss[i] # <<>> /\ s[1] = ss[i][1]
                                 /\ \A j \in 1..(i - 1) : ss[j] = <<>>

\* The running concatenation of sequences can be carried one further,
LEMMA GlueOne ==
  ASSUME NEW S, NEW N \in Nat, NEW ss \in [1..N -> Seq(S)], NEW n \in Nat, n + 1 <= N,
         NEW f \in [1..n -> Seq(S)], Glued(ss, f, n)
  PROVE  \E g \in [1..(n + 1) -> Seq(S)] : Glued(ss, g, n + 1)
<1> DEFINE last == IF n = 0 THEN ss[1] ELSE f[n] \o ss[n + 1]
           g == [i \in 1..(n + 1) |-> IF i = n + 1 THEN last ELSE f[i]]
<1>1. ss[n + 1] \in Seq(S)
  OBVIOUS
<1>2. last \in Seq(S)
  <2>1. CASE n = 0 BY <2>1
  <2>2. CASE n # 0
    <3>1. f[n] \in Seq(S) BY <2>2
    <3> QED BY <3>1, <1>1, <2>2
  <2> QED BY <2>1, <2>2
<1>3. g \in [1..(n + 1) -> Seq(S)]
  <2> HIDE DEF last
  <2> QED BY <1>2
<1>4. ASSUME NEW i \in 1..(n + 1) PROVE g[i] = (IF i = 1 THEN ss[i] ELSE g[i - 1] \o ss[i])
  <2>1. CASE i = n + 1
    <3>1. g[i] = last
      BY <2>1
    <3>2. n # 0 => g[i - 1] = f[n]
      <4> HIDE DEF last
      <4> QED BY <2>1
    <3> HIDE DEF g
    <3> QED BY <3>1, <3>2, <2>1
  <2>2. CASE i # n + 1
    <3>1. i \in 1..n /\ (i # 1 => i - 1 \in 1..n)
      BY <2>2
    <3>2. g[i] = f[i] /\ (i # 1 => g[i - 1] = f[i - 1])
      <4> HIDE DEF last
      <4> QED BY <3>1
    <3>3. f[i] = (IF i = 1 THEN ss[i] ELSE f[i - 1] \o ss[i])
      BY <3>1 DEF Glued
    <3> HIDE DEF g
    <3> QED BY <3>2, <3>3
  <2> QED BY <2>1, <2>2
<1> HIDE DEF g
<1>5. Glued(ss, g, n + 1)
  BY <1>4 DEF Glued
<1> QED BY <1>3, <1>5

\* and so it exists for all of them.
LEMMA GlueAll ==
  ASSUME NEW S, NEW N \in Nat, NEW ss \in [1..N -> Seq(S)]
  PROVE  \E f \in [1..N -> Seq(S)] : Glued(ss, f, N)
<1> DEFINE Done(n) == \E f \in [1..n -> Seq(S)] : Glued(ss, f, n)
           T == {n \in Nat : n <= N => Done(n)}
<1>1. 0 \in T
  <2>1. [i \in 1..0 |-> <<>>] \in [1..0 -> Seq(S)] /\ Glued(ss, [i \in 1..0 |-> <<>>], 0)
    BY DEF Glued
  <2>2. Done(0)
    BY <2>1
  <2> QED BY <2>2
<1>2. ASSUME NEW n \in T PROVE n + 1 \in T
  <2>1. n \in Nat /\ n + 1 \in Nat /\ (n <= N => Done(n))
    OBVIOUS
  <2>2. n + 1 <= N => Done(n + 1)
    <3> SUFFICES ASSUME n + 1 <= N PROVE Done(n + 1)
      OBVIOUS
    <3>1. PICK f \in [1..n -> Seq(S)] : Glued(ss, f, n)
      BY <2>1
    <3> HIDE DEF T
    <3> QED BY <2>1, <3>1, GlueOne
  <2> HIDE DEF Done
  <2> QED BY <2>1, <2>2
<1>3. T = Nat
  <2> HIDE DEF Done
  <2>1. T \in SUBSET Nat
    OBVIOUS
  <2> HIDE DEF T
  <2> QED BY <1>1, <1>2, <2>1, Everywhere
<1>4. Done(N)
  <2> HIDE DEF Done
  <2> QED BY <1>3
<1> QED BY <1>4

\* A concatenation holds what its parts hold, and starts with the first that is not empty.
LEMMA Joined ==
  ASSUME NEW S, NEW a \in Seq(S), NEW b \in Seq(S)
  PROVE  /\ \A x : x \in ToSet(a \o b) <=> x \in ToSet(a) \/ x \in ToSet(b)
         /\ a # <<>> => (a \o b)[1] = a[1]
         /\ a = <<>> => a \o b = b
<1> DEFINE s == a \o b
<1>1. /\ Len(a) \in Nat /\ Len(b) \in Nat
      /\ DOMAIN a = 1..Len(a) /\ DOMAIN b = 1..Len(b) /\ DOMAIN s = 1..(Len(a) + Len(b))
      /\ \A i \in 1..Len(a) : s[i] = a[i]
      /\ \A i \in 1..Len(b) : s[i + Len(a)] = b[i]
  OBVIOUS
<1>2. ASSUME NEW x, x \in ToSet(s) PROVE x \in ToSet(a) \/ x \in ToSet(b)
  <2>1. PICK i \in DOMAIN s : x = s[i]
    BY <1>2 DEF ToSet
  <2>2. CASE i \in 1..Len(a)
    <3> HIDE DEF s
    <3> QED BY <1>1, <2>1, <2>2 DEF ToSet
  <2>3. CASE i \notin 1..Len(a)
    <3> HIDE DEF s
    <3>1. i - Len(a) \in 1..Len(b) /\ i = i - Len(a) + Len(a)
      BY <1>1, <2>1, <2>3
    <3>2. x = b[i - Len(a)]
      BY <1>1, <2>1, <3>1
    <3> QED BY <1>1, <3>1, <3>2 DEF ToSet
  <2> QED BY <2>2, <2>3
<1>3. ASSUME NEW x, x \in ToSet(a) PROVE x \in ToSet(s)
  <2> HIDE DEF s
  <2>1. PICK i \in 1..Len(a) : x = a[i]
    BY <1>1, <1>3 DEF ToSet
  <2>2. i \in DOMAIN s /\ x = s[i]
    BY <1>1, <2>1
  <2> QED BY <2>2 DEF ToSet
<1>4. ASSUME NEW x, x \in ToSet(b) PROVE x \in ToSet(s)
  <2> HIDE DEF s
  <2>1. PICK i \in 1..Len(b) : x = b[i]
    BY <1>1, <1>4 DEF ToSet
  <2>2. i + Len(a) \in DOMAIN s /\ x = s[i + Len(a)]
    BY <1>1, <2>1
  <2> QED BY <2>2 DEF ToSet
<1>5. a # <<>> => s[1] = a[1]
  OBVIOUS
<1>6. a = <<>> => s = b
  OBVIOUS
<1> QED BY <1>2, <1>3, <1>4, <1>5, <1>6

\* A sequence without elements is empty.
LEMMA NoneIn ==
  ASSUME NEW S, NEW a \in Seq(S)
  PROVE  a = <<>> <=> \A x : x \notin ToSet(a)
<1>1. Len(a) \in Nat /\ DOMAIN a = 1..Len(a) /\ (a = <<>> <=> Len(a) = 0)
  OBVIOUS
<1>2. ASSUME a # <<>> PROVE a[1] \in ToSet(a)
  <2>1. 1 \in DOMAIN a
    BY <1>1, <1>2
  <2> QED BY <2>1 DEF ToSet
<1>3. ASSUME a = <<>>, NEW x PROVE x \notin ToSet(a)
  BY <1>1, <1>3 DEF ToSet
<1> QED BY <1>2, <1>3

\* A running concatenation takes its parts in turn.
LEMMA GluedOrder ==
  ASSUME NEW S, NEW N \in Nat, NEW ss \in [1..N -> Seq(S)], NEW f \in [1..N -> Seq(S)],
         Glued(ss, f, N), NEW n \in 1..N
  PROVE  InTurn(ss, f[n], n)
<1> DEFINE T == {k \in Nat : k + 1 <= N => InTurn(ss, f[k + 1], k + 1)}
<1>1. 0 \in T
  <2> SUFFICES ASSUME 1 <= N PROVE InTurn(ss, f[1], 1)
    OBVIOUS
  <2> HIDE DEF T
  <2>1. f[1] = ss[1]
    BY DEF Glued
  <2> QED BY <2>1 DEF InTurn
<1>2. ASSUME NEW k \in T PROVE k + 1 \in T
  <2> SUFFICES ASSUME NEW m \in 1..N, m = k + 1 + 1 PROVE InTurn(ss, f[m], m)
    OBVIOUS
  <2> DEFINE p == k + 1
             a == f[p]
             b == ss[m]
             s == f[m]
  <2>1. InTurn(ss, a, p) /\ p \in 1..N /\ m = p + 1 /\ m # 1 /\ p = m - 1
    OBVIOUS
  <2> HIDE DEF T, p
  <2>2. a \in Seq(S) /\ b \in Seq(S) /\ s = a \o b
    <3>1. f[m] = f[m - 1] \o ss[m]
      BY <2>1 DEF Glued
    <3> QED BY <2>1, <3>1
  <2> HIDE DEF s, a
  <2>3. /\ \A x : x \in ToSet(s) <=> x \in ToSet(a) \/ x \in ToSet(b)
        /\ a # <<>> => s[1] = a[1]
        /\ a = <<>> => s = b
    <3> HIDE DEF b
    <3> QED BY <2>2, Joined
  <2>4. \A x : x \in ToSet(s) <=> \E i \in 1..m : x \in ToSet(ss[i])
    <3>1. \A x : x \in ToSet(a) <=> \E i \in 1..p : x \in ToSet(ss[i])
      BY <2>1 DEF InTurn
    <3>2. \A i : i \in 1..m <=> i \in 1..p \/ i = m
      BY <2>1
    <3> QED BY <2>3, <3>1, <3>2
  <2>5. ASSUME s # <<>>
        PROVE  \E i \in 1..m : /\ ss[i] # <<>> /\ s[1] = ss[i][1]
                                     /\ \A j \in 1..(i - 1) : ss[j] = <<>>
    <3>1. CASE a # <<>>
      <4>1. PICK i \in 1..p : /\ ss[i] # <<>> /\ a[1] = ss[i][1]
                                    /\ \A j \in 1..(i - 1) : ss[j] = <<>>
        BY <2>1, <3>1 DEF InTurn
      <4>2. i \in 1..m
        BY <2>1
      <4> QED BY <4>1, <4>2, <2>3, <3>1
    <3>2. CASE a = <<>>
      <4>1. s = b
        BY <2>3, <3>2
      <4>2. ASSUME NEW j \in 1..p PROVE ss[j] = <<>>
        <5>1. \A x : x \notin ToSet(a)
          BY <2>2, <3>2, NoneIn
        <5>2. \A x : x \notin ToSet(ss[j])
          BY <2>1, <5>1 DEF InTurn
        <5>3. ss[j] \in Seq(S)
          BY <2>1
        <5> QED BY <5>2, <5>3, NoneIn
      <4>3. m \in 1..m /\ m - 1 = p
        BY <2>1
      <4> QED BY <4>1, <4>2, <4>3, <2>5
    <3> QED BY <3>1, <3>2
  <2> QED BY <2>4, <2>5 DEF InTurn, s
<1>3. T = Nat
  <2>1. T \in SUBSET Nat
    OBVIOUS
  <2> HIDE DEF T
  <2> QED BY <1>1, <1>2, <2>1, Everywhere
<1>4. n - 1 \in Nat /\ n - 1 + 1 = n
  OBVIOUS
<1>5. n - 1 \in T
  BY <1>3, <1>4
<1> QED BY <1>4, <1>5

\* Of sequences one after the other: the elements, and which is first.
LEMMA Flatten ==
  ASSUME NEW S, NEW N \in Nat, NEW ss \in [1..N -> Seq(S)]
  PROVE  FlattenSeq(ss) \in Seq(S) /\ InTurn(ss, FlattenSeq(ss), N)
<1>0. ss \in Seq(Seq(S)) /\ Len(ss) = N
  OBVIOUS
<1>1. CASE N = 0
  <2>1. ss = <<>>
    BY <1>1
  <2>2. FlattenSeq(ss) = ss
    BY <1>0, <1>1 DEF FlattenSeq
  <2>3. InTurn(<<>>, <<>>, 0)
    BY DEF InTurn, ToSet
  <2>4. FlattenSeq(ss) = <<>>
    BY <2>1, <2>2
  <2>5. <<>> \in Seq(S)
    OBVIOUS
  <2>6. InTurn(ss, FlattenSeq(ss), 0)
    BY <2>1, <2>3, <2>4
  <2> QED BY <1>1, <2>4, <2>5, <2>6
<1>2. CASE N # 0
  <2> DEFINE Is(h) == h = [i \in 1..N |-> IF i = 1 THEN ss[i] ELSE h[i - 1] \o ss[i]]
             F == CHOOSE h : Is(h)
  <2>1. PICK f \in [1..N -> Seq(S)] : Glued(ss, f, N)
    BY GlueAll
  <2>2. Is(f)
    BY <2>1 DEF Glued
  <2>3. Is(F)
    <3>1. \E h : Is(h)
      BY <2>2
    <3> HIDE DEF Is
    <3> QED BY <3>1
  <2>4. FlattenSeq(ss) = F[N]
    BY <1>0, <1>2 DEF FlattenSeq
  <2> HIDE DEF F
  <2>5. DOMAIN F = 1..N /\ Glued(ss, F, N)
    BY <2>3 DEF Glued
  <2>6. \A i \in 1..N : F[i] = f[i]
    <3> DEFINE T == {k \in Nat : k + 1 <= N => F[k + 1] = f[k + 1]}
    <3>1. 0 \in T
      BY <2>1, <2>5 DEF Glued
    <3>2. ASSUME NEW k \in T PROVE k + 1 \in T
      <4> SUFFICES ASSUME NEW m \in 1..N, m = k + 1 + 1 PROVE F[m] = f[m]
        OBVIOUS
      <4> DEFINE p == k + 1
      <4>1. F[p] = f[p] /\ m # 1 /\ p = m - 1
        OBVIOUS
      <4> HIDE DEF T, p
      <4>2. f[m] = f[m - 1] \o ss[m] /\ F[m] = F[m - 1] \o ss[m]
        BY <4>1, <2>1, <2>5 DEF Glued
      <4> QED BY <4>1, <4>2
    <3>3. T = Nat
      <4>1. T \in SUBSET Nat
        OBVIOUS
      <4> HIDE DEF T
      <4> QED BY <3>1, <3>2, <4>1, Everywhere
    <3>4. ASSUME NEW i \in 1..N PROVE F[i] = f[i]
      <4>1. i - 1 \in Nat /\ i - 1 + 1 = i
        OBVIOUS
      <4>2. i - 1 \in T
        BY <3>3, <4>1
      <4> QED BY <4>1, <4>2
    <3> QED BY <3>4
  <2>7. F = [i \in 1..N |-> F[i]]
    BY <2>3
  <2>8. F \in [1..N -> Seq(S)]
    <3>1. \A i \in 1..N : F[i] \in Seq(S)
      BY <2>1, <2>6
    <3> QED BY <2>7, <3>1
  <2>9. N \in 1..N
    BY <1>2
  <2>10. InTurn(ss, F[N], N)
    BY <2>5, <2>8, <2>9, GluedOrder
  <2> QED BY <2>4, <2>8, <2>9, <2>10
<1> QED BY <1>1, <1>2

\* A relation that puts the elements of a set in one order.
Orders(R, S) ==
  /\ \A x \in S : <<x, x>> \notin R
  /\ \A x, y, z \in S : <<x, y>> \in R /\ <<y, z>> \in R => <<x, z>> \in R
  /\ \A x, y \in S : x # y => <<x, y>> \in R \/ <<y, x>> \in R

\* In an ordered finite set, every place is taken.
LEMMA EveryPlaceIsTaken ==
  ASSUME NEW S, IsFiniteSet(S), NEW R, Orders(R, S), NEW i \in 1..Cardinality(S)
  PROVE  \E x \in S : Cardinality({y \in S : <<y, x>> \in R}) = i - 1
<1> DEFINE before(x) == {y \in S : <<y, x>> \in R}
           n == Cardinality(S)
           rank == [x \in S |-> Cardinality(before(x))]
<1>0. n \in Nat
  BY FS_CardinalityType
<1>1. ASSUME NEW x \in S PROVE IsFiniteSet(before(x)) /\ Cardinality(before(x)) \in 0..(n - 1)
  <2>1. before(x) \in SUBSET S /\ before(x) # S
    BY DEF Orders
  <2> HIDE DEF before
  <2>2. IsFiniteSet(before(x)) /\ Cardinality(before(x)) <= n /\ Cardinality(before(x)) # n
    BY <2>1, FS_Subset
  <2>3. Cardinality(before(x)) \in Nat
    BY <2>2, FS_CardinalityType
  <2> QED BY <2>2, <2>3, <1>0
<1>2. ASSUME NEW x \in S, NEW y \in S, <<x, y>> \in R
      PROVE  Cardinality(before(x)) # Cardinality(before(y))
  <2>1. before(x) \in SUBSET before(y) /\ before(x) # before(y)
    BY <1>2 DEF Orders
  <2>2. IsFiniteSet(before(y))
    BY <1>1
  <2> HIDE DEF before
  <2> QED BY <2>1, <2>2, FS_Subset
<1>3. rank \in [S -> 0..(n - 1)]
  <2> HIDE DEF before, n
  <2> QED BY <1>1
<1>4. ASSUME NEW x \in S, NEW y \in S, x # y PROVE rank[x] # rank[y]
  <2>1. <<x, y>> \in R \/ <<y, x>> \in R
    BY <1>4 DEF Orders
  <2> HIDE DEF before
  <2> QED BY <2>1, <1>2
<1>5. rank \in Injection(S, 0..(n - 1))
  <2> HIDE DEF rank, n
  <2> QED BY <1>3, <1>4 DEF Injection, IsInjective
<1>6. IsFiniteSet(0..(n - 1)) /\ Cardinality(0..(n - 1)) = n
  <2> HIDE DEF n
  <2> QED BY <1>0, FS_Interval
<1>7. rank \in Surjection(S, 0..(n - 1))
  <2> HIDE DEF rank
  <2> QED BY <1>5, <1>6, FS_Injection
<1>8. i - 1 \in 0..(n - 1)
  <2> HIDE DEF n
  <2>1. i \in 1..n
    BY DEF n
  <2> QED BY <1>0, <2>1
<1>9. PICK x \in S : rank[x] = i - 1
  <2> HIDE DEF rank, n
  <2> QED BY <1>7, <1>8 DEF Surjection
<1> QED BY <1>9

-----------------------------------------------------------------------------
(* Sequences and text.                                                     *)

\* What a sequence holds is in the set it is over.
LEMMA Elements ==
  /\ \A S : \A s \in Seq(S) : \A x : x \in ToSet(s) => x \in S
  /\ \A S, T : \A s \in Seq(S) : (\A x \in ToSet(s) : x \in T) => s \in Seq(T)
  /\ \A x : ToSet(<<x>>) = {x}
  /\ ToSet(<<>>) = {}
<1>1. ASSUME NEW S, NEW s \in Seq(S), NEW x, x \in ToSet(s) PROVE x \in S
  <2>1. PICK i \in DOMAIN s : x = s[i]
    BY <1>1 DEF ToSet
  <2> QED BY <2>1
<1>2. ASSUME NEW S, NEW T, NEW s \in Seq(S), \A x \in ToSet(s) : x \in T PROVE s \in Seq(T)
  <2>1. Len(s) \in Nat /\ s \in [1..Len(s) -> S] /\ DOMAIN s = 1..Len(s)
    OBVIOUS
  <2>2. \A i \in 1..Len(s) : s[i] \in T
    BY <2>1, <1>2 DEF ToSet
  <2>3. s \in [1..Len(s) -> T]
    BY <2>1, <2>2
  <2> QED BY <2>1, <2>3
<1>3. ASSUME NEW x PROVE ToSet(<<x>>) = {x}
  <2>1. DOMAIN <<x>> = 1..1 /\ <<x>>[1] = x
    OBVIOUS
  <2> QED BY <2>1 DEF ToSet
<1>4. ToSet(<<>>) = {}
  BY DEF ToSet
<1> QED BY <1>1, <1>2, <1>3, <1>4

IsSeq(s) == s \in Seq(ToSet(s))

\* A sequence over any set is one over its own elements.
LEMMA SeqIsSeq ==
  ASSUME NEW S, NEW s \in Seq(S)
  PROVE  IsSeq(s)
<1> DEFINE T == ToSet(s)
<1>1. \A x \in ToSet(s) : x \in T
  OBVIOUS
<1>2. s \in Seq(T)
  <2> HIDE DEF T
  <2> QED BY <1>1, Elements
<1> QED BY <1>2 DEF IsSeq

\* The places of a sequence, and what stands at them.
LEMMA SeqFacts ==
  ASSUME NEW s, IsSeq(s)
  PROVE  /\ Len(s) \in Nat /\ DOMAIN s = 1..Len(s)
         /\ \A i \in DOMAIN s : s[i] \in ToSet(s)
<1>1. s \in Seq(ToSet(s))
  BY DEF IsSeq
<1>2. Len(s) \in Nat /\ DOMAIN s = 1..Len(s)
  BY <1>1
<1> QED BY <1>2 DEF ToSet

\* What the parts of a sequence make, one after the other.
LEMMA Gather ==
  ASSUME NEW N \in Nat, NEW body, DOMAIN body = 1..N, body = [i \in 1..N |-> body[i]],
         \A i \in 1..N : IsSeq(body[i])
  PROVE  IsSeq(FlattenSeq(body)) /\ InTurn(body, FlattenSeq(body), N)
<1> DEFINE S == UNION {ToSet(body[i]) : i \in 1..N}
<1>1. ASSUME NEW i \in 1..N PROVE body[i] \in Seq(S)
  <2>1. body[i] \in Seq(ToSet(body[i]))
    BY DEF IsSeq
  <2>2. \A x \in ToSet(body[i]) : x \in S
    OBVIOUS
  <2> HIDE DEF S
  <2> QED BY <2>1, <2>2, Elements
<1>2. body \in [1..N -> Seq(S)]
  <2> HIDE DEF S
  <2> QED BY <1>1
<1> HIDE DEF S
<1>3. FlattenSeq(body) \in Seq(S) /\ InTurn(body, FlattenSeq(body), N)
  BY <1>2, Flatten
<1>4. IsSeq(FlattenSeq(body))
  <2> DEFINE F == FlattenSeq(body)
  <2>1. F \in Seq(S)
    BY <1>3
  <2> HIDE DEF F
  <2>2. IsSeq(F)
    BY <2>1, SeqIsSeq
  <2> QED BY <2>2 DEF F
<1> QED BY <1>3, <1>4

\* If some part makes anything, the whole does.
LEMMA SomeMade ==
  ASSUME NEW seq, IsSeq(seq), NEW body, body = [i \in DOMAIN seq |-> body[i]],
         \A i \in DOMAIN seq : IsSeq(body[i])
  PROVE  /\ IsSeq(FlattenSeq(body))
         /\ \A i \in DOMAIN seq : body[i] # <<>> => FlattenSeq(body) # <<>>
<1> DEFINE N == Len(seq)
           F == FlattenSeq(body)
<1>1. N \in Nat /\ DOMAIN seq = 1..N
  BY SeqFacts
<1> HIDE DEF N
<1>2. DOMAIN body = 1..N /\ body = [i \in 1..N |-> body[i]] /\ \A i \in 1..N : IsSeq(body[i])
  BY <1>1
<1>3. IsSeq(F) /\ InTurn(body, F, N)
  BY <1>1, <1>2, Gather
<1> HIDE DEF F
<1>4. ASSUME NEW i \in 1..N, body[i] # <<>> PROVE F # <<>>
  <2> DEFINE b == body[i]
  <2>1. b \in Seq(ToSet(b)) /\ b # <<>>
    BY <1>2, <1>4 DEF IsSeq
  <2> HIDE DEF b
  <2>2. 1 \in DOMAIN b
    BY <2>1
  <2>3. b[1] \in ToSet(b)
    BY <2>2 DEF ToSet
  <2>4. b[1] \in ToSet(F)
    BY <1>3, <2>3 DEF InTurn, b
  <2> QED BY <2>4, Elements
<1> QED BY <1>1, <1>3, <1>4 DEF F

\* What a test leaves of a sequence.
LEMMA Sift ==
  ASSUME NEW S, NEW seq \in Seq(S), NEW body, body = [i \in DOMAIN seq |-> body[i]],
         \A i \in DOMAIN seq : body[i] \in {<<>>, <<seq[i]>>}
  PROVE  /\ FlattenSeq(body) \in Seq(S)
         /\ \A x : x \in ToSet(FlattenSeq(body)) <=>
                     \E i \in DOMAIN seq : x = seq[i] /\ body[i] # <<>>
<1> DEFINE N == Len(seq)
<1>1. N \in Nat /\ DOMAIN seq = 1..N /\ \A i \in 1..N : seq[i] \in S
  OBVIOUS
<1>2. \A i \in 1..N : body[i] \in Seq(S)
  <2>1. \A x \in S : <<x>> \in Seq(S)
    OBVIOUS
  <2>2. <<>> \in Seq(S)
    OBVIOUS
  <2>3. \A i \in 1..N : body[i] \in {<<>>, <<seq[i]>>}
    BY <1>1
  <2> HIDE DEF N
  <2>4. ASSUME NEW i \in 1..N PROVE body[i] \in Seq(S)
    <3>1. <<seq[i]>> \in Seq(S)
      BY <1>1, <2>1
    <3> QED BY <2>2, <2>3, <3>1
  <2> QED BY <2>4
<1>3. body \in [1..N -> Seq(S)]
  <2> HIDE DEF N
  <2> QED BY <1>1, <1>2
<1>4. FlattenSeq(body) \in Seq(S) /\ InTurn(body, FlattenSeq(body), N)
  <2> HIDE DEF N
  <2> QED BY <1>1, <1>3, Flatten
<1>5. ASSUME NEW x, NEW i \in 1..N
      PROVE  x \in ToSet(body[i]) <=> x = seq[i] /\ body[i] # <<>>
  <2>1. ToSet(<<seq[i]>>) = {seq[i]} /\ ToSet(<<>>) = {} /\ <<seq[i]>> # <<>>
    BY Elements
  <2> HIDE DEF N
  <2> QED BY <1>1, <2>1
<1> HIDE DEF N
<1> QED BY <1>1, <1>4, <1>5 DEF InTurn

\* A single part is its own concatenation.
LEMMA FlattenOne ==
  ASSUME NEW s
  PROVE  FlattenSeq(<<s>>) = s
<1> DEFINE Is(f) == f = [i \in 1..1 |-> IF i = 1 THEN <<s>>[i] ELSE f[i - 1] \o <<s>>[i]]
<1>1. Is([i \in 1..1 |-> s])
  OBVIOUS
<1>2. Is(CHOOSE f : Is(f))
  BY <1>1
<1>3. Len(<<s>>) = 1
  OBVIOUS
<1> QED BY <1>2, <1>3 DEF FlattenSeq

Cell == Seq(STRING)
Row == Seq(Cell)
Part == Seq(Row)

\* The words of a row are those of its cells.
LEMMA WordsAre ==
  ASSUME NEW row \in Row
  PROVE  /\ WordsOf(row) \in Cell
         /\ \A w : w \in ToSet(WordsOf(row)) <=> \E c \in DOMAIN row : w \in ToSet(row[c])
<1>1. row \in [1..Len(row) -> Cell] /\ Len(row) \in Nat /\ DOMAIN row = 1..Len(row)
  BY DEF Row
<1>2. FlattenSeq(row) \in Cell /\ InTurn(row, FlattenSeq(row), Len(row))
  BY <1>1, Flatten DEF Cell
<1> QED BY <1>1, <1>2 DEF WordsOf, InTurn

\* The text of a part is the words of its rows.
LEMMA TextIs ==
  ASSUME NEW part \in Part
  PROVE  /\ TextOf(part) \in Cell
         /\ \A w : w \in ToSet(TextOf(part)) <=> \E r \in DOMAIN part : w \in ToSet(WordsOf(part[r]))
<1> DEFINE body == [r \in DOMAIN part |-> WordsOf(part[r])]
<1>1. Len(part) \in Nat /\ DOMAIN part = 1..Len(part) /\ \A r \in 1..Len(part) : part[r] \in Row
  BY DEF Part
<1>2. body \in [1..Len(part) -> Cell]
  BY <1>1, WordsAre
<1> HIDE DEF body
<1>3. FlattenSeq(body) \in Cell /\ InTurn(body, FlattenSeq(body), Len(part))
  BY <1>1, <1>2, Flatten DEF Cell
<1>4. \A r \in 1..Len(part) : body[r] = WordsOf(part[r])
  BY <1>1 DEF body
<1>5. TextOf(part) = FlattenSeq(body)
  BY DEF TextOf, body
<1> QED BY <1>1, <1>3, <1>4, <1>5 DEF InTurn

\* A text of one word.
LEMMA OneWord ==
  ASSUME NEW w \in STRING
  PROVE  <<w>> \in Cell /\ ToSet(<<w>>) = {w}
<1>1. \A S : \A x \in S : <<x>> \in Seq(S)
  OBVIOUS
<1>2. <<w>> \in Seq(STRING)
  BY <1>1
<1> QED BY <1>2, Elements DEF Cell

\* The words of two cells.
LEMMA Concatenation ==
  ASSUME NEW a \in Cell, NEW b \in Cell
  PROVE  /\ a \o b \in Cell
         /\ \A w : w \in ToSet(a \o b) <=> w \in ToSet(a) \/ w \in ToSet(b)
<1>1. /\ Len(a) \in Nat /\ Len(b) \in Nat /\ DOMAIN a = 1..Len(a) /\ DOMAIN b = 1..Len(b)
      /\ a \o b \in Cell /\ DOMAIN (a \o b) = 1..(Len(a) + Len(b))
      /\ \A i \in 1..(Len(a) + Len(b)) : (a \o b)[i] = IF i <= Len(a) THEN a[i] ELSE b[i - Len(a)]
  BY DEF Cell
<1> DEFINE c == a \o b
<1>2. ASSUME NEW w \in ToSet(c) PROVE w \in ToSet(a) \/ w \in ToSet(b)
  <2>1. PICK i \in 1..(Len(a) + Len(b)) : w = c[i]
    BY <1>1 DEF ToSet
  <2>2. CASE i <= Len(a)
    <3>1. i \in DOMAIN a /\ w = a[i]
      BY <1>1, <2>1, <2>2
    <3> QED BY <3>1 DEF ToSet
  <2>3. CASE ~(i <= Len(a))
    <3>1. i - Len(a) \in DOMAIN b /\ w = b[i - Len(a)]
      BY <1>1, <2>1, <2>3
    <3> QED BY <3>1 DEF ToSet
  <2> QED BY <2>2, <2>3
<1>3. ASSUME NEW w \in ToSet(a) PROVE w \in ToSet(c)
  <2>1. PICK i \in 1..Len(a) : w = a[i]
    BY <1>1 DEF ToSet
  <2>2. i \in DOMAIN c /\ w = c[i]
    BY <1>1, <2>1
  <2> QED BY <2>2 DEF ToSet
<1>4. ASSUME NEW w \in ToSet(b) PROVE w \in ToSet(c)
  <2>1. PICK i \in 1..Len(b) : w = b[i]
    BY <1>1 DEF ToSet
  <2>2. (i + Len(a)) \in DOMAIN c /\ w = c[i + Len(a)]
    BY <1>1, <2>1
  <2> QED BY <2>2 DEF ToSet
<1> QED BY <1>1, <1>2, <1>3, <1>4

\* Dropping blank rows drops no words.
LEMMA NonBlankIs ==
  ASSUME NEW part \in Part
  PROVE  /\ NonBlank(part) \in Part
         /\ \A row : row \in ToSet(NonBlank(part)) <=> row \in ToSet(part) /\ WordsOf(row) # <<>>
<1> DEFINE body == [i \in DOMAIN part |-> IF ~IsBlank(part[i]) THEN <<part[i]>> ELSE <<>>]
<1>1. NonBlank(part) = FlattenSeq(body)
  BY DEF NonBlank, Select, Each
<1>2. part \in Seq(Row)
  BY DEF Part
<1>3. /\ body = [i \in DOMAIN part |-> body[i]]
      /\ \A i \in DOMAIN part : body[i] \in {<<>>, <<part[i]>>}
  OBVIOUS
<1>4. \A i \in DOMAIN part : body[i] # <<>> <=> WordsOf(part[i]) # <<>>
  <2>1. \A i \in DOMAIN part : <<part[i]>> # <<>>
    OBVIOUS
  <2> QED BY <2>1 DEF IsBlank
<1> HIDE DEF body
<1>5. /\ FlattenSeq(body) \in Seq(Row)
      /\ \A x : x \in ToSet(FlattenSeq(body)) <=> \E i \in DOMAIN part : x = part[i] /\ body[i] # <<>>
  BY <1>2, <1>3, Sift
<1>6. \A x : x \in ToSet(part) <=> \E i \in DOMAIN part : x = part[i]
  BY DEF ToSet
<1>7. NonBlank(part) \in Part
  BY <1>1, <1>5 DEF Part
<1>8. \A x : x \in ToSet(NonBlank(part)) <=> \E i \in DOMAIN part : x = part[i] /\ WordsOf(part[i]) # <<>>
  BY <1>1, <1>4, <1>5
<1> QED BY <1>6, <1>7, <1>8

\* A row of one cell, and a part of one row.
LEMMA Alone ==
  /\ \A cell : WordsOf(<<cell>>) = cell
  /\ \A row : TextOf(<<row>>) = WordsOf(row)
<1>1. \A cell : WordsOf(<<cell>>) = cell
  BY FlattenOne DEF WordsOf
<1>2. ASSUME NEW row PROVE TextOf(<<row>>) = WordsOf(row)
  <2>1. [i \in DOMAIN <<row>> |-> WordsOf(<<row>>[i])] = <<WordsOf(row)>>
    OBVIOUS
  <2> QED BY <2>1, FlattenOne DEF TextOf
<1> QED BY <1>1, <1>2

-----------------------------------------------------------------------------
(* What a parser's output says of the document.                            *)

AnyWords == UNION {PartWords(p) : p \in DOMAIN doc.parts}

\* A word stands at the place that the reference cites, unless a cap left it.
StandsAt(w, reference) == w \in CutWords \/ (w \in Place(reference) /\ w \in AnyWords)
Uncut(text) == \A w \in ToSet(text) : w \notin CutWords

\* The words stand there, so does the quotation, and one that is not cut has them.
Cited(words, reference, page) ==
  /\ words \in Cell
  /\ reference.page = page
  /\ IF InWorkbook THEN page = None ELSE page \in DOMAIN doc.parts
  /\ \A w \in ToSet(words) :
       /\ StandsAt(w, reference)
       /\ reference.text # <<>> /\ Uncut(reference.text) => w \in ToSet(reference.text)
  /\ \A w \in ToSet(reference.text) : StandsAt(w, reference)

PagesStand(o) ==
  /\ IsSeq(o.pages)
  /\ \A p \in ToSet(o.pages) :
       /\ p.text \in Part
       /\ Cited(TextOf(p.text), Inline(p.page, None, TextOf(p.text)), p.page)
BlocksStand(o) ==
  /\ IsSeq(o.blocks)
  /\ \A b \in ToSet(o.blocks) :
       b.text \in Part /\ Cited(TextOf(b.text), BlockReference(o, b), b.page)
TablesStand(o) ==
  /\ IsSeq(o.tables)
  /\ \A t \in ToSet(o.tables) :
       t.rows \in Part /\ Cited(TextOf(t.rows), TableReference(t), t.page)
PairsStand(o) ==
  /\ IsSeq(o.pairs)
  /\ \A p \in ToSet(o.pairs) :
       /\ p.key \in Cell /\ p.value \in Cell
       /\ Cited(p.key \o p.value, Inline(p.page, None, p.key \o p.value), p.page)
RefsStand(o) ==
  /\ IsSeq(o.refs)
  /\ \A r \in ToSet(o.refs) : r.text \in Cell /\ (r.cell # <<>> => Cited(r.text, r, None))

About(o) == PagesStand(o) /\ BlocksStand(o) /\ TablesStand(o) /\ PairsStand(o) /\ RefsStand(o)

\* No row, and no cell of a workbook, is missing from the lines around a value.
Complete(o) ==
  \A p \in DOMAIN doc.parts : \A row \in ToSet(doc.parts[p]) :
    IF InWorkbook
    THEN \A cell \in ToSet(row) : cell # <<>> => cell \in ContextLines(o, None)
    ELSE WordsOf(row) # <<>> => WordsOf(row) \in ContextLines(o, p)

\* A snippet has the words of its text, and all of them if nothing is cut.
LEMMA SnippetIs ==
  ASSUME NEW words \in Cell
  PROVE  /\ Snippet(words) \in Cell
         /\ \A w \in ToSet(Snippet(words)) : w \in ToSet(words) \/ w \in CutWords
         /\ Uncut(Snippet(words)) => Snippet(words) = words
         /\ words # <<>> => Snippet(words) # <<>>
<1> DEFINE kept == SubSeq(words, 1, MaxSnippet)
           rest == CutOf(words[MaxSnippet + 1])
<1>1. MaxSnippet \in Nat /\ MaxSnippet > 0 /\ Len(words) \in Nat /\ DOMAIN words = 1..Len(words)
  BY SnippetAssumption DEF Cell
<1>2. CASE Len(words) <= MaxSnippet
  <2>1. Snippet(words) = words
    BY <1>2 DEF Snippet
  <2> QED BY <2>1
<1>3. CASE ~(Len(words) <= MaxSnippet)
  <2>1. Snippet(words) = kept \o <<rest>>
    BY <1>3 DEF Snippet
  <2>2. rest \in STRING /\ rest \in CutWords
    <3>1. rest = "cut" \/ rest = "cut number"
      BY DEF CutOf
    <3> HIDE DEF rest
    <3> QED BY <3>1, WordsAssumption DEF MadeWords, CutWords
  <2>3. kept \in Cell /\ DOMAIN kept = 1..MaxSnippet /\ \A i \in 1..MaxSnippet : kept[i] = words[i]
    BY <1>1, <1>3 DEF Cell
  <2>4. \A w \in ToSet(kept) : w \in ToSet(words)
    <3>1. \A i \in 1..MaxSnippet : i \in DOMAIN words
      BY <1>1, <1>3
    <3> HIDE DEF kept
    <3> QED BY <2>3, <3>1 DEF ToSet
  <2> HIDE DEF kept, rest
  <2>5. <<rest>> \in Cell /\ ToSet(<<rest>>) = {rest}
    BY <2>2, OneWord
  <2>6. /\ kept \o <<rest>> \in Cell
        /\ \A w : w \in ToSet(kept \o <<rest>>) <=> w \in ToSet(kept) \/ w \in ToSet(<<rest>>)
    BY <2>3, <2>5, Concatenation
  <2>7. rest \in ToSet(Snippet(words))
    BY <2>1, <2>5, <2>6
  <2>8. ~Uncut(Snippet(words)) /\ Snippet(words) # <<>>
    BY <2>2, <2>7, Elements DEF Uncut
  <2> QED BY <2>1, <2>2, <2>4, <2>5, <2>6, <2>8
<1> QED BY <1>2, <1>3

\* What a quotation of some words, cut or not, says of words among them.
LEMMA QuoteIs ==
  ASSUME NEW whole \in Cell, NEW words, \A w \in ToSet(words) : w \in ToSet(whole),
         NEW ref, \A w \in ToSet(whole) : StandsAt(w, ref),
         ref.text = <<>> \/ ref.text = Snippet(whole)
  PROVE  /\ \A w \in ToSet(words) :
              /\ StandsAt(w, ref)
              /\ ref.text # <<>> /\ Uncut(ref.text) => w \in ToSet(ref.text)
         /\ \A w \in ToSet(ref.text) : StandsAt(w, ref)
<1>1. CASE ref.text = <<>>
  BY <1>1, Elements
<1>2. CASE ref.text = Snippet(whole)
  <2>1. /\ \A w \in ToSet(ref.text) : w \in ToSet(whole) \/ w \in CutWords
        /\ Uncut(ref.text) => ref.text = whole
    BY <1>2, SnippetIs
  <2> QED BY <2>1 DEF StandsAt
<1> QED BY <1>1, <1>2

\* Part of what is cited may be cited with a quotation that holds it.
LEMMA Requote ==
  ASSUME NEW page, NEW at, NEW sheet, NEW text, NEW words, Cited(words, Inline(at, sheet, text), page),
         NEW some \in Cell, \A w \in ToSet(some) : w \in ToSet(words),
         NEW quote \in Cell, \A w \in ToSet(quote) : w \in ToSet(words),
         quote # <<>> => \A w \in ToSet(some) : w \in ToSet(quote)
  PROVE  Cited(some, Inline(at, sheet, quote), page)
<1> DEFINE old == Inline(at, sheet, text)
           ref == Inline(at, sheet, quote)
           whole == IF quote = <<>> THEN some ELSE quote
<1>1. Place(ref) = Place(old)
  BY DEF Place, CitedPart, Inline, Reference
<1>2. ref.page = old.page /\ ref.text = Snippet(quote)
  BY DEF Inline, Reference
<1>3. ref.text = <<>> \/ ref.text = Snippet(whole)
  <2>1. Snippet(<<>>) = <<>>
    BY SnippetAssumption DEF Snippet
  <2> QED BY <1>2, <2>1
<1> HIDE DEF old, ref
<1>4. \A w \in ToSet(words) : StandsAt(w, ref)
  <2>1. \A w \in ToSet(words) : StandsAt(w, old)
    BY DEF Cited, old
  <2> QED BY <1>1, <2>1 DEF StandsAt
<1>5. /\ whole \in Cell /\ \A w \in ToSet(some) : w \in ToSet(whole)
      /\ \A w \in ToSet(whole) : w \in ToSet(words)
  OBVIOUS
<1> HIDE DEF whole
<1>6. \A w \in ToSet(whole) : StandsAt(w, ref)
  BY <1>4, <1>5
<1>7. /\ \A w \in ToSet(some) :
           /\ StandsAt(w, ref)
           /\ ref.text # <<>> /\ Uncut(ref.text) => w \in ToSet(ref.text)
      /\ \A w \in ToSet(ref.text) : StandsAt(w, ref)
  BY <1>3, <1>5, <1>6, QuoteIs
<1>8. old.page = page /\ IF InWorkbook THEN page = None ELSE page \in DOMAIN doc.parts
  BY DEF Cited, old
<1>9. Cited(some, ref, page)
  BY <1>2, <1>7, <1>8 DEF Cited
<1> QED BY <1>9 DEF ref

\* What cites all of some words cites each of them.
LEMMA CitePart ==
  ASSUME NEW page, NEW ref, NEW words, Cited(words, ref, page),
         NEW some \in Cell, \A w \in ToSet(some) : w \in ToSet(words)
  PROVE  Cited(some, ref, page)
BY DEF Cited

\* What stands on a part of a document that is no workbook.
LEMMA CiteInPart ==
  ASSUME ~InWorkbook, NEW p \in DOMAIN doc.parts, DOMAIN doc.parts \subseteq Nat \ {0},
         NEW words \in Cell, \A w \in ToSet(words) : w \in PartWords(p),
         NEW ref, ref.kind # "excel_cell", ref.page = p,
         ref.text = <<>> \/ ref.text = Snippet(words)
  PROVE  Cited(words, ref, p)
<1>1. Place(ref) = PartWords(p)
  BY DEF Place, CitedPart, None
<1>2. \A w \in ToSet(words) : StandsAt(w, ref)
  BY <1>1 DEF AnyWords, StandsAt
<1>3. /\ \A w \in ToSet(words) :
           /\ StandsAt(w, ref)
           /\ ref.text # <<>> /\ Uncut(ref.text) => w \in ToSet(ref.text)
      /\ \A w \in ToSet(ref.text) : StandsAt(w, ref)
  BY <1>2, QuoteIs
<1> QED BY <1>3 DEF Cited

\* A quotation of a page, or of nothing, cites words of that page.
LEMMA CiteInline ==
  ASSUME ~InWorkbook, NEW p \in DOMAIN doc.parts, DOMAIN doc.parts \subseteq Nat \ {0},
         NEW words \in Cell, \A w \in ToSet(words) : w \in PartWords(p),
         NEW quote, quote = <<>> \/ quote = words
  PROVE  Cited(words, Inline(p, None, quote), p)
<1> DEFINE ref == Inline(p, None, quote)
<1>1. ref.kind = "inline" /\ ref.page = p /\ ref.text = Snippet(quote)
  BY DEF Inline, Reference
<1>2. Snippet(<<>>) = <<>>
  BY SnippetAssumption DEF Snippet
<1> HIDE DEF ref
<1>3. ref.text = <<>> \/ ref.text = Snippet(words)
  BY <1>1, <1>2
<1> QED BY <1>1, <1>3, CiteInPart DEF ref

\* The parts of a document are numbered from one.
LEMMA PartsAre ==
  ASSUME doc \in Documents
  PROVE  /\ doc.parts \in Seq(Part) /\ Len(doc.parts) \in Nat
         /\ DOMAIN doc.parts = 1..Len(doc.parts) /\ DOMAIN doc.parts \subseteq Nat \ {0}
         /\ \A p \in DOMAIN doc.parts : doc.parts[p] \in Part
<1>1. doc.parts \in Seq(Part)
  BY DocumentsAssumption DEF Part, Row, Cell
<1> QED BY <1>1

\* The rows of a part have words of its text.
LEMMA RowsAre ==
  ASSUME NEW part \in Part
  PROVE  /\ \A row \in ToSet(part) : row \in Row
         /\ \A row \in ToSet(part) : \A w \in ToSet(WordsOf(row)) : w \in ToSet(TextOf(part))
         /\ IsSeq(part)
<1>1. part \in Seq(Row)
  BY DEF Part
<1> QED BY <1>1, Elements, TextIs, SeqIsSeq DEF ToSet

\* What a reader sees on a part includes its text.
LEMMA PartHas ==
  ASSUME NEW p \in DOMAIN doc.parts, doc.parts[p] \in Part
  PROVE  /\ \A w \in ToSet(TextOf(doc.parts[p])) : w \in PartWords(p)
         /\ \A row \in ToSet(doc.parts[p]) : \A w \in RowWords(row) : w \in PartWords(p)
<1> DEFINE part == doc.parts[p]
<1>1. ASSUME NEW w \in ToSet(TextOf(part)) PROVE \E row \in ToSet(part) : w \in ToSet(WordsOf(row))
  <2>1. PICK r \in DOMAIN part : w \in ToSet(WordsOf(part[r]))
    BY TextIs
  <2>2. part[r] \in ToSet(part)
    BY DEF ToSet
  <2> QED BY <2>1, <2>2
<1>2. \A row \in ToSet(part) : \A w \in RowWords(row) : w \in PartWords(p)
  BY DEF PartWords
<1> QED BY <1>1, <1>2 DEF RowWords

\* A sequence built place by place.
LEMMA BuiltIs ==
  ASSUME NEW N \in Nat, NEW f, DOMAIN f = 1..N, f = [i \in 1..N |-> f[i]]
  PROVE  IsSeq(f) /\ (\A x : x \in ToSet(f) <=> \E i \in 1..N : x = f[i]) /\ Len(f) = N
<1> DEFINE T == ToSet(f)
<1>1. \A i \in 1..N : f[i] \in T
  BY DEF ToSet
<1>2. f \in [1..N -> T]
  <2> HIDE DEF T
  <2> QED BY <1>1
<1>3. f \in Seq(T) /\ Len(f) = N
  <2> HIDE DEF T
  <2> QED BY <1>2
<1>4. \A x : x \in ToSet(f) <=> \E i \in 1..N : x = f[i]
  BY DEF ToSet
<1> QED BY <1>3, <1>4 DEF IsSeq

\* Pages made of the parts stand,
LEMMA PagesOfStand ==
  ASSUME doc \in Documents, ~InWorkbook, NEW texts, NEW o, o.pages = PagesOf(texts),
         DOMAIN texts = DOMAIN doc.parts,
         \A p \in DOMAIN texts : /\ texts[p] \in Part
              /\ \A w \in ToSet(TextOf(texts[p])) : w \in PartWords(p)
  PROVE  PagesStand(o)
<1> DEFINE pages == PagesOf(texts)
           N == Len(doc.parts)
<1>1. /\ N \in Nat /\ DOMAIN doc.parts = 1..N /\ DOMAIN doc.parts \subseteq Nat \ {0}
      /\ DOMAIN texts = 1..N
  BY PartsAre
<1>2. /\ DOMAIN pages = 1..N /\ pages = [i \in 1..N |-> pages[i]]
      /\ \A p \in 1..N : pages[p].page = p /\ pages[p].text = texts[p]
  <2> HIDE DEF N
  <2> QED BY <1>1 DEF PagesOf
<1> HIDE DEF pages, N
<1>3. IsSeq(pages) /\ \A x : x \in ToSet(pages) <=> \E i \in 1..N : x = pages[i]
  BY <1>1, <1>2, BuiltIs
<1>4. ASSUME NEW x \in ToSet(pages)
      PROVE  x.text \in Part /\ Cited(TextOf(x.text), Inline(x.page, None, TextOf(x.text)), x.page)
  <2>1. PICK p \in 1..N : x = pages[p]
    BY <1>3
  <2>2. x.page = p /\ x.text = texts[p] /\ x.text \in Part
    BY <1>1, <1>2, <2>1
  <2>3. TextOf(x.text) \in Cell /\ \A w \in ToSet(TextOf(x.text)) : w \in PartWords(p)
    BY <1>1, <2>2, TextIs
  <2>4. Cited(TextOf(x.text), Inline(p, None, TextOf(x.text)), p)
    BY <1>1, <2>3, CiteInline
  <2> QED BY <2>2, <2>4
<1> QED BY <1>3, <1>4 DEF PagesStand, pages

\* What is not reported stands.
LEMMA NothingStands ==
  ASSUME NEW o
  PROVE  /\ o.pages = <<>> => PagesStand(o)
         /\ o.blocks = <<>> => BlocksStand(o)
         /\ o.tables = <<>> => TablesStand(o)
         /\ o.pairs = <<>> => PairsStand(o)
         /\ o.refs = <<>> => RefsStand(o)
<1>1. IsSeq(<<>>) /\ ToSet(<<>>) = {}
  BY Elements DEF IsSeq
<1> QED BY <1>1 DEF PagesStand, BlocksStand, TablesStand, PairsStand, RefsStand

\* The lines on a page, one by one.
LEMMA LinesOnIs ==
  ASSUME NEW things, NEW page, NEW x
  PROVE  x \in LinesOn(things, page) <=>
           \E i \in DOMAIN things : On(page, things[i])
              /\ \E l \in DOMAIN things[i].text : x = WordsOf(things[i].text[l])
<1> DEFINE of(i) == {WordsOf(things[i].text[l]) : l \in DOMAIN things[i].text}
<1>1. x \in LinesOn(things, page) <=> \E i \in DOMAIN things : On(page, things[i]) /\ x \in of(i)
  <2> HIDE DEF of
  <2>1. LinesOn(things, page) = UNION {of(i) : i \in {j \in DOMAIN things : On(page, things[j])}}
    BY DEF LinesOn, of
  <2> QED BY <2>1
<1> QED BY <1>1

\* The context of a page: its pairs, and the lines of its blocks and pages.
LEMMA ContextIs ==
  ASSUME NEW o, NEW page, NEW x
  PROVE  x \in ContextLines(o, page) <=>
           \/ \E i \in DOMAIN o.pairs : On(page, o.pairs[i]) /\ x = o.pairs[i].key \o o.pairs[i].value
           \/ x \in LinesOn(o.blocks, page)
           \/ x \in LinesOn(o.pages, page)
<1> DEFINE pairs == {o.pairs[i].key \o o.pairs[i].value :
                       i \in {j \in DOMAIN o.pairs : On(page, o.pairs[j])}}
<1>1. ContextLines(o, page) = pairs \cup LinesOn(o.blocks, page) \cup LinesOn(o.pages, page)
  BY DEF ContextLines, LinesOn
<1>2. x \in pairs <=> \E i \in DOMAIN o.pairs :
        On(page, o.pairs[i]) /\ x = o.pairs[i].key \o o.pairs[i].value
  OBVIOUS
<1> QED BY <1>1, <1>2

\* Every line of a block or page on a page is in its context, and that in the context of all.
LEMMA InContext ==
  ASSUME NEW o, NEW page
  PROVE  /\ \A i \in DOMAIN o.pages : On(page, o.pages[i]) =>
              \A line \in ToSet(o.pages[i].text) : WordsOf(line) \in ContextLines(o, page)
         /\ \A i \in DOMAIN o.blocks : On(page, o.blocks[i]) =>
              \A line \in ToSet(o.blocks[i].text) : WordsOf(line) \in ContextLines(o, page)
         /\ \A x \in ContextLines(o, page) : x \in ContextLines(o, None)
<1>1. ASSUME NEW things, NEW i \in DOMAIN things, On(page, things[i]), NEW line \in ToSet(things[i].text)
      PROVE  WordsOf(line) \in LinesOn(things, page)
  <2>1. PICK l \in DOMAIN things[i].text : line = things[i].text[l]
    BY DEF ToSet
  <2> QED BY <1>1, <2>1, LinesOnIs
<1>2. \A thing : On(page, thing) => On(None, thing)
  BY DEF On
<1>3. ASSUME NEW things, NEW x \in LinesOn(things, page) PROVE x \in LinesOn(things, None)
  <2>1. PICK i \in DOMAIN things : On(page, things[i])
           /\ \E l \in DOMAIN things[i].text : x = WordsOf(things[i].text[l])
    BY LinesOnIs
  <2> QED BY <2>1, <1>2, LinesOnIs
<1> QED BY <1>1, <1>2, <1>3, ContextIs

\* and pages that keep every row leave none out of the context.
LEMMA PagesOfComplete ==
  ASSUME doc \in Documents, ~InWorkbook, NEW texts, NEW o, o.pages = PagesOf(texts),
         DOMAIN texts = DOMAIN doc.parts,
         \A p \in DOMAIN doc.parts : \A row \in ToSet(doc.parts[p]) :
           \E line \in ToSet(texts[p]) : WordsOf(line) = WordsOf(row)
  PROVE  Complete(o)
<1> SUFFICES ASSUME NEW p \in DOMAIN doc.parts, NEW row \in ToSet(doc.parts[p])
             PROVE  WordsOf(row) \in ContextLines(o, p)
  BY DEF Complete
<1>1. p \in DOMAIN o.pages /\ o.pages[p].page = p /\ o.pages[p].text = texts[p]
  BY DEF PagesOf
<1>2. PICK line \in ToSet(texts[p]) : WordsOf(line) = WordsOf(row)
  OBVIOUS
<1>3. On(p, o.pages[p])
  BY <1>1 DEF On
<1> QED BY <1>1, <1>2, <1>3, InContext

\* One block and one reference for each line.
LEMMA LineBlocksStand ==
  ASSUME doc \in Documents, ~InWorkbook, 1 \in DOMAIN doc.parts, NEW lines \in Part,
         \A row \in ToSet(lines) : row \in ToSet(doc.parts[1]),
         NEW raw, NEW o, o.blocks = LineBlocks(lines, raw).blocks,
         o.refs = LineBlocks(lines, raw).refs
  PROVE  BlocksStand(o) /\ RefsStand(o)
<1> DEFINE N == Len(lines)
           blocks == [i \in 1..N |-> Block(1, <<lines[i]>>, Certain, i)]
           refs == [i \in 1..N |-> Reference("page_text", 1, None, <<>>, Snippet(WordsOf(lines[i])))]
<1>1. /\ N \in Nat /\ DOMAIN lines = 1..N /\ DOMAIN doc.parts \subseteq Nat \ {0}
      /\ \A i \in 1..N : lines[i] \in Row /\ lines[i] \in ToSet(lines)
  BY PartsAre DEF Part, ToSet
<1>2. o.blocks = blocks /\ o.refs = refs
  <2>1. o.blocks = [i \in DOMAIN lines |-> Block(1, <<lines[i]>>, Certain, i)]
    BY DEF LineBlocks, NoOutput
  <2>2. o.refs = [i \in DOMAIN lines |-> Reference("page_text", 1, None, <<>>, Snippet(WordsOf(lines[i])))]
    BY DEF LineBlocks, NoOutput
  <2> HIDE DEF N
  <2> QED BY <1>1, <2>1, <2>2
<1>3. /\ DOMAIN blocks = 1..N /\ blocks = [i \in 1..N |-> blocks[i]]
      /\ DOMAIN refs = 1..N /\ refs = [i \in 1..N |-> refs[i]]
      /\ \A i \in 1..N : /\ blocks[i].page = 1 /\ blocks[i].text = <<lines[i]>> /\ blocks[i].ref = i
                         /\ refs[i].kind = "page_text" /\ refs[i].page = 1
                         /\ refs[i].cell = <<>> /\ refs[i].text = Snippet(WordsOf(lines[i]))
  <2> HIDE DEF N
  <2> QED BY DEF Block, Reference
<1> HIDE DEF N, blocks, refs
<1>4. /\ IsSeq(blocks) /\ \A x : x \in ToSet(blocks) <=> \E i \in 1..N : x = blocks[i]
      /\ IsSeq(refs) /\ \A x : x \in ToSet(refs) <=> \E i \in 1..N : x = refs[i]
  BY <1>1, <1>3, BuiltIs
<1>5. ASSUME NEW b \in ToSet(blocks)
      PROVE  b.text \in Part /\ Cited(TextOf(b.text), BlockReference(o, b), b.page)
  <2>1. PICK i \in 1..N : b = blocks[i]
    BY <1>4
  <2>2. b.text \in Part /\ TextOf(b.text) = WordsOf(lines[i])
    <3>1. b.text = <<lines[i]>> /\ lines[i] \in Row
      BY <1>1, <1>3, <2>1
    <3>2. <<lines[i]>> \in Part
      BY <3>1 DEF Part
    <3> QED BY <3>1, <3>2, Alone
  <2>3. BlockReference(o, b) = refs[i]
    BY <1>1, <1>2, <1>3, <2>1 DEF BlockReference, None
  <2>4. \A w \in ToSet(WordsOf(lines[i])) : w \in PartWords(1)
    BY <1>1, RowsAre, PartsAre, PartHas
  <2>5. WordsOf(lines[i]) \in Cell
    BY <1>1, WordsAre
  <2>6. refs[i].kind # "excel_cell" /\ refs[i].page = 1 /\ refs[i].text = Snippet(WordsOf(lines[i]))
    BY <1>3
  <2>7. Cited(WordsOf(lines[i]), refs[i], 1)
    BY <1>1, <2>4, <2>5, <2>6, CiteInPart
  <2> QED BY <2>1, <2>2, <2>3, <2>7, <1>3
<1>6. ASSUME NEW r \in ToSet(refs) PROVE r.text \in Cell /\ r.cell = <<>>
  <2>1. PICK i \in 1..N : r = refs[i]
    BY <1>4
  <2> QED BY <2>1, <1>1, <1>3, WordsAre, SnippetIs
<1> QED BY <1>2, <1>4, <1>5, <1>6 DEF BlocksStand, RefsStand

\* and they put every line into the context.
LEMMA LineBlocksComplete ==
  ASSUME NEW lines \in Part, NEW raw, NEW o, o.blocks = LineBlocks(lines, raw).blocks,
         NEW row \in ToSet(lines)
  PROVE  WordsOf(row) \in ContextLines(o, 1)
<1>1. PICK i \in DOMAIN lines : row = lines[i]
  BY DEF ToSet
<1>2. o.blocks = [j \in DOMAIN lines |-> Block(1, <<lines[j]>>, Certain, j)]
  BY DEF LineBlocks, NoOutput
<1>3. i \in DOMAIN o.blocks /\ o.blocks[i].page = 1 /\ o.blocks[i].text = <<row>>
  BY <1>1, <1>2 DEF Block
<1>4. On(1, o.blocks[i]) /\ row \in ToSet(o.blocks[i].text)
  BY <1>3, Elements DEF On
<1> QED BY <1>3, <1>4, InContext

\* A text file: one page, one block for each line.
LEMMA TextParserStands ==
  ASSUME doc \in Documents, DetectParserKind(doc) = "text"
  PROVE  About(TextParser(doc)) /\ Complete(TextParser(doc))
<1> DEFINE o == TextParser(doc)
           part == doc.parts[1]
           lines == NonBlank(part)
<1>1. ~InWorkbook /\ DOMAIN doc.parts = {1} /\ part \in Part
  BY PartsAre, DocumentsAssumption DEF InWorkbook
<1>2. o.pages = PagesOf(<<part>>) /\ o.tables = <<>> /\ o.pairs = <<>>
  BY DEF TextParser, EmptyOutput, LineBlocks, NoOutput
<1>3. DOMAIN <<part>> = {1} /\ <<part>>[1] = part
  OBVIOUS
<1>4. PagesStand(o)
  <2>1. \A w \in ToSet(TextOf(part)) : w \in PartWords(1)
    BY <1>1, PartHas
  <2> HIDE DEF o, part
  <2> QED BY <1>1, <1>2, <1>3, <2>1, PagesOfStand DEF part
<1>5. Complete(o)
  <2> HIDE DEF o
  <2> QED BY <1>1, <1>2, <1>3, PagesOfComplete
<1>6. BlocksStand(o) /\ RefsStand(o)
  <2>1. CASE lines = <<>>
    <3>1. o.blocks = <<>> /\ o.refs = <<>>
      BY <2>1 DEF TextParser, EmptyOutput, NoOutput
    <3> HIDE DEF o
    <3> QED BY <3>1, NothingStands
  <2>2. CASE lines # <<>>
    <3>1. o.blocks = LineBlocks(lines, part).blocks /\ o.refs = LineBlocks(lines, part).refs
      BY <2>2 DEF TextParser
    <3>2. lines \in Part /\ \A row \in ToSet(lines) : row \in ToSet(part)
      BY <1>1, NonBlankIs
    <3> HIDE DEF o, lines
    <3> QED BY <1>1, <3>1, <3>2, LineBlocksStand
  <2> QED BY <2>1, <2>2
<1> HIDE DEF o
<1>7. TablesStand(o) /\ PairsStand(o)
  BY <1>2, NothingStands
<1> QED BY <1>4, <1>5, <1>6, <1>7 DEF About, o

(* A row as a CSV file has it, word by word. *)
FilledOf(row) == Select(row, LAMBDA cell : cell # <<>>)
Joins(cells, i) ==
  /\ i \in DOMAIN cells /\ i + 1 \in DOMAIN cells
  /\ Last(cells[i]) \in DigitWords
  /\ Head(cells[i + 1]) \in Numbers \cup DOMAIN DateParts
JoinedAt(cells, i, j) == j = 1 /\ Joins(cells, i - 1)
Swallowed(cells, i, j) ==
  cells[i][j] \in Numbers /\ ((j = Len(cells[i]) /\ Joins(cells, i)) \/ JoinedAt(cells, i, j))
Piece(cells, i, j) ==
  (IF JoinedAt(cells, i, j) THEN <<"joined">> ELSE <<>>)
  \o (IF Swallowed(cells, i, j) THEN <<>> ELSE <<cells[i][j]>>)

\* A word stays, or it is a number and part of a joined one.
LEMMA PieceIs ==
  ASSUME NEW cells \in Row, NEW i \in DOMAIN cells, NEW j \in DOMAIN cells[i]
  PROVE  /\ Piece(cells, i, j) \in Cell
         /\ \A w : w \in ToSet(Piece(cells, i, j)) <=>
              \/ w = "joined" /\ JoinedAt(cells, i, j)
              \/ w = cells[i][j] /\ ~Swallowed(cells, i, j)
<1> DEFINE a == IF JoinedAt(cells, i, j) THEN <<"joined">> ELSE <<>>
           b == IF Swallowed(cells, i, j) THEN <<>> ELSE <<cells[i][j]>>
<1>1. cells[i] \in Cell /\ cells[i][j] \in STRING
  BY DEF Row, Cell
<1>2. <<>> \in Cell /\ <<"joined">> \in Cell /\ <<cells[i][j]>> \in Cell
  <2>1. "joined" \in STRING
    BY WordsAssumption DEF MadeWords
  <2>2. <<>> \in Cell
    BY DEF Cell
  <2> QED BY <1>1, <2>1, <2>2, OneWord
<1>3. a \in Cell /\ b \in Cell
  BY <1>2
<1>4. /\ \A w : w \in ToSet(a) <=> w = "joined" /\ JoinedAt(cells, i, j)
      /\ \A w : w \in ToSet(b) <=> w = cells[i][j] /\ ~Swallowed(cells, i, j)
  BY Elements
<1> HIDE DEF a, b
<1>5. a \o b \in Cell /\ \A w : w \in ToSet(a \o b) <=> w \in ToSet(a) \/ w \in ToSet(b)
  BY <1>3, Concatenation
<1>6. Piece(cells, i, j) = a \o b
  BY DEF Piece, a, b
<1> QED BY <1>4, <1>5, <1>6

\* The pieces of a row, one after the other.
LEMMA PiecesAre ==
  ASSUME NEW row \in Row
  PROVE  /\ FilledOf(row) \in Row /\ CommaText(row) \in Cell
         /\ \A cell : cell \in ToSet(FilledOf(row)) <=> cell \in ToSet(row) /\ cell # <<>>
         /\ \A w : w \in ToSet(CommaText(row)) <=>
              \E i \in DOMAIN FilledOf(row) : \E j \in DOMAIN FilledOf(row)[i] :
                w \in ToSet(Piece(FilledOf(row), i, j))
<1> DEFINE cells == FilledOf(row)
           kept == [i \in DOMAIN row |-> IF row[i] # <<>> THEN <<row[i]>> ELSE <<>>]
           line(i) == [j \in DOMAIN cells[i] |-> Piece(cells, i, j)]
           body == [i \in DOMAIN cells |-> FlattenSeq(line(i))]
<1>1. cells = FlattenSeq(kept)
  BY DEF FilledOf, Select, Each
<1>2. /\ kept = [i \in DOMAIN row |-> kept[i]]
      /\ \A i \in DOMAIN row : kept[i] \in {<<>>, <<row[i]>>}
      /\ \A i \in DOMAIN row : kept[i] # <<>> <=> row[i] # <<>>
  <2>1. \A i \in DOMAIN row : <<row[i]>> # <<>>
    OBVIOUS
  <2> QED BY <2>1
<1>2a. row \in Seq(Cell)
  BY DEF Row
<1> HIDE DEF kept
<1>3. /\ FlattenSeq(kept) \in Seq(Cell)
      /\ \A x : x \in ToSet(FlattenSeq(kept)) <=> \E i \in DOMAIN row : x = row[i] /\ kept[i] # <<>>
  BY <1>2, <1>2a, Sift
<1>4. CommaText(row) = FlattenSeq(body)
  BY DEF CommaText, FilledOf, Piece, JoinedAt, Swallowed, Joins
<1>5. cells \in Row /\ \A cell : cell \in ToSet(cells) <=> cell \in ToSet(row) /\ cell # <<>>
  <2> HIDE DEF cells
  <2>1. \A x : x \in ToSet(row) <=> \E i \in DOMAIN row : x = row[i]
    BY DEF ToSet
  <2>2. cells \in Row
    BY <1>1, <1>3 DEF Row
  <2>3. \A x : x \in ToSet(cells) <=> \E i \in DOMAIN row : x = row[i] /\ row[i] # <<>>
    BY <1>1, <1>2, <1>3
  <2> QED BY <2>1, <2>2, <2>3
<1> HIDE DEF cells
<1>6. Len(cells) \in Nat /\ DOMAIN cells = 1..Len(cells) /\ \A i \in DOMAIN cells : cells[i] \in Cell
  BY <1>5 DEF Row
<1>7. ASSUME NEW i \in DOMAIN cells
      PROVE  /\ FlattenSeq(line(i)) \in Cell
             /\ \A w : w \in ToSet(FlattenSeq(line(i))) <=>
                          \E j \in DOMAIN cells[i] : w \in ToSet(Piece(cells, i, j))
  <2> DEFINE f == line(i)
             N == Len(cells[i])
  <2>1. N \in Nat /\ DOMAIN cells[i] = 1..N
    BY <1>6 DEF Cell
  <2>2. /\ DOMAIN f = 1..N /\ f = [j \in 1..N |-> f[j]]
        /\ \A j \in 1..N : f[j] = Piece(cells, i, j) /\ f[j] \in Cell
    BY <1>5, <2>1, PieceIs
  <2> HIDE DEF f, N
  <2>3. f \in [1..N -> Cell]
    BY <2>2
  <2>4. FlattenSeq(f) \in Cell /\ InTurn(f, FlattenSeq(f), N)
    BY <2>1, <2>3, Flatten DEF Cell
  <2>5. \A w : w \in ToSet(FlattenSeq(f)) <=> \E j \in 1..N : w \in ToSet(f[j])
    BY <2>4 DEF InTurn
  <2> QED BY <2>1, <2>2, <2>4, <2>5 DEF f
<1> HIDE DEF line
<1>8. /\ DOMAIN body = 1..Len(cells) /\ \A i \in DOMAIN cells : body[i] = FlattenSeq(line(i))
      /\ body \in [1..Len(cells) -> Cell]
  BY <1>6, <1>7
<1> HIDE DEF body
<1>9. FlattenSeq(body) \in Cell /\ InTurn(body, FlattenSeq(body), Len(cells))
  BY <1>6, <1>8, Flatten DEF Cell
<1>10. \A w : w \in ToSet(FlattenSeq(body)) <=> \E i \in DOMAIN cells : w \in ToSet(body[i])
  BY <1>6, <1>9 DEF InTurn
<1>11. \A w : w \in ToSet(CommaText(row)) <=>
         \E i \in DOMAIN cells : \E j \in DOMAIN cells[i] : w \in ToSet(Piece(cells, i, j))
  BY <1>4, <1>7, <1>8, <1>10
<1> QED BY <1>4, <1>5, <1>9, <1>11 DEF cells

\* The file's row has the words of the cells, but for numbers that are joined.
LEMMA CommaTextIs ==
  ASSUME NEW row \in Row
  PROVE  /\ CommaText(row) \in Cell
         /\ \A w \in ToSet(CommaText(row)) : w = "joined" \/ w \in ToSet(WordsOf(row))
         /\ \A w \in ToSet(WordsOf(row)) :
              \/ w \in ToSet(CommaText(row))
              \/ w \in Numbers /\ "joined" \in ToSet(CommaText(row))
<1> DEFINE cells == FilledOf(row)
<1>1. cells \in Row /\ \A cell : cell \in ToSet(cells) <=> cell \in ToSet(row) /\ cell # <<>>
  BY PiecesAre
<1>1a. \A i \in DOMAIN cells : cells[i] \in Cell /\ cells[i] # <<>> /\ cells[i] \in ToSet(row)
  <2>1. ASSUME NEW i \in DOMAIN cells PROVE cells[i] \in Cell /\ cells[i] \in ToSet(cells)
    BY <1>1 DEF Row, ToSet
  <2> QED BY <1>1, <2>1
<1>2. \A w : w \in ToSet(CommaText(row)) <=>
        \E i \in DOMAIN cells : \E j \in DOMAIN cells[i] : w \in ToSet(Piece(cells, i, j))
  BY PiecesAre
<1> HIDE DEF cells
<1>3. ASSUME NEW w \in ToSet(CommaText(row)) PROVE w = "joined" \/ w \in ToSet(WordsOf(row))
  <2>1. PICK i \in DOMAIN cells : \E j \in DOMAIN cells[i] : w \in ToSet(Piece(cells, i, j))
    BY <1>2
  <2>2. PICK j \in DOMAIN cells[i] : w \in ToSet(Piece(cells, i, j))
    BY <2>1
  <2>3. w = "joined" \/ w = cells[i][j]
    BY <1>1, <2>2, PieceIs
  <2>4. PICK c \in DOMAIN row : cells[i] = row[c]
    BY <1>1a DEF ToSet
  <2>5. cells[i][j] \in ToSet(row[c])
    BY <2>4 DEF ToSet
  <2> QED BY <2>3, <2>5, WordsAre
<1>4. ASSUME NEW i \in DOMAIN cells, Joins(cells, i) PROVE "joined" \in ToSet(CommaText(row))
  <2>1. i + 1 \in DOMAIN cells /\ i \in Nat
    BY <1>1, <1>4 DEF Joins, Row
  <2>2. 1 \in DOMAIN cells[i + 1]
    <3>1. cells[i + 1] \in Cell /\ cells[i + 1] # <<>>
      BY <1>1a, <2>1
    <3> HIDE DEF cells
    <3> QED BY <3>1 DEF Cell
  <2>3. JoinedAt(cells, i + 1, 1)
    <3>1. (i + 1) - 1 = i
      BY <2>1
    <3> QED BY <1>4, <3>1 DEF JoinedAt
  <2>4. "joined" \in ToSet(Piece(cells, i + 1, 1))
    BY <1>1, <2>1, <2>2, <2>3, PieceIs
  <2> QED BY <1>2, <2>1, <2>2, <2>4
<1>5. ASSUME NEW w \in ToSet(WordsOf(row)), w \notin ToSet(CommaText(row))
      PROVE  w \in Numbers /\ "joined" \in ToSet(CommaText(row))
  <2>1. PICK c \in DOMAIN row : w \in ToSet(row[c])
    BY WordsAre
  <2>2. row[c] \in ToSet(row) /\ row[c] # <<>>
    BY <2>1, Elements DEF ToSet
  <2>3. PICK i \in DOMAIN cells : row[c] = cells[i]
    BY <1>1, <2>2 DEF ToSet
  <2>4. PICK j \in DOMAIN cells[i] : w = cells[i][j]
    BY <2>1, <2>3 DEF ToSet
  <2>5. w \notin ToSet(Piece(cells, i, j))
    BY <1>2, <1>5
  <2>6. Swallowed(cells, i, j)
    BY <1>1, <2>4, <2>5, PieceIs
  <2>7. CASE JoinedAt(cells, i, j)
    <3>1. "joined" \in ToSet(Piece(cells, i, j))
      BY <1>1, <2>7, PieceIs
    <3> QED BY <1>2, <2>4, <2>6, <3>1 DEF Swallowed
  <2>8. CASE ~JoinedAt(cells, i, j)
    <3>1. Joins(cells, i) /\ w \in Numbers
      BY <2>4, <2>6, <2>8 DEF Swallowed
    <3> QED BY <1>4, <3>1
  <2> QED BY <2>7, <2>8
<1> QED BY <1>3, <1>5, PiecesAre

\* A CSV file: one page, one table, one block for each row.
LEMMA CsvParserStands ==
  ASSUME doc \in Documents, DetectParserKind(doc) = "csv"
  PROVE  About(CsvParser(doc)) /\ Complete(CsvParser(doc))
<1> DEFINE o == CsvParser(doc)
           part == doc.parts[1]
           rows == NonBlank(part)
           raw == [i \in DOMAIN part |-> <<CommaText(part[i])>>]
<1>1. ~InWorkbook /\ DOMAIN doc.parts = {1} /\ part \in Part
  BY PartsAre, DocumentsAssumption DEF InWorkbook
<1>2. o.pages = PagesOf(<<raw>>) /\ o.pairs = <<>>
  BY DEF CsvParser, EmptyOutput, LineBlocks, NoOutput
<1>3. DOMAIN <<raw>> = {1} /\ <<raw>>[1] = raw
  OBVIOUS
<1>4. /\ \A i \in DOMAIN part : part[i] \in Row /\ CommaText(part[i]) \in Cell /\ part[i] \in ToSet(part)
      /\ DOMAIN raw = DOMAIN part
      /\ \A i \in DOMAIN part : raw[i] = <<CommaText(part[i])>> /\ WordsOf(raw[i]) = CommaText(part[i])
  <2>1. \A i \in DOMAIN part : part[i] \in Row /\ part[i] \in ToSet(part)
    BY <1>1 DEF Part, ToSet
  <2> QED BY <2>1, CommaTextIs, Alone
<1>5. raw \in Part
  <2>1. \A i \in DOMAIN part : raw[i] \in Row
    BY <1>4 DEF Row
  <2>2. Len(part) \in Nat /\ DOMAIN part = 1..Len(part)
    BY <1>1 DEF Part
  <2>3. raw \in [1..Len(part) -> Row]
    BY <2>1, <2>2
  <2> QED BY <2>2, <2>3 DEF Part
<1>6. ASSUME NEW w \in ToSet(TextOf(raw)) PROVE w \in PartWords(1)
  <2> HIDE DEF raw
  <2>1. PICK i \in DOMAIN part : w \in ToSet(CommaText(part[i]))
    BY <1>4, <1>5, TextIs
  <2>2. w \in RowWords(part[i])
    BY <2>1 DEF RowWords
  <2> QED BY <1>1, <1>4, <2>2, PartHas
<1>7. PagesStand(o)
  <2> HIDE DEF o, raw
  <2> QED BY <1>1, <1>2, <1>3, <1>5, <1>6, PagesOfStand
<1>9. BlocksStand(o) /\ RefsStand(o) /\ TablesStand(o) /\ Complete(o)
  <2>1. CASE rows = <<>>
    <3>1. o.blocks = <<>> /\ o.refs = <<>> /\ o.tables = <<>>
      BY <2>1 DEF CsvParser, EmptyOutput, NoOutput
    <3>2. \A row \in ToSet(part) : WordsOf(row) = <<>>
      BY <1>1, <2>1, NonBlankIs, Elements
    <3> HIDE DEF o
    <3>3. Complete(o)
      BY <1>1, <3>2 DEF Complete
    <3> QED BY <3>1, <3>3, NothingStands
  <2>2. CASE rows # <<>>
    <3>1. /\ o.blocks = LineBlocks(rows, raw).blocks /\ o.refs = LineBlocks(rows, raw).refs
          /\ o.tables = <<Table(1, None, rows, Certain)>>
      BY <2>2 DEF CsvParser, LineBlocks, NoOutput
    <3>2. /\ rows \in Part
          /\ \A row : row \in ToSet(rows) <=> row \in ToSet(part) /\ WordsOf(row) # <<>>
      BY <1>1, NonBlankIs
    <3> HIDE DEF o, rows, raw
    <3>3. BlocksStand(o) /\ RefsStand(o)
      BY <1>1, <3>1, <3>2, LineBlocksStand
    <3>4. TablesStand(o)
      <4> DEFINE t == Table(1, None, rows, Certain)
      <4>1. t.page = 1 /\ t.sheet = None /\ t.rows = rows
        BY DEF Table
      <4>2. TableReference(t) = Inline(1, None, <<>>)
        BY <4>1 DEF TableReference
      <4>3. \A w \in ToSet(TextOf(rows)) : w \in ToSet(TextOf(part))
        <5> SUFFICES ASSUME NEW w \in ToSet(TextOf(rows)) PROVE w \in ToSet(TextOf(part))
          OBVIOUS
        <5>1. PICK r \in DOMAIN rows : w \in ToSet(WordsOf(rows[r]))
          BY <3>2, TextIs
        <5>2. rows[r] \in ToSet(part)
          BY <3>2 DEF ToSet
        <5> QED BY <1>1, <5>1, <5>2, RowsAre
      <4>4. Cited(TextOf(rows), Inline(1, None, <<>>), 1)
        BY <1>1, <3>2, <4>3, TextIs, CiteInline, PartHas
      <4>5. IsSeq(<<t>>) /\ ToSet(<<t>>) = {t}
        BY Elements DEF IsSeq
      <4> HIDE DEF t
      <4> QED BY <3>1, <3>2, <4>1, <4>2, <4>4, <4>5 DEF TablesStand, t
    <3>5. Complete(o)
      BY <1>1, <3>1, <3>2, LineBlocksComplete DEF Complete
    <3> QED BY <3>3, <3>4, <3>5
  <2> QED BY <2>1, <2>2
<1> HIDE DEF o
<1>10. PairsStand(o)
  BY <1>2, NothingStands
<1> QED BY <1>7, <1>9, <1>10 DEF About, o

(* The cells of a workbook, as its parser lists them. *)
CellAt(s, r, c) == [sheet |-> s, cell |-> <<r, c>>, text |-> doc.parts[s][r][c]]
CellsOf(s) ==
  FlattenSeq([r \in DOMAIN doc.parts[s] |->
    [c \in DOMAIN doc.parts[s][r] |-> CellAt(s, r, c)]])
AllCells == FlattenSeq([s \in DOMAIN doc.parts |-> CellsOf(s)])
FilledCells == Select(AllCells, LAMBDA c : c.text # <<>>)
FilledSheets == Select([s \in DOMAIN doc.parts |-> s], LAMBDA s : NonBlank(doc.parts[s]) # <<>>)

\* The cells of a sheet,
LEMMA CellsOfAre ==
  ASSUME doc \in Documents, NEW s \in DOMAIN doc.parts
  PROVE  /\ IsSeq(CellsOf(s))
         /\ \A x : x \in ToSet(CellsOf(s)) <=>
              \E r \in DOMAIN doc.parts[s] : \E c \in DOMAIN doc.parts[s][r] : x = CellAt(s, r, c)
<1> DEFINE part == doc.parts[s]
           row(r) == [c \in DOMAIN part[r] |-> CellAt(s, r, c)]
           body == [r \in DOMAIN part |-> row(r)]
           N == Len(part)
<1>1. N \in Nat /\ DOMAIN part = 1..N /\ \A r \in 1..N : part[r] \in Row
  BY PartsAre DEF Part
<1>2. ASSUME NEW r \in 1..N
      PROVE  /\ IsSeq(row(r))
             /\ \A x : x \in ToSet(row(r)) <=> \E c \in DOMAIN part[r] : x = CellAt(s, r, c)
  <2> DEFINE f == row(r)
  <2>1. Len(part[r]) \in Nat /\ DOMAIN part[r] = 1..Len(part[r])
    BY <1>1 DEF Row
  <2>2. /\ DOMAIN f = 1..Len(part[r]) /\ f = [c \in 1..Len(part[r]) |-> f[c]]
        /\ \A c \in 1..Len(part[r]) : f[c] = CellAt(s, r, c)
    BY <2>1
  <2> HIDE DEF f
  <2>3. IsSeq(f) /\ \A x : x \in ToSet(f) <=> \E c \in 1..Len(part[r]) : x = f[c]
    BY <2>1, <2>2, BuiltIs
  <2> QED BY <2>1, <2>2, <2>3 DEF f
<1> HIDE DEF row, N
<1>3. DOMAIN body = 1..N /\ body = [r \in 1..N |-> body[r]] /\ \A r \in 1..N : body[r] = row(r)
  BY <1>1
<1>4. CellsOf(s) = FlattenSeq(body)
  BY DEF CellsOf, row
<1> HIDE DEF body
<1>5. IsSeq(FlattenSeq(body)) /\ InTurn(body, FlattenSeq(body), N)
  BY <1>1, <1>2, <1>3, Gather
<1> QED BY <1>1, <1>2, <1>3, <1>4, <1>5 DEF InTurn

\* of a workbook, but for the empty ones,
LEMMA FilledCellsAre ==
  ASSUME doc \in Documents
  PROVE  /\ IsSeq(FilledCells)
         /\ \A x : x \in ToSet(FilledCells) <=>
              \E s \in DOMAIN doc.parts : \E r \in DOMAIN doc.parts[s] :
                \E c \in DOMAIN doc.parts[s][r] : x = CellAt(s, r, c) /\ doc.parts[s][r][c] # <<>>
<1> DEFINE body == [s \in DOMAIN doc.parts |-> CellsOf(s)]
           N == Len(doc.parts)
           kept == [i \in DOMAIN AllCells |-> IF AllCells[i].text # <<>> THEN <<AllCells[i]>> ELSE <<>>]
           S == ToSet(AllCells)
<1>1. N \in Nat /\ DOMAIN doc.parts = 1..N
  BY PartsAre
<1>2. DOMAIN body = 1..N /\ body = [r \in 1..N |-> body[r]] /\ \A s \in 1..N : body[s] = CellsOf(s)
  <2> HIDE DEF N
  <2> QED BY <1>1
<1>3. AllCells = FlattenSeq(body)
  BY DEF AllCells
<1> HIDE DEF body, N
<1>4. IsSeq(FlattenSeq(body)) /\ InTurn(body, FlattenSeq(body), N)
  BY <1>1, <1>2, CellsOfAre, Gather
<1>5. AllCells \in Seq(S)
  BY <1>3, <1>4 DEF IsSeq
<1>6. /\ kept = [i \in DOMAIN AllCells |-> kept[i]]
      /\ \A i \in DOMAIN AllCells : /\ kept[i] \in {<<>>, <<AllCells[i]>>}
                                    /\ kept[i] # <<>> <=> AllCells[i].text # <<>>
  OBVIOUS
<1>7. FilledCells = FlattenSeq(kept)
  BY DEF FilledCells, Select, Each
<1> HIDE DEF kept, S
<1>8. /\ FlattenSeq(kept) \in Seq(S)
      /\ \A x : x \in ToSet(FlattenSeq(kept)) <=> \E i \in DOMAIN AllCells : x = AllCells[i] /\ kept[i] # <<>>
  BY <1>5, <1>6, Sift
<1>9. \A x : x \in ToSet(FilledCells) <=> x \in ToSet(AllCells) /\ x.text # <<>>
  <2>1. \A x : x \in ToSet(FilledCells) <=>
               \E i \in DOMAIN AllCells : x = AllCells[i] /\ AllCells[i].text # <<>>
    BY <1>6, <1>7, <1>8
  <2>2. \A x : x \in ToSet(AllCells) <=> \E i \in DOMAIN AllCells : x = AllCells[i]
    BY DEF ToSet
  <2> QED BY <2>1, <2>2
<1>10. \A s, r, c : CellAt(s, r, c).text = doc.parts[s][r][c]
  BY DEF CellAt
<1>11. \A x : x \in ToSet(AllCells) <=> \E s \in DOMAIN doc.parts : x \in ToSet(CellsOf(s))
  BY <1>1, <1>2, <1>3, <1>4 DEF InTurn
<1>12. IsSeq(FilledCells)
  BY <1>7, <1>8, SeqIsSeq
<1> QED BY <1>9, <1>10, <1>11, <1>12, CellsOfAre

\* and the sheets that have any.
LEMMA FilledSheetsAre ==
  ASSUME doc \in Documents
  PROVE  /\ IsSeq(FilledSheets)
         /\ \A s : s \in ToSet(FilledSheets) <=> s \in DOMAIN doc.parts /\ NonBlank(doc.parts[s]) # <<>>
<1> DEFINE S == DOMAIN doc.parts
           all == [s \in DOMAIN doc.parts |-> s]
           kept == [i \in DOMAIN all |-> IF NonBlank(doc.parts[all[i]]) # <<>> THEN <<all[i]>> ELSE <<>>]
<1>1. Len(doc.parts) \in Nat /\ DOMAIN doc.parts = 1..Len(doc.parts)
  BY PartsAre
<1>2. all \in Seq(DOMAIN doc.parts) /\ DOMAIN all = DOMAIN doc.parts
  <2>1. all \in [1..Len(doc.parts) -> DOMAIN doc.parts]
    BY <1>1
  <2> HIDE DEF all
  <2> QED BY <1>1, <2>1
<1>3. /\ kept = [i \in DOMAIN all |-> kept[i]]
      /\ \A i \in DOMAIN all : /\ kept[i] \in {<<>>, <<all[i]>>} /\ all[i] = i
                               /\ kept[i] # <<>> <=> NonBlank(doc.parts[i]) # <<>>
  OBVIOUS
<1>4. FilledSheets = FlattenSeq(kept)
  BY DEF FilledSheets, Select, Each
<1> HIDE DEF all, kept, S
<1>2a. all \in Seq(S) /\ DOMAIN all = S
  BY <1>2 DEF S
<1>5. /\ FlattenSeq(kept) \in Seq(S)
      /\ \A x : x \in ToSet(FlattenSeq(kept)) <=> \E i \in DOMAIN all : x = all[i] /\ kept[i] # <<>>
  BY <1>2a, <1>3, Sift
<1>6. IsSeq(FilledSheets)
  BY <1>4, <1>5, SeqIsSeq
<1>7. \A s : s \in ToSet(FilledSheets) <=> \E i \in S : s = i /\ NonBlank(doc.parts[i]) # <<>>
  BY <1>2a, <1>3, <1>4, <1>5
<1> QED BY <1>6, <1>7 DEF S

\* A workbook: one block and one reference for each cell, one table for each sheet.
LEMMA WorkbookStands ==
  ASSUME doc \in Documents, InWorkbook, NEW o, o.pages = <<>>, o.pairs = <<>>,
         o.blocks = [i \in DOMAIN FilledCells |-> Block(None, <<<<FilledCells[i].text>>>>, Certain, i)],
         o.refs = [i \in DOMAIN FilledCells |->
                     Reference("excel_cell", None, FilledCells[i].sheet, FilledCells[i].cell,
                               Snippet(FilledCells[i].text))],
         o.tables = [i \in DOMAIN FilledSheets |->
                       Table(None, FilledSheets[i], doc.parts[FilledSheets[i]], Certain)]
  PROVE  About(o) /\ Complete(o)
<1> DEFINE N == Len(FilledCells)
           M == Len(FilledSheets)
           T == o.tables
           B == o.blocks
           R == o.refs
<1>1. /\ N \in Nat /\ DOMAIN FilledCells = 1..N /\ \A i \in 1..N : FilledCells[i] \in ToSet(FilledCells)
      /\ M \in Nat /\ DOMAIN FilledSheets = 1..M /\ \A i \in 1..M : FilledSheets[i] \in ToSet(FilledSheets)
  BY FilledCellsAre, FilledSheetsAre, SeqFacts
<1>2. /\ DOMAIN B = 1..N /\ B = [i \in 1..N |-> B[i]]
      /\ DOMAIN R = 1..N /\ R = [i \in 1..N |-> R[i]]
      /\ DOMAIN T = 1..M /\ T = [i \in 1..M |-> T[i]]
  <2> HIDE DEF N, M
  <2> QED BY <1>1
<1>3. /\ \A i \in 1..N : /\ B[i].page = None /\ B[i].text = <<<<FilledCells[i].text>>>> /\ B[i].ref = i
                         /\ R[i].kind = "excel_cell" /\ R[i].page = None
                         /\ R[i].sheet = FilledCells[i].sheet /\ R[i].cell = FilledCells[i].cell
                         /\ R[i].text = Snippet(FilledCells[i].text)
      /\ \A i \in 1..M : /\ T[i].page = None /\ T[i].sheet = FilledSheets[i]
                         /\ T[i].rows = doc.parts[FilledSheets[i]]
  <2> HIDE DEF N, M
  <2> QED BY <1>1 DEF Block, Reference, Table
<1> HIDE DEF N, M, B, R, T
<1>4. /\ IsSeq(B) /\ \A x : x \in ToSet(B) <=> \E i \in 1..N : x = B[i]
      /\ IsSeq(R) /\ \A x : x \in ToSet(R) <=> \E i \in 1..N : x = R[i]
      /\ IsSeq(T) /\ \A x : x \in ToSet(T) <=> \E i \in 1..M : x = T[i]
  <2>0. N \in Nat /\ M \in Nat
    BY <1>1
  <2>1. IsSeq(B) /\ \A x : x \in ToSet(B) <=> \E i \in 1..N : x = B[i]
    BY <2>0, <1>2, BuiltIs
  <2>2. IsSeq(R) /\ \A x : x \in ToSet(R) <=> \E i \in 1..N : x = R[i]
    BY <2>0, <1>2, BuiltIs
  <2>3. IsSeq(T) /\ \A x : x \in ToSet(T) <=> \E i \in 1..M : x = T[i]
    BY <2>0, <1>2, BuiltIs
  <2> QED BY <2>1, <2>2, <2>3
<1>5. ASSUME NEW i \in 1..N
      PROVE  /\ R[i].text \in Cell /\ Cited(R[i].text, R[i], None)
             /\ FilledCells[i].text \in Cell /\ Cited(FilledCells[i].text, R[i], None)
  <2>0. PICK s \in DOMAIN doc.parts : \E r \in DOMAIN doc.parts[s] : \E c \in DOMAIN doc.parts[s][r] :
          FilledCells[i] = CellAt(s, r, c) /\ doc.parts[s][r][c] # <<>>
    <3>1. FilledCells[i] \in ToSet(FilledCells)
      BY <1>1
    <3> QED BY <3>1, FilledCellsAre
  <2>1. PICK r \in DOMAIN doc.parts[s] : \E c \in DOMAIN doc.parts[s][r] :
          FilledCells[i] = CellAt(s, r, c) /\ doc.parts[s][r][c] # <<>>
    BY <2>0
  <2>1a. PICK c \in DOMAIN doc.parts[s][r] :
          FilledCells[i] = CellAt(s, r, c) /\ doc.parts[s][r][c] # <<>>
    BY <2>1
  <2> DEFINE cell == doc.parts[s][r][c]
  <2>2. /\ R[i].sheet = s /\ R[i].cell = <<r, c>> /\ R[i].text = Snippet(cell)
        /\ FilledCells[i].text = cell
    BY <1>3, <2>1a DEF CellAt
  <2>3. doc.parts[s] \in Part /\ doc.parts[s][r] \in Row /\ cell \in Cell
    BY PartsAre DEF Part, Row
  <2>4. ToSet(cell) \subseteq ToSet(TextOf(doc.parts[s]))
    BY <2>3, TextIs, WordsAre
  <2>5. Place(R[i]) = ToSet(cell)
    BY <1>3, <2>2 DEF Place
  <2>6. \A w \in ToSet(cell) : w \in AnyWords
    BY <2>3, <2>4, PartHas DEF AnyWords
  <2> HIDE DEF cell
  <2>7. \A w \in ToSet(cell) : StandsAt(w, R[i])
    BY <2>5, <2>6 DEF StandsAt
  <2>8. /\ \A w \in ToSet(cell) :
             /\ StandsAt(w, R[i])
             /\ R[i].text # <<>> /\ Uncut(R[i].text) => w \in ToSet(R[i].text)
        /\ \A w \in ToSet(R[i].text) : StandsAt(w, R[i])
    BY <2>2, <2>3, <2>7, QuoteIs
  <2>9. R[i].text \in Cell
    BY <2>2, <2>3, SnippetIs
  <2> QED BY <1>3, <2>2, <2>3, <2>8, <2>9 DEF Cited
<1>6. RefsStand(o)
  <2>1. IsSeq(R) /\ \A r \in ToSet(R) : r.text \in Cell /\ (r.cell # <<>> => Cited(r.text, r, None))
    BY <1>4, <1>5
  <2>2. o.refs = R
    BY DEF R
  <2> QED BY <2>1, <2>2 DEF RefsStand
<1>7. BlocksStand(o)
  <2>1. ASSUME NEW b \in ToSet(B)
        PROVE  b.text \in Part /\ Cited(TextOf(b.text), BlockReference(o, b), b.page)
    <3>1. PICK i \in 1..N : b = B[i]
      BY <1>4
    <3> DEFINE cell == FilledCells[i].text
    <3>2. cell \in Cell /\ b.text = <<<<cell>>>> /\ Cited(cell, R[i], None)
      BY <1>3, <1>5, <3>1
    <3> HIDE DEF cell
    <3>3. <<cell>> \in Row
      BY <3>2 DEF Row
    <3>4. b.text \in Part
      BY <3>2, <3>3 DEF Part
    <3>5. TextOf(b.text) = cell
      BY <3>2, Alone
    <3>6. BlockReference(o, b) = R[i] /\ b.page = None
      <4>1. o.refs = R
        BY DEF R
      <4>2. b.ref = i /\ b.page = None /\ i # None
        BY <1>1, <1>3, <3>1 DEF None
      <4> QED BY <4>1, <4>2 DEF BlockReference
    <3> QED BY <1>5, <3>2, <3>4, <3>5, <3>6
  <2> QED BY <1>4, <2>1 DEF BlocksStand, B
<1>8. TablesStand(o)
  <2>1. ASSUME NEW t \in ToSet(T)
        PROVE  t.rows \in Part /\ Cited(TextOf(t.rows), TableReference(t), t.page)
    <3>1. PICK i \in 1..M : t = T[i]
      BY <1>4
    <3> DEFINE s == FilledSheets[i]
    <3>2. s \in DOMAIN doc.parts /\ t.page = None /\ t.sheet = s /\ t.rows = doc.parts[s]
      BY <1>1, <1>3, <3>1, FilledSheetsAre
    <3> HIDE DEF s
    <3>3. t.rows \in Part /\ s # None /\ TextOf(t.rows) \in Cell
      BY <3>2, PartsAre, TextIs DEF None
    <3>4. TableReference(t) = Inline(None, s, <<>>)
      BY <3>2 DEF TableReference
    <3> DEFINE ref == Inline(None, s, <<>>)
    <3>5. Place(ref) = PartWords(s)
      BY <3>3 DEF Place, CitedPart, Inline, Reference
    <3>6. ref.page = None /\ ref.text = <<>>
      BY SnippetAssumption DEF Inline, Reference, Snippet
    <3>7. \A w \in ToSet(TextOf(doc.parts[s])) : w \in PartWords(s)
      BY <3>2, <3>3, PartHas
    <3> HIDE DEF ref
    <3>8. \A w \in ToSet(TextOf(doc.parts[s])) : StandsAt(w, ref)
      BY <3>2, <3>5, <3>7 DEF StandsAt, AnyWords
    <3>9. Cited(TextOf(t.rows), ref, None)
      BY <3>2, <3>3, <3>6, <3>8, Elements DEF Cited
    <3> QED BY <3>2, <3>3, <3>4, <3>9 DEF ref
  <2> QED BY <1>4, <2>1 DEF TablesStand, T
<1>9. PagesStand(o) /\ PairsStand(o)
  BY NothingStands
<1>10. Complete(o)
  <2> SUFFICES ASSUME NEW s \in DOMAIN doc.parts, NEW row \in ToSet(doc.parts[s]),
                      NEW cell \in ToSet(row), cell # <<>>
               PROVE  cell \in ContextLines(o, None)
    BY DEF Complete
  <2>1. PICK r \in DOMAIN doc.parts[s] : row = doc.parts[s][r]
    BY DEF ToSet
  <2>2. PICK c \in DOMAIN doc.parts[s][r] : cell = doc.parts[s][r][c]
    BY <2>1 DEF ToSet
  <2>3. CellAt(s, r, c) \in ToSet(FilledCells)
    BY <2>2, FilledCellsAre
  <2>4. PICK i \in 1..N : FilledCells[i] = CellAt(s, r, c)
    BY <1>1, <2>3 DEF ToSet
  <2>5. B[i].text = <<<<cell>>>>
    BY <1>3, <2>2, <2>4 DEF CellAt
  <2>6. <<cell>> \in ToSet(B[i].text) /\ WordsOf(<<cell>>) = cell
    BY <2>5, Elements, Alone
  <2>7. i \in DOMAIN o.blocks /\ On(None, o.blocks[i])
    BY <1>2 DEF On, B
  <2> QED BY <2>6, <2>7, InContext DEF B
<1> QED BY <1>6, <1>7, <1>8, <1>9, <1>10 DEF About

\* A workbook that cannot be read says nothing; one without cells, nothing either.
LEMMA ExcelParserStands ==
  ASSUME doc \in Documents, DetectParserKind(doc) = "excel"
  PROVE  LET o == ExcelParser(doc) IN About(o) /\ (o.status # "failed" => Complete(o))
<1> DEFINE o == ExcelParser(doc)
<1>0. InWorkbook
  BY DEF InWorkbook
<1>1. o = IF ~doc.readable THEN FailedOutput
          ELSE IF FilledCells = <<>> THEN EmptyOutput(<<>>)
          ELSE [NoOutput EXCEPT
                  !.status = "parsed",
                  !.blocks = [i \in DOMAIN FilledCells |->
                                Block(None, <<<<FilledCells[i].text>>>>, Certain, i)],
                  !.refs = [i \in DOMAIN FilledCells |->
                              Reference("excel_cell", None, FilledCells[i].sheet,
                                        FilledCells[i].cell, Snippet(FilledCells[i].text))],
                  !.tables = [i \in DOMAIN FilledSheets |->
                                Table(None, FilledSheets[i], doc.parts[FilledSheets[i]], Certain)]]
  BY DEF ExcelParser, FilledCells, FilledSheets, AllCells, CellsOf, CellAt
<1> HIDE DEF o
<1>2. CASE ~doc.readable
  <2>1. /\ o.status = "failed" /\ o.pages = <<>> /\ o.blocks = <<>> /\ o.tables = <<>>
        /\ o.pairs = <<>> /\ o.refs = <<>>
    BY <1>1, <1>2 DEF FailedOutput, NoOutput
  <2> QED BY <2>1, NothingStands DEF About, o
<1>3. CASE doc.readable /\ FilledCells = <<>>
  <2>1. /\ o.pages = <<>> /\ o.blocks = <<>> /\ o.tables = <<>> /\ o.pairs = <<>> /\ o.refs = <<>>
    BY <1>1, <1>3 DEF EmptyOutput, NoOutput
  <2>2. Complete(o)
    <3> SUFFICES ASSUME NEW s \in DOMAIN doc.parts, NEW row \in ToSet(doc.parts[s]),
                        NEW cell \in ToSet(row), cell # <<>>
                 PROVE  FALSE
      BY <1>0 DEF Complete
    <3>1. PICK r \in DOMAIN doc.parts[s] : row = doc.parts[s][r]
      BY DEF ToSet
    <3>2. PICK c \in DOMAIN doc.parts[s][r] : cell = doc.parts[s][r][c]
      BY <3>1 DEF ToSet
    <3>3. CellAt(s, r, c) \in ToSet(FilledCells)
      BY <3>2, FilledCellsAre
    <3> QED BY <1>3, <3>3, Elements
  <2> QED BY <2>1, <2>2, NothingStands DEF About, o
<1>4. CASE doc.readable /\ FilledCells # <<>>
  <2>1. /\ o.pages = <<>> /\ o.pairs = <<>>
        /\ o.blocks = [i \in DOMAIN FilledCells |-> Block(None, <<<<FilledCells[i].text>>>>, Certain, i)]
        /\ o.refs = [i \in DOMAIN FilledCells |->
                       Reference("excel_cell", None, FilledCells[i].sheet, FilledCells[i].cell,
                                 Snippet(FilledCells[i].text))]
        /\ o.tables = [i \in DOMAIN FilledSheets |->
                         Table(None, FilledSheets[i], doc.parts[FilledSheets[i]], Certain)]
    BY <1>1, <1>4 DEF NoOutput
  <2>2. About(o) /\ Complete(o)
    BY <1>0, <2>1, WorkbookStands
  <2> QED BY <2>2 DEF o
<1> QED BY <1>2, <1>3, <1>4

-----------------------------------------------------------------------------
(* A PDF whose text is read page by page.                                  *)

\* One block and one reference for each page that has text.
LEMMA PdfPagesStand ==
  ASSUME doc \in Documents, ~InWorkbook, NEW o, o.tables = <<>>, o.pairs = <<>>,
         o.pages = PagesOf(doc.parts),
         o.blocks = [i \in DOMAIN FilledSheets |->
                       Block(FilledSheets[i], doc.parts[FilledSheets[i]], Certain, i)],
         o.refs = [i \in DOMAIN FilledSheets |->
                     Reference("page_text", FilledSheets[i], None, <<>>,
                               Snippet(TextOf(doc.parts[FilledSheets[i]])))]
  PROVE  About(o)
<1> DEFINE M == Len(FilledSheets)
           B == o.blocks
           R == o.refs
<1>1. /\ M \in Nat /\ DOMAIN FilledSheets = 1..M
      /\ \A i \in 1..M : FilledSheets[i] \in DOMAIN doc.parts
  BY FilledSheetsAre, SeqFacts
<1>2. /\ DOMAIN B = 1..M /\ B = [i \in 1..M |-> B[i]]
      /\ DOMAIN R = 1..M /\ R = [i \in 1..M |-> R[i]]
  <2> HIDE DEF M
  <2> QED BY <1>1
<1>3. \A i \in 1..M : /\ B[i].page = FilledSheets[i] /\ B[i].text = doc.parts[FilledSheets[i]]
                      /\ B[i].ref = i
                      /\ R[i].kind = "page_text" /\ R[i].page = FilledSheets[i] /\ R[i].cell = <<>>
                      /\ R[i].text = Snippet(TextOf(doc.parts[FilledSheets[i]]))
  <2> HIDE DEF M
  <2> QED BY <1>1 DEF Block, Reference
<1> HIDE DEF M, B, R
<1>4. /\ IsSeq(B) /\ \A x : x \in ToSet(B) <=> \E i \in 1..M : x = B[i]
      /\ IsSeq(R) /\ \A x : x \in ToSet(R) <=> \E i \in 1..M : x = R[i]
  <2>0. M \in Nat
    BY <1>1
  <2>1. IsSeq(B) /\ \A x : x \in ToSet(B) <=> \E i \in 1..M : x = B[i]
    BY <2>0, <1>2, BuiltIs
  <2>2. IsSeq(R) /\ \A x : x \in ToSet(R) <=> \E i \in 1..M : x = R[i]
    BY <2>0, <1>2, BuiltIs
  <2> QED BY <2>1, <2>2
<1>5. BlocksStand(o)
  <2>1. ASSUME NEW b \in ToSet(B)
        PROVE  b.text \in Part /\ Cited(TextOf(b.text), BlockReference(o, b), b.page)
    <3>1. PICK i \in 1..M : b = B[i]
      BY <1>4
    <3> DEFINE s == FilledSheets[i]
    <3>2. /\ s \in DOMAIN doc.parts /\ b.page = s /\ b.text = doc.parts[s] /\ b.ref = i
          /\ R[i].kind = "page_text" /\ R[i].page = s /\ R[i].text = Snippet(TextOf(doc.parts[s]))
      BY <1>1, <1>3, <3>1
    <3> HIDE DEF s
    <3>3. BlockReference(o, b) = R[i]
      <4>1. o.refs = R /\ i # None
        BY <1>1 DEF R, None
      <4> QED BY <4>1, <3>2 DEF BlockReference
    <3>4. doc.parts[s] \in Part /\ TextOf(doc.parts[s]) \in Cell /\ DOMAIN doc.parts \subseteq Nat \ {0}
      BY <3>2, PartsAre, TextIs
    <3>5. Cited(TextOf(doc.parts[s]), R[i], s)
      BY <3>2, <3>4, CiteInPart, PartHas
    <3> QED BY <3>2, <3>3, <3>4, <3>5
  <2> QED BY <1>4, <2>1 DEF BlocksStand, B
<1>6. RefsStand(o)
  <2>1. ASSUME NEW r \in ToSet(R) PROVE r.text \in Cell /\ r.cell = <<>>
    <3>1. PICK i \in 1..M : r = R[i]
      BY <1>4
    <3>2. FilledSheets[i] \in DOMAIN doc.parts
      BY <1>1
    <3>3. doc.parts[FilledSheets[i]] \in Part
      BY <3>2, PartsAre
    <3> QED BY <1>3, <3>1, <3>3, TextIs, SnippetIs
  <2> QED BY <1>4, <2>1 DEF RefsStand, R
<1>7. PagesStand(o)
  <2>1. \A p \in DOMAIN doc.parts : doc.parts[p] \in Part
    BY PartsAre
  <2> QED BY <2>1, PagesOfStand, PartHas
<1> QED BY <1>5, <1>6, <1>7, NothingStands DEF About

\* A PDF, if it can be read, is all there.
LEMMA PdfParserStands ==
  ASSUME doc \in Documents, ~InWorkbook
  PROVE  LET o == PdfParser(doc) IN About(o) /\ (o.status # "failed" => Complete(o))
<1> DEFINE o == PdfParser(doc)
<1>1. o = IF ~doc.readable THEN FailedOutput
          ELSE IF FilledSheets = <<>> THEN EmptyOutput(PagesOf(doc.parts))
          ELSE [NoOutput EXCEPT
                  !.status = IF Len(FilledSheets) = Len(doc.parts) THEN "parsed" ELSE "partial",
                  !.pages = PagesOf(doc.parts),
                  !.blocks = [i \in DOMAIN FilledSheets |->
                                Block(FilledSheets[i], doc.parts[FilledSheets[i]], Certain, i)],
                  !.refs = [i \in DOMAIN FilledSheets |->
                              Reference("page_text", FilledSheets[i], None, <<>>,
                                        Snippet(TextOf(doc.parts[FilledSheets[i]])))]]
  BY DEF PdfParser, FilledSheets
<1> HIDE DEF o
<1>2. CASE ~doc.readable
  <2>1. /\ o.status = "failed" /\ o.pages = <<>> /\ o.blocks = <<>> /\ o.tables = <<>>
        /\ o.pairs = <<>> /\ o.refs = <<>>
    BY <1>1, <1>2 DEF FailedOutput, NoOutput
  <2> QED BY <2>1, NothingStands DEF About, o
<1>3. ASSUME doc.readable PROVE o.pages = PagesOf(doc.parts)
  BY <1>1, <1>3 DEF EmptyOutput, NoOutput
<1>4. ASSUME doc.readable PROVE Complete(o)
  BY <1>3, <1>4, PagesOfComplete
<1>5. CASE doc.readable /\ FilledSheets = <<>>
  <2>1. /\ o.blocks = <<>> /\ o.tables = <<>> /\ o.pairs = <<>> /\ o.refs = <<>>
    BY <1>1, <1>5 DEF EmptyOutput, NoOutput
  <2>2. PagesStand(o)
    <3>1. \A p \in DOMAIN doc.parts : doc.parts[p] \in Part
      BY PartsAre
    <3> QED BY <3>1, <1>3, <1>5, PagesOfStand, PartHas
  <2> QED BY <1>4, <1>5, <2>1, <2>2, NothingStands DEF About, o
<1>6. CASE doc.readable /\ FilledSheets # <<>>
  <2>1. /\ o.tables = <<>> /\ o.pairs = <<>>
        /\ o.blocks = [i \in DOMAIN FilledSheets |->
                         Block(FilledSheets[i], doc.parts[FilledSheets[i]], Certain, i)]
        /\ o.refs = [i \in DOMAIN FilledSheets |->
                       Reference("page_text", FilledSheets[i], None, <<>>,
                                 Snippet(TextOf(doc.parts[FilledSheets[i]])))]
    BY <1>1, <1>6 DEF NoOutput
  <2>2. About(o)
    BY <1>3, <1>6, <2>1, PdfPagesStand
  <2> QED BY <1>4, <1>6, <2>2 DEF o
<1> QED BY <1>2, <1>5, <1>6

-----------------------------------------------------------------------------
(* What Textract reports.                                                  *)

\* The numbers of the parts chosen.
LEMMA ChosenParts ==
  ASSUME doc \in Documents, NEW T, NEW body, body = [i \in DOMAIN doc.parts |-> body[i]],
         \A i \in DOMAIN doc.parts : body[i] = IF i \in T THEN <<i>> ELSE <<>>
  PROVE  /\ IsSeq(FlattenSeq(body))
         /\ \A s : s \in ToSet(FlattenSeq(body)) <=> s \in DOMAIN doc.parts /\ s \in T
<1> DEFINE S == DOMAIN doc.parts
           all == [s \in DOMAIN doc.parts |-> s]
<1>1. Len(doc.parts) \in Nat /\ DOMAIN doc.parts = 1..Len(doc.parts)
  BY PartsAre
<1>2. all \in Seq(S) /\ DOMAIN all = S /\ \A i \in S : all[i] = i
  <2>1. all \in [1..Len(doc.parts) -> DOMAIN doc.parts]
    BY <1>1
  <2>2. all \in Seq(S)
    <3> HIDE DEF all
    <3> QED BY <1>1, <2>1
  <2> QED BY <2>2
<1> HIDE DEF all
<1>2a. ASSUME NEW i \in DOMAIN all
       PROVE  body[i] \in {<<>>, <<all[i]>>} /\ (body[i] # <<>> <=> i \in T)
  <2>1. i \in DOMAIN doc.parts /\ all[i] = i /\ <<i>> # <<>>
    BY <1>2
  <2>2. CASE i \in T
    <3>1. body[i] = <<i>>
      BY <2>1, <2>2
    <3> QED BY <2>1, <2>2, <3>1
  <2>3. CASE i \notin T
    <3>1. body[i] = <<>>
      BY <2>1, <2>3
    <3> QED BY <2>1, <2>3, <3>1
  <2> QED BY <2>2, <2>3
<1>3. body = [i \in DOMAIN all |-> body[i]]
  BY <1>2
<1> HIDE DEF S
<1>4. /\ FlattenSeq(body) \in Seq(S)
      /\ \A x : x \in ToSet(FlattenSeq(body)) <=> \E i \in DOMAIN all : x = all[i] /\ body[i] # <<>>
  <2>1. all \in Seq(S)
    BY <1>2
  <2>2. \A i \in DOMAIN all : body[i] \in {<<>>, <<all[i]>>}
    BY <1>2a
  <2> QED BY ONLY <2>1, <2>2, <1>3, Sift
<1>5. IsSeq(FlattenSeq(body))
  <2> DEFINE F == FlattenSeq(body)
  <2> HIDE DEF F
  <2>1. F \in Seq(S)
    BY <1>4 DEF F
  <2>2. IsSeq(F)
    BY <2>1, SeqIsSeq
  <2> QED BY <2>2 DEF F
<1>6. \A s : s \in ToSet(FlattenSeq(body)) <=> \E i \in S : s = i /\ i \in T
  <2>1. \A i \in DOMAIN all : i \in S /\ all[i] = i /\ (body[i] # <<>> <=> i \in T)
    BY <1>2, <1>2a
  <2>2. \A i \in S : i \in DOMAIN all
    BY <1>2
  <2> QED BY ONLY <2>1, <2>2, <1>4
<1> QED BY <1>5, <1>6 DEF S

\* The things on each page, marked with their page.
Marked(body, seqs, N) ==
  /\ DOMAIN body = 1..N /\ body = [p \in 1..N |-> body[p]]
  /\ \A p \in 1..N : body[p] = [i \in DOMAIN seqs[p] |-> <<p, seqs[p][i]>>]

\* Things listed page by page, each with its page.
LEMMA MarkedIs ==
  ASSUME NEW N \in Nat, NEW seqs, \A p \in 1..N : IsSeq(seqs[p]), NEW body, Marked(body, seqs, N)
  PROVE  /\ IsSeq(FlattenSeq(body))
         /\ \A x : x \in ToSet(FlattenSeq(body)) <=>
                     \E p \in 1..N : \E y \in ToSet(seqs[p]) : x = <<p, y>>
<1>1. ASSUME NEW p \in 1..N
      PROVE  /\ IsSeq(body[p])
             /\ \A x : x \in ToSet(body[p]) <=> \E y \in ToSet(seqs[p]) : x = <<p, y>>
  <2> DEFINE f == body[p]
             M == Len(seqs[p])
  <2>1. M \in Nat /\ DOMAIN seqs[p] = 1..M
    BY SeqFacts
  <2>2. /\ DOMAIN f = 1..M /\ f = [i \in 1..M |-> f[i]]
        /\ \A i \in 1..M : f[i] = <<p, seqs[p][i]>>
    <3> HIDE DEF M
    <3>1. f = [i \in 1..M |-> <<p, seqs[p][i]>>]
      BY <2>1 DEF Marked
    <3> HIDE DEF f
    <3> QED BY <3>1
  <2> HIDE DEF f, M
  <2>3. IsSeq(f) /\ \A x : x \in ToSet(f) <=> \E i \in 1..M : x = f[i]
    BY <2>1, <2>2, BuiltIs
  <2>4. \A y : y \in ToSet(seqs[p]) <=> \E i \in 1..M : y = seqs[p][i]
    BY <2>1 DEF ToSet
  <2>5. \A x : x \in ToSet(f) <=> \E y \in ToSet(seqs[p]) : x = <<p, y>>
    <3>1. ASSUME NEW x \in ToSet(f) PROVE \E y \in ToSet(seqs[p]) : x = <<p, y>>
      <4>1. PICK i \in 1..M : x = f[i]
        BY <2>3
      <4>2. seqs[p][i] \in ToSet(seqs[p]) /\ x = <<p, seqs[p][i]>>
        BY <2>2, <2>4, <4>1
      <4> QED BY <4>2
    <3>2. ASSUME NEW y \in ToSet(seqs[p]) PROVE <<p, y>> \in ToSet(f)
      <4>1. PICK i \in 1..M : y = seqs[p][i]
        BY <2>4
      <4>2. <<p, y>> = f[i]
        BY <2>2, <4>1
      <4> QED BY <2>3, <4>2
    <3> QED BY <3>1, <3>2
  <2> QED BY <2>3, <2>5 DEF f
<1>2. IsSeq(FlattenSeq(body)) /\ InTurn(body, FlattenSeq(body), N)
  BY <1>1, Gather DEF Marked
<1> QED BY <1>1, <1>2 DEF InTurn

\* A line is a row in one cell.
LEMMA LinesAre ==
  ASSUME NEW part \in Part
  PROVE  /\ Lines(part) \in Part /\ IsSeq(Lines(part))
         /\ \A x : x \in ToSet(Lines(part)) <=>
              \E row \in ToSet(part) : WordsOf(row) # <<>> /\ x = <<WordsOf(row)>>
         /\ \A w \in ToSet(TextOf(Lines(part))) : w \in ToSet(TextOf(part))
<1> DEFINE some == NonBlank(part)
           M == Len(some)
           f == Lines(part)
<1>1. /\ some \in Part /\ \A row : row \in ToSet(some) <=> row \in ToSet(part) /\ WordsOf(row) # <<>>
  BY NonBlankIs
<1>2. /\ M \in Nat /\ DOMAIN some = 1..M /\ some \in Seq(Row)
      /\ \A i \in 1..M : some[i] \in Row /\ some[i] \in ToSet(some)
  <2> HIDE DEF some
  <2> QED BY <1>1 DEF Part, ToSet
<1>3. DOMAIN f = 1..M /\ f = [i \in 1..M |-> f[i]] /\ \A i \in 1..M : f[i] = <<WordsOf(some[i])>>
  <2> HIDE DEF M
  <2> QED BY <1>2 DEF Lines
<1> HIDE DEF some, M, f
<1>4. IsSeq(f) /\ (\A x : x \in ToSet(f) <=> \E i \in 1..M : x = f[i]) /\ Len(f) = M
  BY <1>2, <1>3, BuiltIs
<1>5. \A i \in 1..M : f[i] \in Row
  <2>1. ASSUME NEW i \in 1..M PROVE f[i] \in Row
    <3>1. f[i] = <<WordsOf(some[i])>> /\ WordsOf(some[i]) \in Cell
      BY <1>2, <1>3, WordsAre
    <3> QED BY <3>1 DEF Row
  <2> QED BY <2>1
<1>6. f \in Part
  <2>1. f \in [1..M -> Row]
    BY <1>3, <1>5
  <2> QED BY <1>2, <2>1 DEF Part
<1>7. \A x : x \in ToSet(f) <=> \E row \in ToSet(some) : x = <<WordsOf(row)>>
  <2>1. \A row : row \in ToSet(some) <=> \E i \in 1..M : row = some[i]
    BY <1>2 DEF ToSet
  <2>2. ASSUME NEW x \in ToSet(f) PROVE \E row \in ToSet(some) : x = <<WordsOf(row)>>
    <3>1. PICK i \in 1..M : x = f[i]
      BY <1>4
    <3> QED BY <1>2, <1>3, <3>1
  <2>3. ASSUME NEW row \in ToSet(some) PROVE <<WordsOf(row)>> \in ToSet(f)
    <3>1. PICK i \in 1..M : row = some[i]
      BY <2>1
    <3>2. <<WordsOf(row)>> = f[i]
      BY <1>3, <3>1
    <3> QED BY <1>4, <3>2
  <2> QED BY <2>2, <2>3
<1>8. ASSUME NEW w \in ToSet(TextOf(f)) PROVE w \in ToSet(TextOf(part))
  <2>1. PICK l \in DOMAIN f : w \in ToSet(WordsOf(f[l]))
    BY <1>6, TextIs
  <2>2. f[l] \in ToSet(f)
    BY DEF ToSet
  <2>3. PICK row \in ToSet(part) : f[l] = <<WordsOf(row)>>
    BY <1>1, <1>7, <2>2
  <2>4. WordsOf(f[l]) = WordsOf(row)
    BY <2>3, Alone
  <2> QED BY <2>1, <2>3, <2>4, RowsAre
<1> QED BY <1>1, <1>4, <1>6, <1>7, <1>8 DEF f

\* A form row has a key and a value.
LEMMA FormRowsAre ==
  ASSUME NEW part \in Part
  PROVE  /\ IsSeq(FormRows(doc, part))
         /\ \A row \in ToSet(FormRows(doc, part)) : row \in ToSet(part) /\ Len(row) = 2
<1> DEFINE body == [i \in DOMAIN part |-> IF Len(part[i]) = 2 THEN <<part[i]>> ELSE <<>>]
<1>1. FormRows(doc, part) = IF doc.layout = "form" THEN FlattenSeq(body) ELSE <<>>
  BY DEF FormRows, Select, Each
<1>2. part \in Seq(Row)
  BY DEF Part
<1>3. /\ body = [i \in DOMAIN part |-> body[i]]
      /\ \A i \in DOMAIN part : body[i] \in {<<>>, <<part[i]>>}
      /\ \A i \in DOMAIN part : body[i] # <<>> => Len(part[i]) = 2
  OBVIOUS
<1> HIDE DEF body
<1>4. /\ FlattenSeq(body) \in Seq(Row)
      /\ \A x : x \in ToSet(FlattenSeq(body)) <=> \E i \in DOMAIN part : x = part[i] /\ body[i] # <<>>
  BY <1>2, <1>3, Sift
<1>5. \A x \in ToSet(FlattenSeq(body)) : x \in ToSet(part) /\ Len(x) = 2
  <2>1. ASSUME NEW x \in ToSet(FlattenSeq(body)) PROVE x \in ToSet(part) /\ Len(x) = 2
    <3>1. PICK i \in DOMAIN part : x = part[i] /\ body[i] # <<>>
      BY <1>4
    <3>2. x \in ToSet(part)
      BY <3>1 DEF ToSet
    <3> QED BY <1>3, <3>1, <3>2
  <2> QED BY <2>1
<1>6. IsSeq(<<>>) /\ ToSet(<<>>) = {}
  BY Elements DEF IsSeq
<1>7. IsSeq(FlattenSeq(body))
  <2> DEFINE F == FlattenSeq(body)
  <2> HIDE DEF F
  <2>1. F \in Seq(Row)
    BY <1>4 DEF F
  <2>2. IsSeq(F)
    BY <2>1, SeqIsSeq
  <2> QED BY <2>2 DEF F
<1> QED BY <1>1, <1>5, <1>6, <1>7

\* A table has words of its page.
LEMMA TableRowsAre ==
  ASSUME NEW part \in Part
  PROVE  /\ TableRows(doc, part) \in Part
         /\ \A w \in ToSet(TextOf(TableRows(doc, part))) : w \in ToSet(TextOf(part))
<1> DEFINE rows == TableRows(doc, part)
<1>1. rows \in Part /\ \A row \in ToSet(rows) : row \in ToSet(part)
  <2>1. <<>> \in Part /\ ToSet(<<>>) = {}
    BY Elements DEF Part
  <2> QED BY <2>1, NonBlankIs DEF TableRows
<1> HIDE DEF rows
<1>2. ASSUME NEW w \in ToSet(TextOf(rows)) PROVE w \in ToSet(TextOf(part))
  <2>1. PICK r \in DOMAIN rows : w \in ToSet(WordsOf(rows[r]))
    BY <1>1, TextIs
  <2>2. rows[r] \in ToSet(part)
    BY <1>1 DEF ToSet
  <2> QED BY <2>1, <2>2, RowsAre
<1> QED BY <1>1, <1>2 DEF rows

MarkedLines ==
  FlattenSeq([p \in DOMAIN doc.parts |->
    [i \in DOMAIN Lines(doc.parts[p]) |-> <<p, Lines(doc.parts[p])[i]>>]])
MarkedPairs ==
  FlattenSeq([p \in DOMAIN doc.parts |->
    [i \in DOMAIN FormRows(doc, doc.parts[p]) |-> <<p, FormRows(doc, doc.parts[p])[i]>>]])
TabledParts == Select([p \in DOMAIN doc.parts |-> p], LAMBDA p : TableRows(doc, doc.parts[p]) # <<>>)
PagedParts == Select([p \in DOMAIN doc.parts |-> p], LAMBDA p : Lines(doc.parts[p]) # <<>>)

\* The lines of all pages,
LEMMA MarkedLinesAre ==
  ASSUME doc \in Documents
  PROVE  /\ IsSeq(MarkedLines)
         /\ \A x : x \in ToSet(MarkedLines) <=>
              \E p \in DOMAIN doc.parts : \E line \in ToSet(Lines(doc.parts[p])) : x = <<p, line>>
<1> DEFINE N == Len(doc.parts)
           seqs == [p \in DOMAIN doc.parts |-> Lines(doc.parts[p])]
           body == [p \in DOMAIN doc.parts |->
                      [i \in DOMAIN Lines(doc.parts[p]) |-> <<p, Lines(doc.parts[p])[i]>>]]
<1>1. N \in Nat /\ DOMAIN doc.parts = 1..N /\ \A p \in 1..N : doc.parts[p] \in Part
  BY PartsAre
<1>2. \A p \in 1..N : seqs[p] = Lines(doc.parts[p]) /\ IsSeq(seqs[p])
  <2> HIDE DEF N
  <2> QED BY <1>1, LinesAre
<1>3. Marked(body, seqs, N)
  <2> HIDE DEF N
  <2>1. /\ DOMAIN body = 1..N /\ body = [p \in 1..N |-> body[p]]
        /\ \A p \in 1..N : body[p] = [i \in DOMAIN seqs[p] |-> <<p, seqs[p][i]>>]
    BY <1>1, <1>2
  <2> HIDE DEF body, seqs
  <2> QED BY <2>1 DEF Marked
<1>4. MarkedLines = FlattenSeq(body)
  BY DEF MarkedLines
<1> HIDE DEF N, seqs, body
<1>5. /\ IsSeq(FlattenSeq(body))
      /\ \A x : x \in ToSet(FlattenSeq(body)) <=>
                  \E p \in 1..N : \E y \in ToSet(seqs[p]) : x = <<p, y>>
  <2>1. N \in Nat
    BY <1>1
  <2>2. \A p \in 1..N : IsSeq(seqs[p])
    BY <1>2
  <2> QED BY <2>1, <2>2, <1>3, MarkedIs
<1> QED BY <1>1, <1>2, <1>4, <1>5

\* the pairs of all pages,
LEMMA MarkedPairsAre ==
  ASSUME doc \in Documents
  PROVE  /\ IsSeq(MarkedPairs)
         /\ \A x : x \in ToSet(MarkedPairs) <=>
              \E p \in DOMAIN doc.parts : \E row \in ToSet(FormRows(doc, doc.parts[p])) : x = <<p, row>>
<1> DEFINE N == Len(doc.parts)
           seqs == [p \in DOMAIN doc.parts |-> FormRows(doc, doc.parts[p])]
           body == [p \in DOMAIN doc.parts |->
                      [i \in DOMAIN FormRows(doc, doc.parts[p]) |-> <<p, FormRows(doc, doc.parts[p])[i]>>]]
<1>1. N \in Nat /\ DOMAIN doc.parts = 1..N /\ \A p \in 1..N : doc.parts[p] \in Part
  BY PartsAre
<1>2. \A p \in 1..N : seqs[p] = FormRows(doc, doc.parts[p]) /\ IsSeq(seqs[p])
  <2> HIDE DEF N
  <2> QED BY <1>1, FormRowsAre
<1>3. Marked(body, seqs, N)
  <2> HIDE DEF N
  <2>1. /\ DOMAIN body = 1..N /\ body = [p \in 1..N |-> body[p]]
        /\ \A p \in 1..N : body[p] = [i \in DOMAIN seqs[p] |-> <<p, seqs[p][i]>>]
    BY <1>1, <1>2
  <2> HIDE DEF body, seqs
  <2> QED BY <2>1 DEF Marked
<1>4. MarkedPairs = FlattenSeq(body)
  BY DEF MarkedPairs
<1> HIDE DEF N, seqs, body
<1>5. /\ IsSeq(FlattenSeq(body))
      /\ \A x : x \in ToSet(FlattenSeq(body)) <=>
                  \E p \in 1..N : \E y \in ToSet(seqs[p]) : x = <<p, y>>
  <2>1. N \in Nat
    BY <1>1
  <2>2. \A p \in 1..N : IsSeq(seqs[p])
    BY <1>2
  <2> QED BY <2>1, <2>2, <1>3, MarkedIs
<1> QED BY <1>1, <1>2, <1>4, <1>5

\* and the pages that have tables or lines.
LEMMA PartsChosen ==
  ASSUME doc \in Documents
  PROVE  /\ IsSeq(TabledParts) /\ \A p \in ToSet(TabledParts) : p \in DOMAIN doc.parts
         /\ IsSeq(PagedParts)
         /\ \A p : p \in ToSet(PagedParts) <=> p \in DOMAIN doc.parts /\ Lines(doc.parts[p]) # <<>>
<1> DEFINE T == {p \in DOMAIN doc.parts : TableRows(doc, doc.parts[p]) # <<>>}
           P == {p \in DOMAIN doc.parts : Lines(doc.parts[p]) # <<>>}
           all == [p \in DOMAIN doc.parts |-> p]
           tabled == [i \in DOMAIN all |-> IF TableRows(doc, doc.parts[all[i]]) # <<>>
                                           THEN <<all[i]>> ELSE <<>>]
           paged == [i \in DOMAIN all |-> IF Lines(doc.parts[all[i]]) # <<>>
                                          THEN <<all[i]>> ELSE <<>>]
<1>1. TabledParts = FlattenSeq(tabled) /\ PagedParts = FlattenSeq(paged)
  BY DEF TabledParts, PagedParts, Select, Each
<1>2. /\ tabled = [i \in DOMAIN doc.parts |-> tabled[i]]
      /\ \A i \in DOMAIN doc.parts : tabled[i] = IF i \in T THEN <<i>> ELSE <<>>
  OBVIOUS
<1>3. /\ paged = [i \in DOMAIN doc.parts |-> paged[i]]
      /\ \A i \in DOMAIN doc.parts : paged[i] = IF i \in P THEN <<i>> ELSE <<>>
  OBVIOUS
<1> HIDE DEF tabled, paged, T, P, all
<1>4. IsSeq(FlattenSeq(tabled)) /\ \A s : s \in ToSet(FlattenSeq(tabled)) <=> s \in DOMAIN doc.parts /\ s \in T
  BY <1>2, ChosenParts
<1>5. IsSeq(FlattenSeq(paged)) /\ \A s : s \in ToSet(FlattenSeq(paged)) <=> s \in DOMAIN doc.parts /\ s \in P
  BY <1>3, ChosenParts
<1> QED BY <1>1, <1>4, <1>5 DEF P

\* What the parser assembles from the report, list by list.
LEMMA TextractIs ==
  LET o == TextractParser(doc)
      conf == NormalizeConfidence(doc.percent)
  IN  IF MarkedLines = <<>> THEN o = EmptyOutput(<<>>)
      ELSE /\ o.pages = [i \in DOMAIN PagedParts |->
                           [page |-> PagedParts[i], text |-> Lines(doc.parts[PagedParts[i]])]]
           /\ o.blocks = [i \in DOMAIN MarkedLines |->
                            Block(MarkedLines[i][1], <<MarkedLines[i][2]>>, conf, i)]
           /\ o.refs = [i \in DOMAIN MarkedLines |->
                          Reference("page_text", MarkedLines[i][1], None, <<>>,
                                    Snippet(WordsOf(MarkedLines[i][2])))]
           /\ o.pairs = [i \in DOMAIN MarkedPairs |->
                           [page |-> MarkedPairs[i][1], key |-> MarkedPairs[i][2][1],
                            value |-> MarkedPairs[i][2][2], confidence |-> conf]]
           /\ o.tables = [i \in DOMAIN TabledParts |->
                            Table(TabledParts[i], None,
                                  TableRows(doc, doc.parts[TabledParts[i]]), conf)]
<1> DEFINE conf == NormalizeConfidence(doc.percent)
<1>1. TextractParser(doc) =
        IF MarkedLines = <<>> THEN EmptyOutput(<<>>)
        ELSE [status |-> "parsed",
              pages |-> [i \in DOMAIN PagedParts |->
                           [page |-> PagedParts[i], text |-> Lines(doc.parts[PagedParts[i]])]],
              blocks |-> [i \in DOMAIN MarkedLines |->
                            Block(MarkedLines[i][1], <<MarkedLines[i][2]>>, conf, i)],
              refs |-> [i \in DOMAIN MarkedLines |->
                          Reference("page_text", MarkedLines[i][1], None, <<>>,
                                    Snippet(WordsOf(MarkedLines[i][2])))],
              pairs |-> [i \in DOMAIN MarkedPairs |->
                           [page |-> MarkedPairs[i][1], key |-> MarkedPairs[i][2][1],
                            value |-> MarkedPairs[i][2][2], confidence |-> conf]],
              tables |-> [i \in DOMAIN TabledParts |->
                            Table(TabledParts[i], None,
                                  TableRows(doc, doc.parts[TabledParts[i]]), conf)]]
  BY DEF TextractParser, MarkedLines, MarkedPairs, PagedParts, TabledParts
<1> QED BY <1>1

\* Its pages,
LEMMA TextractPagesStand ==
  ASSUME doc \in Documents, ~InWorkbook, NEW o,
         o.pages = [i \in DOMAIN PagedParts |->
                      [page |-> PagedParts[i], text |-> Lines(doc.parts[PagedParts[i]])]]
  PROVE  PagesStand(o)
<1> DEFINE M == Len(PagedParts)
           P == o.pages
<1>1. M \in Nat /\ DOMAIN PagedParts = 1..M /\ \A i \in 1..M : PagedParts[i] \in DOMAIN doc.parts
  BY PartsChosen, SeqFacts
<1>2. DOMAIN P = 1..M /\ P = [i \in 1..M |-> P[i]]
  <2> HIDE DEF M
  <2> QED BY <1>1
<1>3. \A i \in 1..M : P[i].page = PagedParts[i] /\ P[i].text = Lines(doc.parts[PagedParts[i]])
  <2> HIDE DEF M
  <2> QED BY <1>1
<1> HIDE DEF M, P
<1>4. IsSeq(P) /\ \A x : x \in ToSet(P) <=> \E i \in 1..M : x = P[i]
  <2>1. M \in Nat
    BY <1>1
  <2> QED BY <2>1, <1>2, BuiltIs
<1>5. ASSUME NEW x \in ToSet(P)
      PROVE  x.text \in Part /\ Cited(TextOf(x.text), Inline(x.page, None, TextOf(x.text)), x.page)
  <2>1. PICK i \in 1..M : x = P[i]
    BY <1>4
  <2> DEFINE p == PagedParts[i]
  <2>2. p \in DOMAIN doc.parts /\ x.page = p /\ x.text = Lines(doc.parts[p])
    BY <1>1, <1>3, <2>1
  <2> HIDE DEF p
  <2>3. doc.parts[p] \in Part /\ DOMAIN doc.parts \subseteq Nat \ {0}
    BY <2>2, PartsAre
  <2>4. /\ x.text \in Part /\ TextOf(x.text) \in Cell
        /\ \A w \in ToSet(TextOf(x.text)) : w \in PartWords(p)
    BY <2>2, <2>3, LinesAre, TextIs, PartHas
  <2>5. Cited(TextOf(x.text), Inline(p, None, TextOf(x.text)), p)
    BY <2>2, <2>3, <2>4, CiteInline
  <2> QED BY <2>2, <2>4, <2>5
<1> QED BY <1>4, <1>5 DEF PagesStand, P

\* its tables,
LEMMA TextractTablesStand ==
  ASSUME doc \in Documents, ~InWorkbook, NEW conf, NEW o,
         o.tables = [i \in DOMAIN TabledParts |->
                       Table(TabledParts[i], None, TableRows(doc, doc.parts[TabledParts[i]]), conf)]
  PROVE  TablesStand(o)
<1> DEFINE M == Len(TabledParts)
           T == o.tables
<1>1. M \in Nat /\ DOMAIN TabledParts = 1..M /\ \A i \in 1..M : TabledParts[i] \in DOMAIN doc.parts
  BY PartsChosen, SeqFacts
<1>2. DOMAIN T = 1..M /\ T = [i \in 1..M |-> T[i]]
  <2> HIDE DEF M
  <2> QED BY <1>1
<1>3. \A i \in 1..M : /\ T[i].page = TabledParts[i] /\ T[i].sheet = None
                      /\ T[i].rows = TableRows(doc, doc.parts[TabledParts[i]])
  <2> HIDE DEF M
  <2> QED BY <1>1 DEF Table
<1> HIDE DEF M, T
<1>4. IsSeq(T) /\ \A x : x \in ToSet(T) <=> \E i \in 1..M : x = T[i]
  <2>1. M \in Nat
    BY <1>1
  <2> QED BY <2>1, <1>2, BuiltIs
<1>5. ASSUME NEW t \in ToSet(T)
      PROVE  t.rows \in Part /\ Cited(TextOf(t.rows), TableReference(t), t.page)
  <2>1. PICK i \in 1..M : t = T[i]
    BY <1>4
  <2> DEFINE p == TabledParts[i]
  <2>2. p \in DOMAIN doc.parts /\ t.page = p /\ t.sheet = None /\ t.rows = TableRows(doc, doc.parts[p])
    BY <1>1, <1>3, <2>1
  <2> HIDE DEF p
  <2>3. doc.parts[p] \in Part /\ DOMAIN doc.parts \subseteq Nat \ {0}
    BY <2>2, PartsAre
  <2>4. /\ t.rows \in Part /\ TextOf(t.rows) \in Cell
        /\ \A w \in ToSet(TextOf(t.rows)) : w \in PartWords(p)
    BY <2>2, <2>3, TableRowsAre, TextIs, PartHas
  <2>5. TableReference(t) = Inline(p, None, <<>>)
    BY <2>2 DEF TableReference
  <2>6. Cited(TextOf(t.rows), Inline(p, None, <<>>), p)
    BY <2>2, <2>3, <2>4, CiteInline
  <2> QED BY <2>2, <2>4, <2>5, <2>6
<1> QED BY <1>4, <1>5 DEF TablesStand, T

\* its pairs,
LEMMA TextractPairsStand ==
  ASSUME doc \in Documents, ~InWorkbook, NEW conf, NEW o,
         o.pairs = [i \in DOMAIN MarkedPairs |->
                      [page |-> MarkedPairs[i][1], key |-> MarkedPairs[i][2][1],
                       value |-> MarkedPairs[i][2][2], confidence |-> conf]]
  PROVE  PairsStand(o)
<1> DEFINE M == Len(MarkedPairs)
           P == o.pairs
<1>1. M \in Nat /\ DOMAIN MarkedPairs = 1..M /\ \A i \in 1..M : MarkedPairs[i] \in ToSet(MarkedPairs)
  BY MarkedPairsAre, SeqFacts
<1>2. DOMAIN P = 1..M /\ P = [i \in 1..M |-> P[i]]
  <2> HIDE DEF M
  <2> QED BY <1>1
<1>3. \A i \in 1..M : /\ P[i].page = MarkedPairs[i][1] /\ P[i].key = MarkedPairs[i][2][1]
                      /\ P[i].value = MarkedPairs[i][2][2]
  <2> HIDE DEF M
  <2> QED BY <1>1
<1> HIDE DEF M, P
<1>4. IsSeq(P) /\ \A x : x \in ToSet(P) <=> \E i \in 1..M : x = P[i]
  <2>1. M \in Nat
    BY <1>1
  <2> QED BY <2>1, <1>2, BuiltIs
<1>5. ASSUME NEW x \in ToSet(P)
      PROVE  /\ x.key \in Cell /\ x.value \in Cell
             /\ Cited(x.key \o x.value, Inline(x.page, None, x.key \o x.value), x.page)
  <2>1. PICK i \in 1..M : x = P[i]
    BY <1>4
  <2>2. PICK p \in DOMAIN doc.parts : \E row \in ToSet(FormRows(doc, doc.parts[p])) :
          MarkedPairs[i] = <<p, row>>
    BY <1>1, MarkedPairsAre
  <2>3. PICK row \in ToSet(FormRows(doc, doc.parts[p])) : MarkedPairs[i] = <<p, row>>
    BY <2>2
  <2>4. x.page = p /\ x.key = row[1] /\ x.value = row[2]
    BY <1>3, <2>1, <2>3
  <2>5. doc.parts[p] \in Part /\ DOMAIN doc.parts \subseteq Nat \ {0}
    BY PartsAre
  <2>6. row \in ToSet(doc.parts[p]) /\ Len(row) = 2
    BY <2>5, FormRowsAre
  <2>7. row \in Row /\ \A w \in ToSet(WordsOf(row)) : w \in PartWords(p)
    BY <2>5, <2>6, RowsAre, PartHas
  <2>8. 1 \in DOMAIN row /\ 2 \in DOMAIN row /\ row[1] \in Cell /\ row[2] \in Cell
    BY <2>6, <2>7 DEF Row
  <2> DEFINE words == row[1] \o row[2]
  <2>9. words \in Cell /\ \A w : w \in ToSet(words) <=> w \in ToSet(row[1]) \/ w \in ToSet(row[2])
    BY <2>8, Concatenation
  <2> HIDE DEF words
  <2>10. \A w \in ToSet(words) : w \in ToSet(WordsOf(row))
    BY <2>7, <2>8, <2>9, WordsAre
  <2>11. Cited(words, Inline(p, None, words), p)
    BY <2>5, <2>7, <2>9, <2>10, CiteInline
  <2> QED BY <2>4, <2>8, <2>11 DEF words
<1> QED BY <1>4, <1>5 DEF PairsStand, P

\* and its blocks, which leave no line out.
LEMMA TextractBlocksStand ==
  ASSUME doc \in Documents, ~InWorkbook, NEW conf, NEW o,
         o.blocks = [i \in DOMAIN MarkedLines |->
                       Block(MarkedLines[i][1], <<MarkedLines[i][2]>>, conf, i)],
         o.refs = [i \in DOMAIN MarkedLines |->
                     Reference("page_text", MarkedLines[i][1], None, <<>>, Snippet(WordsOf(MarkedLines[i][2])))]
  PROVE  BlocksStand(o) /\ RefsStand(o) /\ Complete(o)
<1> DEFINE M == Len(MarkedLines)
           B == o.blocks
           R == o.refs
<1>1. M \in Nat /\ DOMAIN MarkedLines = 1..M /\ \A i \in 1..M : MarkedLines[i] \in ToSet(MarkedLines)
  BY MarkedLinesAre, SeqFacts
<1>2. /\ DOMAIN B = 1..M /\ B = [i \in 1..M |-> B[i]]
      /\ DOMAIN R = 1..M /\ R = [i \in 1..M |-> R[i]]
  <2> HIDE DEF M
  <2> QED BY <1>1
<1>3. \A i \in 1..M : /\ B[i].page = MarkedLines[i][1] /\ B[i].text = <<MarkedLines[i][2]>>
                      /\ B[i].ref = i
                      /\ R[i].kind = "page_text" /\ R[i].page = MarkedLines[i][1] /\ R[i].cell = <<>>
                      /\ R[i].text = Snippet(WordsOf(MarkedLines[i][2]))
  <2> HIDE DEF M
  <2> QED BY <1>1 DEF Block, Reference
<1> HIDE DEF M, B, R
<1>4. /\ IsSeq(B) /\ \A x : x \in ToSet(B) <=> \E i \in 1..M : x = B[i]
      /\ IsSeq(R) /\ \A x : x \in ToSet(R) <=> \E i \in 1..M : x = R[i]
  <2>0. M \in Nat
    BY <1>1
  <2>1. IsSeq(B) /\ \A x : x \in ToSet(B) <=> \E i \in 1..M : x = B[i]
    <3>1. DOMAIN B = 1..M /\ B = [i \in 1..M |-> B[i]]
      BY <1>2
    <3> QED BY <2>0, <3>1, BuiltIs
  <2>2. IsSeq(R) /\ \A x : x \in ToSet(R) <=> \E i \in 1..M : x = R[i]
    <3>1. DOMAIN R = 1..M /\ R = [i \in 1..M |-> R[i]]
      BY <1>2
    <3> QED BY <2>0, <3>1, BuiltIs
  <2> QED BY <2>1, <2>2
<1>5. ASSUME NEW i \in 1..M
      PROVE  \E p \in DOMAIN doc.parts : \E line \in ToSet(Lines(doc.parts[p])) :
               /\ MarkedLines[i] = <<p, line>> /\ line \in Row /\ WordsOf(line) \in Cell
               /\ \A w \in ToSet(WordsOf(line)) : w \in PartWords(p)
  <2>2. PICK p \in DOMAIN doc.parts : \E line \in ToSet(Lines(doc.parts[p])) :
          MarkedLines[i] = <<p, line>>
    BY <1>1, MarkedLinesAre
  <2>3. PICK line \in ToSet(Lines(doc.parts[p])) : MarkedLines[i] = <<p, line>>
    BY <2>2
  <2>4. doc.parts[p] \in Part
    BY PartsAre
  <2>5. /\ Lines(doc.parts[p]) \in Part
        /\ \A w \in ToSet(TextOf(Lines(doc.parts[p]))) : w \in ToSet(TextOf(doc.parts[p]))
    BY <2>4, LinesAre
  <2>6. /\ line \in Row
        /\ \A w \in ToSet(WordsOf(line)) : w \in ToSet(TextOf(Lines(doc.parts[p])))
    BY <2>5, RowsAre
  <2>7. WordsOf(line) \in Cell
    BY <2>6, WordsAre
  <2> QED BY <2>3, <2>4, <2>5, <2>6, <2>7, PartHas
<1>6. BlocksStand(o)
  <2>1. ASSUME NEW b \in ToSet(B)
        PROVE  b.text \in Part /\ Cited(TextOf(b.text), BlockReference(o, b), b.page)
    <3>1. PICK i \in 1..M : b = B[i]
      BY <1>4
    <3>2. PICK p \in DOMAIN doc.parts : \E line \in ToSet(Lines(doc.parts[p])) :
               /\ MarkedLines[i] = <<p, line>> /\ line \in Row /\ WordsOf(line) \in Cell
               /\ \A w \in ToSet(WordsOf(line)) : w \in PartWords(p)
      BY <1>5
    <3>3. PICK line \in ToSet(Lines(doc.parts[p])) :
               /\ MarkedLines[i] = <<p, line>> /\ line \in Row /\ WordsOf(line) \in Cell
               /\ \A w \in ToSet(WordsOf(line)) : w \in PartWords(p)
      BY <3>2
    <3>4. /\ b.page = p /\ b.text = <<line>> /\ b.ref = i
          /\ R[i].kind = "page_text" /\ R[i].page = p /\ R[i].text = Snippet(WordsOf(line))
      BY <1>3, <3>1, <3>3
    <3>5. b.text \in Part /\ TextOf(b.text) = WordsOf(line)
      <4>1. <<line>> \in Part
        BY <3>3 DEF Part
      <4> QED BY <3>4, <4>1, Alone
    <3>6. BlockReference(o, b) = R[i]
      <4>1. o.refs = R /\ i # None
        BY <1>1 DEF R, None
      <4> QED BY <4>1, <3>4 DEF BlockReference
    <3>7. DOMAIN doc.parts \subseteq Nat \ {0}
      BY PartsAre
    <3>8. Cited(WordsOf(line), R[i], p)
      BY <3>3, <3>4, <3>7, CiteInPart
    <3> QED BY <3>4, <3>5, <3>6, <3>8
  <2> QED BY <1>4, <2>1 DEF BlocksStand, B
<1>7. RefsStand(o)
  <2>1. ASSUME NEW r \in ToSet(R) PROVE r.text \in Cell /\ r.cell = <<>>
    <3>1. PICK i \in 1..M : r = R[i]
      BY <1>4
    <3>2. PICK p \in DOMAIN doc.parts : \E line \in ToSet(Lines(doc.parts[p])) :
               MarkedLines[i] = <<p, line>> /\ WordsOf(line) \in Cell
      BY <1>5
    <3>3. WordsOf(MarkedLines[i][2]) \in Cell
      BY <3>2
    <3> QED BY <1>3, <3>1, <3>3, SnippetIs
  <2> QED BY <1>4, <2>1 DEF RefsStand, R
<1>8. Complete(o)
  <2> SUFFICES ASSUME NEW p \in DOMAIN doc.parts, NEW row \in ToSet(doc.parts[p]), WordsOf(row) # <<>>
               PROVE  WordsOf(row) \in ContextLines(o, p)
    BY DEF Complete
  <2>1. <<WordsOf(row)>> \in ToSet(Lines(doc.parts[p]))
    BY PartsAre, LinesAre
  <2>2. <<p, <<WordsOf(row)>>>> \in ToSet(MarkedLines)
    BY <2>1, MarkedLinesAre
  <2>3. PICK i \in 1..M : MarkedLines[i] = <<p, <<WordsOf(row)>>>>
    BY <1>1, <2>2 DEF ToSet
  <2> DEFINE line == <<WordsOf(row)>>
  <2>4. B[i].page = p /\ B[i].text = <<line>> /\ WordsOf(line) = WordsOf(row)
    BY <1>3, <2>3, Alone
  <2> HIDE DEF line
  <2>5. line \in ToSet(B[i].text)
    BY <2>4, Elements
  <2>6. o.blocks = B /\ i \in DOMAIN B /\ On(p, B[i])
    BY <1>2, <2>4 DEF On, B
  <2> QED BY <2>4, <2>5, <2>6, InContext
<1> QED BY <1>6, <1>7, <1>8

\* So what is made of the report stands.
LEMMA TextractParserStands ==
  ASSUME doc \in Documents, ~InWorkbook
  PROVE  About(TextractParser(doc)) /\ Complete(TextractParser(doc))
<1> DEFINE o == TextractParser(doc)
<1>1. CASE MarkedLines = <<>>
  <2>1. o = EmptyOutput(<<>>)
    BY <1>1, TextractIs
  <2>2. /\ o.pages = <<>> /\ o.blocks = <<>> /\ o.tables = <<>> /\ o.pairs = <<>> /\ o.refs = <<>>
    BY <2>1 DEF EmptyOutput, NoOutput
  <2> HIDE DEF o
  <2>3. About(o)
    BY <2>2, NothingStands DEF About
  <2>4. Complete(o)
    <3> SUFFICES ASSUME NEW p \in DOMAIN doc.parts, NEW row \in ToSet(doc.parts[p]), WordsOf(row) # <<>>
                 PROVE  FALSE
      BY DEF Complete
    <3>1. <<WordsOf(row)>> \in ToSet(Lines(doc.parts[p]))
      BY PartsAre, LinesAre
    <3>2. <<p, <<WordsOf(row)>>>> \in ToSet(MarkedLines)
      BY <3>1, MarkedLinesAre
    <3> QED BY <1>1, <3>2, Elements
  <2> QED BY <2>3, <2>4 DEF o
<1>2. CASE MarkedLines # <<>>
  <2> DEFINE conf == NormalizeConfidence(doc.percent)
  <2>1. /\ o.pages = [i \in DOMAIN PagedParts |->
                        [page |-> PagedParts[i], text |-> Lines(doc.parts[PagedParts[i]])]]
        /\ o.blocks = [i \in DOMAIN MarkedLines |->
                         Block(MarkedLines[i][1], <<MarkedLines[i][2]>>, conf, i)]
        /\ o.refs = [i \in DOMAIN MarkedLines |->
                       Reference("page_text", MarkedLines[i][1], None, <<>>,
                                 Snippet(WordsOf(MarkedLines[i][2])))]
        /\ o.pairs = [i \in DOMAIN MarkedPairs |->
                        [page |-> MarkedPairs[i][1], key |-> MarkedPairs[i][2][1],
                         value |-> MarkedPairs[i][2][2], confidence |-> conf]]
        /\ o.tables = [i \in DOMAIN TabledParts |->
                         Table(TabledParts[i], None,
                               TableRows(doc, doc.parts[TabledParts[i]]), conf)]
    BY <1>2, TextractIs
  <2> HIDE DEF o, conf
  <2>2. PagesStand(o)
    BY <2>1, TextractPagesStand
  <2>3. BlocksStand(o) /\ RefsStand(o) /\ Complete(o)
    BY <2>1, TextractBlocksStand
  <2>4. PairsStand(o)
    BY <2>1, TextractPairsStand
  <2>5. TablesStand(o)
    BY <2>1, TextractTablesStand
  <2> QED BY <2>2, <2>3, <2>4, <2>5 DEF About, o
<1> QED BY <1>1, <1>2

\* Whichever parser reads the document, what it reports stands, and a parse that did not fail left nothing out.
LEMMA ParseStands ==
  ASSUME doc \in Documents, NEW enabled \in BOOLEAN
  PROVE  LET o == ParseDocument(doc, enabled) IN About(o) /\ (o.status # "failed" => Complete(o))
<1> DEFINE o == ParseDocument(doc, enabled)
           kind == DetectParserKind(doc)
           Fine(x) == About(x) /\ (x.status # "failed" => Complete(x))
<1>1. Fine(FailedOutput)
  <2>1. /\ FailedOutput.status = "failed" /\ FailedOutput.pages = <<>> /\ FailedOutput.blocks = <<>>
        /\ FailedOutput.tables = <<>> /\ FailedOutput.pairs = <<>> /\ FailedOutput.refs = <<>>
    BY DEF FailedOutput, NoOutput
  <2> QED BY <2>1, NothingStands DEF About
<1>2. CASE kind = "text"
  <2>1. o = TextParser(doc)
    BY <1>2 DEF ParseDocument
  <2> HIDE DEF o
  <2> QED BY <1>2, <2>1, TextParserStands DEF o
<1>3. CASE kind = "csv"
  <2>1. o = CsvParser(doc)
    BY <1>3 DEF ParseDocument
  <2> HIDE DEF o
  <2> QED BY <1>3, <2>1, CsvParserStands DEF o
<1>4. CASE kind = "excel"
  <2>1. o = ExcelParser(doc)
    BY <1>4 DEF ParseDocument
  <2> HIDE DEF o
  <2> QED BY <1>4, <2>1, ExcelParserStands DEF o
<1>5. CASE kind \in {"pdf", "image"} /\ enabled
  <2>1. o = IF doc.readable THEN TextractParser(doc) ELSE FailedOutput
    BY <1>5 DEF ParseDocument, AwsTextractParser
  <2>2. ~InWorkbook
    BY <1>5 DEF InWorkbook
  <2> HIDE DEF o
  <2> QED BY <1>1, <2>1, <2>2, TextractParserStands DEF o
<1>6. CASE kind = "pdf" /\ ~enabled
  <2>1. o = PdfParser(doc)
    BY <1>6 DEF ParseDocument
  <2>2. ~InWorkbook
    BY <1>6 DEF InWorkbook
  <2> HIDE DEF o
  <2> QED BY <2>1, <2>2, PdfParserStands DEF o
<1>7. CASE kind = "image" /\ ~enabled
  <2>1. o = FailedOutput
    BY <1>7 DEF ParseDocument, ImageParser
  <2> HIDE DEF o
  <2> QED BY <1>1, <2>1 DEF o
<1>8. CASE kind \notin {"text", "csv", "excel", "pdf", "image"}
  <2>1. o = FailedOutput
    BY <1>8 DEF ParseDocument
  <2> HIDE DEF o
  <2> QED BY <1>1, <2>1 DEF o
<1> QED BY <1>2, <1>3, <1>4, <1>5, <1>6, <1>7, <1>8
-----------------------------------------------------------------------------
(* What becomes of a row.                                                  *)

\* The line has the words of the row, but for numbers that a CSV's commas join.
Renders(line, row) ==
  /\ \A w \in ToSet(WordsOf(line)) : w \in RowWords(row)
  /\ \A w \in ToSet(WordsOf(row)) :
       w \in ToSet(WordsOf(line)) \/ (w \in Numbers /\ "joined" \in ToSet(WordsOf(line)))

\* Lines and rows of the output are of rows of the part they are said to be of,
PagesRender(o) ==
  \A p \in ToSet(o.pages) :
    /\ p.page \in DOMAIN doc.parts
    /\ \A line \in ToSet(p.text) : \E row \in ToSet(doc.parts[p.page]) : Renders(line, row)
TablesRender(o) ==
  \A t \in ToSet(o.tables) : \A row \in ToSet(t.rows) :
    row \in ToSet(doc.parts[CitedPart(TableReference(t))])

\* and a row of the document becomes a line, or is in a table that is its sheet.
RowsKept(o) ==
  IF InWorkbook
  THEN \A s \in DOMAIN doc.parts : NonBlank(doc.parts[s]) # <<>> =>
         \E t \in ToSet(o.tables) : t.rows = doc.parts[s]
  ELSE \A p \in DOMAIN doc.parts : \A row \in ToSet(doc.parts[p]) : WordsOf(row) # <<>> =>
         \E page \in ToSet(o.pages) : \E line \in ToSet(page.text) : Renders(line, row)

Rendered(o) ==
  PagesRender(o) /\ TablesRender(o) /\ (o.status # "failed" => RowsKept(o))

\* A row renders itself, and so does the line of its words, or of a CSV's text of it.
LEMMA RowRenders ==
  ASSUME NEW row \in Row
  PROVE  /\ Renders(row, row) /\ Renders(<<WordsOf(row)>>, row)
         /\ DetectParserKind(doc) = "csv" => Renders(<<CommaText(row)>>, row)
<1>1. Renders(row, row) /\ Renders(<<WordsOf(row)>>, row)
  BY Alone DEF Renders, RowWords
<1>2. ASSUME DetectParserKind(doc) = "csv" PROVE Renders(<<CommaText(row)>>, row)
  <2>1. WordsOf(<<CommaText(row)>>) = CommaText(row)
    BY Alone
  <2>2. \A w \in ToSet(CommaText(row)) : w \in RowWords(row)
    BY <1>2 DEF RowWords
  <2> QED BY <2>1, <2>2, CommaTextIs DEF Renders
<1> QED BY <1>1, <1>2

\* Pages made of the parts line by line,
LineByLine(texts) ==
  /\ DOMAIN texts = DOMAIN doc.parts
  /\ \A p \in DOMAIN doc.parts :
       /\ DOMAIN texts[p] = DOMAIN doc.parts[p]
       /\ \A r \in DOMAIN doc.parts[p] : Renders(texts[p][r], doc.parts[p][r])

LEMMA PagesOfRender ==
  ASSUME doc \in Documents, NEW texts, LineByLine(texts), NEW o, o.pages = PagesOf(texts)
  PROVE  PagesRender(o) /\ (~InWorkbook => RowsKept(o))
<1> USE DEF LineByLine
<1>1. /\ DOMAIN o.pages = DOMAIN doc.parts
      /\ \A p \in DOMAIN doc.parts : o.pages[p].page = p /\ o.pages[p].text = texts[p]
  BY DEF PagesOf
<1>2. ASSUME NEW x \in ToSet(o.pages)
      PROVE  /\ x.page \in DOMAIN doc.parts
             /\ \A line \in ToSet(x.text) : \E row \in ToSet(doc.parts[x.page]) : Renders(line, row)
  <2>1. PICK p \in DOMAIN doc.parts : x = o.pages[p]
    BY <1>1 DEF ToSet
  <2>2. x.page = p /\ x.text = texts[p]
    BY <1>1, <2>1
  <2>3. ASSUME NEW line \in ToSet(texts[p]) PROVE \E row \in ToSet(doc.parts[p]) : Renders(line, row)
    <3>1. PICK r \in DOMAIN doc.parts[p] : line = texts[p][r]
      BY DEF ToSet
    <3>2. doc.parts[p][r] \in ToSet(doc.parts[p])
      BY DEF ToSet
    <3> QED BY <3>1, <3>2
  <2> QED BY <2>2, <2>3
<1>3. ASSUME NEW p \in DOMAIN doc.parts, NEW row \in ToSet(doc.parts[p])
      PROVE  \E page \in ToSet(o.pages) : \E line \in ToSet(page.text) : Renders(line, row)
  <2>1. PICK r \in DOMAIN doc.parts[p] : row = doc.parts[p][r]
    BY DEF ToSet
  <2>2. o.pages[p] \in ToSet(o.pages) /\ texts[p][r] \in ToSet(o.pages[p].text)
    BY <1>1 DEF ToSet
  <2> QED BY <2>1, <2>2
<1> QED BY <1>2, <1>3 DEF PagesRender, RowsKept

\* or of the parts as they are.
LEMMA PartsRender ==
  ASSUME doc \in Documents, NEW o, o.pages = PagesOf(doc.parts)
  PROVE  PagesRender(o) /\ (~InWorkbook => RowsKept(o))
<1>1. ASSUME NEW p \in DOMAIN doc.parts, NEW r \in DOMAIN doc.parts[p]
      PROVE  Renders(doc.parts[p][r], doc.parts[p][r])
  <2>1. doc.parts[p][r] \in Row
    BY PartsAre, SeqFacts DEF Part
  <2> QED BY <2>1, RowRenders
<1>2. LineByLine(doc.parts)
  BY <1>1 DEF LineByLine
<1> QED BY <1>2, PagesOfRender

\* Without pages and tables nothing is rendered.
LEMMA NothingRenders ==
  ASSUME NEW o
  PROVE  /\ o.pages = <<>> => PagesRender(o)
         /\ o.tables = <<>> => TablesRender(o)
BY Elements DEF PagesRender, TablesRender

\* A text file keeps its lines.
LEMMA TextRenders ==
  ASSUME doc \in Documents, DetectParserKind(doc) = "text"
  PROVE  Rendered(TextParser(doc))
<1> DEFINE o == TextParser(doc)
           part == doc.parts[1]
<1>1. ~InWorkbook /\ Len(doc.parts) = 1 /\ DOMAIN doc.parts = {1} /\ part \in Part
  BY PartsAre, DocumentsAssumption DEF InWorkbook
<1>2. o.pages = PagesOf(<<part>>) /\ o.tables = <<>>
  BY DEF TextParser, EmptyOutput, LineBlocks, NoOutput
<1>3. DOMAIN <<part>> = {1} /\ <<part>>[1] = part
  OBVIOUS
<1>4. \A r \in DOMAIN part : Renders(part[r], part[r])
  BY <1>1, RowsAre, SeqFacts, RowRenders
<1> HIDE DEF o
<1>5. PagesRender(o) /\ RowsKept(o)
  <2> DEFINE texts == <<part>>
  <2>1. LineByLine(texts)
    BY <1>1, <1>3, <1>4 DEF LineByLine
  <2> HIDE DEF texts
  <2>2. o.pages = PagesOf(texts)
    BY <1>2 DEF texts
  <2> QED BY <1>1, <2>1, <2>2, PagesOfRender
<1> QED BY <1>2, <1>5, NothingRenders DEF Rendered, o

\* A CSV file keeps its rows.
LEMMA CsvRenders ==
  ASSUME doc \in Documents, DetectParserKind(doc) = "csv"
  PROVE  Rendered(CsvParser(doc))
<1> DEFINE o == CsvParser(doc)
           part == doc.parts[1]
           rows == NonBlank(part)
           raw == [i \in DOMAIN part |-> <<CommaText(part[i])>>]
<1>1. ~InWorkbook /\ DOMAIN doc.parts = {1} /\ part \in Part
  BY PartsAre, DocumentsAssumption DEF InWorkbook
<1>2. o.pages = PagesOf(<<raw>>) /\ (o.tables = <<>> \/ o.tables = <<Table(1, None, rows, Certain)>>)
  BY DEF CsvParser, EmptyOutput, LineBlocks, NoOutput
<1>3. DOMAIN <<raw>> = {1} /\ <<raw>>[1] = raw
  OBVIOUS
<1>4. DOMAIN raw = DOMAIN part /\ \A r \in DOMAIN part : Renders(raw[r], part[r])
  <2>1. ASSUME NEW r \in DOMAIN part PROVE part[r] \in Row
    BY <1>1, RowsAre, SeqFacts
  <2> QED BY <2>1, RowRenders
<1>5. \A row \in ToSet(rows) : row \in ToSet(part)
  BY <1>1, NonBlankIs
<1> HIDE DEF o, raw, rows
<1>6. PagesRender(o) /\ RowsKept(o)
  <2> DEFINE texts == <<raw>>
  <2>1. LineByLine(texts)
    BY <1>1, <1>3, <1>4 DEF LineByLine
  <2> HIDE DEF texts
  <2>2. o.pages = PagesOf(texts)
    BY <1>2 DEF texts
  <2> QED BY <1>1, <2>1, <2>2, PagesOfRender
<1>7. TablesRender(o)
  <2> DEFINE t == Table(1, None, rows, Certain)
  <2>1. t.rows = rows /\ CitedPart(TableReference(t)) = 1
    BY DEF Table, TableReference, CitedPart, Inline, Reference, None
  <2>2. ToSet(<<t>>) = {t}
    BY Elements
  <2> HIDE DEF t
  <2>3. o.tables = <<t>> => TablesRender(o)
    BY <1>5, <2>1, <2>2 DEF TablesRender
  <2> QED BY <1>2, <2>3, NothingRenders DEF t
<1> QED BY <1>6, <1>7 DEF Rendered, o

\* A workbook keeps its sheets, with their blank rows.
LEMMA ExcelRenders ==
  ASSUME doc \in Documents, DetectParserKind(doc) = "excel"
  PROVE  Rendered(ExcelParser(doc))
<1> DEFINE o == ExcelParser(doc)
           M == Len(FilledSheets)
           T == [i \in DOMAIN FilledSheets |-> Table(None, FilledSheets[i], doc.parts[FilledSheets[i]], Certain)]
<1>0. InWorkbook
  BY DEF InWorkbook
<1>1. /\ o.pages = <<>>
      /\ \/ o.tables = <<>> /\ o.status = "failed"
         \/ o.tables = <<>> /\ FilledCells = <<>>
         \/ o.tables = T
  BY DEF ExcelParser, FilledCells, FilledSheets, AllCells, CellsOf, CellAt, FailedOutput, EmptyOutput, NoOutput
<1>2. /\ M \in Nat /\ DOMAIN FilledSheets = 1..M
      /\ \A i \in 1..M : FilledSheets[i] \in ToSet(FilledSheets)
  BY FilledSheetsAre, SeqFacts
<1>3. /\ DOMAIN T = 1..M
      /\ \A i \in 1..M : /\ T[i].rows = doc.parts[FilledSheets[i]]
                         /\ CitedPart(TableReference(T[i])) = FilledSheets[i]
  <2> HIDE DEF M
  <2> QED BY <1>2 DEF Table, TableReference, CitedPart, Inline, Reference
<1> HIDE DEF o, T, M
<1>4. PagesRender(o)
  BY <1>1, NothingRenders
<1>5. o.tables = <<>> => TablesRender(o)
  BY NothingRenders
<1>6. o.tables = T => Rendered(o)
  <2> SUFFICES ASSUME o.tables = T PROVE Rendered(o)
    OBVIOUS
  <2>1. TablesRender(o)
    <3> SUFFICES ASSUME NEW t \in ToSet(T), NEW row \in ToSet(t.rows)
                 PROVE  row \in ToSet(doc.parts[CitedPart(TableReference(t))])
      BY DEF TablesRender
    <3>1. PICK i \in 1..M : t = T[i]
      BY <1>3 DEF ToSet
    <3> QED BY <1>3, <3>1
  <2>2. RowsKept(o)
    <3> SUFFICES ASSUME NEW s \in DOMAIN doc.parts, NonBlank(doc.parts[s]) # <<>>
                 PROVE  \E t \in ToSet(T) : t.rows = doc.parts[s]
      BY <1>0 DEF RowsKept
    <3>1. s \in ToSet(FilledSheets)
      BY FilledSheetsAre
    <3>2. PICK i \in 1..M : s = FilledSheets[i]
      BY <1>2, <3>1 DEF ToSet
    <3>3. T[i] \in ToSet(T) /\ T[i].rows = doc.parts[s]
      BY <1>3, <3>2 DEF ToSet
    <3> QED BY <3>3
  <2> QED BY <1>4, <2>1, <2>2 DEF Rendered
<1>7. o.tables = <<>> /\ FilledCells = <<>> => Rendered(o)
  <2> SUFFICES ASSUME o.tables = <<>>, FilledCells = <<>> PROVE Rendered(o)
    OBVIOUS
  <2>1. RowsKept(o)
    <3> SUFFICES ASSUME NEW s \in DOMAIN doc.parts, NonBlank(doc.parts[s]) # <<>> PROVE FALSE
      BY <1>0 DEF RowsKept
    <3>1. doc.parts[s] \in Part /\ NonBlank(doc.parts[s]) \in Part
      BY PartsAre, NonBlankIs
    <3>2. NonBlank(doc.parts[s])[1] \in ToSet(NonBlank(doc.parts[s]))
      <4> DEFINE lines == NonBlank(doc.parts[s])
      <4>1. 1 \in DOMAIN lines
        BY <3>1 DEF Part
      <4> QED BY <4>1 DEF ToSet
    <3>3. PICK row \in ToSet(doc.parts[s]) : WordsOf(row) # <<>>
      BY <3>1, <3>2, NonBlankIs
    <3>4. row \in Row
      BY <3>1, RowsAre
    <3>5. PICK w : w \in ToSet(WordsOf(row))
      <4> DEFINE words == WordsOf(row)
      <4>1. words \in Cell /\ words # <<>>
        BY <3>3, <3>4, WordsAre
      <4> HIDE DEF words
      <4>2. 1 \in DOMAIN words
        BY <4>1 DEF Cell
      <4>3. words[1] \in ToSet(words)
        BY <4>2 DEF ToSet
      <4> QED BY <4>3 DEF words
    <3>6. PICK c \in DOMAIN row : w \in ToSet(row[c])
      BY <3>4, <3>5, WordsAre
    <3>7. PICK r \in DOMAIN doc.parts[s] : row = doc.parts[s][r]
      BY DEF ToSet
    <3>8. c \in DOMAIN doc.parts[s][r] /\ doc.parts[s][r][c] # <<>>
      BY <3>6, <3>7, Elements
    <3>9. CellAt(s, r, c) \in ToSet(FilledCells)
      BY <3>8, FilledCellsAre
    <3> QED BY <3>9, Elements
  <2> QED BY <1>4, <1>5, <2>1 DEF Rendered
<1>8. o.tables = <<>> /\ o.status = "failed" => Rendered(o)
  BY <1>4, <1>5 DEF Rendered
<1> QED BY <1>1, <1>6, <1>7, <1>8 DEF o

\* A PDF keeps its pages.
LEMMA PdfRenders ==
  ASSUME doc \in Documents, ~InWorkbook
  PROVE  Rendered(PdfParser(doc))
<1> DEFINE o == PdfParser(doc)
<1>1. /\ o.tables = <<>>
      /\ \/ o.pages = <<>> /\ o.status = "failed"
         \/ o.pages = PagesOf(doc.parts)
  BY DEF PdfParser, FailedOutput, EmptyOutput, NoOutput
<1> HIDE DEF o
<1> QED BY <1>1, PartsRender, NothingRenders DEF Rendered, o

\* A report of Textract keeps the lines,
LEMMA TextractRenders ==
  ASSUME doc \in Documents, ~InWorkbook
  PROVE  Rendered(TextractParser(doc))
<1> DEFINE o == TextractParser(doc)
           M == Len(PagedParts)
           K == Len(TabledParts)
           P == [i \in DOMAIN PagedParts |->
                   [page |-> PagedParts[i], text |-> Lines(doc.parts[PagedParts[i]])]]
           T == [i \in DOMAIN TabledParts |->
                   Table(TabledParts[i], None, TableRows(doc, doc.parts[TabledParts[i]]),
                         NormalizeConfidence(doc.percent))]
<1>1. \/ MarkedLines = <<>> /\ o.pages = <<>> /\ o.tables = <<>>
      \/ o.pages = P /\ o.tables = T
  <2>1. MarkedLines = <<>> => o.pages = <<>> /\ o.tables = <<>>
    BY TextractIs DEF EmptyOutput, NoOutput
  <2>2. MarkedLines # <<>> => o.pages = P /\ o.tables = T
    BY TextractIs
  <2> QED BY <2>1, <2>2
<1>2. /\ M \in Nat /\ DOMAIN PagedParts = 1..M /\ \A i \in 1..M : PagedParts[i] \in DOMAIN doc.parts
      /\ K \in Nat /\ DOMAIN TabledParts = 1..K /\ \A i \in 1..K : TabledParts[i] \in DOMAIN doc.parts
  BY PartsChosen, SeqFacts
<1>3. /\ DOMAIN P = 1..M
      /\ \A i \in 1..M : P[i].page = PagedParts[i] /\ P[i].text = Lines(doc.parts[PagedParts[i]])
  <2> HIDE DEF M
  <2> QED BY <1>2
<1>4. /\ DOMAIN T = 1..K
      /\ \A i \in 1..K : /\ T[i].page = TabledParts[i] /\ T[i].sheet = None
                         /\ T[i].rows = TableRows(doc, doc.parts[TabledParts[i]])
  <2> HIDE DEF K
  <2> QED BY <1>2 DEF Table
<1> HIDE DEF o, P, T, M, K
<1>5. o.pages = P => PagesRender(o)
  <2> SUFFICES ASSUME NEW x \in ToSet(P)
               PROVE  /\ x.page \in DOMAIN doc.parts
                      /\ \A line \in ToSet(x.text) : \E row \in ToSet(doc.parts[x.page]) : Renders(line, row)
    BY DEF PagesRender
  <2>1. PICK i \in 1..M : x = P[i]
    BY <1>3 DEF ToSet
  <2> DEFINE p == PagedParts[i]
  <2>2. p \in DOMAIN doc.parts /\ x.page = p /\ x.text = Lines(doc.parts[p])
    BY <1>2, <1>3, <2>1
  <2> HIDE DEF p
  <2>3. doc.parts[p] \in Part
    BY <2>2, PartsAre
  <2>4. ASSUME NEW line \in ToSet(Lines(doc.parts[p]))
        PROVE  \E row \in ToSet(doc.parts[p]) : Renders(line, row)
    <3>1. PICK row \in ToSet(doc.parts[p]) : line = <<WordsOf(row)>>
      BY <2>3, LinesAre
    <3> QED BY <2>3, <3>1, RowsAre, RowRenders
  <2> QED BY <2>2, <2>4
<1>6. o.tables = T => TablesRender(o)
  <2> SUFFICES ASSUME NEW t \in ToSet(T), NEW row \in ToSet(t.rows)
               PROVE  row \in ToSet(doc.parts[CitedPart(TableReference(t))])
    BY DEF TablesRender
  <2>1. PICK i \in 1..K : t = T[i]
    BY <1>4 DEF ToSet
  <2> DEFINE p == TabledParts[i]
  <2>2. p \in DOMAIN doc.parts /\ t.page = p /\ t.rows = TableRows(doc, doc.parts[p])
    BY <1>2, <1>4, <2>1
  <2> HIDE DEF p
  <2>3. doc.parts[p] \in Part /\ p # None
    BY <2>2, PartsAre DEF None
  <2>4. CitedPart(TableReference(t)) = p
    BY <2>2, <2>3 DEF CitedPart, TableReference, Inline, Reference
  <2>5. \A x \in ToSet(TableRows(doc, doc.parts[p])) : x \in ToSet(doc.parts[p])
    BY <2>3, NonBlankIs, Elements DEF TableRows
  <2> QED BY <2>2, <2>4, <2>5
<1>7. o.pages = P => RowsKept(o)
  <2> SUFFICES ASSUME NEW p \in DOMAIN doc.parts, NEW row \in ToSet(doc.parts[p]), WordsOf(row) # <<>>
               PROVE  \E page \in ToSet(P) : \E line \in ToSet(page.text) : Renders(line, row)
    BY DEF RowsKept
  <2>1. row \in Row /\ <<WordsOf(row)>> \in ToSet(Lines(doc.parts[p]))
    BY PartsAre, RowsAre, LinesAre
  <2>2. Lines(doc.parts[p]) # <<>>
    BY <2>1, Elements
  <2>3. p \in ToSet(PagedParts)
    BY <2>2, PartsChosen
  <2>4. PICK i \in 1..M : p = PagedParts[i]
    BY <1>2, <2>3 DEF ToSet
  <2>5. P[i] \in ToSet(P) /\ <<WordsOf(row)>> \in ToSet(P[i].text)
    BY <1>3, <2>1, <2>4 DEF ToSet
  <2> QED BY <2>1, <2>5, RowRenders
<1>8. MarkedLines = <<>> => RowsKept(o)
  <2> SUFFICES ASSUME NEW p \in DOMAIN doc.parts, NEW row \in ToSet(doc.parts[p]), WordsOf(row) # <<>>,
                      MarkedLines = <<>>
               PROVE  FALSE
    BY DEF RowsKept
  <2>1. <<WordsOf(row)>> \in ToSet(Lines(doc.parts[p]))
    BY PartsAre, LinesAre
  <2>2. <<p, <<WordsOf(row)>>>> \in ToSet(MarkedLines)
    BY <2>1, MarkedLinesAre
  <2> QED BY <2>2, Elements
<1> QED BY <1>1, <1>5, <1>6, <1>7, <1>8, NothingRenders DEF Rendered, o

\* and so does any parser that reads the document.
LEMMA ParseRenders ==
  ASSUME doc \in Documents, NEW enabled \in BOOLEAN
  PROVE  Rendered(ParseDocument(doc, enabled))
<1> DEFINE o == ParseDocument(doc, enabled)
           kind == DetectParserKind(doc)
<1>1. Rendered(FailedOutput)
  <2>1. FailedOutput.status = "failed" /\ FailedOutput.pages = <<>> /\ FailedOutput.tables = <<>>
    BY DEF FailedOutput, NoOutput
  <2> QED BY <2>1, NothingRenders DEF Rendered
<1>2. CASE kind \in {"text", "csv", "excel"}
  <2>1. \/ kind = "text" /\ o = TextParser(doc)
        \/ kind = "csv" /\ o = CsvParser(doc)
        \/ kind = "excel" /\ o = ExcelParser(doc)
    BY <1>2 DEF ParseDocument
  <2> HIDE DEF o
  <2> QED BY <2>1, TextRenders, CsvRenders, ExcelRenders DEF o
<1>3. CASE kind \notin {"text", "csv", "excel"}
  <2>1. o = FailedOutput \/ o = PdfParser(doc) \/ o = TextractParser(doc)
    BY <1>3 DEF ParseDocument, AwsTextractParser, ImageParser
  <2>2. ~InWorkbook
    BY <1>3 DEF InWorkbook
  <2> HIDE DEF o
  <2> QED BY <1>1, <2>1, <2>2, PdfRenders, TextractRenders DEF o
<1> QED BY <1>2, <1>3
-----------------------------------------------------------------------------
(* What a target gets: nothing, or the first hit of the first method that  *)
(* has one.                                                                *)

\* There are five methods.
LEMMA SupportedIs ==
  /\ Supported = {"key_value_pair", "regex", "anchor_text", "table_lookup", "excel_cell"}
  /\ IsFiniteSet(Supported)
<1>1. Supported = {"key_value_pair", "regex", "anchor_text", "table_lookup", "excel_cell"}
  BY DEF Supported, MethodConfidence
<1>2. /\ IsFiniteSet({"key_value_pair"})
      /\ IsFiniteSet({"key_value_pair", "regex"})
      /\ IsFiniteSet({"key_value_pair", "regex", "anchor_text"})
      /\ IsFiniteSet({"key_value_pair", "regex", "anchor_text", "table_lookup"})
      /\ IsFiniteSet({"key_value_pair", "regex", "anchor_text", "table_lookup", "excel_cell"})
  <2>1. IsFiniteSet({"key_value_pair"})
    BY FS_Singleton
  <2>2. IsFiniteSet({"key_value_pair"} \cup {"regex"})
    BY <2>1, FS_AddElement
  <2>3. IsFiniteSet({"key_value_pair", "regex"} \cup {"anchor_text"})
    <3>1. {"key_value_pair", "regex"} = {"key_value_pair"} \cup {"regex"}
      OBVIOUS
    <3> QED BY <2>2, <3>1, FS_AddElement
  <2>4. IsFiniteSet({"key_value_pair", "regex", "anchor_text"} \cup {"table_lookup"})
    <3>1. {"key_value_pair", "regex", "anchor_text"} = {"key_value_pair", "regex"} \cup {"anchor_text"}
      OBVIOUS
    <3> QED BY <2>3, <3>1, FS_AddElement
  <2>5. IsFiniteSet({"key_value_pair", "regex", "anchor_text", "table_lookup"} \cup {"excel_cell"})
    <3>1. {"key_value_pair", "regex", "anchor_text", "table_lookup"}
            = {"key_value_pair", "regex", "anchor_text"} \cup {"table_lookup"}
      OBVIOUS
    <3> QED BY <2>4, <3>1, FS_AddElement
  <2>6. /\ {"key_value_pair", "regex"} = {"key_value_pair"} \cup {"regex"}
        /\ {"key_value_pair", "regex", "anchor_text"} = {"key_value_pair", "regex"} \cup {"anchor_text"}
        /\ {"key_value_pair", "regex", "anchor_text", "table_lookup"}
             = {"key_value_pair", "regex", "anchor_text"} \cup {"table_lookup"}
        /\ {"key_value_pair", "regex", "anchor_text", "table_lookup", "excel_cell"}
             = {"key_value_pair", "regex", "anchor_text", "table_lookup"} \cup {"excel_cell"}
    OBVIOUS
  <2> QED BY <2>1, <2>2, <2>3, <2>4, <2>5, <2>6
<1> QED BY <1>1, <1>2

\* A set in order is a sequence, as long as the set.
LEMMA MethodsAre ==
  ASSUME NEW t
  PROVE  /\ Cardinality(t.methods \cap Supported) \in Nat
         /\ DOMAIN OrderedMethods(t) = 1..Cardinality(t.methods \cap Supported)
<1>1. IsFiniteSet(t.methods \cap Supported)
  <2>1. t.methods \cap Supported \in SUBSET Supported
    OBVIOUS
  <2> QED BY <2>1, SupportedIs, FS_Subset
<1>2. Cardinality(t.methods \cap Supported) \in Nat
  BY <1>1, FS_CardinalityType
<1>3. DOMAIN OrderedMethods(t) = 1..Cardinality(t.methods \cap Supported)
  BY DEF OrderedMethods, InOrder
<1> QED BY <1>2, <1>3

\* A method's first hit, if it has a value.
HitsOf(method, o, t) ==
  CASE method = "key_value_pair" -> KeyValueHits(o, t)
    [] method = "regex" -> RowBoundHits(o, t) \o RegexHits(o, t)
    [] method = "anchor_text" -> RowBoundHits(o, t) \o AnchorHits(o, t)
    [] method = "table_lookup" -> RowBoundHits(o, t) \o TableHits(o, t)
    [] method = "excel_cell" -> ExcelHits(o, t)

\* The first hit is kept if it has a value.
LEMMA SelectFirst ==
  ASSUME NEW hits
  PROVE  LET s == Select(First(hits), LAMBDA hit : hit.raw # <<>>)
         IN  IF hits # <<>> /\ hits[1].raw # <<>> THEN s = <<hits[1]>> ELSE s = <<>>
<1> DEFINE s == Select(First(hits), LAMBDA hit : hit.raw # <<>>)
           f == First(hits)
           body == [i \in DOMAIN f |-> IF f[i].raw # <<>> THEN <<f[i]>> ELSE <<>>]
<1>1. s = FlattenSeq(body)
  BY DEF Select, Each
<1>2. CASE hits = <<>>
  <2>1. f = <<>>
    BY <1>2 DEF First
  <2>2. body = <<>>
    <3> HIDE DEF f
    <3>1. DOMAIN f = {}
      BY <2>1
    <3>2. body = [i \in {} |-> <<>>]
      BY <3>1
    <3>3. [i \in {} |-> <<>>] = <<>>
      OBVIOUS
    <3> QED BY <3>2, <3>3
  <2>3. FlattenSeq(<<>>) = <<>>
    <3>1. <<>> \in [1..0 -> Seq({})]
      OBVIOUS
    <3>2. InTurn(<<>>, FlattenSeq(<<>>), 0) /\ FlattenSeq(<<>>) \in Seq({})
      BY <3>1, Flatten
    <3> QED BY <3>2
  <2> HIDE DEF body
  <2> QED BY <1>1, <1>2, <2>2, <2>3
<1>3. CASE hits # <<>>
  <2>1. f = <<hits[1]>>
    BY <1>3 DEF First
  <2> DEFINE h == hits[1]
             b == IF h.raw # <<>> THEN <<h>> ELSE <<>>
  <2>2. body = <<b>>
    <3> HIDE DEF f, h
    <3>1. DOMAIN f = {1} /\ f[1] = h
      BY <2>1 DEF h
    <3> QED BY <3>1
  <2>3. s = b
    <3> HIDE DEF body, b, s
    <3> QED BY <1>1, <2>2, FlattenOne
  <2> QED BY <1>3, <2>3
<1> QED BY <1>2, <1>3

\* A method gives its first hit, if that has a value, and nothing otherwise.
LEMMA DispatchIs ==
  ASSUME NEW m, NEW o, NEW t
  PROVE  LET hits == HitsOf(m, o, t)
         IN  IF hits # <<>> /\ hits[1].raw # <<>> THEN Dispatch(m, o, t) = <<hits[1]>>
             ELSE Dispatch(m, o, t) = <<>>
<1> DEFINE hits == HitsOf(m, o, t)
<1>1. Dispatch(m, o, t) = Select(First(hits), LAMBDA hit : hit.raw # <<>>)
  BY DEF Dispatch, HitsOf
<1> HIDE DEF hits
<1> QED BY <1>1, SelectFirst DEF hits

\* h is what the i-th method of the target finds, and those before find nothing.
FoundBy(i, h, o, t) ==
  /\ HitsOf(OrderedMethods(t)[i], o, t) # <<>>
  /\ h = HitsOf(OrderedMethods(t)[i], o, t)[1] /\ h.raw # <<>>
  /\ \A j \in 1..(i - 1) : Dispatch(OrderedMethods(t)[j], o, t) = <<>>

\* A candidate without a value, or the first hit of the first method that gives one.
LEMMA TargetGets ==
  ASSUME NEW o, NEW t
  PROVE  LET c == GenerateForTarget(o, t)
         IN  \/ c = Unfound(t, UnsupportedConfidence, {"unsupported_extraction_method"})
             \/ c = Unfound(t, MissingConfidence, NotFoundFlags(t))
             \/ \E i \in DOMAIN OrderedMethods(t) : \E h :
                  FoundBy(i, h, o, t) /\ c = FoundCandidate(o, t, h)
<1> DEFINE methods == OrderedMethods(t)
           N == Cardinality(t.methods \cap Supported)
           body == [i \in DOMAIN methods |-> Dispatch(methods[i], o, t)]
           hits == FlattenSeq(body)
           c == GenerateForTarget(o, t)
<1>1. c = IF methods = <<>> THEN Unfound(t, UnsupportedConfidence, {"unsupported_extraction_method"})
          ELSE IF ShouldSuppress(o, t) \/ hits = <<>>
          THEN Unfound(t, MissingConfidence, NotFoundFlags(t))
          ELSE FoundCandidate(o, t, hits[1])
  BY DEF GenerateForTarget, Each
<1>2. N \in Nat /\ DOMAIN methods = 1..N
  BY MethodsAre
<1>3. ASSUME NEW i \in 1..N PROVE IsSeq(Dispatch(methods[i], o, t))
  <2> DEFINE s == Dispatch(methods[i], o, t)
             h == HitsOf(methods[i], o, t)[1]
  <2>1. s = <<h>> \/ s = <<>>
    BY DispatchIs
  <2> HIDE DEF s, h
  <2>2. <<h>> \in Seq({h}) /\ <<>> \in Seq({h})
    OBVIOUS
  <2>3. IsSeq(<<h>>) /\ IsSeq(<<>>)
    BY <2>2, SeqIsSeq
  <2> QED BY <2>1, <2>3 DEF s
<1>4. /\ DOMAIN body = 1..N /\ body = [i \in 1..N |-> body[i]]
      /\ \A i \in 1..N : body[i] = Dispatch(methods[i], o, t)
  <2> HIDE DEF N, methods
  <2> QED BY <1>2
<1> HIDE DEF c, hits, body, N, methods
<1>5. InTurn(body, FlattenSeq(body), N)
  BY <1>2, <1>3, <1>4, Gather
<1>6. CASE c = FoundCandidate(o, t, hits[1]) /\ hits # <<>>
  <2>1. PICK i \in 1..N : /\ body[i] # <<>> /\ hits[1] = body[i][1]
                          /\ \A j \in 1..(i - 1) : body[j] = <<>>
    BY <1>5, <1>6 DEF InTurn, hits
  <2> DEFINE found == HitsOf(methods[i], o, t)
  <2>2. found # <<>> /\ found[1].raw # <<>> /\ body[i] = <<found[1]>>
    <3>1. Dispatch(methods[i], o, t) # <<>>
      BY <1>4, <2>1
    <3> QED BY <1>4, <3>1, DispatchIs
  <2>3. \A j \in 1..(i - 1) : Dispatch(methods[j], o, t) = <<>>
    <3> SUFFICES ASSUME NEW j \in 1..(i - 1) PROVE Dispatch(methods[j], o, t) = <<>>
      OBVIOUS
    <3>1. N \in Nat /\ i \in 1..N
      BY <1>2
    <3>2. j \in 1..N
      BY <3>1
    <3>3. body[j] = <<>>
      BY <2>1
    <3> QED BY <1>4, <3>2, <3>3
  <2>4. hits[1] = found[1]
    <3> HIDE DEF found
    <3>1. <<found[1]>>[1] = found[1]
      OBVIOUS
    <3> QED BY <2>1, <2>2, <3>1
  <2>5. FoundBy(i, hits[1], o, t)
    BY <2>2, <2>3, <2>4 DEF FoundBy, methods
  <2>6. i \in DOMAIN OrderedMethods(t)
    BY <1>2, <2>1 DEF methods
  <2> QED BY <1>6, <2>5, <2>6 DEF c
<1> QED BY <1>1, <1>6 DEF c

-----------------------------------------------------------------------------
(* The flags.                                                              *)

\* The flags of any candidate, whatever the output.
LEMMA FlagsAreTrue ==
  ASSUME NEW o, NEW t
  PROVE  LET c == GenerateForTarget(o, t)
         IN  /\ "field_not_found" \in c.flags => c.raw = <<>>
             /\ c.raw = <<>> /\ t.required = "core" => c.flags # {}
             /\ "unit_missing" \in c.flags
                  <=> c.raw # <<>> /\ IsNumeric(t) /\ t.expectedUnits # <<>> /\ c.unit = NoUnit
<1> DEFINE c == GenerateForTarget(o, t)
<1>1. CASE c = Unfound(t, UnsupportedConfidence, {"unsupported_extraction_method"})
  <2>1. c.raw = <<>> /\ c.flags = {"unsupported_extraction_method"}
    BY <1>1 DEF Unfound, Candidate
  <2> QED BY <2>1
<1>2. CASE c = Unfound(t, MissingConfidence, NotFoundFlags(t))
  <2>1. c.raw = <<>> /\ c.flags = NotFoundFlags(t)
    BY <1>2 DEF Unfound, Candidate
  <2> QED BY <2>1 DEF NotFoundFlags
<1>3. CASE \E i \in DOMAIN OrderedMethods(t) : \E h : FoundBy(i, h, o, t) /\ c = FoundCandidate(o, t, h)
  <2>1. PICK h : h.raw # <<>> /\ c = FoundCandidate(o, t, h)
    BY <1>3 DEF FoundBy
  <2> DEFINE plain == Normalize(h.raw, t)
             unit == InferUnit(o, t, h, plain.unit)
  <2>2. /\ c.raw = h.raw /\ c.unit = unit
        /\ c.flags = IF unit # NoUnit THEN plain.flags \ {"unit_missing"} ELSE plain.flags
    BY <2>1 DEF FoundCandidate, Candidate
  <2>3. /\ "unit_missing" \in plain.flags <=> IsNumeric(t) /\ t.expectedUnits # <<>> /\ plain.unit = NoUnit
        /\ "field_not_found" \notin plain.flags
    BY DEF Normalize
  <2>4. unit = NoUnit => plain.unit = NoUnit
    BY DEF InferUnit
  <2> HIDE DEF c, unit, plain
  <2> QED BY <2>1, <2>2, <2>3, <2>4 DEF c
<1> QED BY <1>1, <1>2, <1>3, TargetGets
-----------------------------------------------------------------------------
(* A reported quantity is kept.                                            *)

\* Words picked out of a text are words of it.
LEMMA SelectedWords ==
  ASSUME NEW words \in Cell, NEW body, body = [i \in DOMAIN words |-> body[i]],
         \A i \in DOMAIN words : body[i] \in {<<>>, <<words[i]>>}
  PROVE  FlattenSeq(body) \in Cell /\ \A w \in ToSet(FlattenSeq(body)) : w \in ToSet(words)
<1>1. words \in Seq(STRING)
  BY DEF Cell
<1>2. /\ FlattenSeq(body) \in Seq(STRING)
      /\ \A x : x \in ToSet(FlattenSeq(body)) <=> \E i \in DOMAIN words : x = words[i] /\ body[i] # <<>>
  BY <1>1, Sift
<1> QED BY <1>2 DEF Cell, ToSet

\* So are the numbers taken for quantities.
LEMMA TokensAre ==
  ASSUME NEW words \in Cell, NEW around, NEW t
  PROVE  /\ QuantityTokens(words, around, t) \in Cell
         /\ \A w \in ToSet(QuantityTokens(words, around, t)) : w \in ToSet(words) /\ w \in Numbers
<1> DEFINE keep(w) == w \in Numbers /\ ~IsLikelyBad(<<w>>, around, t)
           body == [i \in DOMAIN words |-> IF keep(words[i]) THEN <<words[i]>> ELSE <<>>]
<1>1. QuantityTokens(words, around, t) = FlattenSeq(body)
  BY DEF QuantityTokens, Select, Each
<1>2. /\ body = [i \in DOMAIN words |-> body[i]]
      /\ \A i \in DOMAIN words : body[i] \in {<<>>, <<words[i]>>}
      /\ \A i \in DOMAIN words : body[i] # <<>> => words[i] \in Numbers
  OBVIOUS
<1> HIDE DEF body
<1>3. words \in Seq(STRING)
  BY DEF Cell
<1>4. /\ FlattenSeq(body) \in Seq(STRING)
      /\ \A x : x \in ToSet(FlattenSeq(body)) <=> \E i \in DOMAIN words : x = words[i] /\ body[i] # <<>>
  BY <1>2, <1>3, Sift
<1>5. ASSUME NEW w \in ToSet(FlattenSeq(body)) PROVE w \in ToSet(words) /\ w \in Numbers
  <2>1. PICK i \in DOMAIN words : w = words[i] /\ body[i] # <<>>
    BY <1>4
  <2> QED BY <1>2, <2>1 DEF ToSet
<1> QED BY <1>1, <1>4, <1>5 DEF Cell

\* A number that the guard lets pass is taken.
LEMMA NumberIsTaken ==
  ASSUME NEW words \in Cell, NEW around, NEW t,
         NEW w \in ToSet(words), w \in Numbers, ~IsLikelyBad(<<w>>, around, t)
  PROVE  w \in ToSet(QuantityTokens(words, around, t))
<1> DEFINE keep(x) == x \in Numbers /\ ~IsLikelyBad(<<x>>, around, t)
           body == [i \in DOMAIN words |-> IF keep(words[i]) THEN <<words[i]>> ELSE <<>>]
<1>1. QuantityTokens(words, around, t) = FlattenSeq(body)
  BY DEF QuantityTokens, Select, Each
<1>2. PICK i \in DOMAIN words : w = words[i]
  BY DEF ToSet
<1>3. body[i] # <<>>
  <2>1. body[i] = <<words[i]>>
    BY <1>2
  <2> HIDE DEF body
  <2> QED BY <2>1
<1>4. /\ body = [j \in DOMAIN words |-> body[j]]
      /\ \A j \in DOMAIN words : body[j] \in {<<>>, <<words[j]>>}
  <2> HIDE DEF keep
  <2> QED OBVIOUS
<1> HIDE DEF body
<1>5. words \in Seq(STRING)
  BY DEF Cell
<1>6. \A x : x \in ToSet(FlattenSeq(body)) <=> \E j \in DOMAIN words : x = words[j] /\ body[j] # <<>>
  BY <1>4, <1>5, Sift
<1> QED BY <1>1, <1>2, <1>3, <1>6

\* Identifiers are not what this text is about, or not only.
NotOnlyIds(words) == Mentions(words, IdLabels) => Mentions(words, QuantityKeywords)

\* The guard lets a plain number pass, and a joined one, in a text with no other words than these.
LEMMA PlainIsGood ==
  ASSUME NEW some, NEW around, \A x \in ToSet(around) : x \in some \/ x = "joined",
         NotOnlyIds(around), NEW t, NEW w, IsPlainNumber(w, some) \/ w = "joined"
  PROVE  w \in Numbers /\ ~IsLikelyBad(<<w>>, around, t)
<1>1. /\ "joined" \in Numbers /\ Number["joined"] = 128
      /\ "joined" \notin DOMAIN DateParts /\ "joined" \notin DOMAIN NameParts
  BY DEF Numbers, Number, DateParts, NameParts
<1>2. /\ \A d \in DOMAIN DateParts : "joined" \notin DateParts[d]
      /\ \A n \in DOMAIN NameParts : "joined" \notin NameParts[n]
  <2>1. DOMAIN DateParts = {"fifth"} /\ DateParts["fifth"] = {"five"}
    BY DEF DateParts
  <2>2. DOMAIN NameParts = {"r12", "r34"} /\ NameParts["r12"] = {"twelve"} /\ NameParts["r34"] = {}
    BY DEF NameParts
  <2> QED BY <2>1, <2>2
<1>3. w \in Numbers /\ Number[w] \notin 1900..2100
  <2>1. CASE w = "joined"
    BY <1>1, <2>1
  <2> QED BY <2>1 DEF IsPlainNumber
<1>4. /\ ~\E d \in ToSet(around) \cap DOMAIN DateParts : w \in DateParts[d]
      /\ ~\E n \in ToSet(around) \cap DOMAIN NameParts : w \in NameParts[n]
  <2>1. CASE w = "joined"
    BY <1>2, <2>1
  <2>2. CASE IsPlainNumber(w, some)
    BY <1>1, <2>2 DEF IsPlainNumber
  <2> QED BY <2>1, <2>2
<1>5. <<w>>[1] = w
  OBVIOUS
<1> QED BY <1>3, <1>4, <1>5 DEF IsLikelyBad, NotOnlyIds

\* A row that reports a quantity is a line of the context, where suppression looks.
LEMMA QuantityIsKept ==
  ASSUME doc \in Documents, ~InWorkbook, NEW o, Complete(o), ReportsQuantity, NEW t
  PROVE  ~ShouldSuppress(o, t)
<1> DEFINE any == [field |-> "activity_quantity", type |-> "quantity"]
<1>0. PICK p \in DOMAIN doc.parts : \E line \in ToSet(doc.parts[p]) :
        /\ ToSet(WordsOf(line)) \cap QuantityKeywords # {}
        /\ \E w \in ToSet(WordsOf(line)) : IsPlainNumber(w, ToSet(WordsOf(line))) /\ Number[w] > 0
  BY DEF ReportsQuantity
<1>1. PICK line \in ToSet(doc.parts[p]) :
        /\ ToSet(WordsOf(line)) \cap QuantityKeywords # {}
        /\ \E w \in ToSet(WordsOf(line)) : IsPlainNumber(w, ToSet(WordsOf(line))) /\ Number[w] > 0
  BY <1>0
<1> DEFINE row == WordsOf(line)
           tokens == QuantityTokens(row, row, any)
<1>2. PICK w \in ToSet(row) : IsPlainNumber(w, ToSet(row)) /\ Number[w] > 0
  BY <1>1
<1>3. line \in Row /\ row \in Cell
  BY PartsAre, RowsAre, WordsAre
<1>4. Mentions(row, QuantityKeywords)
  BY <1>1 DEF Mentions
<1>5. row # <<>>
  BY <1>2, Elements
<1>6. row \in ContextLines(o, None)
  <2>1. row \in ContextLines(o, p)
    BY <1>5 DEF Complete
  <2> QED BY <2>1, InContext
<1> HIDE DEF row, any
<1>7. w \in Numbers /\ ~IsLikelyBad(<<w>>, row, any)
  BY <1>2, <1>4, PlainIsGood DEF NotOnlyIds
<1>8. w \in ToSet(tokens) \cap Numbers
  BY <1>3, <1>7, NumberIsTaken
<1> HIDE DEF tokens
<1>9. HasPositiveQuantity(o)
  BY <1>2, <1>4, <1>6, <1>8 DEF HasPositiveQuantity, tokens, any
<1> QED BY <1>9 DEF ShouldSuppress
-----------------------------------------------------------------------------
(* What is put in order.                                                   *)

\* The methods of a target: a priority is a number, and no two are the same.
PriorityOf(m, t) ==
  (CASE m = "key_value_pair" -> 90 [] m = "regex" -> 85 [] m = "anchor_text" -> 80
     [] m = "table_lookup" -> 75 [] m = "excel_cell" -> 70)
  + (IF HasRecord(t) /\ m = "table_lookup" THEN 30 ELSE 0)

\* The methods of a target, each once, the one with i - 1 better ones at i.
LEMMA MethodsInOrder ==
  ASSUME NEW t, NEW i \in DOMAIN OrderedMethods(t)
  PROVE  /\ OrderedMethods(t)[i] \in t.methods \cap Supported
         /\ Cardinality({m \in t.methods \cap Supported :
                           MethodPriority(m, t) > MethodPriority(OrderedMethods(t)[i], t)}) = i - 1
<1> DEFINE S == t.methods \cap Supported
           R == {p \in S \X S : MethodPriority(p[1], t) > MethodPriority(p[2], t)}
           ahead(x) == {y \in S : MethodPriority(y, t) > MethodPriority(x, t)}
           chosen == CHOOSE x \in S : Cardinality(ahead(x)) = i - 1
<1>1. IsFiniteSet(S)
  <2>1. S \in SUBSET Supported
    OBVIOUS
  <2> HIDE DEF S
  <2> QED BY <2>1, SupportedIs, FS_Subset
<1>2. i \in 1..Cardinality(S) /\ OrderedMethods(t)[i] = chosen
  <2>1. OrderedMethods(t) =
          [j \in 1..Cardinality(S) |-> CHOOSE x \in S : Cardinality(ahead(x)) = j - 1]
    BY DEF OrderedMethods, InOrder
  <2> HIDE DEF S, ahead
  <2> QED BY <2>1 DEF chosen
<1>3. \A m \in Supported : MethodPriority(m, t) = PriorityOf(m, t)
  BY SupportedIs DEF MethodPriority, PriorityOf, MethodConfidence
<1>4. \A x, y : <<x, y>> \in R <=> x \in S /\ y \in S /\ MethodPriority(x, t) > MethodPriority(y, t)
  OBVIOUS
<1>5. Orders(R, S)
  <2>1. \A m \in S : MethodPriority(m, t) \in Int
    BY <1>3, SupportedIs DEF PriorityOf
  <2>2. \A x, y \in S : x # y => MethodPriority(x, t) # MethodPriority(y, t)
    BY <1>3, SupportedIs DEF PriorityOf
  <2> HIDE DEF R, S
  <2>3. \A x \in S : <<x, x>> \notin R
    BY <1>4, <2>1
  <2>4. \A x, y, z \in S : <<x, y>> \in R /\ <<y, z>> \in R => <<x, z>> \in R
    BY <1>4, <2>1
  <2>5. \A x, y \in S : x # y => <<x, y>> \in R \/ <<y, x>> \in R
    BY <1>4, <2>1, <2>2
  <2> QED BY <2>3, <2>4, <2>5 DEF Orders
<1>6. \A x \in S : {y \in S : <<y, x>> \in R} = ahead(x)
  <2> HIDE DEF R, S
  <2> QED BY <1>4
<1> HIDE DEF R, S
<1>7. PICK x \in S : Cardinality({y \in S : <<y, x>> \in R}) = i - 1
  BY <1>1, <1>2, <1>5, EveryPlaceIsTaken
<1>8. Cardinality(ahead(x)) = i - 1
  BY <1>6, <1>7
<1> HIDE DEF ahead
<1>9. chosen \in S /\ Cardinality(ahead(chosen)) = i - 1
  BY <1>8
<1> QED BY <1>2, <1>9 DEF ahead, S

\* A record puts tables first.
LEMMA TablesComeFirst ==
  ASSUME NEW t, HasRecord(t), "table_lookup" \in t.methods
  PROVE  1 \in DOMAIN OrderedMethods(t) /\ OrderedMethods(t)[1] = "table_lookup"
<1> DEFINE S == t.methods \cap Supported
           n == Cardinality(S)
           first == OrderedMethods(t)[1]
           ahead == {m \in S : MethodPriority(m, t) > MethodPriority(first, t)}
<1>1. "table_lookup" \in S
  BY SupportedIs
<1>2. IsFiniteSet(S)
  <2>1. S \in SUBSET Supported
    OBVIOUS
  <2> HIDE DEF S
  <2> QED BY <2>1, SupportedIs, FS_Subset
<1>3. n \in Nat /\ DOMAIN OrderedMethods(t) = 1..n
  BY MethodsAre
<1>4. n # 0
  <2> HIDE DEF S
  <2> QED BY <1>1, <1>2, FS_EmptySet
<1>5. 1 \in DOMAIN OrderedMethods(t)
  <2> HIDE DEF n
  <2> QED BY <1>3, <1>4
<1>6. first \in S /\ Cardinality(ahead) = 0
  <2> HIDE DEF n
  <2> QED BY <1>5, MethodsInOrder
<1>7. ahead = {}
  <2>1. ahead \in SUBSET S
    OBVIOUS
  <2> HIDE DEF S, ahead
  <2>2. IsFiniteSet(ahead)
    BY <2>1, <1>2, FS_Subset
  <2> QED BY <2>2, <1>6, FS_EmptySet
<1>8. ~(MethodPriority("table_lookup", t) > MethodPriority(first, t))
  <2> HIDE DEF first, n
  <2> QED BY <1>1, <1>7
<1>9. \A m \in Supported : MethodPriority(m, t) = PriorityOf(m, t)
  BY SupportedIs DEF MethodPriority, PriorityOf, MethodConfidence
<1>10. first \in Supported
  BY <1>6
<1>11. first = "table_lookup"
  <2> HIDE DEF first
  <2>1. /\ PriorityOf("table_lookup", t) = 105
        /\ \A m \in Supported : m # "table_lookup" => PriorityOf(m, t) \in 70..90
    BY SupportedIs DEF PriorityOf
  <2> QED BY <1>8, <1>9, <1>10, <2>1, SupportedIs
<1> QED BY <1>5, <1>11

\* The targets of a type are configurations of that type.
LEMMA TargetsInOrder ==
  ASSUME NEW type, NEW optional, NEW deprecated
  PROVE  LET targets_ == TargetsForType(Configs, type, optional, deprecated)
         IN  /\ IsSeq(targets_)
             /\ \A c \in ToSet(targets_) : c \in Configs /\ c.class = type
<1> DEFINE S == {c \in Configs :
                   /\ c.class = type
                   /\ deprecated \/ c.population \notin {"deprecated", "archived"}
                   /\ optional \/ c.required # "optional"}
           R == {p \in S \X S : TargetOrder(p[1], p[2])}
           ahead(x) == {y \in S : TargetOrder(y, x)}
           N == Cardinality(S)
           f == TargetsForType(Configs, type, optional, deprecated)
<1>1. IsFiniteSet(S) /\ N \in Nat
  <2>1. S \in SUBSET Configs
    OBVIOUS
  <2> HIDE DEF S
  <2> QED BY <2>1, ConfigsAssumption, FS_Subset, FS_CardinalityType
<1>2. f = [i \in 1..N |-> CHOOSE x \in S : Cardinality(ahead(x)) = i - 1]
  BY DEF TargetsForType, InOrder
<1>3. \A c \in S : c \in Configs /\ c.class = type
  OBVIOUS
<1>4. \A x, y : <<x, y>> \in R <=> x \in S /\ y \in S /\ TargetOrder(x, y)
  OBVIOUS
<1> HIDE DEF S, R, N
<1>5. Orders(R, S)
  <2>1. \A x \in S : RequiredStatusOrder[x.required] \in Int /\ x.rank \in Int
    <3>1. \A s \in DOMAIN RequiredStatusOrder : RequiredStatusOrder[s] \in Int
      BY DEF RequiredStatusOrder
    <3> QED BY <3>1, <1>3, ConfigsAssumption
  <2>2. \A x, y \in S : x # y => x.rank # y.rank
    BY <1>3, ConfigsAssumption
  <2>3. \A x \in S : <<x, x>> \notin R
    BY <1>4, <2>1 DEF TargetOrder
  <2>4. \A x, y, z \in S : <<x, y>> \in R /\ <<y, z>> \in R => <<x, z>> \in R
    BY <1>4, <2>1 DEF TargetOrder
  <2>5. \A x, y \in S : x # y => <<x, y>> \in R \/ <<y, x>> \in R
    BY <1>4, <2>1, <2>2 DEF TargetOrder
  <2> QED BY <2>3, <2>4, <2>5 DEF Orders
<1>6. \A x \in S : {y \in S : <<y, x>> \in R} = ahead(x)
  BY <1>4
<1>7. ASSUME NEW i \in 1..N PROVE f[i] \in S
  <2>0. i \in 1..Cardinality(S) /\ IsFiniteSet(S)
    BY <1>1 DEF N
  <2>1. PICK x \in S : Cardinality({y \in S : <<y, x>> \in R}) = i - 1
    BY <2>0, <1>5, EveryPlaceIsTaken
  <2>2. Cardinality(ahead(x)) = i - 1
    BY <1>6, <2>1
  <2> HIDE DEF ahead, f
  <2>3. f[i] = CHOOSE y \in S : Cardinality(ahead(y)) = i - 1
    BY <1>2
  <2> QED BY <2>2, <2>3
<1> HIDE DEF ahead
<1>8. DOMAIN f = 1..N /\ f = [i \in 1..N |-> f[i]]
  <2> HIDE DEF f
  <2> QED BY <1>2
<1> HIDE DEF f
<1>9. IsSeq(f) /\ \A x : x \in ToSet(f) <=> \E i \in 1..N : x = f[i]
  BY <1>1, <1>8, BuiltIs
<1> QED BY <1>3, <1>7, <1>9 DEF f
-----------------------------------------------------------------------------
(* What the methods find stands where they say.                            *)

\* A hit bound to a record is of a row that names the record, where it is cited.
OfRecordRow(h, t) ==
  t.record \notin Numbers =>
    \E row \in ToSet(doc.parts[CitedPart(h.reference)]) :
      t.record \in ToSet(WordsOf(row)) /\ \A w \in ToSet(h.raw) : w \in RowWords(row)
Stands(h, t, bound) ==
  /\ h.raw \in Cell /\ Cited(h.raw, h.reference, h.page)
  /\ bound => h.raw # <<>> /\ OfRecordRow(h, t)
AllStand(s, t, bound) == IsSeq(s) /\ \A h \in ToSet(s) : Stands(h, t, bound)

\* Hits that stand, one after the other,
LEMMA StandTogether ==
  ASSUME NEW t, NEW bound
  PROVE  /\ AllStand(<<>>, t, bound)
         /\ \A h : Stands(h, t, bound) => AllStand(<<h>>, t, bound)
         /\ \A a, b : AllStand(a, t, bound) /\ AllStand(b, t, bound) => AllStand(a \o b, t, bound)
<1>1. AllStand(<<>>, t, bound)
  BY Elements DEF AllStand, IsSeq
<1>2. ASSUME NEW h, Stands(h, t, bound) PROVE AllStand(<<h>>, t, bound)
  <2>1. ToSet(<<h>>) = {h} /\ <<h>> \in Seq({h})
    BY Elements
  <2> QED BY <1>2, <2>1 DEF AllStand, IsSeq
<1>3. ASSUME NEW a, NEW b, AllStand(a, t, bound), AllStand(b, t, bound)
      PROVE  AllStand(a \o b, t, bound)
  <2> DEFINE S == ToSet(a) \cup ToSet(b)
  <2>1. a \in Seq(S) /\ b \in Seq(S)
    <3>1. a \in Seq(ToSet(a)) /\ b \in Seq(ToSet(b))
      BY <1>3 DEF AllStand, IsSeq
    <3>2. (\A x \in ToSet(a) : x \in S) /\ (\A x \in ToSet(b) : x \in S)
      OBVIOUS
    <3> HIDE DEF S
    <3> QED BY <3>1, <3>2, Elements
  <2> HIDE DEF S
  <2>2. a \o b \in Seq(S)
    BY <2>1
  <2>3. IsSeq(a \o b)
    BY <2>2, SeqIsSeq
  <2>4. \A x : x \in ToSet(a \o b) <=> x \in ToSet(a) \/ x \in ToSet(b)
    BY <2>1, Joined
  <2> QED BY <1>3, <2>3, <2>4 DEF AllStand
<1> QED BY <1>1, <1>2, <1>3

\* list by list,
LEMMA StandInTurn ==
  ASSUME NEW t, NEW bound, NEW N \in Nat, NEW body, DOMAIN body = 1..N,
         body = [i \in 1..N |-> body[i]], \A i \in 1..N : AllStand(body[i], t, bound)
  PROVE  AllStand(FlattenSeq(body), t, bound)
<1>1. \A i \in 1..N : IsSeq(body[i])
  BY DEF AllStand
<1>2. IsSeq(FlattenSeq(body)) /\ InTurn(body, FlattenSeq(body), N)
  BY <1>1, Gather
<1>3. \A h \in ToSet(FlattenSeq(body)) : \E i \in 1..N : h \in ToSet(body[i])
  BY <1>2 DEF InTurn
<1> QED BY <1>2, <1>3 DEF AllStand

\* and element by element.
LEMMA StandEach ==
  ASSUME NEW t, NEW bound, NEW seq, IsSeq(seq), NEW body, body = [i \in DOMAIN seq |-> body[i]],
         \A i \in DOMAIN seq : AllStand(body[i], t, bound)
  PROVE  AllStand(FlattenSeq(body), t, bound)
<1> DEFINE N == Len(seq)
<1>1. N \in Nat /\ DOMAIN seq = 1..N
  BY SeqFacts
<1>2. DOMAIN body = 1..N /\ body = [i \in 1..N |-> body[i]] /\ \A i \in 1..N : AllStand(body[i], t, bound)
  <2> HIDE DEF N
  <2> QED BY <1>1
<1> HIDE DEF N
<1>3. N \in Nat
  BY <1>1
<1> QED BY <1>2, <1>3, StandInTurn

\* A hit stands if its value is cited by its reference.
LEMMA HitIs ==
  ASSUME NEW method, NEW raw, NEW confidence, NEW reference, NEW page, NEW near, NEW unit, NEW t,
         raw \in Cell, Cited(raw, reference, page)
  PROVE  /\ Stands(Hit(method, raw, confidence, reference, page, near, unit), t, FALSE)
         /\ AllStand(<<Hit(method, raw, confidence, reference, page, near, unit)>>, t, FALSE)
<1> DEFINE h == Hit(method, raw, confidence, reference, page, near, unit)
<1>1. h.raw = raw /\ h.reference = reference /\ h.page = page
  BY DEF Hit
<1> HIDE DEF h
<1>2. Stands(h, t, FALSE)
  BY <1>1 DEF Stands
<1> QED BY <1>2, StandTogether DEF h

\* The value of a pair.
LEMMA PairHitsStand ==
  ASSUME NEW o, PairsStand(o), NEW t
  PROVE  AllStand(KeyValueHits(o, t), t, FALSE)
<1> DEFINE found(pair) == /\ pair.key # <<>> /\ Head(pair.key) \in t.anchors
                          /\ (IsNumeric(t) => Mentions(pair.value, DigitWords))
           ref(pair) == Inline(pair.page, None, pair.key \o pair.value)
           hit(pair) == Hit("key_value_pair", pair.value, pair.confidence, ref(pair), pair.page,
                            {pair.key, pair.value}, NoUnit)
           body == [i \in DOMAIN o.pairs |-> IF found(o.pairs[i]) THEN <<hit(o.pairs[i])>> ELSE <<>>]
<1>1. KeyValueHits(o, t) = FlattenSeq(body)
  BY DEF KeyValueHits, Each
<1>2. ASSUME NEW i \in DOMAIN o.pairs PROVE AllStand(body[i], t, FALSE)
  <2> DEFINE pair == o.pairs[i]
  <2>1. pair \in ToSet(o.pairs)
    BY DEF ToSet
  <2> HIDE DEF pair
  <2>2. /\ pair.key \in Cell /\ pair.value \in Cell
        /\ Cited(pair.key \o pair.value, ref(pair), pair.page)
    BY <2>1 DEF PairsStand
  <2>3. \A w \in ToSet(pair.value) : w \in ToSet(pair.key \o pair.value)
    BY <2>2, Concatenation
  <2>4. Cited(pair.value, ref(pair), pair.page)
    <3> DEFINE words == pair.key \o pair.value
               r == ref(pair)
    <3>1. Cited(words, r, pair.page) /\ \A w \in ToSet(pair.value) : w \in ToSet(words)
      BY <2>2, <2>3
    <3> HIDE DEF words, r
    <3>2. Cited(pair.value, r, pair.page)
      BY <2>2, <3>1, CitePart
    <3> QED BY <3>2 DEF r
  <2> HIDE DEF ref
  <2>5. AllStand(<<hit(pair)>>, t, FALSE) /\ AllStand(<<>>, t, FALSE)
    BY <2>2, <2>4, HitIs, StandTogether
  <2> HIDE DEF found, hit
  <2>6. body[i] = IF found(pair) THEN <<hit(pair)>> ELSE <<>>
    BY DEF pair
  <2> QED BY <2>5, <2>6
<1>3. body = [i \in DOMAIN o.pairs |-> body[i]]
  OBVIOUS
<1> HIDE DEF body
<1>4. IsSeq(o.pairs)
  BY DEF PairsStand
<1> QED BY <1>1, <1>2, <1>3, <1>4, StandEach

\* A match of a pattern is a word of the text.
LEMMA MatchesAre ==
  ASSUME NEW words \in Cell, NEW patterns, NEW n \in Nat, DOMAIN patterns = 1..n, NEW t
  PROVE  /\ Matches(words, patterns, t) \in Cell
         /\ \A w \in ToSet(Matches(words, patterns, t)) : w \in ToSet(words)
<1> DEFINE keep(i, w) == w \in patterns[i] /\ ~IsLikelyBad(<<w>>, words, t)
           some(i) == [j \in DOMAIN words |-> IF keep(i, words[j]) THEN <<words[j]>> ELSE <<>>]
           body == [i \in 1..n |-> FlattenSeq(some(i))]
<1>1. Matches(words, patterns, t) = FlattenSeq(body)
  BY DEF Matches, Select, Each
<1>2. ASSUME NEW i \in 1..n
      PROVE  FlattenSeq(some(i)) \in Cell /\ \A w \in ToSet(FlattenSeq(some(i))) : w \in ToSet(words)
  <2> DEFINE f == some(i)
  <2>1. f = [j \in DOMAIN words |-> f[j]] /\ \A j \in DOMAIN words : f[j] \in {<<>>, <<words[j]>>}
    <3> HIDE DEF keep
    <3> QED OBVIOUS
  <2> HIDE DEF f
  <2>2. FlattenSeq(f) \in Cell /\ \A w \in ToSet(FlattenSeq(f)) : w \in ToSet(words)
    BY <2>1, SelectedWords
  <2> QED BY <2>2 DEF f
<1> HIDE DEF some
<1>3. body \in [1..n -> Cell] /\ \A i \in 1..n : body[i] = FlattenSeq(some(i))
  BY <1>2
<1> HIDE DEF body
<1>4. FlattenSeq(body) \in Cell /\ InTurn(body, FlattenSeq(body), n)
  <2>1. body \in [1..n -> Seq(STRING)]
    BY <1>3 DEF Cell
  <2> QED BY <2>1, Flatten DEF Cell
<1> QED BY <1>1, <1>2, <1>3, <1>4 DEF InTurn

\* The patterns of a configuration are a list.
LEMMA PatternsAre ==
  ASSUME NEW t \in Configs
  PROVE  Len(t.valuePatterns) \in Nat /\ DOMAIN t.valuePatterns = 1..Len(t.valuePatterns)
<1>1. t.valuePatterns \in Seq(SUBSET STRING)
  BY ConfigsAssumption
<1> QED BY <1>1

\* One word of a text.
LEMMA CellOne ==
  ASSUME NEW words \in Cell, NEW w \in ToSet(words)
  PROVE  <<w>> \in Cell /\ ToSet(<<w>>) = {w}
<1>1. PICK i \in DOMAIN words : w = words[i]
  BY DEF ToSet
<1>2. w \in STRING
  BY <1>1 DEF Cell
<1>3. <<w>> \in Seq(STRING)
  <2>1. \A S : \A x \in S : <<x>> \in Seq(S)
    OBVIOUS
  <2> QED BY <1>2, <2>1
<1> QED BY <1>3, Elements DEF Cell

\* The words of a text that the patterns match.
LEMMA WordHitsStand ==
  ASSUME NEW t \in Configs, NEW words \in Cell, NEW text, NEW reference, NEW page,
         Cited(text, reference, page), \A w \in ToSet(words) : w \in ToSet(text),
         NEW confidence, NEW near
  PROVE  AllStand([i \in DOMAIN Matches(words, t.valuePatterns, t) |->
                     Hit("regex", <<Matches(words, t.valuePatterns, t)[i]>>, confidence, reference,
                         page, near, NoUnit)], t, FALSE)
<1> DEFINE found == Matches(words, t.valuePatterns, t)
           hits == [i \in DOMAIN found |->
                      Hit("regex", <<found[i]>>, confidence, reference, page, near, NoUnit)]
           N == Len(found)
<1>1. found \in Cell /\ \A w \in ToSet(found) : w \in ToSet(words)
  BY PatternsAre, MatchesAre
<1> HIDE DEF found
<1>2. N \in Nat /\ DOMAIN found = 1..N
  BY <1>1 DEF Cell
<1>3. DOMAIN hits = 1..N /\ hits = [i \in 1..N |-> hits[i]]
      /\ \A i \in 1..N : hits[i] = Hit("regex", <<found[i]>>, confidence, reference, page, near, NoUnit)
  <2> HIDE DEF N
  <2> QED BY <1>2
<1> HIDE DEF N, hits
<1>4. IsSeq(hits) /\ \A x : x \in ToSet(hits) <=> \E i \in 1..N : x = hits[i]
  <2>1. N \in Nat
    BY <1>2
  <2> QED BY <2>1, <1>3, BuiltIs
<1>5. ASSUME NEW i \in 1..N PROVE Stands(hits[i], t, FALSE)
  <2>1. found[i] \in ToSet(found)
    BY <1>2 DEF ToSet
  <2>2. <<found[i]>> \in Cell /\ ToSet(<<found[i]>>) = {found[i]} /\ found[i] \in ToSet(text)
    BY <1>1, <2>1, CellOne
  <2>3. Cited(<<found[i]>>, reference, page)
    BY <2>2, CitePart
  <2> DEFINE raw == <<found[i]>>
  <2>4. raw \in Cell /\ Cited(raw, reference, page)
        /\ hits[i] = Hit("regex", raw, confidence, reference, page, near, NoUnit)
    BY <1>3, <2>2, <2>3
  <2> HIDE DEF raw
  <2> QED BY <2>4, HitIs
<1>6. AllStand(hits, t, FALSE)
  BY <1>4, <1>5 DEF AllStand
<1> QED BY <1>6 DEF hits, found
-----------------------------------------------------------------------------
LineHits(lines, confidence, reference, page, t) ==
  FlattenSeq([l \in DOMAIN lines |->
    [i \in DOMAIN Matches(WordsOf(lines[l]), t.valuePatterns, t) |->
       Hit("regex", <<Matches(WordsOf(lines[l]), t.valuePatterns, t)[i]>>, confidence, reference, page,
           {WordsOf(lines[l])}, NoUnit)]])

\* The matches in the lines of a block or page.
LEMMA LineHitsStand ==
  ASSUME NEW t \in Configs, NEW lines \in Part, NEW reference, NEW page,
         Cited(TextOf(lines), reference, page), NEW confidence
  PROVE  AllStand(LineHits(lines, confidence, reference, page, t), t, FALSE)
<1> DEFINE hitsOn(words) ==
             [i \in DOMAIN Matches(words, t.valuePatterns, t) |->
                Hit("regex", <<Matches(words, t.valuePatterns, t)[i]>>, confidence, reference, page,
                    {words}, NoUnit)]
           body == [l \in DOMAIN lines |-> hitsOn(WordsOf(lines[l]))]
<1>1. LineHits(lines, confidence, reference, page, t) = FlattenSeq(body)
  BY DEF LineHits
<1>2. ASSUME NEW l \in DOMAIN lines PROVE AllStand(body[l], t, FALSE)
  <2> DEFINE words == WordsOf(lines[l])
  <2>1. words \in Cell /\ \A w \in ToSet(words) : w \in ToSet(TextOf(lines))
    BY WordsAre, TextIs DEF Part
  <2> HIDE DEF words
  <2>2. AllStand(hitsOn(words), t, FALSE)
    BY <2>1, WordHitsStand
  <2> HIDE DEF hitsOn
  <2>3. body[l] = hitsOn(words)
    BY DEF words
  <2> QED BY <2>2, <2>3
<1>3. IsSeq(lines)
  BY RowsAre
<1> HIDE DEF hitsOn
<1>4. body = [l \in DOMAIN lines |-> body[l]]
  OBVIOUS
<1> HIDE DEF body
<1> QED BY <1>1, <1>2, <1>3, <1>4, StandEach

\* The matches of the patterns.
LEMMA RegexHitsStand ==
  ASSUME NEW t \in Configs, NEW o, PagesStand(o), BlocksStand(o)
  PROVE  AllStand(RegexHits(o, t), t, FALSE)
<1> DEFINE onBlock(b) == LineHits(b.text, b.confidence, BlockReference(o, b), b.page, t)
           onPage(p) == LineHits(p.text, Certain, Inline(p.page, None, TextOf(p.text)), p.page, t)
           blocks == [i \in DOMAIN o.blocks |-> onBlock(o.blocks[i])]
           pages == [i \in DOMAIN o.pages |-> onPage(o.pages[i])]
<1>1. RegexHits(o, t) = FlattenSeq(blocks) \o FlattenSeq(pages)
  BY DEF RegexHits, Each, LineHits
<1>2. ASSUME NEW i \in DOMAIN o.blocks PROVE AllStand(blocks[i], t, FALSE)
  <2> DEFINE b == o.blocks[i]
  <2>1. b \in ToSet(o.blocks)
    BY DEF ToSet
  <2>2. b.text \in Part /\ Cited(TextOf(b.text), BlockReference(o, b), b.page)
    <3> HIDE DEF b
    <3> QED BY <2>1 DEF BlocksStand
  <2>3. blocks[i] = onBlock(b)
    <3> HIDE DEF onBlock
    <3> QED OBVIOUS
  <2> HIDE DEF b, blocks
  <2> QED BY <2>2, <2>3, LineHitsStand
<1>3. ASSUME NEW i \in DOMAIN o.pages PROVE AllStand(pages[i], t, FALSE)
  <2> DEFINE p == o.pages[i]
  <2>1. p \in ToSet(o.pages)
    BY DEF ToSet
  <2>2. p.text \in Part /\ Cited(TextOf(p.text), Inline(p.page, None, TextOf(p.text)), p.page)
    <3> HIDE DEF p
    <3> QED BY <2>1 DEF PagesStand
  <2>3. pages[i] = onPage(p)
    <3> HIDE DEF onPage
    <3> QED OBVIOUS
  <2> HIDE DEF p, pages
  <2> QED BY <2>2, <2>3, LineHitsStand
<1> HIDE DEF onBlock, onPage
<1>4. blocks = [i \in DOMAIN o.blocks |-> blocks[i]] /\ pages = [i \in DOMAIN o.pages |-> pages[i]]
  OBVIOUS
<1> HIDE DEF blocks, pages
<1>5. IsSeq(o.blocks) /\ IsSeq(o.pages)
  BY DEF BlocksStand, PagesStand
<1>6. AllStand(FlattenSeq(blocks), t, FALSE)
  BY <1>2, <1>4, <1>5, StandEach
<1>7. AllStand(FlattenSeq(pages), t, FALSE)
  BY <1>3, <1>4, <1>5, StandEach
<1> QED BY <1>1, <1>6, <1>7, StandTogether

\* A place in the text, or zero.
LEMMA FirstInIs ==
  ASSUME NEW words \in Cell, NEW some
  PROVE  FirstIn(words, some) \in 0..Len(words)
<1> DEFINE I == {i \in 1..Len(words) : words[i] \in some}
<1>1. Len(words) \in Nat
  BY DEF Cell
<1>2. FirstIn(words, some) = IF I # {} THEN CHOOSE x \in I : \A y \in I : x <= y ELSE 0
  BY DEF FirstIn, SelectInSeq, Min
<1>3. I \in SUBSET Nat /\ I \subseteq 1..Len(words)
  BY <1>1
<1> HIDE DEF I
<1>4. I # {} => \E n \in I : \A m \in I : n <= m
  BY <1>3, Least
<1> DEFINE first == FirstIn(words, some)
           n == Len(words)
<1>5. CASE I # {}
  <2>1. PICK x \in I : \A y \in I : x <= y
    BY <1>4, <1>5
  <2>2. first \in I
    <3> HIDE DEF first
    <3>1. first = CHOOSE y \in I : \A z \in I : y <= z
      BY <1>2, <1>5 DEF first
    <3> QED BY <2>1, <3>1
  <2>3. first \in 1..n /\ n \in Nat
    BY <1>1, <1>3, <2>2
  <2> HIDE DEF first, n
  <2>4. first \in 0..n
    BY <2>3
  <2> QED BY <2>4 DEF first, n
<1>6. CASE I = {}
  <2>1. first = 0 /\ n \in Nat
    BY <1>1, <1>2, <1>6
  <2> HIDE DEF first, n
  <2>2. first \in 0..n
    BY <2>1
  <2> QED BY <2>2 DEF first, n
<1> QED BY <1>5, <1>6

\* What follows a place is part of the text.
LEMMA RestIs ==
  ASSUME NEW S, NEW s \in Seq(S), NEW k \in 0..Len(s)
  PROVE  /\ SubSeq(s, k + 1, Len(s)) \in Seq(S)
         /\ \A x \in ToSet(SubSeq(s, k + 1, Len(s))) : x \in ToSet(s)
<1> DEFINE r == SubSeq(s, k + 1, Len(s))
<1>1. /\ r \in Seq(S) /\ Len(r) = Len(s) - k
      /\ \A i \in 1..Len(r) : r[i] = s[i + k] /\ i + k \in DOMAIN s
  OBVIOUS
<1> HIDE DEF r
<1>2. DOMAIN r = 1..Len(r)
  BY <1>1
<1>3. ASSUME NEW x \in ToSet(r) PROVE x \in ToSet(s)
  <2>1. PICK i \in 1..Len(r) : x = r[i]
    BY <1>2 DEF ToSet
  <2>2. x = s[i + k] /\ i + k \in DOMAIN s
    BY <1>1, <2>1
  <2> QED BY <2>2 DEF ToSet
<1> QED BY <1>1, <1>3 DEF r

\* What follows an anchor is part of the text.
LEMMA ValueAfterAnchorIs ==
  ASSUME NEW t \in Configs, NEW words \in Cell
  PROVE  /\ ValueAfterAnchor(words, t) \in Cell
         /\ \A w \in ToSet(ValueAfterAnchor(words, t)) : w \in ToSet(words)
<1> DEFINE anchor == FirstIn(words, t.anchors)
           rest == SubSeq(words, anchor + 1, Len(words))
           one(i) == <<t.valuePatterns[i]>>
           near(i) == Matches(rest, one(i), t)
           any(i) == Matches(words, one(i), t)
           body == [i \in DOMAIN t.valuePatterns |-> near(i) \o any(i)]
           matches == FlattenSeq(body)
           N == Len(t.valuePatterns)
           v == ValueAfterAnchor(words, t)
<1>1. v = IF anchor = 0 THEN <<>>
          ELSE IF matches # <<>> THEN <<matches[1]>>
          ELSE IF IsLikelyBad(rest, words, t) THEN <<>> ELSE rest
  BY DEF ValueAfterAnchor
<1>2. anchor \in 0..Len(words)
  BY FirstInIs
<1>3. rest \in Cell /\ \A w \in ToSet(rest) : w \in ToSet(words)
  <2> HIDE DEF anchor
  <2> QED BY <1>2, RestIs DEF Cell
<1> HIDE DEF anchor, rest
<1>4. N \in Nat /\ DOMAIN t.valuePatterns = 1..N
  BY PatternsAre
<1>5. ASSUME NEW i \in 1..N
      PROVE  near(i) \o any(i) \in Cell /\ \A w \in ToSet(near(i) \o any(i)) : w \in ToSet(words)
  <2>1. 1 \in Nat /\ DOMAIN one(i) = 1..1
    OBVIOUS
  <2> HIDE DEF one
  <2>2. near(i) \in Cell /\ \A w \in ToSet(near(i)) : w \in ToSet(rest)
    BY <1>3, <2>1, MatchesAre
  <2>3. any(i) \in Cell /\ \A w \in ToSet(any(i)) : w \in ToSet(words)
    BY <2>1, MatchesAre
  <2> HIDE DEF near, any
  <2> QED BY <1>3, <2>2, <2>3, Concatenation
<1> HIDE DEF near, any
<1>6. body \in [1..N -> Cell] /\ \A i \in 1..N : body[i] = near(i) \o any(i)
  <2> HIDE DEF N
  <2> QED BY <1>4, <1>5
<1> HIDE DEF body, N
<1>7. matches \in Cell /\ InTurn(body, matches, N)
  <2>1. body \in [1..N -> Seq(STRING)] /\ N \in Nat
    BY <1>4, <1>6 DEF Cell
  <2> QED BY <2>1, Flatten DEF Cell
<1> HIDE DEF matches
<1>8. \A w \in ToSet(matches) : w \in ToSet(words)
  BY <1>5, <1>6, <1>7 DEF InTurn
<1>9. ASSUME matches # <<>> PROVE <<matches[1]>> \in Cell /\ \A w \in ToSet(<<matches[1]>>) : w \in ToSet(words)
  <2>1. 1 \in DOMAIN matches
    BY <1>7, <1>9 DEF Cell
  <2>2. matches[1] \in ToSet(matches)
    BY <2>1 DEF ToSet
  <2> QED BY <1>7, <1>8, <2>2, CellOne
<1>10. <<>> \in Cell /\ ToSet(<<>>) = {}
  BY Elements DEF Cell
<1> HIDE DEF v
<1> QED BY <1>1, <1>3, <1>9, <1>10 DEF v

\* The values behind anchors.
LEMMA AnchorHitsStand ==
  ASSUME NEW t \in Configs, NEW o, PagesStand(o), BlocksStand(o)
  PROVE  AllStand(AnchorHits(o, t), t, FALSE)
<1> DEFINE hitIn(words, confidence, reference, page) ==
             IF ValueAfterAnchor(words, t) = <<>> THEN <<>>
             ELSE <<Hit("anchor_text", ValueAfterAnchor(words, t), confidence, reference, page,
                        {words}, NoUnit)>>
           onBlock(b) == hitIn(TextOf(b.text), b.confidence, BlockReference(o, b), b.page)
           onLine(p, line) == hitIn(WordsOf(line), Certain, Inline(p.page, None, TextOf(p.text)), p.page)
           onPage(p) == FlattenSeq([l \in DOMAIN p.text |-> onLine(p, p.text[l])])
           blocks == [i \in DOMAIN o.blocks |-> onBlock(o.blocks[i])]
           pages == [i \in DOMAIN o.pages |-> onPage(o.pages[i])]
<1>1. AnchorHits(o, t) = FlattenSeq(blocks) \o FlattenSeq(pages)
  BY DEF AnchorHits, Each
<1>2. ASSUME NEW words \in Cell, NEW text, NEW reference, NEW page, Cited(text, reference, page),
             \A w \in ToSet(words) : w \in ToSet(text), NEW confidence
      PROVE  AllStand(hitIn(words, confidence, reference, page), t, FALSE)
  <2> DEFINE v == ValueAfterAnchor(words, t)
  <2>1. v \in Cell /\ \A w \in ToSet(v) : w \in ToSet(words)
    BY ValueAfterAnchorIs
  <2> HIDE DEF v
  <2>2. Cited(v, reference, page)
    BY <1>2, <2>1, CitePart
  <2>3. AllStand(<<Hit("anchor_text", v, confidence, reference, page, {words}, NoUnit)>>, t, FALSE)
    BY <2>1, <2>2, HitIs
  <2> QED BY <2>3, StandTogether DEF v
<1> HIDE DEF hitIn
<1>3. ASSUME NEW i \in DOMAIN o.blocks PROVE AllStand(blocks[i], t, FALSE)
  <2> DEFINE b == o.blocks[i]
  <2>1. b \in ToSet(o.blocks)
    BY DEF ToSet
  <2>2. blocks[i] = onBlock(b)
    <3> HIDE DEF onBlock
    <3> QED OBVIOUS
  <2> HIDE DEF b, blocks
  <2>3. b.text \in Part /\ Cited(TextOf(b.text), BlockReference(o, b), b.page)
    BY <2>1 DEF BlocksStand
  <2>4. TextOf(b.text) \in Cell
    BY <2>3, TextIs
  <2> QED BY <1>2, <2>2, <2>3, <2>4
<1>4. ASSUME NEW i \in DOMAIN o.pages PROVE AllStand(pages[i], t, FALSE)
  <2> DEFINE p == o.pages[i]
             lines == [l \in DOMAIN p.text |-> onLine(p, p.text[l])]
  <2>1. p \in ToSet(o.pages)
    BY DEF ToSet
  <2>2. pages[i] = FlattenSeq(lines)
    <3> HIDE DEF onLine
    <3> QED OBVIOUS
  <2> HIDE DEF p, pages
  <2>3. p.text \in Part /\ Cited(TextOf(p.text), Inline(p.page, None, TextOf(p.text)), p.page)
    BY <2>1 DEF PagesStand
  <2>4. ASSUME NEW l \in DOMAIN p.text PROVE AllStand(lines[l], t, FALSE)
    <3> DEFINE words == WordsOf(p.text[l])
    <3>1. words \in Cell /\ \A w \in ToSet(words) : w \in ToSet(TextOf(p.text))
      BY <2>3, WordsAre, TextIs DEF Part
    <3>2. lines[l] = hitIn(words, Certain, Inline(p.page, None, TextOf(p.text)), p.page)
      OBVIOUS
    <3> HIDE DEF words, lines
    <3> QED BY <1>2, <2>3, <3>1, <3>2
  <2>5. IsSeq(p.text)
    BY <2>3, RowsAre
  <2> HIDE DEF onLine
  <2>6. lines = [l \in DOMAIN p.text |-> lines[l]]
    OBVIOUS
  <2> HIDE DEF lines
  <2> QED BY <2>2, <2>4, <2>5, <2>6, StandEach
<1> HIDE DEF onBlock, onPage
<1>5. blocks = [i \in DOMAIN o.blocks |-> blocks[i]] /\ pages = [i \in DOMAIN o.pages |-> pages[i]]
  OBVIOUS
<1> HIDE DEF blocks, pages
<1>6. IsSeq(o.blocks) /\ IsSeq(o.pages)
  BY DEF BlocksStand, PagesStand
<1>7. AllStand(FlattenSeq(blocks), t, FALSE)
  BY <1>3, <1>5, <1>6, StandEach
<1>8. AllStand(FlattenSeq(pages), t, FALSE)
  BY <1>4, <1>5, <1>6, StandEach
<1> QED BY <1>1, <1>7, <1>8, StandTogether
-----------------------------------------------------------------------------
\* The next cell that is not empty is in the row.
LEMMA AdjacentAre ==
  ASSUME NEW row \in Row, NEW i \in DOMAIN row, AdjacentValues(row, i) # <<>>
  PROVE  AdjacentValues(row, i)[1] \in ToSet(row)
<1> DEFINE rest == SubSeq(row, i + 1, Len(row))
           body == [j \in DOMAIN rest |-> IF rest[j] # <<>> THEN <<rest[j]>> ELSE <<>>]
<1>1. AdjacentValues(row, i) = FlattenSeq(body)
  BY DEF AdjacentValues, Select, Each
<1>2. i \in 0..Len(row) /\ row \in Seq(Cell)
  BY DEF Row
<1>3. rest \in Seq(Cell) /\ \A x \in ToSet(rest) : x \in ToSet(row)
  BY <1>2, RestIs
<1> HIDE DEF rest
<1>4. body = [j \in DOMAIN rest |-> body[j]] /\ \A j \in DOMAIN rest : body[j] \in {<<>>, <<rest[j]>>}
  OBVIOUS
<1> HIDE DEF body
<1>5. /\ FlattenSeq(body) \in Seq(Cell)
      /\ \A x : x \in ToSet(FlattenSeq(body)) <=> \E j \in DOMAIN rest : x = rest[j] /\ body[j] # <<>>
  BY <1>3, <1>4, Sift
<1> DEFINE F == FlattenSeq(body)
<1>6. F \in Seq(Cell) /\ F # <<>> /\ \A x \in ToSet(F) : x \in ToSet(rest)
  BY <1>1, <1>5 DEF ToSet
<1> HIDE DEF F
<1>7. F[1] \in ToSet(F)
  <2>1. 1 \in DOMAIN F
    BY <1>6
  <2> QED BY <2>1 DEF ToSet
<1> QED BY <1>1, <1>3, <1>6, <1>7 DEF F

\* A cell of a row of a table stands where the table does.
LEMMA CellOfTable ==
  ASSUME NEW part \in Part, NEW row \in ToSet(part), NEW cell \in ToSet(row)
  PROVE  /\ row \in Row /\ cell \in Cell
         /\ \A w \in ToSet(cell) : w \in ToSet(WordsOf(row)) /\ w \in ToSet(TextOf(part))
<1>1. row \in Row /\ \A w \in ToSet(WordsOf(row)) : w \in ToSet(TextOf(part))
  BY RowsAre
<1>2. PICK c \in DOMAIN row : cell = row[c]
  BY DEF ToSet
<1>3. cell \in Cell
  BY <1>1, <1>2 DEF Row
<1> QED BY <1>1, <1>2, <1>3, WordsAre

\* The cells beside labels in tables.
LEMMA TableHitsStand ==
  ASSUME NEW t, NEW o, TablesStand(o)
  PROVE  AllStand(TableHits(o, t), t, FALSE)
<1> DEFINE found(row, i) == Mentions(row[i], t.anchors) /\ AdjacentValues(row, i) # <<>>
           hit(table, row, i) ==
             Hit("table_lookup", AdjacentValues(row, i)[1], table.confidence,
                 TableReference(table), table.page, {RowText(row)}, NoUnit)
           inRow(table, row) ==
             FlattenSeq([i \in DOMAIN row |-> IF found(row, i) THEN <<hit(table, row, i)>> ELSE <<>>])
           inTable(table) == FlattenSeq([r \in DOMAIN table.rows |-> inRow(table, table.rows[r])])
           body == [i \in DOMAIN o.tables |-> inTable(o.tables[i])]
<1>1. TableHits(o, t) = FlattenSeq(body)
  BY DEF TableHits, Each
<1>2. ASSUME NEW table \in ToSet(o.tables), NEW row \in ToSet(table.rows)
      PROVE  AllStand(inRow(table, row), t, FALSE)
  <2> DEFINE f == [i \in DOMAIN row |-> IF found(row, i) THEN <<hit(table, row, i)>> ELSE <<>>]
  <2>1. table.rows \in Part /\ Cited(TextOf(table.rows), TableReference(table), table.page)
    BY DEF TablesStand
  <2>2. row \in Row /\ IsSeq(row)
    <3>1. row \in Row
      BY <2>1, RowsAre
    <3>2. row \in Seq(Cell)
      BY <3>1 DEF Row
    <3> QED BY <3>1, <3>2, SeqIsSeq
  <2>3. ASSUME NEW i \in DOMAIN row PROVE AllStand(f[i], t, FALSE)
    <3>1. f[i] = IF found(row, i) THEN <<hit(table, row, i)>> ELSE <<>>
      <4> HIDE DEF found, hit
      <4> QED OBVIOUS
    <3> HIDE DEF f
    <3>2. CASE found(row, i)
      <4> DEFINE v == AdjacentValues(row, i)[1]
      <4>1. v \in ToSet(row)
        BY <2>2, <3>2, AdjacentAre
      <4>2. hit(table, row, i) = Hit("table_lookup", v, table.confidence, TableReference(table),
                                     table.page, {RowText(row)}, NoUnit)
        OBVIOUS
      <4> HIDE DEF v, hit, found
      <4>3. v \in Cell /\ \A w \in ToSet(v) : w \in ToSet(TextOf(table.rows))
        BY <2>1, <4>1, CellOfTable
      <4>4. Cited(v, TableReference(table), table.page)
        BY <2>1, <4>3, CitePart
      <4> QED BY <3>1, <3>2, <4>2, <4>3, <4>4, HitIs
    <3>3. CASE ~found(row, i)
      <4> HIDE DEF found, hit
      <4> QED BY <3>1, <3>3, StandTogether
    <3> QED BY <3>2, <3>3
  <2> HIDE DEF found, hit
  <2>4. f = [i \in DOMAIN row |-> f[i]]
    OBVIOUS
  <2>5. inRow(table, row) = FlattenSeq(f)
    OBVIOUS
  <2> HIDE DEF f, inRow
  <2> QED BY <2>2, <2>3, <2>4, <2>5, StandEach
<1> HIDE DEF inRow
<1>3. ASSUME NEW i \in DOMAIN o.tables PROVE AllStand(body[i], t, FALSE)
  <2> DEFINE table == o.tables[i]
             f == [r \in DOMAIN table.rows |-> inRow(table, table.rows[r])]
  <2>1. table \in ToSet(o.tables)
    BY DEF ToSet
  <2>2. body[i] = FlattenSeq(f)
    OBVIOUS
  <2> HIDE DEF table, body
  <2>3. IsSeq(table.rows)
    BY <2>1, RowsAre DEF TablesStand
  <2>4. ASSUME NEW r \in DOMAIN table.rows PROVE AllStand(f[r], t, FALSE)
    <3>1. table.rows[r] \in ToSet(table.rows) /\ f[r] = inRow(table, table.rows[r])
      BY DEF ToSet
    <3> HIDE DEF f
    <3> QED BY <1>2, <2>1, <3>1
  <2>5. f = [r \in DOMAIN table.rows |-> f[r]]
    OBVIOUS
  <2> HIDE DEF f
  <2> QED BY <2>2, <2>3, <2>4, <2>5, StandEach
<1> HIDE DEF inTable
<1>4. body = [i \in DOMAIN o.tables |-> body[i]]
  OBVIOUS
<1> HIDE DEF body
<1>5. IsSeq(o.tables)
  BY DEF TablesStand
<1> QED BY <1>1, <1>3, <1>4, <1>5, StandEach

\* The cells beside labels in sheets: each is cited by its own reference, and not by that of its label.
LEMMA ExcelHitsStand ==
  ASSUME NEW t, NEW o, RefsStand(o)
  PROVE  AllStand(ExcelHits(o, t), t, FALSE)
<1> DEFINE beside(ref, other) == /\ ref.kind = "excel_cell" /\ other.sheet = ref.sheet
                                 /\ other.cell = <<ref.cell[1], ref.cell[2] + 1>>
           some(ref) == [j \in DOMAIN o.refs |->
                           IF beside(ref, o.refs[j]) THEN <<o.refs[j]>> ELSE <<>>]
           right(ref) == FlattenSeq(some(ref))
           found(ref) == /\ Mentions(ref.text, t.anchors) /\ right(ref) # <<>>
                         /\ t.sheetHints = {} \/ ref.sheet \in t.sheetHints
           hit(ref) == Hit("excel_cell", right(ref)[1].text, Certain, right(ref)[1], None, {}, NoUnit)
           body == [i \in DOMAIN o.refs |->
                      IF found(o.refs[i]) THEN <<hit(o.refs[i])>> ELSE <<>>]
<1>1. ExcelHits(o, t) = FlattenSeq(body)
  BY DEF ExcelHits, Each, Select
<1>2. IsSeq(o.refs) /\ \A r \in ToSet(o.refs) : r.text \in Cell /\ (r.cell # <<>> => Cited(r.text, r, None))
  BY DEF RefsStand
<1>3. ASSUME NEW ref, right(ref) # <<>>
      PROVE  right(ref)[1].text \in Cell /\ Cited(right(ref)[1].text, right(ref)[1], None)
  <2> DEFINE f == some(ref)
             S == ToSet(o.refs)
             F == FlattenSeq(f)
  <2>1. f = [j \in DOMAIN o.refs |-> f[j]] /\ \A j \in DOMAIN o.refs : f[j] \in {<<>>, <<o.refs[j]>>}
    <3> HIDE DEF beside
    <3> QED OBVIOUS
  <2>2. \A j \in DOMAIN o.refs : f[j] # <<>> => o.refs[j].cell # <<>>
    <3>1. \A j \in DOMAIN o.refs : f[j] # <<>> => beside(ref, o.refs[j])
      <4> HIDE DEF beside
      <4> QED OBVIOUS
    <3>2. \A j \in DOMAIN o.refs : beside(ref, o.refs[j]) => o.refs[j].cell # <<>>
      <4>1. <<ref.cell[1], ref.cell[2] + 1>> # <<>>
        OBVIOUS
      <4> QED BY <4>1
    <3> HIDE DEF f, beside
    <3> QED BY <3>1, <3>2
  <2>3. F # <<>>
    BY <1>3
  <2>4. right(ref) = F
    OBVIOUS
  <2> HIDE DEF f, S, right
  <2>5. o.refs \in Seq(S)
    BY <1>2 DEF IsSeq, S
  <2>6. F \in Seq(S) /\ \A x : x \in ToSet(F) <=> \E j \in DOMAIN o.refs : x = o.refs[j] /\ f[j] # <<>>
    BY <2>1, <2>5, Sift
  <2> HIDE DEF F
  <2>7. F[1] \in ToSet(F)
    <3>1. 1 \in DOMAIN F
      BY <2>3, <2>6
    <3> QED BY <3>1 DEF ToSet
  <2>8. PICK j \in DOMAIN o.refs : F[1] = o.refs[j] /\ f[j] # <<>>
    BY <2>6, <2>7
  <2>9. o.refs[j] \in ToSet(o.refs) /\ o.refs[j].cell # <<>>
    BY <2>2, <2>8 DEF ToSet
  <2> QED BY <1>2, <2>4, <2>8, <2>9
<1> HIDE DEF right
<1>4. ASSUME NEW i \in DOMAIN o.refs PROVE AllStand(body[i], t, FALSE)
  <2> DEFINE ref == o.refs[i]
             r == right(ref)[1]
  <2>1. body[i] = IF found(ref) THEN <<hit(ref)>> ELSE <<>>
    <3> HIDE DEF found, hit
    <3> QED OBVIOUS
  <2> HIDE DEF body
  <2>2. CASE found(ref)
    <3>1. right(ref) # <<>>
      BY <2>2
    <3>2. r.text \in Cell /\ Cited(r.text, r, None)
      BY <1>3, <3>1
    <3>3. hit(ref) = Hit("excel_cell", r.text, Certain, r, None, {}, NoUnit)
      OBVIOUS
    <3> HIDE DEF found, hit, r
    <3> QED BY <2>1, <2>2, <3>2, <3>3, HitIs
  <2>3. CASE ~found(ref)
    <3> HIDE DEF found, hit
    <3> QED BY <2>1, <2>3, StandTogether
  <2> QED BY <2>2, <2>3
<1> HIDE DEF found, hit
<1>5. body = [i \in DOMAIN o.refs |-> body[i]]
  OBVIOUS
<1> HIDE DEF body
<1> QED BY <1>1, <1>2, <1>4, <1>5, StandEach
-----------------------------------------------------------------------------
(* What a row that names the record gives.                                 *)

\* What is of a row is named in it, if it is no number.
LEMMA NamedInRow ==
  ASSUME NEW row \in Row, NEW w \in RowWords(row), w \notin Numbers
  PROVE  w \in ToSet(WordsOf(row))
<1>1. "joined" \in Numbers
  BY DEF Numbers, Number
<1> QED BY <1>1, CommaTextIs DEF RowWords

\* A row of a table as text: some of its words, cell by cell.
ShownRow(row) == [i \in DOMAIN row |-> Shown(row[i])]

LEMMA RowTextIs ==
  ASSUME NEW row \in Row
  PROVE  /\ ShownRow(row) \in Row /\ Len(ShownRow(row)) = Len(row) /\ DOMAIN ShownRow(row) = DOMAIN row
         /\ RowText(row) = WordsOf(ShownRow(row)) /\ RowText(row) \in Cell
         /\ \A w \in ToSet(RowText(row)) : w \in ToSet(WordsOf(row))
<1> DEFINE f == ShownRow(row)
           n == Len(row)
<1>1. n \in Nat /\ DOMAIN row = 1..n /\ \A i \in 1..n : row[i] \in Cell
  BY DEF Row
<1>2. \A i \in DOMAIN row : f[i] = row[i] \/ f[i] = <<>>
  BY DEF ShownRow, Shown
<1>3. DOMAIN f = DOMAIN row /\ f = [i \in DOMAIN row |-> f[i]]
  BY DEF ShownRow
<1>4. RowText(row) = WordsOf(f)
  BY DEF RowText, WordsOf, ShownRow
<1>5. <<>> \in Cell
  BY DEF Cell
<1> HIDE DEF f, n
<1>6. f \in [1..n -> Cell]
  BY <1>1, <1>2, <1>3, <1>5
<1>7. f \in Row /\ Len(f) = n
  BY <1>1, <1>6 DEF Row
<1>8. ASSUME NEW w \in ToSet(WordsOf(f)) PROVE w \in ToSet(WordsOf(row))
  <2>1. PICK c \in DOMAIN f : w \in ToSet(f[c])
    BY <1>7, WordsAre
  <2>2. c \in DOMAIN row /\ w \in ToSet(row[c])
    BY <1>2, <1>3, <2>1, Elements
  <2> QED BY <2>2, WordsAre
<1>9. WordsOf(f) \in Cell
  BY <1>7, WordsAre
<1> QED BY <1>3, <1>4, <1>7, <1>8, <1>9 DEF f, n

\* A number from a row, or line, that names the record.
LEMMA BoundHitStands ==
  ASSUME NEW t, NEW words \in Cell, NEW w \in ToSet(words),
         NEW text, NEW at, NEW sheet, NEW quote, NEW page, Cited(text, Inline(at, sheet, quote), page),
         \A x \in ToSet(words) : x \in ToSet(text),
         NEW row \in ToSet(doc.parts[CitedPart(Inline(at, sheet, quote))]), w \in RowWords(row),
         t.record \notin Numbers => t.record \in ToSet(WordsOf(row)),
         NEW confidence, NEW near, NEW unit
  PROVE  AllStand(<<Hit("table_lookup", <<w>>, confidence, Inline(at, sheet, words), page, near, unit)>>,
                  t, TRUE)
<1> DEFINE h == Hit("table_lookup", <<w>>, confidence, Inline(at, sheet, words), page, near, unit)
           raw == <<w>>
<1>1. raw \in Cell /\ ToSet(raw) = {w} /\ raw # <<>>
  BY CellOne
<1>2. h.raw = raw /\ h.reference = Inline(at, sheet, words) /\ h.page = page
  BY DEF Hit
<1>3. CitedPart(h.reference) = CitedPart(Inline(at, sheet, quote))
  BY <1>2 DEF CitedPart, Inline, Reference
<1> HIDE DEF h, raw
<1>4. Cited(raw, Inline(at, sheet, words), page)
  BY <1>1, Requote
<1>5. OfRecordRow(h, t)
  BY <1>1, <1>2, <1>3 DEF OfRecordRow
<1>6. Stands(h, t, TRUE)
  BY <1>1, <1>2, <1>4, <1>5 DEF Stands
<1> QED BY <1>6, StandTogether DEF h, raw

\* Columns are numbered from one.
LEMMA ColumnsAre ==
  ASSUME NEW header \in Row
  PROVE  /\ QuantityColumns(header) \in Seq(Nat \ {0})
         /\ (\A c \in DOMAIN header : \A hint \in ToSet(HeaderHints) : hint \notin ToSet(header[c]))
            => QuantityColumns(header) = <<>>
<1> DEFINE S == Nat \ {0}
           all == [i \in DOMAIN header |-> i]
           keep(h, i) == HeaderHints[h] \in ToSet(header[i])
           some(h) == [i \in DOMAIN all |-> IF keep(h, all[i]) THEN <<all[i]>> ELSE <<>>]
           body == [h \in DOMAIN HeaderHints |-> FlattenSeq(some(h))]
           N == Len(HeaderHints)
<1>1. QuantityColumns(header) = FlattenSeq(body)
  BY DEF QuantityColumns, Select, Each
<1>2. N = 2 /\ DOMAIN HeaderHints = 1..N
  BY DEF HeaderHints
<1>3. all \in Seq(S)
  <2>1. Len(header) \in Nat /\ DOMAIN header = 1..Len(header)
    BY DEF Row
  <2>2. all \in [1..Len(header) -> S]
    BY <2>1
  <2> HIDE DEF all, S
  <2> QED BY <2>1, <2>2
<1> HIDE DEF all, S
<1>4. ASSUME NEW h \in 1..N
      PROVE  /\ FlattenSeq(some(h)) \in Seq(S)
             /\ (\A j \in DOMAIN all : ~keep(h, all[j])) => FlattenSeq(some(h)) = <<>>
  <2> DEFINE f == some(h)
             F == FlattenSeq(f)
  <2>1. /\ f = [j \in DOMAIN all |-> f[j]] /\ \A j \in DOMAIN all : f[j] \in {<<>>, <<all[j]>>}
        /\ \A j \in DOMAIN all : ~keep(h, all[j]) => f[j] = <<>>
    <3> HIDE DEF keep
    <3> QED OBVIOUS
  <2> HIDE DEF f, keep
  <2>2. F \in Seq(S) /\ \A x : x \in ToSet(F) <=> \E j \in DOMAIN all : x = all[j] /\ f[j] # <<>>
    BY <1>3, <2>1, Sift
  <2> HIDE DEF F
  <2>3. ASSUME F # <<>>, \A j \in DOMAIN all : ~keep(h, all[j]) PROVE FALSE
    <3>1. F[1] \in ToSet(F)
      <4>1. 1 \in DOMAIN F
        BY <2>2, <2>3
      <4> QED BY <4>1 DEF ToSet
    <3> QED BY <2>1, <2>2, <2>3, <3>1
  <2> QED BY <2>2, <2>3 DEF f, F
<1>5. ASSUME \A c \in DOMAIN header : \A hint \in ToSet(HeaderHints) : hint \notin ToSet(header[c])
      PROVE  \A h \in 1..N : \A j \in DOMAIN all : ~keep(h, all[j])
  <2>1. \A h \in 1..N : HeaderHints[h] \in ToSet(HeaderHints)
    BY <1>2 DEF ToSet
  <2>2. DOMAIN all = DOMAIN header /\ \A j \in DOMAIN all : all[j] = j
    BY DEF all
  <2> HIDE DEF N
  <2> QED BY <1>5, <2>1, <2>2
<1> HIDE DEF some, N, keep
<1>6. body \in [1..N -> Seq(S)] /\ N \in Nat /\ \A h \in 1..N : body[h] = FlattenSeq(some(h))
  BY <1>2, <1>4
<1> HIDE DEF body
<1>7. FlattenSeq(body) \in Seq(S) /\ InTurn(body, FlattenSeq(body), N)
  BY <1>6, Flatten
<1>8. (\A h \in 1..N : \A j \in DOMAIN all : ~keep(h, all[j])) => FlattenSeq(body) = <<>>
  BY <1>4, <1>6, <1>7 DEF InTurn
<1> QED BY <1>1, <1>5, <1>7, <1>8 DEF S

\* The tokens of some of a row's cells.
LEMMA TokensOfRow ==
  ASSUME NEW row \in Row, NEW order, IsSeq(order), \A i \in ToSet(order) : i \in DOMAIN row, NEW t
  PROVE  LET tokens == FlattenSeq([k \in DOMAIN order |-> QuantityTokens(row[order[k]], WordsOf(row), t)])
         IN  /\ tokens \in Cell /\ \A w \in ToSet(tokens) : w \in ToSet(WordsOf(row))
             /\ \A k \in DOMAIN order : \A w \in ToSet(QuantityTokens(row[order[k]], WordsOf(row), t)) :
                  w \in ToSet(tokens)
<1> DEFINE around == WordsOf(row)
           body == [k \in DOMAIN order |-> QuantityTokens(row[order[k]], around, t)]
           N == Len(order)
<1>1. N \in Nat /\ DOMAIN order = 1..N /\ \A k \in 1..N : order[k] \in DOMAIN row
  BY SeqFacts
<1>2. ASSUME NEW k \in 1..N
      PROVE  /\ QuantityTokens(row[order[k]], around, t) \in Cell
             /\ \A w \in ToSet(QuantityTokens(row[order[k]], around, t)) : w \in ToSet(around)
  <2> DEFINE c == order[k]
             cell == row[c]
  <2>1. c \in DOMAIN row
    BY <1>1
  <2>2. cell \in Cell
    <3> HIDE DEF c
    <3> QED BY <2>1 DEF Row
  <2>3. \A w \in ToSet(cell) : w \in ToSet(around)
    <3> HIDE DEF c
    <3> QED BY <2>1, WordsAre
  <2> HIDE DEF around, cell
  <2>4. /\ QuantityTokens(cell, around, t) \in Cell
        /\ \A w \in ToSet(QuantityTokens(cell, around, t)) : w \in ToSet(cell)
    BY <2>2, TokensAre
  <2> QED BY <2>3, <2>4 DEF cell
<1> HIDE DEF around, N
<1>3. body \in [1..N -> Cell] /\ \A k \in 1..N : body[k] = QuantityTokens(row[order[k]], around, t)
  BY <1>1, <1>2
<1> HIDE DEF body
<1>4. FlattenSeq(body) \in Cell /\ InTurn(body, FlattenSeq(body), N)
  <2>1. body \in [1..N -> Seq(STRING)] /\ N \in Nat
    BY <1>1, <1>3 DEF Cell
  <2> QED BY <2>1, Flatten DEF Cell
<1>5. \A w \in ToSet(FlattenSeq(body)) : w \in ToSet(around)
  BY <1>2, <1>3, <1>4 DEF InTurn
<1>6. \A k \in DOMAIN order : \A w \in ToSet(QuantityTokens(row[order[k]], around, t)) :
        w \in ToSet(FlattenSeq(body))
  BY <1>1, <1>3, <1>4 DEF InTurn
<1> QED BY <1>4, <1>5, <1>6 DEF body, around

\* The header is one of the rows.
LEMMA HeaderRowIs ==
  ASSUME NEW rows \in Part, DOMAIN rows # {}
  PROVE  HeaderRow(rows) \in DOMAIN rows /\ HeaderRow(rows) \in 1..3
<1> DEFINE looks == {i \in 1..3 : i <= Len(rows)
                       /\ Mentions(WordsOf(rows[i]), {"ticket"} \cup ToSet(HeaderHints))}
           n == Len(rows)
<1>1. n \in Nat /\ DOMAIN rows = 1..n
  BY DEF Part
<1>2. HeaderRow(rows) = IF looks = {} THEN 1 ELSE CHOOSE i \in looks : \A j \in looks : i <= j
  BY DEF HeaderRow
<1>3. looks \in SUBSET Nat /\ \A i \in looks : i \in 1..n /\ i \in 1..3
  <2>1. \A i \in looks : i \in 1..3 /\ i <= n
    OBVIOUS
  <2> HIDE DEF looks, n
  <2> QED BY <1>1, <2>1
<1> HIDE DEF looks, n
<1>4. CASE looks = {}
  <2>1. 1 \in 1..n /\ 1 \in 1..3
    BY <1>1
  <2> QED BY <1>1, <1>2, <1>4, <2>1
<1>5. CASE looks # {}
  <2>1. PICK i \in looks : \A j \in looks : i <= j
    BY <1>3, <1>5, Least
  <2>2. HeaderRow(rows) \in looks
    BY <1>2, <1>5, <2>1
  <2> QED BY <1>1, <1>3, <2>2
<1> QED BY <1>4, <1>5

\* The first of a sequence is in it.
LEMMA FirstOf ==
  ASSUME NEW S, NEW s \in Seq(S), s # <<>>
  PROVE  s[1] \in ToSet(s)
<1>1. Len(s) \in Nat /\ DOMAIN s = 1..Len(s) /\ Len(s) # 0
  OBVIOUS
<1>2. 1 \in DOMAIN s
  BY <1>1
<1> QED BY <1>2 DEF ToSet

\* All cells of a row.
LEMMA PlacesOf ==
  ASSUME NEW row \in Row
  PROVE  /\ IsSeq([i \in DOMAIN row |-> i])
         /\ \A i \in ToSet([i \in DOMAIN row |-> i]) : i \in DOMAIN row
<1> DEFINE f == [i \in DOMAIN row |-> i]
           n == Len(row)
<1>1. n \in Nat /\ DOMAIN row = 1..n
  BY DEF Row
<1>2. DOMAIN f = 1..n /\ f = [i \in 1..n |-> f[i]] /\ \A i \in 1..n : f[i] = i
  <2> HIDE DEF n
  <2> QED BY <1>1
<1> HIDE DEF f, n
<1>3. IsSeq(f) /\ \A x : x \in ToSet(f) <=> \E i \in 1..n : x = f[i]
  BY <1>1, <1>2, BuiltIs
<1>4. \A i \in ToSet(f) : i \in DOMAIN row
  BY <1>1, <1>2, <1>3
<1> QED BY <1>3, <1>4 DEF f

RowTokens(header, row, t) ==
  LET columns == QuantityColumns(header)
      order == IF columns = <<>> THEN [i \in DOMAIN row |-> i]
               ELSE Select(columns, LAMBDA i : i <= Len(row))
  IN  Each(order, LAMBDA i : QuantityTokens(Shown(row[i]), RowText(row), t))

\* The quantities of a row of a table are words of the row,
LEMMA TableRowTokens ==
  ASSUME NEW row \in Row, NEW header \in Row, NEW t
  PROVE  /\ RowTokens(header, row, t) \in Cell
         /\ \A w \in ToSet(RowTokens(header, row, t)) : w \in ToSet(RowText(row))
         /\ QuantityColumns(header) = <<>> => \A w \in ToSet(RowText(row)) :
              w \in Numbers /\ ~IsLikelyBad(<<w>>, RowText(row), t) => w \in ToSet(RowTokens(header, row, t))
<1> DEFINE columns == QuantityColumns(header)
           places == [i \in DOMAIN row |-> i]
           some == [k \in DOMAIN columns |-> IF columns[k] <= Len(row) THEN <<columns[k]>> ELSE <<>>]
           fitting == Select(columns, LAMBDA i : i <= Len(row))
           order == IF columns = <<>> THEN places ELSE fitting
<1>1. columns \in Seq(Nat \ {0})
  BY ColumnsAre
<1>2. Len(row) \in Nat /\ DOMAIN row = 1..Len(row)
  BY DEF Row
<1>3. IsSeq(fitting) /\ \A i \in ToSet(fitting) : i \in DOMAIN row
  <2> DEFINE S == Nat \ {0}
  <2>1. fitting = FlattenSeq(some)
    BY DEF Select, Each
  <2> HIDE DEF columns, fitting
  <2>2. /\ some = [k \in DOMAIN columns |-> some[k]]
        /\ \A k \in DOMAIN columns : some[k] \in {<<>>, <<columns[k]>>}
        /\ \A k \in DOMAIN columns : some[k] # <<>> => columns[k] <= Len(row)
    OBVIOUS
  <2> HIDE DEF some
  <2>3. columns \in Seq(S)
    BY <1>1
  <2> HIDE DEF S
  <2>4. /\ FlattenSeq(some) \in Seq(S)
        /\ \A x : x \in ToSet(FlattenSeq(some)) <=> \E k \in DOMAIN columns : x = columns[k] /\ some[k] # <<>>
    BY <2>2, <2>3, Sift
  <2>5. IsSeq(fitting)
    <3>1. fitting \in Seq(S)
      BY <2>1, <2>4
    <3> QED BY <3>1, SeqIsSeq
  <2>6. ASSUME NEW i \in ToSet(fitting) PROVE i \in DOMAIN row
    <3>1. PICK k \in DOMAIN columns : i = columns[k] /\ some[k] # <<>>
      BY <2>1, <2>4
    <3>2. columns[k] \in Nat \ {0}
      BY <2>3 DEF S
    <3> QED BY <1>2, <2>2, <3>1, <3>2
  <2> QED BY <2>5, <2>6
<1>4. IsSeq(places) /\ \A i \in ToSet(places) : i \in DOMAIN row
  BY PlacesOf
<1>5. RowTokens(header, row, t) = Each(order, LAMBDA i : QuantityTokens(Shown(row[i]), RowText(row), t))
  BY DEF RowTokens
<1>6. columns = <<>> => order = places
  OBVIOUS
<1>7. DOMAIN places = DOMAIN row /\ \A i \in DOMAIN row : places[i] = i
  OBVIOUS
<1> HIDE DEF places, fitting, columns
<1>8. IsSeq(order) /\ \A i \in ToSet(order) : i \in DOMAIN row
  BY <1>3, <1>4
<1> HIDE DEF order
<1> DEFINE shown == ShownRow(row)
           around == WordsOf(shown)
           tokens == FlattenSeq([k \in DOMAIN order |-> QuantityTokens(shown[order[k]], around, t)])
<1>9. /\ shown \in Row /\ DOMAIN shown = DOMAIN row /\ around = RowText(row)
      /\ \A i \in DOMAIN row : shown[i] = Shown(row[i])
  BY RowTextIs DEF ShownRow
<1>10. RowTokens(header, row, t) = tokens
  <2>1. \A k \in DOMAIN order : order[k] \in DOMAIN row
    BY <1>8, SeqFacts
  <2>2. [k \in DOMAIN order |-> QuantityTokens(Shown(row[order[k]]), RowText(row), t)]
        = [k \in DOMAIN order |-> QuantityTokens(shown[order[k]], around, t)]
    <3> HIDE DEF shown, around
    <3> QED BY <1>9, <2>1
  <2> QED BY <1>5, <2>2 DEF Each
<1> HIDE DEF shown
<1>11. /\ tokens \in Cell /\ \A w \in ToSet(tokens) : w \in ToSet(around)
       /\ \A k \in DOMAIN order : \A w \in ToSet(QuantityTokens(shown[order[k]], around, t)) :
            w \in ToSet(tokens)
  <2>1. \A i \in ToSet(order) : i \in DOMAIN shown
    BY <1>8, <1>9
  <2> QED BY <1>8, <1>9, <2>1, TokensOfRow
<1> HIDE DEF tokens
<1>12. ASSUME columns = <<>>, NEW w \in ToSet(around), w \in Numbers, ~IsLikelyBad(<<w>>, around, t)
       PROVE  w \in ToSet(tokens)
  <2>1. PICK c \in DOMAIN shown : w \in ToSet(shown[c])
    BY <1>9, WordsAre
  <2>2. shown[c] \in Cell
    BY <1>9 DEF Row
  <2> HIDE DEF around
  <2>3. w \in ToSet(QuantityTokens(shown[c], around, t))
    BY <1>12, <2>1, <2>2, NumberIsTaken
  <2>4. c \in DOMAIN order /\ order[c] = c
    BY <1>6, <1>7, <1>9, <1>12, <2>1
  <2> QED BY <1>11, <2>3, <2>4
<1> HIDE DEF around
<1> QED BY <1>9, <1>10, <1>11, <1>12 DEF columns
-----------------------------------------------------------------------------
LineTokens(header, row, t) ==
  LET columns == IF Len(header) > 1 THEN QuantityColumns(header) ELSE <<>>
      inColumns == IF \A i \in ToSet(columns) : i <= Len(row)
                   THEN Each(columns, LAMBDA i : QuantityTokens(row[i], WordsOf(row), t))
                   ELSE <<>>
  IN  inColumns \o QuantityTokens(WordsOf(row), WordsOf(row), t)

\* and so are those of a line.
LEMMA LineRowTokens ==
  ASSUME NEW row \in Row, NEW header \in Row, NEW t
  PROVE  /\ LineTokens(header, row, t) \in Cell
         /\ \A w \in ToSet(LineTokens(header, row, t)) : w \in ToSet(WordsOf(row))
         /\ \A w \in ToSet(WordsOf(row)) :
              w \in Numbers /\ ~IsLikelyBad(<<w>>, WordsOf(row), t) => w \in ToSet(LineTokens(header, row, t))
<1> DEFINE columns == IF Len(header) > 1 THEN QuantityColumns(header) ELSE <<>>
           ofColumns == FlattenSeq([k \in DOMAIN columns |-> QuantityTokens(row[columns[k]], WordsOf(row), t)])
           inColumns == IF \A i \in ToSet(columns) : i <= Len(row) THEN ofColumns ELSE <<>>
           ofRow == QuantityTokens(WordsOf(row), WordsOf(row), t)
<1>1. LineTokens(header, row, t) = inColumns \o ofRow
  BY DEF LineTokens, Each
<1>2. columns \in Seq(Nat \ {0})
  <2>1. <<>> \in Seq(Nat \ {0})
    OBVIOUS
  <2> QED BY <2>1, ColumnsAre
<1>3. Len(row) \in Nat /\ DOMAIN row = 1..Len(row)
  BY DEF Row
<1> HIDE DEF columns
<1>4. ASSUME \A i \in ToSet(columns) : i <= Len(row)
      PROVE  ofColumns \in Cell /\ \A w \in ToSet(ofColumns) : w \in ToSet(WordsOf(row))
  <2>1. IsSeq(columns)
    BY <1>2, SeqIsSeq
  <2>2. \A i \in ToSet(columns) : i \in Nat \ {0}
    BY <1>2, Elements
  <2>3. \A i \in ToSet(columns) : i \in DOMAIN row
    BY <1>3, <1>4, <2>2
  <2> QED BY <2>1, <2>3, TokensOfRow
<1> HIDE DEF ofColumns
<1>5. inColumns \in Cell /\ \A w \in ToSet(inColumns) : w \in ToSet(WordsOf(row))
  <2>1. <<>> \in Cell /\ ToSet(<<>>) = {}
    BY Elements DEF Cell
  <2> QED BY <1>4, <2>1
<1>6. ofRow \in Cell /\ \A w \in ToSet(ofRow) : w \in ToSet(WordsOf(row))
  BY WordsAre, TokensAre
<1>7. \A w \in ToSet(WordsOf(row)) : w \in Numbers /\ ~IsLikelyBad(<<w>>, WordsOf(row), t) => w \in ToSet(ofRow)
  BY WordsAre, NumberIsTaken
<1> HIDE DEF inColumns, ofRow
<1> QED BY <1>1, <1>5, <1>6, <1>7, Concatenation

\* The rows of tables that name the record,
LEMMA BoundTableHitsStand ==
  ASSUME NEW t, NEW o, TablesStand(o), TablesRender(o)
  PROVE  AllStand(RowBoundTableHits(o, t), t, TRUE)
<1> DEFINE head(rows) == HeaderRow(rows)
           found(rows, r) == /\ r # head(rows) /\ t.record \in ToSet(RowText(rows[r]))
                             /\ RowTokens(rows[head(rows)], rows[r], t) # <<>>
           hit(table, r) ==
             Hit("table_lookup", <<RowTokens(table.rows[head(table.rows)], table.rows[r], t)[1]>>,
                 table.confidence, Inline(table.page, table.sheet, RowText(table.rows[r])), table.page,
                 {RowText(table.rows[r]), RowText(table.rows[head(table.rows)])},
                 RowUnit(RowText(table.rows[head(table.rows)]), RowText(table.rows[r]), t))
           inTable(table) ==
             FlattenSeq([r \in DOMAIN table.rows |->
               IF found(table.rows, r) THEN <<hit(table, r)>> ELSE <<>>])
           body == [i \in DOMAIN o.tables |-> inTable(o.tables[i])]
<1>1. RowBoundTableHits(o, t) = FlattenSeq(body)
  BY DEF RowBoundTableHits, RowTokens, Each
<1>2. ASSUME NEW i \in DOMAIN o.tables PROVE AllStand(body[i], t, TRUE)
  <2> DEFINE table == o.tables[i]
             f == [r \in DOMAIN table.rows |-> IF found(table.rows, r) THEN <<hit(table, r)>> ELSE <<>>]
  <2>1. table \in ToSet(o.tables)
    BY DEF ToSet
  <2>2. body[i] = FlattenSeq(f)
    <3> HIDE DEF found, hit
    <3> QED OBVIOUS
  <2> HIDE DEF table, body
  <2>3. table.rows \in Part /\ Cited(TextOf(table.rows), TableReference(table), table.page)
    BY <2>1 DEF TablesStand
  <2>4. IsSeq(table.rows)
    BY <2>3, RowsAre
  <2>5. ASSUME NEW r \in DOMAIN table.rows PROVE AllStand(f[r], t, TRUE)
    <3> DEFINE row == table.rows[r]
               header == table.rows[head(table.rows)]
               words == RowText(row)
               tokens == RowTokens(header, row, t)
    <3>1. f[r] = IF found(table.rows, r) THEN <<hit(table, r)>> ELSE <<>>
      <4> HIDE DEF found, hit
      <4> QED OBVIOUS
    <3> HIDE DEF f
    <3>2. CASE found(table.rows, r)
      <4>1. t.record \in ToSet(words) /\ tokens # <<>>
        BY <3>2
      <4>2. row \in Row /\ header \in Row
        <5>1. head(table.rows) \in DOMAIN table.rows
          BY <2>3, HeaderRowIs
        <5> HIDE DEF head
        <5> QED BY <2>3, <5>1 DEF Part
      <4>3. row \in ToSet(table.rows)
        BY DEF ToSet
      <4> DEFINE unit == RowUnit(RowText(header), words, t)
                 near == {words, RowText(header)}
      <4>4. hit(table, r) = Hit("table_lookup", <<tokens[1]>>, table.confidence,
                                Inline(table.page, table.sheet, words), table.page, near, unit)
        OBVIOUS
      <4> HIDE DEF found, hit, header, unit, near, row
      <4>5. tokens \in Cell /\ \A w \in ToSet(tokens) : w \in ToSet(words)
        BY <4>2, TableRowTokens
      <4> HIDE DEF tokens
      <4>6. tokens[1] \in ToSet(words)
        BY <4>1, <4>5, FirstOf DEF Cell
      <4>7. /\ words \in Cell /\ \A w \in ToSet(words) : w \in ToSet(TextOf(table.rows))
            /\ \A w \in ToSet(words) : w \in ToSet(WordsOf(row))
        BY <2>3, <4>2, <4>3, RowTextIs, RowsAre
      <4> HIDE DEF words
      <4>8. row \in ToSet(doc.parts[CitedPart(Inline(table.page, table.sheet, <<>>))])
        BY <2>1, <4>3 DEF TablesRender, TableReference
      <4>9. tokens[1] \in RowWords(row) /\ t.record \in ToSet(WordsOf(row))
        BY <4>1, <4>6, <4>7 DEF RowWords
      <4>10. Cited(TextOf(table.rows), Inline(table.page, table.sheet, <<>>), table.page)
        BY <2>3 DEF TableReference
      <4>11. AllStand(<<Hit("table_lookup", <<tokens[1]>>, table.confidence,
                           Inline(table.page, table.sheet, words), table.page, near, unit)>>, t, TRUE)
        BY <4>6, <4>7, <4>8, <4>9, <4>10, BoundHitStands
      <4> QED BY <3>1, <3>2, <4>4, <4>11
    <3>3. CASE ~found(table.rows, r)
      <4> HIDE DEF found, hit
      <4> QED BY <3>1, <3>3, StandTogether
    <3> QED BY <3>2, <3>3
  <2> HIDE DEF found, hit
  <2>6. f = [r \in DOMAIN table.rows |-> f[r]]
    OBVIOUS
  <2> HIDE DEF f
  <2> QED BY <2>2, <2>4, <2>5, <2>6, StandEach
<1> HIDE DEF inTable
<1>3. body = [i \in DOMAIN o.tables |-> body[i]]
  OBVIOUS
<1> HIDE DEF body
<1>4. IsSeq(o.tables)
  BY DEF TablesStand
<1> QED BY <1>1, <1>2, <1>3, <1>4, StandEach

\* and the lines that do.
LEMMA BoundLineHitsStand ==
  ASSUME doc \in Documents, NEW t, NEW o, PagesStand(o), PagesRender(o)
  PROVE  AllStand(RowBoundLineHits(o, t), t, TRUE)
<1> DEFINE header(lines, l) == IF l > 1 THEN lines[l - 1] ELSE <<>>
           found(lines, l) == /\ t.record \in ToSet(WordsOf(lines[l]))
                              /\ LineTokens(header(lines, l), lines[l], t) # <<>>
           hit(p, lines, l) ==
             Hit("table_lookup", <<LineTokens(header(lines, l), lines[l], t)[1]>>, Certain,
                 Inline(p.page, None, WordsOf(lines[l])), p.page,
                 {WordsOf(lines[l]), WordsOf(header(lines, l))},
                 RowUnit(WordsOf(header(lines, l)), WordsOf(lines[l]), t))
           onPage(p) ==
             FlattenSeq([l \in DOMAIN NonBlank(p.text) |->
               IF found(NonBlank(p.text), l) THEN <<hit(p, NonBlank(p.text), l)>> ELSE <<>>])
           body == [i \in DOMAIN o.pages |-> onPage(o.pages[i])]
<1>1. RowBoundLineHits(o, t) = FlattenSeq(body)
  BY DEF RowBoundLineHits, LineTokens, Each
<1>2. ASSUME NEW i \in DOMAIN o.pages PROVE AllStand(body[i], t, TRUE)
  <2> DEFINE p == o.pages[i]
             lines == NonBlank(p.text)
             f == [l \in DOMAIN lines |-> IF found(lines, l) THEN <<hit(p, lines, l)>> ELSE <<>>]
  <2>1. p \in ToSet(o.pages)
    BY DEF ToSet
  <2>2. body[i] = FlattenSeq(f)
    <3> HIDE DEF found, hit
    <3> QED OBVIOUS
  <2> HIDE DEF p, body
  <2>3. p.text \in Part /\ Cited(TextOf(p.text), Inline(p.page, None, TextOf(p.text)), p.page)
    BY <2>1 DEF PagesStand
  <2>4. lines \in Part /\ \A row \in ToSet(lines) : row \in ToSet(p.text)
    BY <2>3, NonBlankIs
  <2> HIDE DEF lines
  <2>5. IsSeq(lines)
    BY <2>4, RowsAre
  <2>6. ASSUME NEW l \in DOMAIN lines PROVE AllStand(f[l], t, TRUE)
    <3> DEFINE row == lines[l]
               above == header(lines, l)
               words == WordsOf(row)
               tokens == LineTokens(above, row, t)
    <3>1. f[l] = IF found(lines, l) THEN <<hit(p, lines, l)>> ELSE <<>>
      <4> HIDE DEF found, hit
      <4> QED OBVIOUS
    <3> HIDE DEF f
    <3>2. CASE found(lines, l)
      <4>1. t.record \in ToSet(words) /\ tokens # <<>>
        BY <3>2
      <4>2. row \in Row /\ above \in Row
        <5>1. lines \in Seq(Row) /\ Len(lines) \in Nat /\ DOMAIN lines = 1..Len(lines)
          BY <2>4 DEF Part
        <5>2. <<>> \in Row
          BY DEF Row
        <5>3. l > 1 => l - 1 \in DOMAIN lines
          BY <5>1
        <5> QED BY <5>1, <5>2, <5>3
      <4>3. row \in ToSet(lines)
        BY DEF ToSet
      <4> DEFINE unit == RowUnit(WordsOf(above), words, t)
                 near == {words, WordsOf(above)}
      <4>4. hit(p, lines, l) = Hit("table_lookup", <<tokens[1]>>, Certain,
                                   Inline(p.page, None, words), p.page, near, unit)
        OBVIOUS
      <4> HIDE DEF found, hit, above, unit, near, row
      <4>5. tokens \in Cell /\ \A w \in ToSet(tokens) : w \in ToSet(words)
        BY <4>2, LineRowTokens
      <4> HIDE DEF tokens
      <4>6. tokens[1] \in ToSet(words)
        BY <4>1, <4>5, FirstOf DEF Cell
      <4>7. words \in Cell /\ \A w \in ToSet(words) : w \in ToSet(TextOf(p.text))
        BY <2>3, <2>4, <4>2, <4>3, WordsAre, RowsAre
      <4>8. PICK line \in ToSet(doc.parts[p.page]) : Renders(row, line)
        BY <2>1, <2>4, <4>3 DEF PagesRender
      <4>9. line \in Row
        BY <2>1, <4>8, PartsAre, RowsAre DEF PagesRender
      <4>10. \A w \in ToSet(words) : w \in RowWords(line)
        BY <4>8 DEF Renders
      <4>11. CitedPart(Inline(p.page, None, TextOf(p.text))) = p.page
        BY DEF CitedPart, Inline, Reference
      <4> HIDE DEF words
      <4>12. t.record \notin Numbers => t.record \in ToSet(WordsOf(line))
        BY <4>1, <4>9, <4>10, NamedInRow
      <4>13. AllStand(<<Hit("table_lookup", <<tokens[1]>>, Certain,
                           Inline(p.page, None, words), p.page, near, unit)>>, t, TRUE)
        BY <2>3, <4>6, <4>7, <4>8, <4>10, <4>11, <4>12, BoundHitStands
      <4> QED BY <3>1, <3>2, <4>4, <4>13
    <3>3. CASE ~found(lines, l)
      <4> HIDE DEF found, hit
      <4> QED BY <3>1, <3>3, StandTogether
    <3> QED BY <3>2, <3>3
  <2> HIDE DEF found, hit
  <2>7. f = [l \in DOMAIN lines |-> f[l]]
    OBVIOUS
  <2> HIDE DEF f
  <2> QED BY <2>2, <2>5, <2>6, <2>7, StandEach
<1> HIDE DEF onPage
<1>3. body = [i \in DOMAIN o.pages |-> body[i]]
  OBVIOUS
<1> HIDE DEF body
<1>4. IsSeq(o.pages)
  BY DEF PagesStand
<1> QED BY <1>1, <1>2, <1>3, <1>4, StandEach

\* Whatever a method finds stands where it says; what is bound to a record is of its row.
LEMMA HitsStand ==
  ASSUME doc \in Documents, NEW t \in Configs, NEW o, About(o), Rendered(o)
  PROVE  /\ AllStand(RowBoundHits(o, t), t, TRUE)
         /\ \A m \in Supported : AllStand(HitsOf(m, o, t), t, FALSE)
<1>1. /\ PagesStand(o) /\ BlocksStand(o) /\ TablesStand(o) /\ PairsStand(o) /\ RefsStand(o)
  BY DEF About
<1>2. AllStand(RowBoundHits(o, t), t, TRUE)
  BY <1>1, BoundTableHitsStand, BoundLineHitsStand, StandTogether DEF RowBoundHits, Rendered
<1>3. AllStand(RowBoundHits(o, t), t, FALSE)
  BY <1>2 DEF AllStand, Stands
<1>4. /\ AllStand(KeyValueHits(o, t), t, FALSE) /\ AllStand(RegexHits(o, t), t, FALSE)
      /\ AllStand(AnchorHits(o, t), t, FALSE) /\ AllStand(TableHits(o, t), t, FALSE)
      /\ AllStand(ExcelHits(o, t), t, FALSE)
  BY <1>1, PairHitsStand, RegexHitsStand, AnchorHitsStand, TableHitsStand, ExcelHitsStand
<1>5. /\ AllStand(RowBoundHits(o, t) \o RegexHits(o, t), t, FALSE)
      /\ AllStand(RowBoundHits(o, t) \o AnchorHits(o, t), t, FALSE)
      /\ AllStand(RowBoundHits(o, t) \o TableHits(o, t), t, FALSE)
  BY <1>3, <1>4, StandTogether
<1> QED BY <1>2, <1>4, <1>5, SupportedIs DEF HitsOf
-----------------------------------------------------------------------------
(* What the classifier finds.                                              *)

\* Confidences are numbers,
LEMMA ConfidenceIs ==
  ASSUME NEW v, NEW text
  PROVE  ComputeConfidence(v, text) \in Int
<1>1. \A g \in Groups : SignalWeights[g] \in Int
  BY DEF Groups, SignalWeights
<1>2. /\ "filename_patterns" \in Groups /\ "header_terms" \in Groups /\ "key_phrases" \in Groups
      /\ "layout_features" \in Groups
  BY DEF Groups, SignalWeights
<1> QED BY <1>1, <1>2 DEF ComputeConfidence

\* More text never takes support away, and words of the code's making give none.
LEMMA ConfidenceGrows ==
  ASSUME NEW v \in Vocabulary, NEW text, text \subseteq DocumentWords \cup MadeWords
  PROVE  Support(v) >= ComputeConfidence(v, text)
<1> DEFINE part(g) == IF g \in MatchedGroups(v, text) THEN SignalWeights[g] ELSE 0
           weight(g) == IF v[g] \cap DocumentWords = {} THEN 0 ELSE SignalWeights[g]
<1>1. ASSUME NEW g \in Groups
      PROVE  part(g) \in Nat /\ weight(g) \in Nat /\ part(g) <= weight(g)
  <2>1. SignalWeights[g] \in Nat
    BY DEF Groups, SignalWeights
  <2>2. g \in MatchedGroups(v, text) => v[g] \cap DocumentWords # {}
    <3>1. v[g] \cap MadeWords = {}
      BY VocabularyAssumption
    <3>2. g \in MatchedGroups(v, text) => v[g] \cap text # {}
      BY DEF MatchedGroups
    <3> QED BY <3>1, <3>2
  <2> QED BY <2>1, <2>2
<1>2. /\ "filename_patterns" \in Groups /\ "header_terms" \in Groups /\ "key_phrases" \in Groups
      /\ "layout_features" \in Groups
  BY DEF Groups, SignalWeights
<1>3. ComputeConfidence(v, text) = part("filename_patterns") + part("header_terms")
                                   + part("key_phrases") + part("layout_features")
  BY DEF ComputeConfidence
<1>4. Support(v) = weight("filename_patterns") + weight("header_terms") + weight("key_phrases")
                   + weight("layout_features")
  BY DEF Support
<1> HIDE DEF part, weight
<1> QED BY <1>1, <1>2, <1>3, <1>4

\* The words of the parts are the document's, but for a joined number.
LEMMA AnyWordsAre ==
  ASSUME doc \in Documents, NEW w \in AnyWords
  PROVE  w = "joined" \/ \E p \in DOMAIN doc.parts : w \in ToSet(TextOf(doc.parts[p]))
<1>1. PICK p \in DOMAIN doc.parts : w \in PartWords(p)
  BY DEF AnyWords
<1>2. PICK row \in ToSet(doc.parts[p]) : w \in RowWords(row)
  BY <1>1 DEF PartWords
<1>3. doc.parts[p] \in Part
  BY PartsAre
<1>4. row \in Row /\ \A x \in ToSet(WordsOf(row)) : x \in ToSet(TextOf(doc.parts[p]))
  BY <1>3, RowsAre
<1>5. w = "joined" \/ w \in ToSet(WordsOf(row))
  BY <1>2, <1>4, CommaTextIs DEF RowWords
<1> QED BY <1>4, <1>5

\* What the parsers hand on is read from the document.
LEMMA SearchTextIs ==
  ASSUME doc \in Documents, NEW o, About(o)
  PROVE  SearchText(doc.name, o) \subseteq DocumentWords \cup MadeWords
<1> SUFFICES ASSUME NEW w \in SearchText(doc.name, o), w \notin doc.name
             PROVE  w \in CutWords \/ w \in AnyWords
  BY AnyWordsAre DEF DocumentWords, MadeWords
<1> DEFINE pages == {TextOf(o.pages[i].text) : i \in DOMAIN o.pages}
           blocks == {TextOf(o.blocks[i].text) : i \in DOMAIN o.blocks}
           tables == {TextOf(o.tables[i].rows) : i \in DOMAIN o.tables}
           pairs == {o.pairs[i].key \o o.pairs[i].value : i \in DOMAIN o.pairs}
<1>1. PICK text \in pages \cup blocks \cup tables \cup pairs : w \in ToSet(text)
  BY DEF SearchText
<1>2. CASE text \in pages
  <2>1. PICK i \in DOMAIN o.pages : text = TextOf(o.pages[i].text)
    BY <1>2
  <2>2. o.pages[i] \in ToSet(o.pages)
    BY DEF ToSet
  <2>3. Cited(text, Inline(o.pages[i].page, None, text), o.pages[i].page)
    BY <2>1, <2>2 DEF About, PagesStand
  <2> QED BY <1>1, <2>3 DEF Cited, StandsAt
<1>3. CASE text \in blocks
  <2>1. PICK i \in DOMAIN o.blocks : text = TextOf(o.blocks[i].text)
    BY <1>3
  <2>2. o.blocks[i] \in ToSet(o.blocks)
    BY DEF ToSet
  <2>3. Cited(text, BlockReference(o, o.blocks[i]), o.blocks[i].page)
    BY <2>1, <2>2 DEF About, BlocksStand
  <2> QED BY <1>1, <2>3 DEF Cited, StandsAt
<1>4. CASE text \in tables
  <2>1. PICK i \in DOMAIN o.tables : text = TextOf(o.tables[i].rows)
    BY <1>4
  <2>2. o.tables[i] \in ToSet(o.tables)
    BY DEF ToSet
  <2>3. Cited(text, TableReference(o.tables[i]), o.tables[i].page)
    BY <2>1, <2>2 DEF About, TablesStand
  <2> QED BY <1>1, <2>3 DEF Cited, StandsAt
<1>5. CASE text \in pairs
  <2>1. PICK i \in DOMAIN o.pairs : text = o.pairs[i].key \o o.pairs[i].value
    BY <1>5
  <2>2. o.pairs[i] \in ToSet(o.pairs)
    BY DEF ToSet
  <2>3. Cited(text, Inline(o.pairs[i].page, None, text), o.pairs[i].page)
    BY <2>1, <2>2 DEF About, PairsStand
  <2> QED BY <1>1, <2>3 DEF Cited, StandsAt
<1> QED BY <1>1, <1>2, <1>3, <1>4, <1>5

\* c is the score of the variant v.
ScoreOf(c, v, text) ==
  /\ c.type = v.type /\ c.variant = v.variant /\ c.threshold = v.threshold
  /\ c.multiType = v.multiType /\ c.confidence = ComputeConfidence(v, text)

\* A score is that of a variant, and above zero.
LEMMA ScoredAre ==
  ASSUME NEW text
  PROVE  LET scored == ScoreCandidates(Vocabulary, text)
         IN  /\ IsSeq(scored)
             /\ \A c \in ToSet(scored) : \E v \in Vocabulary :
                  ScoreOf(c, v, text) /\ ComputeConfidence(v, text) > 0
<1> DEFINE V == {w \in Vocabulary : ComputeConfidence(w, text) > 0}
           score(v) == [type |-> v.type, variant |-> v.variant, threshold |-> v.threshold,
                        multiType |-> v.multiType, confidence |-> ComputeConfidence(v, text)]
           S == {score(v) : v \in V}
           R == {p \in S \X S : Before(p[1], p[2])}
           ahead(x) == {y \in S : Before(y, x)}
           N == Cardinality(S)
           f == ScoreCandidates(Vocabulary, text)
<1>1. \A v : ScoreOf(score(v), v, text)
  BY DEF ScoreOf
<1>2. IsFiniteSet(S)
  <2>1. IsFiniteSet(V)
    <3>1. V \in SUBSET Vocabulary
      OBVIOUS
    <3> HIDE DEF V
    <3> QED BY <3>1, VocabularyAssumption, FS_Subset
  <2> DEFINE g == [v \in V |-> score(v)]
  <2>2. S = {g[v] : v \in V} /\ DOMAIN g = V
    <3> HIDE DEF score, V
    <3> QED OBVIOUS
  <2>3. g \in Surjection(V, S)
    <3>1. g \in [V -> S]
      <4> HIDE DEF score, V
      <4> QED OBVIOUS
    <3> HIDE DEF g, V
    <3>2. \A s \in S : \E v \in V : g[v] = s
      BY <2>2
    <3> HIDE DEF S
    <3> QED BY <3>1, <3>2 DEF Surjection
  <2> HIDE DEF g, V, S
  <2> QED BY <2>1, <2>3, FS_Surjection
<1>3. N \in Nat
  <2> HIDE DEF S
  <2> QED BY <1>2, FS_CardinalityType
<1>4. \A c \in S : \E v \in Vocabulary : ScoreOf(c, v, text) /\ ComputeConfidence(v, text) > 0
  <2>1. ASSUME NEW c \in S
        PROVE  \E v \in Vocabulary : ScoreOf(c, v, text) /\ ComputeConfidence(v, text) > 0
    <3>1. PICK v \in V : c = score(v)
      OBVIOUS
    <3> QED BY <1>1, <3>1
  <2> QED BY <2>1
<1>5. \A c, d \in S : c.type = d.type /\ c.variant = d.variant => c = d
  <2>1. ASSUME NEW c \in S, NEW d \in S, c.type = d.type, c.variant = d.variant PROVE c = d
    <3>1. PICK v \in V : c = score(v)
      OBVIOUS
    <3>2. PICK w \in V : d = score(w)
      OBVIOUS
    <3>3. v.type = w.type /\ v.variant = w.variant /\ v \in Vocabulary /\ w \in Vocabulary
      BY <2>1, <3>1, <3>2
    <3>4. v = w
      BY <3>3, VocabularyAssumption
    <3> QED BY <3>1, <3>2, <3>4
  <2> QED BY <2>1
<1>6. \A c \in S : c.type \in Int /\ c.variant \in Int /\ c.confidence \in Int
  <2> HIDE DEF S
  <2> QED BY <1>4, ConfidenceIs, VocabularyAssumption DEF ScoreOf
<1>7. f = [i \in 1..N |-> CHOOSE x \in S : Cardinality(ahead(x)) = i - 1]
  BY DEF ScoreCandidates, InOrder
<1>8. \A x, y : <<x, y>> \in R <=> x \in S /\ y \in S /\ Before(x, y)
  <2> HIDE DEF S
  <2> QED OBVIOUS
<1> HIDE DEF S, R, N
<1>9. Orders(R, S)
  <2>3. \A x \in S : <<x, x>> \notin R
    BY <1>6, <1>8 DEF Before
  <2>4. \A x, y, z \in S : <<x, y>> \in R /\ <<y, z>> \in R => <<x, z>> \in R
    BY <1>6, <1>8 DEF Before
  <2>5. \A x, y \in S : x # y => <<x, y>> \in R \/ <<y, x>> \in R
    BY <1>5, <1>6, <1>8 DEF Before
  <2> QED BY <2>3, <2>4, <2>5 DEF Orders
<1>10. \A x \in S : {y \in S : <<y, x>> \in R} = ahead(x)
  BY <1>8
<1>11. ASSUME NEW i \in 1..N PROVE f[i] \in S
  <2>0. i \in 1..Cardinality(S)
    BY DEF N
  <2>1. PICK x \in S : Cardinality({y \in S : <<y, x>> \in R}) = i - 1
    BY <2>0, <1>2, <1>9, EveryPlaceIsTaken
  <2>2. Cardinality(ahead(x)) = i - 1
    BY <1>10, <2>1
  <2> HIDE DEF ahead, f
  <2>3. f[i] = CHOOSE y \in S : Cardinality(ahead(y)) = i - 1
    BY <1>7
  <2> QED BY <2>2, <2>3
<1> HIDE DEF ahead
<1>12. DOMAIN f = 1..N /\ f = [i \in 1..N |-> f[i]]
  <2> HIDE DEF f
  <2> QED BY <1>7
<1> HIDE DEF f
<1>13. IsSeq(f) /\ \A x : x \in ToSet(f) <=> \E i \in 1..N : x = f[i]
  BY <1>3, <1>12, BuiltIs
<1>14. \A c \in ToSet(f) : c \in S
  BY <1>11, <1>13
<1> QED BY <1>4, <1>13, <1>14 DEF f

\* What a confident result rests on.
Confident(r, text) ==
  /\ r.matches # <<>> /\ r.type = r.matches[1].type
  /\ \A m \in ToSet(r.matches) : \E v \in Vocabulary :
       /\ m.type = v.type /\ m.multiType = v.multiType
       /\ ComputeConfidence(v, text) > 0 /\ ComputeConfidence(v, text) >= v.threshold

\* A confident result holds only what reached its threshold; one of several types, a variant that allows several.
LEMMA ClassifyIs ==
  ASSUME NEW loads, NEW text
  PROVE  LET r == Classify(Vocabulary, loads, text)
         IN  /\ IsSeq(r.matches)
             /\ r.status \in {"classified", "multi_type_candidate"} => Confident(r, text)
             /\ r.status = "multi_type_candidate" => \E m \in ToSet(r.matches) : m.multiType
<1> DEFINE scored == ScoreCandidates(Vocabulary, text)
           body == [i \in DOMAIN scored |->
                      IF scored[i].confidence >= scored[i].threshold THEN <<scored[i]>> ELSE <<>>]
           passing == Select(scored, LAMBDA c : c.confidence >= c.threshold)
           types == {passing[i].type : i \in DOMAIN passing}
           status == IF passing = <<>> THEN "low_confidence"
                     ELSE IF Cardinality(types) = 1 THEN "classified"
                     ELSE IF \E i \in DOMAIN passing : passing[i].multiType
                     THEN "multi_type_candidate" ELSE "low_confidence"
           selected == IF passing = <<>> THEN scored ELSE passing
           r == Classify(Vocabulary, loads, text)
<1>1. r = IF ~loads THEN [NoResult EXCEPT !.status = "failed"]
          ELSE IF scored = <<>> THEN [NoResult EXCEPT !.status = "unclassified"]
          ELSE [status |-> status, type |-> selected[1].type,
                confidence |-> selected[1].confidence, matches |-> selected]
  BY DEF Classify
<1>2. /\ IsSeq(scored)
      /\ \A c \in ToSet(scored) : \E v \in Vocabulary :
           ScoreOf(c, v, text) /\ ComputeConfidence(v, text) > 0
  BY ScoredAre
<1>3. passing = FlattenSeq(body)
  BY DEF Select, Each
<1> HIDE DEF scored
<1>4. /\ body = [i \in DOMAIN scored |-> body[i]]
      /\ \A i \in DOMAIN scored : body[i] \in {<<>>, <<scored[i]>>}
      /\ \A i \in DOMAIN scored : body[i] # <<>> => scored[i].confidence >= scored[i].threshold
  OBVIOUS
<1> HIDE DEF body, passing
<1>5. IsSeq(passing) /\ \A c \in ToSet(passing) : c \in ToSet(scored) /\ c.confidence >= c.threshold
  <2> DEFINE T == ToSet(scored)
  <2>1. scored \in Seq(T)
    BY <1>2 DEF IsSeq
  <2> HIDE DEF T
  <2>2. /\ FlattenSeq(body) \in Seq(T)
        /\ \A x : x \in ToSet(FlattenSeq(body)) <=> \E i \in DOMAIN scored : x = scored[i] /\ body[i] # <<>>
    BY <1>4, <2>1, Sift
  <2>3. passing \in Seq(T)
    BY <1>3, <2>2
  <2>4. IsSeq(passing)
    BY <2>3, SeqIsSeq
  <2>5. ASSUME NEW c \in ToSet(passing) PROVE c \in ToSet(scored) /\ c.confidence >= c.threshold
    <3>1. PICK i \in DOMAIN scored : c = scored[i] /\ body[i] # <<>>
      BY <1>3, <2>2
    <3> QED BY <1>4, <3>1 DEF ToSet
  <2> QED BY <2>4, <2>5
<1>6. IsSeq(<<>>)
  BY Elements DEF IsSeq
<1>7. /\ r.matches = <<>> \/ r.matches = selected
      /\ r.status \in {"classified", "multi_type_candidate"} =>
           passing # <<>> /\ r.matches = passing /\ r.type = passing[1].type
      /\ r.status = "multi_type_candidate" => \E i \in DOMAIN passing : passing[i].multiType
  <2>1. CASE ~loads
    <3>1. r.status = "failed" /\ r.matches = <<>>
      BY <1>1, <2>1 DEF NoResult
    <3> HIDE DEF r
    <3> QED BY <3>1
  <2>2. CASE loads /\ scored = <<>>
    <3>1. r.status = "unclassified" /\ r.matches = <<>>
      BY <1>1, <2>2 DEF NoResult
    <3> HIDE DEF r
    <3> QED BY <3>1
  <2>3. CASE loads /\ scored # <<>>
    <3>1. r.status = status /\ r.type = selected[1].type /\ r.matches = selected
      BY <1>1, <2>3
    <3> HIDE DEF r, types
    <3> QED BY <3>1
  <2> QED BY <2>1, <2>2, <2>3
<1> HIDE DEF r
<1>8. IsSeq(r.matches)
  BY <1>2, <1>5, <1>6, <1>7
<1>9. ASSUME r.status \in {"classified", "multi_type_candidate"} PROVE Confident(r, text)
  <2>1. passing # <<>> /\ r.matches = passing /\ r.type = passing[1].type
    BY <1>7, <1>9
  <2>2. ASSUME NEW m \in ToSet(passing)
        PROVE  \E v \in Vocabulary :
                 /\ m.type = v.type /\ m.multiType = v.multiType
                 /\ ComputeConfidence(v, text) > 0 /\ ComputeConfidence(v, text) >= v.threshold
    <3>1. m \in ToSet(scored) /\ m.confidence >= m.threshold
      BY <1>5
    <3>2. PICK v \in Vocabulary : ScoreOf(m, v, text) /\ ComputeConfidence(v, text) > 0
      BY <1>2, <3>1
    <3> QED BY <3>1, <3>2 DEF ScoreOf
  <2> QED BY <2>1, <2>2 DEF Confident
<1>10. ASSUME r.status = "multi_type_candidate" PROVE \E m \in ToSet(r.matches) : m.multiType
  <2>1. PICK i \in DOMAIN passing : passing[i].multiType
    BY <1>7, <1>10
  <2>2. passing[i] \in ToSet(r.matches)
    BY <1>7, <1>10 DEF ToSet
  <2> QED BY <2>1, <2>2
<1> QED BY <1>8, <1>9, <1>10 DEF r
-----------------------------------------------------------------------------
(* What is planned.                                                        *)

\* The types of a result are those of its matches.
LEMMA CandidateTypesAre ==
  ASSUME NEW r, IsSeq(r.matches), r.matches # <<>>, r.type = r.matches[1].type
  PROVE  LET types == CandidateTypes(r)
         IN  /\ IsSeq(types)
             /\ \A x \in ToSet(types) : \E m \in ToSet(r.matches) : x = m.type
<1> DEFINE s == r.matches
           N == Len(s)
           T == {m.type : m \in ToSet(s)}
           ms == [i \in DOMAIN s |-> s[i].type]
           all == <<r.type>> \o ms
           places == [i \in DOMAIN all |-> i]
           body == [k \in DOMAIN places |->
                      IF \A j \in 1..(places[k] - 1) : all[j] # all[places[k]]
                      THEN <<places[k]>> ELSE <<>>]
           firsts == Select(places, LAMBDA i : \A j \in 1..(i - 1) : all[j] # all[i])
           types == CandidateTypes(r)
<1>1. N \in Nat /\ DOMAIN s = 1..N /\ \A i \in DOMAIN s : s[i] \in ToSet(s)
  BY SeqFacts
<1>2. 1 \in DOMAIN s
  <2>1. s \in Seq(ToSet(s)) /\ s # <<>>
    BY DEF IsSeq
  <2> QED BY <1>1, <2>1
<1>3. \A i \in DOMAIN s : s[i].type \in T
  BY <1>1
<1>4. ms \in Seq(T) /\ r.type \in T
  <2> HIDE DEF T
  <2>1. ms \in [1..N -> T]
    BY <1>1, <1>3
  <2> QED BY <1>1, <1>2, <1>3, <2>1
<1> HIDE DEF T, ms
<1>5. all \in Seq(T)
  BY <1>4
<1>6. firsts = FlattenSeq(body)
  BY DEF Select, Each
<1>7. types = [i \in DOMAIN firsts |-> all[firsts[i]]]
  BY DEF CandidateTypes, ms
<1> HIDE DEF all, firsts, types
<1>8. Len(all) \in Nat /\ DOMAIN all = 1..Len(all) /\ \A i \in DOMAIN all : all[i] \in T
  BY <1>5
<1> DEFINE D == DOMAIN all
<1>9. places \in Seq(D)
  <2>1. places \in [1..Len(all) -> D]
    BY <1>8
  <2> HIDE DEF D, places
  <2> QED BY <1>8, <2>1
<1>10. /\ body = [k \in DOMAIN places |-> body[k]]
       /\ \A k \in DOMAIN places : body[k] \in {<<>>, <<places[k]>>}
  <2> HIDE DEF places
  <2> QED OBVIOUS
<1> HIDE DEF body, places, D
<1>11. firsts \in Seq(D)
  BY <1>6, <1>9, <1>10, Sift
<1>12. Len(firsts) \in Nat /\ DOMAIN firsts = 1..Len(firsts) /\ \A i \in DOMAIN firsts : firsts[i] \in D
  BY <1>11
<1>13. \A i \in 1..Len(firsts) : all[firsts[i]] \in T
  BY <1>8, <1>12 DEF D
<1>14. types \in Seq(T)
  <2>1. types \in [1..Len(firsts) -> T]
    BY <1>7, <1>12, <1>13
  <2> QED BY <1>12, <2>1
<1>15. IsSeq(types)
  BY <1>14, SeqIsSeq
<1>16. \A x \in ToSet(types) : x \in T
  BY <1>14, Elements
<1> QED BY <1>15, <1>16 DEF T, types

\* The text is enough for the variant.
Warrants(v, text) == ComputeConfidence(v, text) > 0 /\ ComputeConfidence(v, text) >= v.threshold

\* The targets are of types the text warrants, and of one unless a variant allows several.
Planned(ts, text) ==
  /\ \A c \in ToSet(ts) : c \in Configs /\ \E v \in Vocabulary : v.type = c.class /\ Warrants(v, text)
  /\ \/ \A c, d \in ToSet(ts) : c.class = d.class
     \/ \E v \in Vocabulary : Warrants(v, text) /\ v.multiType

\* A result gives targets of the types it is confident of.
LEMMA TargetsOfResult ==
  ASSUME NEW loads, NEW text, NEW optional, NEW deprecated
  PROVE  LET ts == TargetsForResult(Configs, Classify(Vocabulary, loads, text), optional, deprecated)
         IN  IsSeq(ts) /\ Planned(ts, text)
<1> DEFINE r == Classify(Vocabulary, loads, text)
           one(type) == TargetsForType(Configs, type, optional, deprecated)
           body == [i \in DOMAIN CandidateTypes(r) |-> one(CandidateTypes(r)[i])]
           ts == TargetsForResult(Configs, r, optional, deprecated)
<1>1. /\ IsSeq(r.matches)
      /\ r.status \in {"classified", "multi_type_candidate"} => Confident(r, text)
      /\ r.status = "multi_type_candidate" => \E m \in ToSet(r.matches) : m.multiType
  BY ClassifyIs
<1>2. \A type : IsSeq(one(type)) /\ \A c \in ToSet(one(type)) : c \in Configs /\ c.class = type
  BY TargetsInOrder
<1>3. ts = CASE r.status = "classified" -> one(r.type)
             [] r.status = "multi_type_candidate" -> FlattenSeq(body)
             [] OTHER -> <<>>
  BY DEF TargetsForResult
<1> HIDE DEF r, one, body, ts
<1>4. CASE r.status = "classified"
  <2>1. ts = one(r.type)
    BY <1>3, <1>4
  <2>2. IsSeq(ts) /\ \A c \in ToSet(ts) : c \in Configs /\ c.class = r.type
    BY <1>2, <2>1
  <2>3. Confident(r, text)
    BY <1>1, <1>4
  <2>4. 1 \in DOMAIN r.matches
    <3>1. r.matches \in Seq(ToSet(r.matches)) /\ r.matches # <<>>
      BY <1>1, <2>3 DEF IsSeq, Confident
    <3> QED BY <3>1
  <2>5. r.matches[1] \in ToSet(r.matches)
    BY <1>1, <2>4, SeqFacts
  <2>6. \E v \in Vocabulary : v.type = r.type /\ Warrants(v, text)
    BY <2>3, <2>5 DEF Confident, Warrants
  <2> QED BY <2>2, <2>6 DEF Planned, ts, r
<1>5. CASE r.status = "multi_type_candidate"
  <2>0. ts = FlattenSeq(body)
    BY <1>3, <1>5
  <2>1. Confident(r, text) /\ \E m \in ToSet(r.matches) : m.multiType
    BY <1>1, <1>5
  <2>2. IsSeq(CandidateTypes(r))
        /\ \A x \in ToSet(CandidateTypes(r)) : \E m \in ToSet(r.matches) : x = m.type
    BY <1>1, <2>1, CandidateTypesAre DEF Confident
  <2> DEFINE types == CandidateTypes(r)
             N == Len(types)
  <2>3. N \in Nat /\ DOMAIN types = 1..N /\ \A i \in DOMAIN types : types[i] \in ToSet(types)
    BY <2>2, SeqFacts
  <2>4. DOMAIN body = 1..N /\ body = [i \in 1..N |-> body[i]]
        /\ \A i \in 1..N : body[i] = one(types[i])
    BY <2>3 DEF body
  <2> HIDE DEF types
  <2>5. \A i \in 1..N : IsSeq(body[i])
    BY <1>2, <2>4
  <2>6. IsSeq(ts) /\ InTurn(body, ts, N)
    <3> HIDE DEF N
    <3> QED BY <2>0, <2>3, <2>4, <2>5, Gather
  <2>7. ASSUME NEW c \in ToSet(ts)
        PROVE  c \in Configs /\ \E v \in Vocabulary : v.type = c.class /\ Warrants(v, text)
    <3>1. PICK i \in 1..N : c \in ToSet(body[i])
      BY <2>6 DEF InTurn
    <3>2. c \in Configs /\ c.class = types[i]
      BY <1>2, <2>4, <3>1
    <3>3. PICK m \in ToSet(r.matches) : types[i] = m.type
      BY <2>2, <2>3 DEF types
    <3> QED BY <2>1, <3>2, <3>3 DEF Confident, Warrants
  <2>8. \E v \in Vocabulary : Warrants(v, text) /\ v.multiType
    BY <2>1 DEF Confident, Warrants
  <2> QED BY <2>6, <2>7, <2>8 DEF Planned, ts, r
<1>6. CASE r.status \notin {"classified", "multi_type_candidate"}
  <2>1. ts = <<>>
    BY <1>3, <1>6
  <2>2. IsSeq(ts) /\ ToSet(ts) = {}
    BY <2>1, Elements DEF IsSeq
  <2> QED BY <2>2 DEF Planned, ts, r
<1> QED BY <1>4, <1>5, <1>6
-----------------------------------------------------------------------------
(* The stages, and what they have handed on.                               *)

ThePlan ==
  IF setting.override # None
  THEN TargetsForType(Configs, setting.override, setting.includeOptional, setting.includeDeprecated)
  ELSE TargetsForResult(Configs, result, setting.includeOptional, setting.includeDeprecated)

\* Every stage's result is that of the stages before it, and the later ones are still to come.
StagesInv ==
  /\ doc \in Documents /\ setting \in Settings
  /\ step # "parse" => output = ParseDocument(doc, setting.textract)
  /\ step \in {"classify", "plan", "generate", "completed"} => output.status # "failed"
  /\ step \in {"plan", "generate", "completed"} =>
       \E loads \in BOOLEAN : result = Classify(Vocabulary, loads, SearchText(doc.name, output))
  /\ targets = <<>> \/ (step \in {"generate", "completed"} /\ targets = ThePlan)
  /\ candidates = <<>> \/ (step = "completed" /\ candidates = GenerateCandidates(output, targets))

\* The stages run in their order, each once, on what the one before it produced.
THEOREM StagesInOrder == Spec => []StagesInv
<1>1. Init => StagesInv
  BY DEF Init, StagesInv
<1>2. StagesInv /\ [Next]_vars => StagesInv'
  <2> SUFFICES ASSUME StagesInv, [Next]_vars PROVE StagesInv'
    OBVIOUS
  <2> USE DEF StagesInv
  <2>1. CASE Parse
    <3>1. targets = <<>> /\ candidates = <<>> /\ step' \in {"failed", "classify"}
      BY <2>1 DEF Parse
    <3> QED BY <2>1, <3>1 DEF Parse
  <2>2. CASE ClassifyDocument
    <3>1. targets = <<>> /\ candidates = <<>> /\ step' = "plan" /\ step = "classify"
      BY <2>2 DEF ClassifyDocument
    <3> QED BY <2>2, <3>1 DEF ClassifyDocument
  <2>3. CASE PlanTargets
    <3>1. candidates = <<>> /\ step = "plan" /\ UNCHANGED <<doc, setting, output, result, candidates>>
      BY <2>3 DEF PlanTargets
    <3>2. ThePlan' = ThePlan
      BY <3>1 DEF ThePlan
    <3>3. \/ targets' = ThePlan /\ step' = (IF ThePlan = <<>> THEN "partial" ELSE "generate")
          \/ targets' = <<>> /\ step' = "failed"
      BY <2>3 DEF PlanTargets, ThePlan
    <3> HIDE DEF ThePlan
    <3> QED BY <3>1, <3>2, <3>3
  <2>4. CASE Generate
    <3>1. /\ step = "generate" /\ step' = "completed"
          /\ UNCHANGED <<doc, setting, output, result, targets>>
          /\ candidates' = GenerateCandidates(output, targets)
      BY <2>4 DEF Generate
    <3>2. ThePlan' = ThePlan /\ GenerateCandidates(output, targets)' = GenerateCandidates(output, targets)
      BY <3>1 DEF ThePlan
    <3> QED BY <3>1, <3>2
  <2>5. CASE UNCHANGED vars
    <3>1. ThePlan' = ThePlan
      BY <2>5 DEF ThePlan, vars
    <3> QED BY <2>5, <3>1 DEF vars
  <2> QED BY <2>1, <2>2, <2>3, <2>4, <2>5 DEF Next
<1> QED BY <1>1, <1>2, PTL DEF Spec

\* Targets come from a parse that stands, and from the classification of its text.
LEMMA TargetsAre ==
  ASSUME StagesInv, targets # <<>>
  PROVE  /\ doc \in Documents /\ About(output) /\ Complete(output)
         /\ Rendered(output) /\ output.status # "failed"
         /\ IsSeq(targets) /\ \A c \in ToSet(targets) : c \in Configs
         /\ setting.override = None => Planned(targets, SearchText(doc.name, output))
<1>1. /\ doc \in Documents /\ setting \in Settings
      /\ output = ParseDocument(doc, setting.textract) /\ output.status # "failed"
      /\ targets = ThePlan
  BY DEF StagesInv
<1>2. PICK loads \in BOOLEAN : result = Classify(Vocabulary, loads, SearchText(doc.name, output))
  BY DEF StagesInv
<1>3. setting.textract \in BOOLEAN
  BY <1>1, SettingsAssumption
<1>4. About(output) /\ Complete(output) /\ Rendered(output)
  BY <1>1, <1>3, ParseStands, ParseRenders
<1>5. CASE setting.override # None
  <2>1. targets = TargetsForType(Configs, setting.override, setting.includeOptional,
                                 setting.includeDeprecated)
    BY <1>1, <1>5 DEF ThePlan
  <2>2. IsSeq(targets) /\ \A c \in ToSet(targets) : c \in Configs
    BY <2>1, TargetsInOrder
  <2> QED BY <1>1, <1>4, <1>5, <2>2
<1>6. CASE setting.override = None
  <2>1. targets = TargetsForResult(Configs, Classify(Vocabulary, loads, SearchText(doc.name, output)),
                                   setting.includeOptional, setting.includeDeprecated)
    BY <1>1, <1>2, <1>6 DEF ThePlan
  <2>2. IsSeq(targets) /\ Planned(targets, SearchText(doc.name, output))
    BY <2>1, TargetsOfResult
  <2> QED BY <1>1, <1>4, <2>2 DEF Planned
<1> QED BY <1>5, <1>6

\* A candidate is what its target gets from that parse.
LEMMA CandidatesAre ==
  ASSUME StagesInv, NEW i \in DOMAIN candidates
  PROVE  /\ doc \in Documents /\ About(output) /\ Complete(output)
         /\ Rendered(output) /\ output.status # "failed"
         /\ targets[i] \in Configs
         /\ candidates[i] = GenerateForTarget(output, targets[i])
<1>1. candidates # <<>>
  <2>1. DOMAIN <<>> = {}
    OBVIOUS
  <2> QED BY <2>1
<1>2. candidates = GenerateCandidates(output, targets)
  BY <1>1 DEF StagesInv
<1>3. i \in DOMAIN targets /\ candidates[i] = GenerateForTarget(output, targets[i])
  BY <1>2 DEF GenerateCandidates
<1>4. targets # <<>>
  BY <1>3
<1>5. /\ doc \in Documents /\ About(output) /\ Complete(output)
      /\ Rendered(output) /\ output.status # "failed"
      /\ IsSeq(targets) /\ \A c \in ToSet(targets) : c \in Configs
  BY <1>4, TargetsAre
<1> QED BY <1>3, <1>5, SeqFacts

\* The flags a reviewer filters by are true of the candidate they are on.
THEOREM FlagsAlwaysTellTheTruth == Spec => []FlagsTellTheTruth
<1>1. StagesInv => FlagsTellTheTruth
  BY CandidatesAre, FlagsAreTrue DEF FlagsTellTheTruth
<1> QED BY <1>1, StagesInOrder, PTL

\* A statement of no activity never hides a quantity that the document reports.
THEOREM ReportedQuantityIsAlwaysKept == Spec => []ReportedQuantityIsKept
<1>1. StagesInv => ReportedQuantityIsKept
  BY CandidatesAre, QuantityIsKept DEF ReportedQuantityIsKept, Suppressed
<1> QED BY <1>1, StagesInOrder, PTL

-----------------------------------------------------------------------------
(* Where a value stands, and what is said around it.                       *)

\* The hit behind a found value: the first of a method that is one of the target's.
LEMMA HitIsCited ==
  ASSUME doc \in Documents, NEW o, About(o), Rendered(o),
         NEW t \in Configs, NEW i \in DOMAIN OrderedMethods(t), NEW h, FoundBy(i, h, o, t)
  PROVE  h.raw \in Cell /\ h.raw # <<>> /\ Cited(h.raw, h.reference, h.page)
<1> DEFINE m == OrderedMethods(t)[i]
           hits == HitsOf(m, o, t)
<1>1. hits # <<>> /\ h = hits[1] /\ h.raw # <<>>
  BY DEF FoundBy
<1>2. m \in Supported
  BY MethodsInOrder
<1> HIDE DEF m
<1>3. AllStand(hits, t, FALSE)
  BY <1>2, HitsStand
<1> HIDE DEF hits
<1>4. hits \in Seq(ToSet(hits))
  BY <1>3 DEF AllStand, IsSeq
<1>5. h \in ToSet(hits)
  BY <1>1, <1>4, FirstOf
<1> QED BY <1>1, <1>3, <1>5 DEF AllStand, Stands

\* Every word of a found value, and of what is quoted for it, stands where its reference cites.
THEOREM ValueIsAlwaysWhereCited == Spec => []ValueIsWhereCited
<1>1. ASSUME StagesInv PROVE ValueIsWhereCited
  <2> DEFINE Right(c) ==
               LET quoted == ToSet(c.reference.text)
               IN  IF c.raw = <<>> THEN c.reference = MissingReference
                   ELSE /\ (ToSet(c.raw) \cup quoted) \ CutWords \subseteq Place(c.reference)
                        /\ quoted # {} /\ quoted \cap CutWords = {} => ToSet(c.raw) \subseteq quoted
  <2> SUFFICES ASSUME NEW i \in DOMAIN candidates PROVE Right(candidates[i])
    BY DEF ValueIsWhereCited
  <2> DEFINE c == candidates[i]
             t == targets[i]
  <2>1. /\ doc \in Documents /\ About(output) /\ Rendered(output)
        /\ t \in Configs /\ c = GenerateForTarget(output, t)
    BY <1>1, CandidatesAre
  <2> HIDE DEF c, t
  <2>2. CASE c = Unfound(t, UnsupportedConfidence, {"unsupported_extraction_method"})
    <3>1. c.raw = <<>> /\ c.reference = MissingReference
      BY <2>2 DEF Unfound, Candidate
    <3> QED BY <3>1 DEF c
  <2>3. CASE c = Unfound(t, MissingConfidence, NotFoundFlags(t))
    <3>1. c.raw = <<>> /\ c.reference = MissingReference
      BY <2>3 DEF Unfound, Candidate
    <3> QED BY <3>1 DEF c
  <2>4. ASSUME NEW k \in DOMAIN OrderedMethods(t), NEW h,
               FoundBy(k, h, output, t), c = FoundCandidate(output, t, h)
        PROVE  Right(c)
    <3>1. c.raw = h.raw /\ c.reference = h.reference
      BY <2>4 DEF FoundCandidate, Candidate
    <3>2. h.raw # <<>> /\ Cited(h.raw, h.reference, h.page)
      BY <2>1, <2>4, HitIsCited
    <3> DEFINE ref == h.reference
               quoted == ToSet(ref.text)
    <3>3. (ToSet(h.raw) \cup quoted) \ CutWords \subseteq Place(ref)
      BY <3>2 DEF Cited, StandsAt
    <3>4. quoted # {} /\ quoted \cap CutWords = {} => ToSet(h.raw) \subseteq quoted
      BY <3>2, Elements DEF Cited, Uncut
    <3> QED BY <3>1, <3>2, <3>3, <3>4
  <2> HIDE DEF Right
  <2>5. Right(c)
    BY <2>1, <2>2, <2>3, <2>4, TargetGets DEF Right, c
  <2> QED BY <2>5 DEF c
<1> QED BY <1>1, StagesInOrder, PTL
-----------------------------------------------------------------------------
(* A record's own row.                                                     *)

\* A line that names the record and has a quantity gives a hit,
LEMMA LineBinds ==
  ASSUME NEW o, PagesStand(o), NEW page \in ToSet(o.pages), NEW line \in ToSet(page.text), NEW t,
         t.record \in ToSet(WordsOf(line)), NEW w \in ToSet(WordsOf(line)), w \in Numbers,
         ~IsLikelyBad(<<w>>, WordsOf(line), t)
  PROVE  RowBoundLineHits(o, t) # <<>>
<1> DEFINE header(lines, l) == IF l > 1 THEN lines[l - 1] ELSE <<>>
           found(lines, l) == /\ t.record \in ToSet(WordsOf(lines[l]))
                              /\ LineTokens(header(lines, l), lines[l], t) # <<>>
           hit(p, lines, l) ==
             Hit("table_lookup", <<LineTokens(header(lines, l), lines[l], t)[1]>>, Certain,
                 Inline(p.page, None, WordsOf(lines[l])), p.page,
                 {WordsOf(lines[l]), WordsOf(header(lines, l))},
                 RowUnit(WordsOf(header(lines, l)), WordsOf(lines[l]), t))
           some(p) == [l \in DOMAIN NonBlank(p.text) |->
                         IF found(NonBlank(p.text), l) THEN <<hit(p, NonBlank(p.text), l)>> ELSE <<>>]
           body == [i \in DOMAIN o.pages |-> FlattenSeq(some(o.pages[i]))]
<1>1. RowBoundLineHits(o, t) = FlattenSeq(body)
  BY DEF RowBoundLineHits, LineTokens, Each
<1>2. ASSUME NEW p \in ToSet(o.pages)
      PROVE  /\ IsSeq(FlattenSeq(some(p)))
             /\ \A l \in DOMAIN NonBlank(p.text) : found(NonBlank(p.text), l) => FlattenSeq(some(p)) # <<>>
  <2> DEFINE lines == NonBlank(p.text)
             f == some(p)
  <2>1. IsSeq(lines)
    BY NonBlankIs, RowsAre DEF PagesStand
  <2>2. /\ f = [l \in DOMAIN lines |-> f[l]]
        /\ \A l \in DOMAIN lines : f[l] = IF found(lines, l) THEN <<hit(p, lines, l)>> ELSE <<>>
    <3> HIDE DEF found, hit
    <3> QED OBVIOUS
  <2> HIDE DEF f, found, hit, lines
  <2>3. \A x : IsSeq(<<x>>) /\ <<x>> # <<>>
    <3>1. \A x : <<x>> \in Seq({x}) /\ ToSet(<<x>>) = {x} /\ <<x>> # <<>>
      BY Elements
    <3> QED BY <3>1 DEF IsSeq
  <2>4. IsSeq(<<>>)
    BY Elements DEF IsSeq
  <2>5. \A l \in DOMAIN lines : IsSeq(f[l]) /\ (found(lines, l) => f[l] # <<>>)
    BY <2>2, <2>3, <2>4
  <2>6. /\ IsSeq(FlattenSeq(f))
        /\ \A l \in DOMAIN lines : f[l] # <<>> => FlattenSeq(f) # <<>>
    BY <2>1, <2>2, <2>5, SomeMade
  <2> QED BY <2>5, <2>6 DEF f, lines
<1>3. PICK l \in DOMAIN NonBlank(page.text) : line = NonBlank(page.text)[l]
  <2>1. page.text \in Part /\ WordsOf(line) # <<>>
    BY Elements DEF PagesStand
  <2>2. line \in ToSet(NonBlank(page.text))
    BY <2>1, NonBlankIs
  <2> QED BY <2>2 DEF ToSet
<1>4. found(NonBlank(page.text), l)
  <2> DEFINE lines == NonBlank(page.text)
             above == header(lines, l)
             tokens == LineTokens(above, line, t)
  <2>1. line \in Row /\ above \in Row
    <3>1. lines \in Seq(Row) /\ Len(lines) \in Nat /\ DOMAIN lines = 1..Len(lines)
      BY NonBlankIs DEF Part, PagesStand
    <3>2. <<>> \in Row
      BY DEF Row
    <3> HIDE DEF lines
    <3>3. l > 1 => l - 1 \in DOMAIN lines
      BY <1>3, <3>1 DEF lines
    <3> QED BY <1>3, <3>1, <3>2, <3>3 DEF lines
  <2> HIDE DEF above
  <2>2. w \in ToSet(tokens)
    BY <2>1, LineRowTokens
  <2>3. tokens # <<>>
    BY <2>2, Elements
  <2> QED BY <1>3, <2>3 DEF above
<1>5. FlattenSeq(some(page)) # <<>>
  BY <1>2, <1>4
<1>6. PICK i \in DOMAIN o.pages : page = o.pages[i]
  BY DEF ToSet
<1> HIDE DEF some, found, hit
<1>7. body = [j \in DOMAIN o.pages |-> body[j]] /\ body[i] # <<>>
      /\ \A j \in DOMAIN o.pages : IsSeq(body[j])
  <2>1. \A j \in DOMAIN o.pages : o.pages[j] \in ToSet(o.pages)
    BY DEF ToSet
  <2> QED BY <1>2, <1>5, <1>6, <2>1
<1> HIDE DEF body
<1>8. IsSeq(o.pages)
  BY DEF PagesStand
<1> QED BY <1>1, <1>6, <1>7, <1>8, SomeMade

\* and so does such a row of a table without quantity columns.
LEMMA TableRowBinds ==
  ASSUME NEW o, TablesStand(o), NEW table \in ToSet(o.tables), NEW r \in DOMAIN table.rows,
         r # HeaderRow(table.rows), QuantityColumns(table.rows[HeaderRow(table.rows)]) = <<>>,
         NEW t, t.record \in ToSet(RowText(table.rows[r])),
         NEW w \in ToSet(RowText(table.rows[r])), w \in Numbers,
         ~IsLikelyBad(<<w>>, RowText(table.rows[r]), t)
  PROVE  RowBoundTableHits(o, t) # <<>>
<1> DEFINE head(rows) == HeaderRow(rows)
           found(rows, k) == /\ k # head(rows) /\ t.record \in ToSet(RowText(rows[k]))
                             /\ RowTokens(rows[head(rows)], rows[k], t) # <<>>
           hit(tab, k) ==
             Hit("table_lookup", <<RowTokens(tab.rows[head(tab.rows)], tab.rows[k], t)[1]>>,
                 tab.confidence, Inline(tab.page, tab.sheet, RowText(tab.rows[k])), tab.page,
                 {RowText(tab.rows[k]), RowText(tab.rows[head(tab.rows)])},
                 RowUnit(RowText(tab.rows[head(tab.rows)]), RowText(tab.rows[k]), t))
           some(tab) == [k \in DOMAIN tab.rows |-> IF found(tab.rows, k) THEN <<hit(tab, k)>> ELSE <<>>]
           body == [i \in DOMAIN o.tables |-> FlattenSeq(some(o.tables[i]))]
<1>1. RowBoundTableHits(o, t) = FlattenSeq(body)
  BY DEF RowBoundTableHits, RowTokens, Each
<1>2. ASSUME NEW tab \in ToSet(o.tables)
      PROVE  /\ IsSeq(FlattenSeq(some(tab)))
             /\ \A k \in DOMAIN tab.rows : found(tab.rows, k) => FlattenSeq(some(tab)) # <<>>
  <2> DEFINE f == some(tab)
             rows == tab.rows
  <2>1. IsSeq(rows)
    BY RowsAre DEF TablesStand
  <2>2. /\ f = [k \in DOMAIN rows |-> f[k]]
        /\ \A k \in DOMAIN rows : f[k] = IF found(rows, k) THEN <<hit(tab, k)>> ELSE <<>>
    <3> HIDE DEF found, hit
    <3> QED OBVIOUS
  <2> HIDE DEF f, found, hit, rows
  <2>3. \A x : IsSeq(<<x>>) /\ <<x>> # <<>>
    <3>1. \A x : <<x>> \in Seq({x}) /\ ToSet(<<x>>) = {x} /\ <<x>> # <<>>
      BY Elements
    <3> QED BY <3>1 DEF IsSeq
  <2>4. IsSeq(<<>>)
    BY Elements DEF IsSeq
  <2>5. \A k \in DOMAIN rows : IsSeq(f[k]) /\ (found(rows, k) => f[k] # <<>>)
    BY <2>2, <2>3, <2>4
  <2>6. /\ IsSeq(FlattenSeq(f))
        /\ \A k \in DOMAIN rows : f[k] # <<>> => FlattenSeq(f) # <<>>
    BY <2>1, <2>2, <2>5, SomeMade
  <2> QED BY <2>5, <2>6 DEF f, rows
<1>3. found(table.rows, r)
  <2> DEFINE row == table.rows[r]
             header == table.rows[head(table.rows)]
             tokens == RowTokens(header, row, t)
  <2>1. row \in Row /\ header \in Row
    <3>1. table.rows \in Part
      BY DEF TablesStand
    <3>2. HeaderRow(table.rows) \in DOMAIN table.rows
      BY <3>1, HeaderRowIs
    <3> QED BY <3>1, <3>2 DEF Part
  <2> HIDE DEF row, header
  <2>2. w \in ToSet(tokens)
    BY <2>1, TableRowTokens DEF row, header
  <2>3. tokens # <<>>
    BY <2>2, Elements
  <2> QED BY <2>3 DEF row, header
<1>4. FlattenSeq(some(table)) # <<>>
  BY <1>2, <1>3
<1>5. PICK i \in DOMAIN o.tables : table = o.tables[i]
  BY DEF ToSet
<1> HIDE DEF some, found, hit
<1>6. body = [j \in DOMAIN o.tables |-> body[j]] /\ body[i] # <<>>
      /\ \A j \in DOMAIN o.tables : IsSeq(body[j])
  <2>1. \A j \in DOMAIN o.tables : o.tables[j] \in ToSet(o.tables)
    BY DEF ToSet
  <2> QED BY <1>2, <1>4, <1>5, <2>1
<1> HIDE DEF body
<1>7. IsSeq(o.tables)
  BY DEF TablesStand
<1> QED BY <1>1, <1>5, <1>6, <1>7, SomeMade

\* Only a workbook has cells that a table's row as text leaves out.
LEMMA NothingHidden ==
  ASSUME doc \in Documents, ~InWorkbook, NEW p \in DOMAIN doc.parts, NEW r \in DOMAIN doc.parts[p]
  PROVE  RowText(doc.parts[p][r]) = WordsOf(doc.parts[p][r])
<1> DEFINE row == doc.parts[p][r]
<1>1. \A c \in DOMAIN row : "nought" \notin ToSet(row[c])
  <2>1. \A cell \in ToSet(row) : "nought" \notin ToSet(cell)
    BY DocumentsAssumption DEF InWorkbook
  <2>2. \A c \in DOMAIN row : row[c] \in ToSet(row)
    BY DEF ToSet
  <2> QED BY <2>1, <2>2
<1>2. row \in Row
  <2>1. doc.parts[p] \in Part
    BY PartsAre
  <2>2. doc.parts[p][r] \in ToSet(doc.parts[p])
    BY DEF ToSet
  <2> QED BY <2>1, <2>2, RowsAre
<1> HIDE DEF row
<1>3. \A c \in DOMAIN row : Shown(row[c]) = row[c]
  <2>1. ToSet(<<"nought">>) = {"nought"}
    BY Elements
  <2> QED BY <1>1, <2>1 DEF Shown
<1>4. [c \in DOMAIN row |-> Shown(row[c])] = row
  <2>1. row = [c \in DOMAIN row |-> row[c]]
    BY <1>2 DEF Row
  <2> QED BY <1>3, <2>1
<1>5. RowText(row) = WordsOf(row)
  BY <1>4 DEF RowText, WordsOf
<1> QED BY <1>5 DEF row

\* A line of a row passes what the row says: the record, a number, and no more identifiers.
LEMMA LineOfRow ==
  ASSUME NEW row \in Row, NEW line \in Row, Renders(line, row), NEW t,
         t.record \in ToSet(WordsOf(row)), t.record \notin Numbers, NotOnlyIds(WordsOf(row)),
         NEW w \in ToSet(WordsOf(row)), IsPlainNumber(w, ToSet(WordsOf(row)))
  PROVE  /\ t.record \in ToSet(WordsOf(line))
         /\ \E x \in ToSet(WordsOf(line)) : x \in Numbers /\ ~IsLikelyBad(<<x>>, WordsOf(line), t)
<1> DEFINE around == WordsOf(line)
           some == ToSet(WordsOf(row))
<1>1. \A x \in ToSet(around) : x \in some \/ x = "joined"
  BY CommaTextIs DEF Renders, RowWords
<1>2. \A x \in some : x \in ToSet(around) \/ (x \in Numbers /\ "joined" \in ToSet(around))
  BY DEF Renders
<1>3. \A x \in IdLabels \cup QuantityKeywords : x \notin Numbers /\ x # "joined"
  BY DEF IdLabels, QuantityKeywords, Numbers, Number
<1> HIDE DEF around, some
<1>4. NotOnlyIds(around)
  <2> SUFFICES ASSUME NEW x \in ToSet(around), x \in IdLabels PROVE Mentions(around, QuantityKeywords)
    BY DEF NotOnlyIds, Mentions
  <2>1. x \in some
    BY <1>1, <1>3
  <2>2. PICK y \in some : y \in QuantityKeywords
    BY <2>1 DEF NotOnlyIds, Mentions, some
  <2>3. y \in ToSet(around)
    BY <1>2, <1>3, <2>2
  <2> QED BY <2>2, <2>3 DEF Mentions
<1>5. w \in Numbers /\ w \in some /\ IsPlainNumber(w, some)
  BY DEF IsPlainNumber, some
<1>6. CASE w \in ToSet(around)
  <2>1. ~IsLikelyBad(<<w>>, around, t)
    BY <1>1, <1>4, <1>5, PlainIsGood
  <2>2. t.record \in ToSet(around)
    BY <1>2 DEF some
  <2> QED BY <1>5, <1>6, <2>1, <2>2 DEF around
<1>7. CASE "joined" \in ToSet(around)
  <2>1. "joined" \in Numbers /\ ~IsLikelyBad(<<"joined">>, around, t)
    BY <1>1, <1>4, PlainIsGood
  <2>2. t.record \in ToSet(around)
    BY <1>2 DEF some
  <2> QED BY <1>7, <2>1, <2>2 DEF around
<1> QED BY <1>2, <1>5, <1>6, <1>7

\* The record's row gives a hit bound to the record, wherever it is in the document.
LEMMA RecordRowBinds ==
  ASSUME doc \in Documents, NEW o, About(o), Rendered(o), o.status # "failed", NEW t,
         IsActivityQuantity(t), HasRecord(t), t.record \notin Numbers,
         NEW p \in DOMAIN doc.parts, NEW r \in DOMAIN doc.parts[p],
         t.record \in ToSet(RowText(doc.parts[p][r])), StatesNumber(p, r)
  PROVE  RowBoundTableHits(o, t) # <<>> \/ RowBoundLineHits(o, t) # <<>>
<1> DEFINE part == doc.parts[p]
           row == part[r]
<1>1. PagesStand(o) /\ TablesStand(o) /\ RowsKept(o)
  BY DEF About, Rendered
<1>2. part \in Part /\ row \in ToSet(part) /\ row \in Row
  <2>1. part \in Part
    BY PartsAre
  <2>2. row \in ToSet(part)
    BY DEF ToSet
  <2> QED BY <2>1, <2>2, RowsAre
<1>3. PICK w \in ToSet(RowText(row)) : IsPlainNumber(w, ToSet(RowText(row)))
  BY DEF StatesNumber
<1>4. NotOnlyIds(RowText(row))
  BY DEF StatesNumber, NotOnlyIds, Mentions
<1>5. CASE InWorkbook
  <2>1. /\ r > 3
        /\ \A h \in 1..3 : ToSet(WordsOf(part[h])) \cap ToSet(HeaderHints) = {}
    BY <1>5 DEF StatesNumber
  <2> HIDE DEF row
  <2>2. w \in Numbers /\ ~IsLikelyBad(<<w>>, RowText(row), t)
    BY <1>3, <1>4, PlainIsGood
  <2>3. NonBlank(part) # <<>>
    <3>1. w \in ToSet(WordsOf(row))
      BY <1>2, RowTextIs
    <3>2. row \in ToSet(NonBlank(part))
      BY <1>2, <3>1, NonBlankIs, Elements
    <3> QED BY <3>2, Elements
  <2>4. PICK table \in ToSet(o.tables) : table.rows = part
    BY <1>1, <1>5, <2>3 DEF RowsKept
  <2> DEFINE head == HeaderRow(part)
  <2>5. head \in DOMAIN part /\ head \in 1..3
    BY <1>2, HeaderRowIs
  <2> HIDE DEF head
  <2>6. QuantityColumns(part[head]) = <<>>
    <3> DEFINE header == part[head]
    <3>1. header \in Row
      BY <1>2, <2>5 DEF Part
    <3>2. ToSet(WordsOf(header)) \cap ToSet(HeaderHints) = {}
      BY <2>1, <2>5
    <3> HIDE DEF header
    <3>3. \A c \in DOMAIN header : \A hint \in ToSet(HeaderHints) : hint \notin ToSet(header[c])
      BY <3>1, <3>2, WordsAre
    <3> QED BY <3>1, <3>3, ColumnsAre DEF header
  <2>7. r # head
    BY <2>1, <2>5
  <2>8. RowBoundTableHits(o, t) # <<>>
    BY <1>1, <1>3, <2>2, <2>4, <2>6, <2>7, TableRowBinds DEF head, row
  <2> QED BY <2>8
<1>6. CASE ~InWorkbook
  <2>1. RowText(row) = WordsOf(row)
    BY <1>6, NothingHidden
  <2> HIDE DEF row
  <2>2. WordsOf(row) # <<>>
    BY <1>3, <2>1, Elements
  <2>3. PICK page \in ToSet(o.pages) : \E line \in ToSet(page.text) : Renders(line, row)
    BY <1>1, <1>2, <1>6, <2>2 DEF RowsKept
  <2>4. PICK line \in ToSet(page.text) : Renders(line, row)
    BY <2>3
  <2>5. line \in Row
    BY <1>1, RowsAre DEF PagesStand
  <2>6. t.record \in ToSet(WordsOf(row))
    BY <2>1 DEF row
  <2>7. /\ t.record \in ToSet(WordsOf(line))
        /\ \E x \in ToSet(WordsOf(line)) : x \in Numbers /\ ~IsLikelyBad(<<x>>, WordsOf(line), t)
    BY <1>2, <1>3, <1>4, <2>1, <2>4, <2>5, <2>6, LineOfRow
  <2>8. RowBoundLineHits(o, t) # <<>>
    BY <1>1, <2>7, LineBinds
  <2> QED BY <2>8
<1> QED BY <1>5, <1>6

\* A target bound to a record takes the quantity of a row that names the record, if there is one.
THEOREM RecordRowAlwaysComesFirst == Spec => []RecordRowComesFirst
<1>1. ASSUME StagesInv PROVE RecordRowComesFirst
  <2> DEFINE Has(t) == \E p \in DOMAIN doc.parts : \E r \in DOMAIN doc.parts[p] :
                         t.record \in ToSet(RowText(doc.parts[p][r])) /\ StatesNumber(p, r)
             Right(c, t) == \E row \in ToSet(doc.parts[CitedPart(c.reference)]) :
                              t.record \in ToSet(WordsOf(row)) /\ ToSet(c.raw) \subseteq RowWords(row)
  <2> SUFFICES ASSUME NEW i \in DOMAIN candidates, candidates[i].raw # <<>>,
                      IsActivityQuantity(targets[i]), HasRecord(targets[i]),
                      targets[i].record \notin Numbers, "table_lookup" \in targets[i].methods,
                      Has(targets[i])
               PROVE  Right(candidates[i], targets[i])
    BY DEF RecordRowComesFirst, Found
  <2> DEFINE c == candidates[i]
             t == targets[i]
             inTables == RowBoundTableHits(output, t)
             inLines == RowBoundLineHits(output, t)
             bound == RowBoundHits(output, t)
             others == TableHits(output, t)
             hits == HitsOf("table_lookup", output, t)
  <2>1. /\ doc \in Documents /\ About(output) /\ Rendered(output) /\ output.status # "failed"
        /\ t \in Configs /\ c = GenerateForTarget(output, t)
    BY <1>1, CandidatesAre
  <2>2. /\ IsActivityQuantity(t) /\ HasRecord(t) /\ t.record \notin Numbers
        /\ "table_lookup" \in t.methods /\ c.raw # <<>> /\ Has(t)
    OBVIOUS
  <2> SUFFICES Right(c, t)
    OBVIOUS
  <2> HIDE DEF c, t
  <2>3. 1 \in DOMAIN OrderedMethods(t) /\ OrderedMethods(t)[1] = "table_lookup"
    BY <2>2, TablesComeFirst
  <2>4. inTables # <<>> \/ inLines # <<>>
    BY <2>1, <2>2, RecordRowBinds
  <2> HIDE DEF Has, Right
  <2>5. /\ AllStand(bound, t, TRUE) /\ AllStand(others, t, FALSE)
        /\ AllStand(inTables, t, TRUE) /\ AllStand(inLines, t, TRUE)
    BY <2>1, HitsStand, TableHitsStand, BoundTableHitsStand, BoundLineHitsStand DEF About, Rendered
  <2>6. bound = inTables \o inLines /\ hits = bound \o others
    BY <2>2 DEF HitsOf, RowBoundHits
  <2> HIDE DEF bound, hits, inTables, inLines, others
  <2>7. /\ bound \in Seq(ToSet(bound)) /\ others \in Seq(ToSet(others))
        /\ inTables \in Seq(ToSet(inTables)) /\ inLines \in Seq(ToSet(inLines))
    BY <2>5 DEF AllStand, IsSeq
  <2>8. bound # <<>>
    <3> DEFINE S == ToSet(inTables) \cup ToSet(inLines)
    <3>1. inTables \in Seq(S) /\ inLines \in Seq(S)
      BY <2>7
    <3> HIDE DEF S
    <3> QED BY <2>4, <2>6, <3>1
  <2>9. bound[1] \in ToSet(bound)
    BY <2>7, <2>8, FirstOf
  <2>10. bound[1].raw # <<>> /\ OfRecordRow(bound[1], t)
    BY <2>5, <2>9 DEF AllStand, Stands
  <2>11. hits # <<>> /\ hits[1] = bound[1]
    <3> DEFINE T == ToSet(bound) \cup ToSet(others)
    <3>1. bound \in Seq(T) /\ others \in Seq(T)
      BY <2>7
    <3> HIDE DEF T
    <3>2. (bound \o others)[1] = bound[1]
      BY <2>8, <3>1, Joined
    <3>3. bound \o others # <<>>
      BY <2>8, <3>1
    <3> QED BY <2>6, <3>2, <3>3
  <2>12. Dispatch("table_lookup", output, t) = <<hits[1]>>
    BY <2>10, <2>11, DispatchIs DEF hits
  <2>13. PICK k \in DOMAIN OrderedMethods(t) : \E h :
            FoundBy(k, h, output, t) /\ c = FoundCandidate(output, t, h)
    <3>1. c # Unfound(t, UnsupportedConfidence, {"unsupported_extraction_method"})
      BY <2>2 DEF Unfound, Candidate
    <3>2. c # Unfound(t, MissingConfidence, NotFoundFlags(t))
      BY <2>2 DEF Unfound, Candidate
    <3> QED BY <2>1, <3>1, <3>2, TargetGets
  <2>14. PICK h : FoundBy(k, h, output, t) /\ c = FoundCandidate(output, t, h)
    BY <2>13
  <2>15. k = 1
    <3>1. k \in Nat \ {0}
      <4> DEFINE N == Cardinality(t.methods \cap Supported)
      <4>1. N \in Nat /\ DOMAIN OrderedMethods(t) = 1..N
        BY MethodsAre
      <4> HIDE DEF N
      <4>2. k \in 1..N
        BY <4>1
      <4> QED BY <4>1, <4>2
    <3>2. CASE 1 \in 1..(k - 1)
      <4>1. Dispatch("table_lookup", output, t) = <<>>
        BY <2>3, <2>14, <3>2 DEF FoundBy
      <4> QED BY <2>12, <4>1
    <3> QED BY <3>1, <3>2
  <2>16. h = hits[1]
    BY <2>3, <2>14, <2>15 DEF FoundBy, hits
  <2>17. c.reference = h.reference /\ c.raw = h.raw
    BY <2>14 DEF FoundCandidate, Candidate
  <2> QED BY <2>2, <2>10, <2>11, <2>16, <2>17 DEF OfRecordRow, Right
<1> QED BY <1>1, StagesInOrder, PTL
-----------------------------------------------------------------------------
(* Types a document is given.                                              *)

\* A set whose elements are all the same has one at most.
LEMMA FewIfSame ==
  ASSUME NEW S, \A x, y \in S : x = y
  PROVE  ~(Cardinality(S) > 1)
<1>1. CASE S = {}
  BY <1>1, FS_EmptySet
<1>2. CASE S # {}
  <2>1. PICK x : x \in S
    BY <1>2
  <2>2. S = {x}
    BY <2>1
  <2> QED BY <2>2, FS_Singleton
<1> QED BY <1>1, <1>2

\* Support is a number.
LEMMA SupportIs ==
  ASSUME NEW v
  PROVE  Support(v) \in Int
<1>1. \A g \in Groups : SignalWeights[g] \in Int
  BY DEF Groups, SignalWeights
<1>2. /\ "filename_patterns" \in Groups /\ "header_terms" \in Groups /\ "key_phrases" \in Groups
      /\ "layout_features" \in Groups
  BY DEF Groups, SignalWeights
<1> QED BY <1>1, <1>2 DEF Support

\* Without a reviewer's choice, every target is of a type whose threshold the document reaches.
THEOREM TargetsAreAlwaysWarranted == Spec => []TargetsAreWarranted
<1>1. ASSUME StagesInv PROVE TargetsAreWarranted
  <2> DEFINE classes == {targets[i].class : i \in DOMAIN targets}
             warranted == {v \in Vocabulary : Support(v) >= v.threshold /\ Support(v) > 0}
             text == SearchText(doc.name, output)
  <2> SUFFICES ASSUME setting.override = None
               PROVE  /\ classes \subseteq {v.type : v \in warranted}
                      /\ Cardinality(classes) > 1 => \E v \in warranted : v.multiType
    BY DEF TargetsAreWarranted
  <2>1. CASE targets = <<>>
    <3>1. classes = {}
      BY <2>1
    <3>2. Cardinality({}) = 0
      BY FS_EmptySet
    <3> HIDE DEF classes
    <3> QED BY <3>1, <3>2
  <2>2. CASE targets # <<>>
    <3>1. doc \in Documents /\ About(output) /\ IsSeq(targets) /\ Planned(targets, text)
      BY <1>1, <2>2, TargetsAre
    <3>2. text \subseteq DocumentWords \cup MadeWords
      BY <3>1, SearchTextIs
    <3> HIDE DEF text
    <3>3. ASSUME NEW v \in Vocabulary, Warrants(v, text) PROVE v \in warranted
      <4>0. v.threshold \in Int
        BY VocabularyAssumption
      <4>1. Support(v) >= ComputeConfidence(v, text)
        BY <3>2, ConfidenceGrows
      <4>2. ComputeConfidence(v, text) \in Int /\ Support(v) \in Int
        BY ConfidenceIs, SupportIs
      <4>3. ComputeConfidence(v, text) > 0 /\ ComputeConfidence(v, text) >= v.threshold
        BY <3>3 DEF Warrants
      <4>4. Support(v) >= v.threshold /\ Support(v) > 0
        BY <4>0, <4>1, <4>2, <4>3
      <4> QED BY <4>4
    <3> HIDE DEF warranted
    <3>4. ASSUME NEW x \in classes
          PROVE  \E c \in ToSet(targets) : x = c.class
      BY <3>1, SeqFacts
    <3>5. classes \subseteq {v.type : v \in warranted}
      <4> SUFFICES ASSUME NEW x \in classes PROVE \E v \in warranted : x = v.type
        OBVIOUS
      <4>1. PICK c \in ToSet(targets) : x = c.class
        BY <3>4
      <4>2. PICK v \in Vocabulary : v.type = c.class /\ Warrants(v, text)
        BY <3>1 DEF Planned
      <4> QED BY <3>3, <4>1, <4>2
    <3> HIDE DEF classes
    <3>6. CASE \A c, d \in ToSet(targets) : c.class = d.class
      <4>1. \A x, y \in classes : x = y
        BY <3>4, <3>6
      <4>2. ~(Cardinality(classes) > 1)
        BY <4>1, FewIfSame
      <4> QED BY <3>5, <4>2
    <3>7. CASE \E v \in Vocabulary : Warrants(v, text) /\ v.multiType
      BY <3>3, <3>5, <3>7
    <3> QED BY <3>1, <3>6, <3>7 DEF Planned
  <2> QED BY <2>1, <2>2
<1> QED BY <1>1, StagesInOrder, PTL

\* A unit of a value is one of its words.
LEMMA UnitsDetected ==
  ASSUME NEW t \in Configs, NEW words \in Cell
  PROVE  DetectUnit(words, t) # NoUnit => DetectUnit(words, t) \in ToSet(words)
<1> DEFINE us == t.unitPatterns
           body == [i \in DOMAIN us |-> IF us[i] \in ToSet(words) THEN <<us[i]>> ELSE <<>>]
           found == Select(us, LAMBDA u : u \in ToSet(words))
<1>1. found = FlattenSeq(body)
  BY DEF Select, Each
<1>2. us \in Seq(STRING)
  BY ConfigsAssumption
<1>3. DetectUnit(words, t) = IF found # <<>> THEN found[1] ELSE NoUnit
  BY DEF DetectUnit
<1> HIDE DEF us, found
<1>4. /\ body = [i \in DOMAIN us |-> body[i]]
      /\ \A i \in DOMAIN us : body[i] \in {<<>>, <<us[i]>>}
      /\ \A i \in DOMAIN us : body[i] # <<>> => us[i] \in ToSet(words)
  OBVIOUS
<1> HIDE DEF body
<1>5. /\ FlattenSeq(body) \in Seq(STRING)
      /\ \A x : x \in ToSet(FlattenSeq(body)) <=> \E i \in DOMAIN us : x = us[i] /\ body[i] # <<>>
  BY <1>2, <1>4, Sift
<1>6. CASE found = <<>>
  BY <1>3, <1>6
<1>7. CASE found # <<>>
  <2>1. found[1] \in ToSet(found)
    BY <1>1, <1>5, <1>7, FirstOf
  <2> QED BY <1>1, <1>3, <1>4, <1>5, <1>7, <2>1
<1> QED BY <1>6, <1>7

\* An inferred unit is the only one named around the value.
LEMMA InferredIs ==
  ASSUME NEW o, NEW t \in Configs, NEW h, h.raw \in Cell,
         NEW u, u = FoundCandidate(o, t, h).unit, IsNumeric(t), u \notin ToSet(h.raw), u # NoUnit
  PROVE  UnitsAround(o, t, h) = {u}
<1> DEFINE plain == DetectUnit(h.raw, t)
           around == UnitsAround(o, t, h)
<1>1. u = InferUnit(o, t, h, plain)
  BY DEF FoundCandidate, Candidate, Normalize
<1>2. plain # NoUnit => plain \in ToSet(h.raw)
  BY UnitsDetected
<1> HIDE DEF plain, around
<1>3. u = ResolveSingleUnit(UnitsAround(o, t, h))
  BY <1>1, <1>2 DEF InferUnit
<1>4. u = IF \E x \in around : around = {x} THEN CHOOSE x \in around : TRUE ELSE NoUnit
  BY <1>3 DEF ResolveSingleUnit, around
<1>5. PICK x \in around : around = {x}
  BY <1>4
<1> QED BY <1>4, <1>5 DEF around

\* A unit that is not part of the value is not contradicted where the value was found.
THEOREM UnitsNeverConflict == Spec => []UnitsDoNotConflict
<1>1. ASSUME StagesInv PROVE UnitsDoNotConflict
  <2> DEFINE quantities == QuantityKeywords \cup UnitKeys
  <2> SUFFICES ASSUME NEW i \in Found, IsNumeric(targets[i]),
                      candidates[i].unit \notin ToSet(candidates[i].raw) \cup {NoUnit},
                      NEW s \in Statements(candidates[i].reference), Mentions(s, quantities),
                      DetectUnitCandidate(s, targets[i]) # NoUnit
               PROVE  DetectUnitCandidate(s, targets[i]) = candidates[i].unit
    BY DEF UnitsDoNotConflict
  <2> DEFINE c == candidates[i]
             t == targets[i]
             u == c.unit
  <2>1. i \in DOMAIN candidates /\ c.raw # <<>>
    BY DEF Found
  <2>2. /\ doc \in Documents /\ About(output) /\ Complete(output) /\ Rendered(output)
        /\ t \in Configs /\ c = GenerateForTarget(output, t)
    BY <1>1, <2>1, CandidatesAre
  <2>3. /\ IsNumeric(t) /\ u \notin ToSet(c.raw) /\ u # NoUnit /\ s \in Statements(c.reference)
        /\ Mentions(s, quantities) /\ DetectUnitCandidate(s, t) # NoUnit
    OBVIOUS
  <2> SUFFICES DetectUnitCandidate(s, t) = u
    OBVIOUS
  <2> HIDE DEF c, t
  <2>4. PICK k \in DOMAIN OrderedMethods(t) : \E h :
           FoundBy(k, h, output, t) /\ c = FoundCandidate(output, t, h)
    <3>1. c # Unfound(t, UnsupportedConfidence, {"unsupported_extraction_method"})
      BY <2>1 DEF Unfound, Candidate
    <3>2. c # Unfound(t, MissingConfidence, NotFoundFlags(t))
      BY <2>1 DEF Unfound, Candidate
    <3> QED BY <2>2, <3>1, <3>2, TargetGets
  <2>5. PICK h : FoundBy(k, h, output, t) /\ c = FoundCandidate(output, t, h)
    BY <2>4
  <2>6. h.raw \in Cell /\ Cited(h.raw, h.reference, h.page)
    BY <2>2, <2>5, HitIsCited
  <2>7. c.raw = h.raw /\ c.reference = h.reference
    BY <2>5 DEF FoundCandidate, Candidate
  <2>8. u \notin ToSet(h.raw) /\ u = FoundCandidate(output, t, h).unit
    BY <2>3, <2>5, <2>7
  <2> HIDE DEF u
  <2>9. UnitsAround(output, t, h) = {u}
    BY <2>2, <2>3, <2>6, <2>8, InferredIs
  <2>10. s \in ContextLines(output, h.page)
    <3>1. s # <<>>
      BY <2>3, Elements DEF Mentions
    <3>2. h.reference.page = h.page
      BY <2>6 DEF Cited
    <3>3. CASE InWorkbook
      <4>1. h.page = None
        BY <2>6, <3>3 DEF Cited
      <4>2. PICK part \in ToSet(doc.parts) : \E row \in ToSet(part) : s \in ToSet(row)
        BY <2>3, <2>7, <3>2, <3>3, <4>1 DEF Statements
      <4>3. PICK row \in ToSet(part) : s \in ToSet(row)
        BY <4>2
      <4>4. PICK p \in DOMAIN doc.parts : part = doc.parts[p]
        BY DEF ToSet
      <4> QED BY <2>2, <3>1, <3>3, <4>1, <4>3, <4>4 DEF Complete
    <3>4. CASE ~InWorkbook
      <4>1. h.page \in DOMAIN doc.parts
        BY <2>6, <3>4 DEF Cited
      <4>2. h.page # None
        BY <2>2, <4>1, PartsAre DEF None
      <4>3. PICK row \in ToSet(doc.parts[h.page]) : s = WordsOf(row)
        BY <2>3, <2>7, <3>2, <3>4, <4>2 DEF Statements
      <4> QED BY <2>2, <3>1, <3>4, <4>1, <4>3 DEF Complete
    <3> QED BY <3>3, <3>4
  <2>11. DetectUnitCandidate(s, t) \in UnitsAround(output, t, h)
    BY <2>3, <2>10 DEF UnitsAround
  <2> QED BY <2>9, <2>11
<1> QED BY <1>1, StagesInOrder, PTL
=============================================================================
