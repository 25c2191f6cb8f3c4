---------------------- MODULE ConditionEvaluatorProofs ----------------------
(***************************************************************************)
(* What the condition evaluator promises, for conditions of every length   *)
(* and for every set of fields.                                            *)
(***************************************************************************)
EXTENDS ConditionEvaluator, FiniteSetTheorems, WellFoundedInduction, TLAPS

-----------------------------------------------------------------------------
(* Recursion.  The parser and the meaning are recursive functions, that is *)
(* CHOOSE f : f = [x \in S |-> step(f, x)].  Such a function exists, and   *)
(* has the results one expects, when a step looks only at smaller          *)
(* arguments.                                                              *)

LEMMA Least ==
  ASSUME NEW T \in SUBSET Nat, T # {}
  PROVE  \E n \in T : \A m \in T : n <= m
<1> DEFINE R == OpToRel(<, Nat)
<1>1. PICK n \in T : \A m \in T : ~(<<m, n>> \in R)
  <2> HIDE DEF R
  <2>1. IsWellFoundedOn(R, Nat)
    BY NatLessThanWellFounded DEF R
  <2> QED BY <2>1, WFMin
<1>2. \A m \in T : ~(m < n)
  BY <1>1 DEF OpToRel
<1> QED BY <1>2

\* Of the arguments that have some property, one is smallest.
LEMMA Smallest ==
  ASSUME NEW S, NEW size \in [S -> Nat], NEW T \in SUBSET S, T # {}
  PROVE  \E x \in T : \A y \in S : size[y] < size[x] => y \notin T
<1> DEFINE sizes == {size[x] : x \in T}
<1>1. sizes \in SUBSET Nat /\ sizes # {}
  OBVIOUS
<1>2. PICK n \in sizes : \A m \in sizes : n <= m
  <2> HIDE DEF sizes
  <2> QED BY <1>1, Least
<1>3. PICK x \in T : n = size[x]
  BY <1>2
<1>4. \A y \in T : size[x] <= size[y]
  BY <1>2, <1>3
<1> QED BY <1>3, <1>4

Descends(S, ok, size, F, step) ==
  /\ \A x \in S : ok[x] # {}
  /\ size \in [S -> Nat] /\ \E N \in Nat : \A x \in S : size[x] <= N
  /\ \E U : F = {h \in [S -> U] : \A x \in S : h[x] \in ok[x]} /\ \A x \in S : ok[x] \subseteq U
  /\ \A h \in F, x \in S : step[<<h, x>>] \in ok[x]
  /\ \A g, h \in F, x \in S :
       (\A y \in S : size[y] < size[x] => g[y] = h[y]) => step[<<g, x>>] = step[<<h, x>>]

LEMMA Recursion ==
  ASSUME NEW S, NEW ok, NEW size, NEW F, NEW step, Descends(S, ok, size, F, step)
  PROVE  \E f \in F : \A x \in S : f[x] = step[<<f, x>>]
<1>0. PICK N \in Nat : \A x \in S : size[x] <= N
  BY DEF Descends
<1> PICK U : F = {h \in [S -> U] : \A x \in S : h[x] \in ok[x]} /\ \A x \in S : ok[x] \subseteq U
  BY DEF Descends
<1> /\ \A x \in S : ok[x] # {}
    /\ size \in [S -> Nat]
    /\ \A h \in F, x \in S : step[<<h, x>>] \in ok[x]
    /\ \A g, h \in F, x \in S :
         (\A y \in S : size[y] < size[x] => g[y] = h[y]) => step[<<g, x>>] = step[<<h, x>>]
  BY DEF Descends
<1> DEFINE Done(f, n) == \A x \in S : size[x] < n => f[x] = step[<<f, x>>]
           stuck == {n \in Nat : ~ \E f \in F : Done(f, n)}
<1>1. \E f \in F : Done(f, 0)
  <2> DEFINE f == [x \in S |-> CHOOSE u \in ok[x] : TRUE]
  <2>1. \A x \in S : f[x] \in ok[x]
    OBVIOUS
  <2>2. f \in F
    BY <2>1
  <2>3. Done(f, 0)
    OBVIOUS
  <2> QED BY <2>2, <2>3
<1>2. ASSUME NEW n \in Nat, NEW f \in F, Done(f, n)
      PROVE  \E g \in F : Done(g, n + 1)
  <2> DEFINE g == [x \in S |-> step[<<f, x>>]]
  <2>1. g \in F
    OBVIOUS
  <2>2. ASSUME NEW x \in S, size[x] < n + 1
        PROVE  g[x] = step[<<g, x>>]
    <3>1. \A y \in S : size[y] < size[x] => f[y] = g[y]
      BY <1>2, <2>2
    <3>2. step[<<f, x>>] = step[<<g, x>>]
      BY <2>1, <3>1
    <3> QED BY <3>2
  <2> QED BY <2>1, <2>2
<1> HIDE DEF Done
<1>3. stuck = {}
  <2> SUFFICES ASSUME stuck # {} PROVE FALSE
    OBVIOUS
  <2>1. stuck \in SUBSET Nat
    OBVIOUS
  <2>2. PICK n \in stuck : \A m \in stuck : n <= m
    <3> HIDE DEF stuck
    <3> QED BY <2>1, Least
  <2>3. n \in Nat /\ n # 0
    BY <1>1
  <2>4. n - 1 \in Nat /\ n - 1 \notin stuck
    BY <2>2, <2>3
  <2>5. PICK f \in F : Done(f, n - 1)
    BY <2>4
  <2>6. \E g \in F : Done(g, (n - 1) + 1)
    BY <1>2, <2>4, <2>5
  <2> QED BY <2>2, <2>3, <2>6
<1>4. PICK f \in F : Done(f, N + 1)
  <2>1. N + 1 \in Nat
    BY <1>0
  <2>2. N + 1 \notin stuck
    <3> HIDE DEF stuck
    <3> QED BY <1>3
  <2> QED BY <2>1, <2>2
<1>5. \A x \in S : size[x] < N + 1
  BY <1>0
<1> QED BY <1>4, <1>5 DEF Done

-----------------------------------------------------------------------------
(* The parser.                                                             *)

Valuations == [Fields -> Values \cup {"unknown"}]

\* What may come out of a call: a method that returns a value never goes back,
\* and consumes a token unless it is only on with its loop; and "unknown" is
\* only ever due to a mentioned field without a value.
Lacking(ts, e) == \E i \in 1..Len(ts) : ts[i] \in Fields /\ e[ts[i]] = "unknown"

AnyResult == [value : Values \cup Raised, next : Nat]

Sound(ts, e, c) ==
  {r \in AnyResult :
     /\ r.next \in 1..(Len(ts) + 1)
     /\ r.value \in Values => r.next >= c.at
     /\ (r.value \in Values /\ (c.result = "none" \/ c.method = "factor")) => r.next > c.at
     /\ r.value = "unknown" => Lacking(ts, e)}

SoundParses(ts, e) ==
  {p \in [Calls(ts) -> AnyResult] : \A c \in Calls(ts) : p[c] \in Sound(ts, e, c)}

\* A method calls only what is further on, or of a tighter operator.
Rank(method) == IF method = "expression" THEN 2 ELSE IF method = "term" THEN 1 ELSE 0
Ahead(ts) == [c \in Calls(ts) |-> 3 * (Len(ts) + 1 - c.at) + Rank(c.method)]

LEMMA AheadType ==
  ASSUME NEW ts \in Seq(Tokens)
  PROVE  /\ Ahead(ts) \in [Calls(ts) -> Nat]
         /\ \A c \in Calls(ts) : Ahead(ts)[c] <= 3 * (Len(ts) + 1) + 2
         /\ 3 * (Len(ts) + 1) + 2 \in Nat
<1>1. Len(ts) \in Nat
  OBVIOUS
<1>2. ASSUME NEW c \in Calls(ts)
      PROVE  Ahead(ts)[c] \in Nat /\ Ahead(ts)[c] <= 3 * (Len(ts) + 1) + 2
  <2>1. c.at \in 1..(Len(ts) + 1) /\ Rank(c.method) \in 0..2
    BY DEF Calls, Rank
  <2> QED BY <1>1, <2>1 DEF Ahead
<1> QED BY <1>1, <1>2 DEF Ahead

LEMMA CallTypes ==
  ASSUME NEW ts \in Seq(Tokens), NEW m \in Methods, NEW i \in 1..(Len(ts) + 1),
         NEW v \in Values \cup {"none"}
  PROVE  /\ Call(m, i, v) \in Calls(ts)
         /\ Call(m, i, v).method = m /\ Call(m, i, v).at = i /\ Call(m, i, v).result = v
         /\ Ahead(ts)[Call(m, i, v)] = 3 * (Len(ts) + 1 - i) + Rank(m)
  BY DEF Call, Calls, Ahead

Agree(ts, p, q, n) == \A y \in Calls(ts) : Ahead(ts)[y] < n => q[y] = p[y]
Beyond(ts, m, i, n) == /\ n > 3 * (Len(ts) + 1 - i) + Rank(Operand(m))
                       /\ n > 3 * (Len(ts) + 1 - (i + 1)) + Rank(m)

LEMMA FurtherOn ==
  ASSUME NEW ts \in Seq(Tokens), NEW m \in {"expression", "term"}, NEW i \in 1..(Len(ts) + 1),
         NEW n \in Nat, n = 3 * (Len(ts) + 1 - i) + Rank(m)
  PROVE  Beyond(ts, m, i, n) /\ Beyond(ts, m, i + 1, n)
<1>1. Rank(Operand(m)) < Rank(m) /\ Rank(m) \in Nat /\ Rank(Operand(m)) \in Nat
  BY DEF Rank, Operand
<1>2. Len(ts) \in Nat /\ i \in Nat
  OBVIOUS
<1> QED BY <1>1, <1>2 DEF Beyond

\* The same operand of a chain, whatever the parse is beyond it.
LEMMA OperandStep ==
  ASSUME NEW ts \in Seq(Tokens), NEW e \in Valuations, NEW p \in SoundParses(ts, e), NEW q,
         NEW m \in {"expression", "term"}, NEW i \in 1..(Len(ts) + 1),
         NEW n \in Nat, Beyond(ts, m, i, n), Agree(ts, p, q, n)
  PROVE  /\ ParseOperand(q, m, i) = ParseOperand(p, m, i)
         /\ ParseOperand(p, m, i) \in Sound(ts, e, Call(m, i, "none"))
<1> DEFINE c == Call(Operand(m), i, "none")
           r == p[c]
           d == Call(m, r.next, r.value)
<1>0. /\ \A y \in Calls(ts) : Ahead(ts)[y] < n => q[y] = p[y]
      /\ n > 3 * (Len(ts) + 1 - i) + Rank(Operand(m))
      /\ n > 3 * (Len(ts) + 1 - (i + 1)) + Rank(m)
  BY DEF Agree, Beyond
<1>1. /\ c \in Calls(ts) /\ Ahead(ts)[c] < n /\ c.at = i /\ c.result = "none"
      /\ m \in Methods /\ Call(m, i, "none") \in Calls(ts)
      /\ Call(m, i, "none").at = i /\ Call(m, i, "none").result = "none"
  BY <1>0, CallTypes DEF Operand, Methods
<1>2. q[c] = r
  BY <1>0, <1>1
<1>3. r \in Sound(ts, e, c)
  BY <1>1 DEF SoundParses
<1>4. CASE r.value \in Raised
  <2>1. ParseOperand(q, m, i) = r /\ ParseOperand(p, m, i) = r
    BY <1>2, <1>4 DEF ParseOperand
  <2>2. r.value \notin Values
    BY <1>4 DEF Raised, Values
  <2> HIDE DEF r, c
  <2>3. r \in Sound(ts, e, Call(m, i, "none"))
    BY <1>1, <1>3, <2>2 DEF Sound
  <2> QED BY <2>1, <2>3
<1>5. CASE r.value \notin Raised
  <2>1. r.value \in Values /\ r.next \in 1..(Len(ts) + 1) /\ r.next > i /\ r.value # "none"
    BY <1>1, <1>3, <1>5 DEF Sound, AnyResult, Values
  <2>2. /\ d \in Calls(ts) /\ d.at = r.next /\ d.result = r.value /\ d.method = m
        /\ Ahead(ts)[d] = 3 * (Len(ts) + 1 - r.next) + Rank(m)
    <3> HIDE DEF r
    <3> QED BY <1>1, <2>1, CallTypes
  <2>3. Ahead(ts)[d] < n
    <3> HIDE DEF r, d
    <3>1. Rank(m) \in Nat
      BY DEF Rank
    <3> QED BY <1>0, <2>1, <2>2, <3>1
  <2>4. q[d] = p[d]
    BY <1>0, <2>2, <2>3
  <2>5. p[d] \in Sound(ts, e, d)
    BY <2>2 DEF SoundParses
  <2>6. ParseOperand(q, m, i) = q[d] /\ ParseOperand(p, m, i) = p[d]
    BY <1>2, <1>5 DEF ParseOperand
  <2>7. p[d] \in Sound(ts, e, Call(m, i, "none"))
    <3> DEFINE t == p[d]
    <3>1. /\ t \in AnyResult /\ t.next \in 1..(Len(ts) + 1)
          /\ t.value \in Values => t.next >= r.next
          /\ t.value = "unknown" => Lacking(ts, e)
      <4> HIDE DEF r, d
      <4> QED BY <2>2, <2>5 DEF Sound
    <3>2. t.value \in Values => t.next > i
      <4> HIDE DEF r, t
      <4> QED BY <2>1, <3>1
    <3>3. t.value \in Values => t.next >= i
      <4> HIDE DEF t
      <4> QED BY <3>1, <3>2
    <3>4. t \in Sound(ts, e, Call(m, i, "none"))
      <4> HIDE DEF t
      <4> QED BY <1>1, <3>1, <3>2, <3>3 DEF Sound
    <3> QED BY <3>4
  <2> QED BY <2>4, <2>6, <2>7
<1> QED BY <1>4, <1>5
LEMMA ChainStep ==
  ASSUME NEW ts \in Seq(Tokens), NEW e \in Valuations, NEW p \in SoundParses(ts, e), NEW q,
         NEW c \in Calls(ts), c.method # "factor",
         Agree(ts, p, q, Ahead(ts)[c])
  PROVE  /\ ParseChain(ts, q, c) = ParseChain(ts, p, c)
         /\ ParseChain(ts, p, c) \in Sound(ts, e, c)
<1> DEFINE m == c.method
           i == c.at
           v == c.result
           n == Ahead(ts)[c]
           rest == Call(m, i + 1, v)
<1>1. /\ m \in {"expression", "term"} /\ m \in Methods /\ i \in 1..(Len(ts) + 1)
      /\ v \in Values \cup {"none"} /\ Len(ts) \in Nat
  BY DEF Calls, Methods
<1>2. /\ n = 3 * (Len(ts) + 1 - i) + Rank(m) /\ n \in Nat
      /\ Rank(Operand(m)) < Rank(m) /\ Rank(m) \in Nat /\ Rank(Operand(m)) \in Nat
  <2>1. n = 3 * (Len(ts) + 1 - i) + Rank(m)
    BY DEF Ahead
  <2>2. Rank(Operand(m)) < Rank(m) /\ Rank(m) \in Nat /\ Rank(Operand(m)) \in Nat
    BY <1>1 DEF Rank, Operand
  <2> QED BY <1>1, <2>1, <2>2
<1>0. Agree(ts, p, q, n)
  OBVIOUS
<1>3. CASE v = "none"
  <2>1. /\ ParseChain(ts, q, c) = ParseOperand(q, m, i)
        /\ ParseChain(ts, p, c) = ParseOperand(p, m, i)
    BY <1>3 DEF ParseChain
  <2>2. c = Call(m, i, "none")
    BY <1>3 DEF Calls, Call
  <2>3. Beyond(ts, m, i, n)
    <3> HIDE DEF m, i, n
    <3> QED BY <1>1, <1>2, FurtherOn
  <2>4. /\ ParseOperand(q, m, i) = ParseOperand(p, m, i)
        /\ ParseOperand(p, m, i) \in Sound(ts, e, Call(m, i, "none"))
    <3> HIDE DEF m, i, n
    <3> QED BY <1>0, <1>1, <1>2, <2>3, OperandStep
  <2> QED BY <2>1, <2>2, <2>4
<1>4. CASE v # "none" /\ ~Peek(ts, i, Operator(m))
  <2>1. ParseChain(ts, q, c) = Result(v, i) /\ ParseChain(ts, p, c) = Result(v, i)
    BY <1>4 DEF ParseChain
  <2>2. Result(v, i) \in Sound(ts, e, c)
    BY <1>1, <1>4 DEF Sound, Result, AnyResult, Values
  <2> QED BY <2>1, <2>2
<1>5. CASE v # "none" /\ Peek(ts, i, Operator(m)) /\ v = Decides(m)
  <2>1. ParseChain(ts, q, c) = q[rest] /\ ParseChain(ts, p, c) = p[rest]
    BY <1>5 DEF ParseChain
  <2>2. i + 1 \in 1..(Len(ts) + 1)
    BY <1>1, <1>5 DEF Peek
  <2>3. /\ rest \in Calls(ts) /\ rest.method = m /\ rest.at = i + 1 /\ rest.result = v
        /\ Ahead(ts)[rest] = 3 * (Len(ts) + 1 - (i + 1)) + Rank(m)
    <3> HIDE DEF m, i, v
    <3> QED BY <1>1, <2>2, CallTypes
  <2>4. Ahead(ts)[rest] < n
    <3> HIDE DEF m, i, n, rest
    <3> QED BY <1>1, <1>2, <2>3
  <2> USE DEF Agree
  <2>5. q[rest] = p[rest] /\ p[rest] \in Sound(ts, e, rest)
    BY <2>3, <2>4 DEF SoundParses
  <2>6. p[rest] \in Sound(ts, e, c)
    <3>1. c.at = i /\ c.method # "factor" /\ c.result # "none"
      BY <1>5
    <3> HIDE DEF m, i, v, rest
    <3> QED BY <1>1, <2>3, <2>5, <3>1 DEF Sound
  <2> QED BY <2>1, <2>5, <2>6
<1>6. CASE v # "none" /\ Peek(ts, i, Operator(m)) /\ v # Decides(m)
  <2>1. /\ ParseChain(ts, q, c) = ParseOperand(q, m, i + 1)
        /\ ParseChain(ts, p, c) = ParseOperand(p, m, i + 1)
    BY <1>6 DEF ParseChain
  <2>2. i + 1 \in 1..(Len(ts) + 1)
    BY <1>1, <1>6 DEF Peek
  <2>3. Beyond(ts, m, i + 1, n)
    <3> HIDE DEF m, i, n
    <3> QED BY <1>1, <1>2, FurtherOn
  <2>4. /\ ParseOperand(q, m, i + 1) = ParseOperand(p, m, i + 1)
        /\ ParseOperand(p, m, i + 1) \in Sound(ts, e, Call(m, i + 1, "none"))
    <3> DEFINE j == i + 1
    <3>1. j \in 1..(Len(ts) + 1)
      BY <2>2
    <3>2. Beyond(ts, m, j, n)
      BY <2>3
    <3>3. /\ ParseOperand(q, m, j) = ParseOperand(p, m, j)
          /\ ParseOperand(p, m, j) \in Sound(ts, e, Call(m, j, "none"))
      <4> HIDE DEF m, j, n
      <4> QED BY <1>0, <1>1, <1>2, <3>1, <3>2, OperandStep
    <3> QED BY <3>3
  <2>5. ParseOperand(p, m, i + 1) \in Sound(ts, e, c)
    <3> DEFINE t == ParseOperand(p, m, i + 1)
               d == Call(m, i + 1, "none")
    <3>1. d.at = i + 1 /\ d.result = "none" /\ d.method = m
      BY DEF Call
    <3>2. t \in Sound(ts, e, d)
      BY <2>4
    <3>3. t \in Sound(ts, e, c)
      <4>1. c.at = i /\ c.method # "factor" /\ c.result # "none"
        BY <1>6
      <4> HIDE DEF m, i, v, t, d
      <4> QED BY <1>1, <3>1, <3>2, <4>1 DEF Sound
    <3> QED BY <3>3
  <2> QED BY <2>1, <2>4, <2>5
<1> QED BY <1>3, <1>4, <1>5, <1>6

LEMMA FactorStep ==
  ASSUME NEW ts \in Seq(Tokens), NEW e \in Valuations, NEW p \in SoundParses(ts, e), NEW q,
         NEW c \in Calls(ts), c.method = "factor",
         Agree(ts, p, q, Ahead(ts)[c])
  PROVE  /\ ParseFactor(ts, e, q, c.at) = ParseFactor(ts, e, p, c.at)
         /\ ParseFactor(ts, e, p, c.at) \in Sound(ts, e, c)
<1> DEFINE i == c.at
           d == Call("expression", i + 1, "none")
           r == p[d]
<1>1. i \in 1..(Len(ts) + 1) /\ Len(ts) \in Nat
  BY DEF Calls
<1>2. CASE ~Peek(ts, i, "(")
  <2>1. /\ ParseFactor(ts, e, q, i) = ParseComparison(ts, i, e)
        /\ ParseFactor(ts, e, p, i) = ParseComparison(ts, i, e)
    BY <1>2 DEF ParseFactor
  <2>2. CASE i <= Len(ts) /\ ts[i] \in Fields
    <3>1. ParseComparison(ts, i, e) = Result(e[ts[i]], i + 1)
      BY <2>2 DEF ParseComparison
    <3>2. e[ts[i]] \in Values \cup {"unknown"}
      BY <2>2 DEF Valuations
    <3>3. e[ts[i]] = "unknown" => Lacking(ts, e)
      BY <1>1, <2>2 DEF Lacking
    <3>4. i + 1 \in 1..(Len(ts) + 1) /\ i + 1 > c.at /\ i + 1 >= c.at /\ i + 1 \in Nat
      BY <1>1, <2>2
    <3>5. Result(e[ts[i]], i + 1) \in Sound(ts, e, c)
      <4> DEFINE w == e[ts[i]]
                 j == i + 1
      <4> HIDE DEF w, i, j
      <4>1. Result(w, j) \in Sound(ts, e, c)
        BY <3>2, <3>3, <3>4 DEF Sound, Result, AnyResult, Raised, w, j
      <4> QED BY <4>1 DEF w, i, j
    <3> QED BY <2>1, <3>1, <3>5
  <2>3. CASE ~(i <= Len(ts) /\ ts[i] \in Fields)
    <3>1. ParseComparison(ts, i, e) = Unsupported(i)
      BY <2>3 DEF ParseComparison
    <3>2. Unsupported(i) \in Sound(ts, e, c)
      BY <1>1 DEF Sound, Unsupported, Result, AnyResult, Raised, Values
    <3> QED BY <2>1, <3>1, <3>2
  <2> QED BY <2>2, <2>3
<1>3. CASE Peek(ts, i, "(")
  <2>1. i + 1 \in 1..(Len(ts) + 1)
    BY <1>1, <1>3 DEF Peek
  <2>2. /\ d \in Calls(ts) /\ d.at = i + 1 /\ d.result = "none"
        /\ Ahead(ts)[d] = 3 * (Len(ts) + 1 - (i + 1)) + 2
    <3>1. "expression" \in Methods /\ Rank("expression") = 2
      BY DEF Methods, Rank
    <3> HIDE DEF i
    <3> QED BY <2>1, <3>1, CallTypes
  <2>3. Ahead(ts)[d] < Ahead(ts)[c]
    <3>1. Ahead(ts)[c] = 3 * (Len(ts) + 1 - i)
      BY <1>1 DEF Ahead, Rank
    <3> HIDE DEF i, d
    <3> QED BY <1>1, <2>2, <3>1
  <2>4. q[d] = r /\ r \in Sound(ts, e, d)
    BY <2>2, <2>3 DEF SoundParses, Agree
  <2>5. r \in AnyResult /\ r.next \in 1..(Len(ts) + 1)
    BY <2>4 DEF Sound
  <2>6. CASE r.value \in Raised
    <3>1. ParseFactor(ts, e, q, i) = r /\ ParseFactor(ts, e, p, i) = r
      BY <1>3, <2>4, <2>6 DEF ParseFactor
    <3>2. r \in Sound(ts, e, c)
      <4>1. r.value \notin Values
        BY <2>6 DEF Raised, Values
      <4> HIDE DEF r, d
      <4> QED BY <2>4, <4>1 DEF Sound
    <3> QED BY <3>1, <3>2
  <2>7. CASE r.value \notin Raised /\ Peek(ts, r.next, ")")
    <3>1. /\ ParseFactor(ts, e, q, i) = Result(r.value, r.next + 1)
          /\ ParseFactor(ts, e, p, i) = Result(r.value, r.next + 1)
      BY <1>3, <2>4, <2>7 DEF ParseFactor
    <3>2. r.value \in Values /\ r.next > i + 1
      <4> HIDE DEF r, d
      <4> QED BY <2>2, <2>4, <2>7 DEF Sound, AnyResult
    <3>3. /\ r.next + 1 \in 1..(Len(ts) + 1) /\ r.next + 1 > c.at /\ r.next + 1 >= c.at
          /\ r.next + 1 \in Nat
      <4>1. i = c.at
        OBVIOUS
      <4> HIDE DEF r, i
      <4> QED BY <1>1, <2>5, <2>7, <3>2, <4>1 DEF Peek
    <3>4. Result(r.value, r.next + 1) \in Sound(ts, e, c)
      <4> DEFINE w == r.value
                 j == r.next + 1
      <4>0. w \in Values /\ j \in 1..(Len(ts) + 1) /\ j > c.at /\ j >= c.at /\ j \in Nat
        BY <3>2, <3>3
      <4>1. Result(w, j) \in Sound(ts, e, c)
        <5> HIDE DEF w, j
        <5> QED BY <4>0 DEF Sound, Result, AnyResult, Values
      <4> QED BY <4>1
    <3> QED BY <3>1, <3>4
  <2>8. CASE r.value \notin Raised /\ ~Peek(ts, r.next, ")")
    <3>1. /\ ParseFactor(ts, e, q, i) = Unsupported(r.next)
          /\ ParseFactor(ts, e, p, i) = Unsupported(r.next)
      BY <1>3, <2>4, <2>8 DEF ParseFactor
    <3>2. Unsupported(r.next) \in Sound(ts, e, c)
      <4> HIDE DEF r
      <4> QED BY <2>5 DEF Sound, Unsupported, Result, AnyResult, Raised, Values
    <3> QED BY <3>1, <3>2
  <2> QED BY <2>6, <2>7, <2>8
<1> QED BY <1>2, <1>3

LEMMA StepAhead ==
  ASSUME NEW ts \in Seq(Tokens), NEW e \in Valuations, NEW p \in SoundParses(ts, e), NEW q,
         NEW c \in Calls(ts),
         Agree(ts, p, q, Ahead(ts)[c])
  PROVE  /\ ParseStep(ts, e, q, c) = ParseStep(ts, e, p, c)
         /\ ParseStep(ts, e, p, c) \in Sound(ts, e, c)
<1>1. CASE c.method = "factor"
  BY <1>1, FactorStep DEF ParseStep
<1>2. CASE c.method # "factor"
  BY <1>2, ChainStep DEF ParseStep
<1> QED BY <1>1, <1>2

\* What every call of a method of the parser comes to.
LEMMA ParseIs ==
  ASSUME NEW ts \in Seq(Tokens), NEW e \in Valuations
  PROVE  /\ Parse(ts, e) \in SoundParses(ts, e)
         /\ \A c \in Calls(ts) : Parse(ts, e)[c] = ParseStep(ts, e, Parse(ts, e), c)
<1> DEFINE S == Calls(ts)
           F == SoundParses(ts, e)
           ok == [c \in S |-> Sound(ts, e, c)]
           step == [z \in F \X S |-> ParseStep(ts, e, z[1], z[2])]
           N == 3 * (Len(ts) + 1) + 2
           size == Ahead(ts)
           p == Parse(ts, e)
           DefinedBy(f) == f = [c \in S |-> ParseStep(ts, e, f, c)]
<1>1. PICK f \in F : \A c \in S : f[c] = ParseStep(ts, e, f, c)
  <2>1. ok \in [S -> SUBSET AnyResult] /\ \A c \in S : ok[c] # {}
    <3>1. \A c \in S : Sound(ts, e, c) \subseteq AnyResult
      BY DEF Sound
    <3>2. \A c \in S : Unsupported(1) \in Sound(ts, e, c)
      BY DEF Sound, Unsupported, Result, AnyResult, Raised, Values
    <3> QED BY <3>1, <3>2
  <2>2. N \in Nat /\ size \in [S -> Nat] /\ \A c \in S : size[c] <= N
    BY AheadType
  <2>3. F = {h \in [S -> AnyResult] : \A c \in S : h[c] \in ok[c]}
    BY DEF SoundParses
  <2>4. \A h \in F, c \in S : step[<<h, c>>] = ParseStep(ts, e, h, c)
    OBVIOUS
  <2>5. \A h \in F, c \in S : ParseStep(ts, e, h, c) \in Sound(ts, e, c)
    <3>1. \A h \in F, c \in S : Agree(ts, h, h, Ahead(ts)[c])
      BY DEF Agree
    <3> QED BY <3>1, StepAhead
  <2>6. \A h \in F, c \in S : step[<<h, c>>] \in ok[c]
    BY <2>4, <2>5
  <2>8. \A g, h \in F, c \in S :
           (\A y \in S : size[y] < size[c] => g[y] = h[y]) => step[<<g, c>>] = step[<<h, c>>]
    <3>1. \A g, h \in F, c \in S :
             (\A y \in S : size[y] < size[c] => g[y] = h[y]) => Agree(ts, h, g, size[c])
      BY DEF Agree
    <3>2. \A g, h \in F, c \in S :
             Agree(ts, h, g, size[c]) => ParseStep(ts, e, g, c) = ParseStep(ts, e, h, c)
      BY StepAhead
    <3> HIDE DEF step, F, S, size
    <3> QED BY <2>4, <3>1, <3>2
  <2>9. \E f \in F : \A c \in S : f[c] = step[<<f, c>>]
    <3>1. Descends(S, ok, size, F, step)
      <4> HIDE DEF S, F, ok, step, N, size
      <4> QED BY <2>1, <2>2, <2>3, <2>6, <2>8 DEF Descends
    <3> HIDE DEF S, F, ok, step, N, size
    <3> QED BY <3>1, Recursion
  <2> QED BY <2>4, <2>9
<1>2. DefinedBy(f)
  <2>1. f = [c \in S |-> f[c]]
    BY DEF SoundParses
  <2> QED BY <1>1, <2>1
<1>3. p = CHOOSE g : DefinedBy(g)
  BY DEF Parse
<1>4. DefinedBy(p)
  <2> HIDE DEF DefinedBy, p
  <2> QED BY <1>2, <1>3
<1>5. p = f
  <2> DEFINE T == {c \in S : p[c] # f[c]}
  <2>1. T = {}
    <3> SUFFICES ASSUME T # {} PROVE FALSE
      OBVIOUS
    <3>1. PICK c \in T : \A y \in S : size[y] < size[c] => y \notin T
      <4>1. size \in [S -> Nat] /\ T \in SUBSET S
        BY AheadType
      <4> HIDE DEF S, T, size
      <4> QED BY <4>1, Smallest
    <3>2. Agree(ts, f, p, size[c])
      BY <3>1 DEF Agree
    <3>3. ParseStep(ts, e, p, c) = ParseStep(ts, e, f, c)
      <4> HIDE DEF p
      <4> QED BY <3>2, StepAhead
    <3>4. p[c] = ParseStep(ts, e, p, c)
      <4> HIDE DEF p
      <4> QED BY <1>4
    <3> QED BY <1>1, <3>3, <3>4
  <2>2. p = [c \in S |-> p[c]] /\ f = [c \in S |-> f[c]]
    <3> HIDE DEF p
    <3> QED BY <1>2, <1>4
  <2> HIDE DEF p
  <2> QED BY <2>1, <2>2
<1> QED BY <1>1, <1>5

-----------------------------------------------------------------------------
(* The meaning of a segment.                                               *)

Meanings == Values \cup {"malformed"}
Totals == [Fields -> Values]

Width(ts) == [s \in Segments(ts) |-> IF s[1] <= s[2] THEN s[2] - s[1] + 1 ELSE 0]
AgreeBelow(ts, f, g, n) == \A s \in Segments(ts) : Width(ts)[s] < n => g[s] = f[s]

LEMMA WidthType ==
  ASSUME NEW ts \in Seq(Tokens)
  PROVE  /\ Width(ts) \in [Segments(ts) -> Nat]
         /\ \A s \in Segments(ts) : Width(ts)[s] <= Len(ts)
         /\ Len(ts) \in Nat
<1>1. Len(ts) \in Nat
  OBVIOUS
<1>2. ASSUME NEW s \in Segments(ts)
      PROVE  Width(ts)[s] \in Nat /\ Width(ts)[s] <= Len(ts)
  <2>1. s[1] \in 1..(Len(ts) + 1) /\ s[2] \in 0..Len(ts)
    BY DEF Segments
  <2> QED BY <1>1, <2>1 DEF Width
<1> QED BY <1>1, <1>2 DEF Width

\* The two sides of an outermost operator are segments, and shorter.
LEMMA Sides ==
  ASSUME NEW ts \in Seq(Tokens), NEW s \in Segments(ts), NEW k \in s[1]..s[2]
  PROVE  /\ <<s[1], k - 1>> \in Segments(ts) /\ <<k + 1, s[2]>> \in Segments(ts)
         /\ Width(ts)[<<s[1], k - 1>>] < Width(ts)[s]
         /\ Width(ts)[<<k + 1, s[2]>>] < Width(ts)[s]
<1>1. /\ s[1] \in 1..(Len(ts) + 1) /\ s[2] \in 0..Len(ts) /\ Len(ts) \in Nat
      /\ s[1] <= k /\ k <= s[2] /\ k \in Nat /\ s[1] \in Nat /\ s[2] \in Nat
  BY DEF Segments
<1>2. <<s[1], k - 1>> \in Segments(ts) /\ <<k + 1, s[2]>> \in Segments(ts)
  BY <1>1 DEF Segments
<1>3. /\ Width(ts)[s] = s[2] - s[1] + 1
      /\ Width(ts)[<<s[1], k - 1>>] = IF s[1] <= k - 1 THEN (k - 1) - s[1] + 1 ELSE 0
      /\ Width(ts)[<<k + 1, s[2]>>] = IF k + 1 <= s[2] THEN s[2] - (k + 1) + 1 ELSE 0
  BY <1>1, <1>2 DEF Width
<1> QED BY <1>1, <1>2, <1>3

LEMMA Within ==
  ASSUME NEW ts \in Seq(Tokens), NEW s \in Segments(ts), s[1] + 2 <= s[2]
  PROVE  /\ <<s[1] + 1, s[2] - 1>> \in Segments(ts)
         /\ Width(ts)[<<s[1] + 1, s[2] - 1>>] < Width(ts)[s]
<1>1. /\ s[1] \in 1..(Len(ts) + 1) /\ s[2] \in 0..Len(ts) /\ Len(ts) \in Nat
  BY DEF Segments
<1>2. <<s[1] + 1, s[2] - 1>> \in Segments(ts)
  BY <1>1 DEF Segments
<1>3. /\ Width(ts)[s] = s[2] - s[1] + 1
      /\ Width(ts)[<<s[1] + 1, s[2] - 1>>] = (s[2] - 1) - (s[1] + 1) + 1
  BY <1>1, <1>2 DEF Width
<1> QED BY <1>1, <1>2, <1>3

LEMMA JoinTypes ==
  ASSUME NEW m, NEW a \in Meanings, NEW b \in Meanings
  PROVE  /\ Join(m, a, b) \in Meanings
         /\ Join(m, a, b) \in Values => a \in Values /\ b \in Values
         /\ \A c \in Meanings : Join(m, a, Join(m, b, c)) = Join(m, Join(m, a, b), c)
  BY DEF Join, Meanings, Values

LEMMA SplitAgrees ==
  ASSUME NEW ts \in Seq(Tokens), NEW h \in [Segments(ts) -> Meanings], NEW g,
         NEW s \in Segments(ts), NEW m, Outermost(ts, s, Operator(m)) # {},
         AgreeBelow(ts, h, g, Width(ts)[s])
  PROVE  /\ Split(ts, g, s, m) = Split(ts, h, s, m)
         /\ Split(ts, h, s, m) \in Meanings
<1> DEFINE k == CHOOSE k \in Outermost(ts, s, Operator(m)) : TRUE
           a == <<s[1], k - 1>>
           b == <<k + 1, s[2]>>
<1>1. k \in s[1]..s[2]
  BY DEF Outermost
<1>2. g[a] = h[a] /\ g[b] = h[b] /\ h[a] \in Meanings /\ h[b] \in Meanings
  <2> HIDE DEF k
  <2> QED BY <1>1, Sides DEF AgreeBelow
<1>3. Split(ts, g, s, m) = Join(m, g[a], g[b]) /\ Split(ts, h, s, m) = Join(m, h[a], h[b])
  BY DEF Split
<1>4. Join(m, h[a], h[b]) \in Meanings
  <2> HIDE DEF a, b
  <2> QED BY <1>2, JoinTypes
<1> HIDE DEF a, b
<1> QED BY <1>2, <1>3, <1>4

LEMMA MeaningAhead ==
  ASSUME NEW ts \in Seq(Tokens), NEW e \in Totals, NEW h \in [Segments(ts) -> Meanings], NEW g,
         NEW s \in Segments(ts), AgreeBelow(ts, h, g, Width(ts)[s])
  PROVE  /\ MeaningStep(ts, e, g, s) = MeaningStep(ts, e, h, s)
         /\ MeaningStep(ts, e, h, s) \in Meanings
<1>1. CASE Outermost(ts, s, "OR") # {}
  <2>1. Operator("expression") = "OR"
    BY DEF Operator
  <2>2. /\ Split(ts, g, s, "expression") = Split(ts, h, s, "expression")
        /\ Split(ts, h, s, "expression") \in Meanings
    BY <1>1, <2>1, SplitAgrees
  <2> QED BY <1>1, <2>2 DEF MeaningStep
<1>2. CASE Outermost(ts, s, "OR") = {} /\ Outermost(ts, s, "AND") # {}
  <2>1. Operator("term") = "AND"
    BY DEF Operator
  <2>2. /\ Split(ts, g, s, "term") = Split(ts, h, s, "term")
        /\ Split(ts, h, s, "term") \in Meanings
    BY <1>2, <2>1, SplitAgrees
  <2> QED BY <1>2, <2>2 DEF MeaningStep
<1>3. CASE Outermost(ts, s, "OR") = {} /\ Outermost(ts, s, "AND") = {}
  <2>1. CASE s[1] = s[2] /\ ts[s[1]] \in Fields
    BY <1>3, <2>1 DEF MeaningStep, Meanings, Totals
  <2>2. CASE ~(s[1] = s[2] /\ ts[s[1]] \in Fields)
             /\ s[1] + 2 <= s[2] /\ ts[s[1]] = "(" /\ ts[s[2]] = ")"
    <3>1. g[<<s[1] + 1, s[2] - 1>>] = h[<<s[1] + 1, s[2] - 1>>]
          /\ h[<<s[1] + 1, s[2] - 1>>] \in Meanings
      BY <2>2, Within DEF AgreeBelow
    <3> QED BY <1>3, <2>2, <3>1 DEF MeaningStep
  <2>3. CASE /\ ~(s[1] = s[2] /\ ts[s[1]] \in Fields)
             /\ ~(s[1] + 2 <= s[2] /\ ts[s[1]] = "(" /\ ts[s[2]] = ")")
    BY <1>3, <2>3 DEF MeaningStep, Meanings
  <2> QED BY <2>1, <2>2, <2>3
<1> QED BY <1>1, <1>2, <1>3

LEMMA MeaningIs ==
  ASSUME NEW ts \in Seq(Tokens), NEW e \in Totals
  PROVE  /\ MeaningOf(ts, e) \in [Segments(ts) -> Meanings]
         /\ \A s \in Segments(ts) : MeaningOf(ts, e)[s] = MeaningStep(ts, e, MeaningOf(ts, e), s)
<1> DEFINE S == Segments(ts)
           F == [S -> Meanings]
           ok == [s \in S |-> Meanings]
           step == [z \in F \X S |-> MeaningStep(ts, e, z[1], z[2])]
           size == Width(ts)
           p == MeaningOf(ts, e)
           DefinedBy(f) == f = [s \in S |-> MeaningStep(ts, e, f, s)]
<1>1. PICK f \in F : \A s \in S : f[s] = MeaningStep(ts, e, f, s)
  <2>1. \A s \in S : ok[s] # {} /\ ok[s] \subseteq Meanings
    BY DEF Meanings
  <2>2. size \in [S -> Nat] /\ \E N \in Nat : \A s \in S : size[s] <= N
    BY WidthType
  <2>3. F = {h \in [S -> Meanings] : \A s \in S : h[s] \in ok[s]}
    OBVIOUS
  <2>4. \A h \in F, s \in S : step[<<h, s>>] = MeaningStep(ts, e, h, s)
    OBVIOUS
  <2>5. \A h \in F, s \in S : MeaningStep(ts, e, h, s) \in Meanings
    <3>1. \A h \in F, s \in S : AgreeBelow(ts, h, h, Width(ts)[s])
      BY DEF AgreeBelow
    <3> QED BY <3>1, MeaningAhead
  <2>6. \A h \in F, s \in S : step[<<h, s>>] \in ok[s]
    BY <2>4, <2>5
  <2>7. \A g, h \in F, s \in S :
           (\A y \in S : size[y] < size[s] => g[y] = h[y]) => step[<<g, s>>] = step[<<h, s>>]
    <3>1. \A g, h \in F, s \in S :
             (\A y \in S : size[y] < size[s] => g[y] = h[y]) => AgreeBelow(ts, h, g, size[s])
      BY DEF AgreeBelow
    <3>2. \A g, h \in F, s \in S :
             AgreeBelow(ts, h, g, size[s]) => MeaningStep(ts, e, g, s) = MeaningStep(ts, e, h, s)
      BY MeaningAhead
    <3> HIDE DEF step, F, S, size
    <3> QED BY <2>4, <3>1, <3>2
  <2>8. \E f \in F : \A s \in S : f[s] = step[<<f, s>>]
    <3>1. Descends(S, ok, size, F, step)
      <4> HIDE DEF S, F, ok, step, size
      <4> QED BY <2>1, <2>2, <2>3, <2>6, <2>7 DEF Descends
    <3> HIDE DEF S, F, ok, step, size
    <3> QED BY <3>1, Recursion
  <2> QED BY <2>4, <2>8
<1>2. DefinedBy(f)
  BY <1>1
<1>3. p = CHOOSE g : DefinedBy(g)
  BY DEF MeaningOf
<1>4. DefinedBy(p)
  <2> HIDE DEF DefinedBy, p
  <2> QED BY <1>2, <1>3
<1>5. p = f
  <2> DEFINE T == {s \in S : p[s] # f[s]}
  <2>1. T = {}
    <3> SUFFICES ASSUME T # {} PROVE FALSE
      OBVIOUS
    <3>1. PICK s \in T : \A y \in S : size[y] < size[s] => y \notin T
      <4>1. size \in [S -> Nat] /\ T \in SUBSET S
        BY WidthType
      <4> HIDE DEF S, T, size
      <4> QED BY <4>1, Smallest
    <3>2. AgreeBelow(ts, f, p, size[s])
      BY <3>1 DEF AgreeBelow
    <3>3. MeaningStep(ts, e, p, s) = MeaningStep(ts, e, f, s)
      <4> HIDE DEF p
      <4> QED BY <3>2, MeaningAhead
    <3>4. p[s] = MeaningStep(ts, e, p, s)
      <4> HIDE DEF p
      <4> QED BY <1>4
    <3> QED BY <1>1, <3>3, <3>4
  <2>2. p = [s \in S |-> p[s]] /\ f = [s \in S |-> f[s]]
    <3> HIDE DEF p
    <3> QED BY <1>2, <1>4
  <2> HIDE DEF p
  <2> QED BY <2>1, <2>2
<1> QED BY <1>1, <1>5

\* Depth adds up along a condition.
LEMMA DepthAdds ==
  ASSUME NEW ts \in Seq(Tokens), NEW i \in Nat, NEW k \in Nat, NEW j \in Nat, i <= k, k < j
  PROVE  Depth(ts, i, j) = Depth(ts, i, k) + Depth(ts, k + 1, j)
<1> DEFINE At(a, b, t) == {n \in a..b : ts[n] = t}
<1>1. ASSUME NEW a \in Nat, NEW b \in Nat, NEW t
      PROVE  IsFiniteSet(At(a, b, t)) /\ Cardinality(At(a, b, t)) \in Nat
  <2>1. IsFiniteSet(a..b)
    BY FS_Interval
  <2>2. At(a, b, t) \in SUBSET (a..b)
    OBVIOUS
  <2>3. IsFiniteSet(At(a, b, t))
    <3> HIDE DEF At
    <3> QED BY <2>1, <2>2, FS_Subset
  <2> HIDE DEF At
  <2> QED BY <2>3, FS_CardinalityType
<1>2. ASSUME NEW t
      PROVE  Cardinality(At(i, j, t)) = Cardinality(At(i, k, t)) + Cardinality(At(k + 1, j, t))
  <2>1. At(i, j, t) = At(i, k, t) \cup At(k + 1, j, t)
    OBVIOUS
  <2>2. At(i, k, t) \cap At(k + 1, j, t) = {}
    OBVIOUS
  <2>3. k + 1 \in Nat
    OBVIOUS
  <2>4. Cardinality({}) = 0
    BY FS_EmptySet
  <2> HIDE DEF At
  <2>5. Cardinality(At(i, k, t) \cup At(k + 1, j, t))
        = Cardinality(At(i, k, t)) + Cardinality(At(k + 1, j, t))
          - Cardinality(At(i, k, t) \cap At(k + 1, j, t))
    BY <1>1, <2>3, FS_Union
  <2>6. Cardinality(At(i, k, t)) \in Nat /\ Cardinality(At(k + 1, j, t)) \in Nat
    BY <1>1, <2>3
  <2>7. Cardinality(At(i, j, t))
        = Cardinality(At(i, k, t)) + Cardinality(At(k + 1, j, t)) - 0
    BY <2>1, <2>2, <2>4, <2>5
  <2> QED BY <2>6, <2>7
<1>3. \A a, b \in Nat : Depth(ts, a, b) = Cardinality(At(a, b, "(")) - Cardinality(At(a, b, ")"))
  BY DEF Depth
<1>4. k + 1 \in Nat
  OBVIOUS
<1> HIDE DEF At
<1>5. /\ Depth(ts, i, j) = Cardinality(At(i, j, "(")) - Cardinality(At(i, j, ")"))
      /\ Depth(ts, i, k) = Cardinality(At(i, k, "(")) - Cardinality(At(i, k, ")"))
      /\ Depth(ts, k + 1, j) = Cardinality(At(k + 1, j, "(")) - Cardinality(At(k + 1, j, ")"))
  BY <1>3, <1>4
<1>6. \A t \in {"(", ")"} : Cardinality(At(i, k, t)) \in Nat /\ Cardinality(At(k + 1, j, t)) \in Nat
  BY <1>1, <1>4
<1> QED BY <1>2, <1>5, <1>6

LEMMA DepthType ==
  ASSUME NEW ts \in Seq(Tokens), NEW i \in Nat, NEW j \in Nat
  PROVE  Depth(ts, i, j) \in Int
<1> DEFINE At(t) == {n \in i..j : ts[n] = t}
<1>1. ASSUME NEW t
      PROVE  Cardinality(At(t)) \in Nat
  <2>1. IsFiniteSet(i..j) /\ At(t) \in SUBSET (i..j)
    BY FS_Interval
  <2> HIDE DEF At
  <2>2. IsFiniteSet(At(t))
    BY <2>1, FS_Subset
  <2> QED BY <2>2, FS_CardinalityType
<1>2. Depth(ts, i, j) = Cardinality(At("(")) - Cardinality(At(")"))
  BY DEF Depth
<1> HIDE DEF At
<1> QED BY <1>1, <1>2

\* An outermost operator of a side of a split is one of the whole.
LEMMA OutermostOfSides ==
  ASSUME NEW ts \in Seq(Tokens), NEW s \in Segments(ts), NEW k \in s[1]..s[2],
         Depth(ts, s[1], k) = 0, NEW op
  PROVE  /\ \A n : n \in Outermost(ts, <<s[1], k - 1>>, op) <=> n \in Outermost(ts, s, op) /\ n < k
         /\ \A n : n \in Outermost(ts, <<k + 1, s[2]>>, op) <=> n \in Outermost(ts, s, op) /\ n > k
<1>1. s[1] \in Nat /\ s[2] \in Nat /\ k \in Nat /\ s[1] <= k /\ k <= s[2]
  BY DEF Segments
<1>2. ASSUME NEW n \in (k + 1)..s[2]
      PROVE  Depth(ts, s[1], n) = Depth(ts, k + 1, n)
  <2>1. n \in Nat /\ k < n /\ k + 1 \in Nat
    BY <1>1
  <2>2. Depth(ts, s[1], n) = Depth(ts, s[1], k) + Depth(ts, k + 1, n)
    BY <1>1, <2>1, DepthAdds
  <2>3. Depth(ts, k + 1, n) \in Int
    BY <2>1, DepthType
  <2> QED BY <2>2, <2>3
<1>3. /\ \A n : n \in s[1]..(k - 1) <=> n \in s[1]..s[2] /\ n < k
      /\ \A n : n \in (k + 1)..s[2] <=> n \in s[1]..s[2] /\ n > k
  BY <1>1
<1>4. \A n : n \in Outermost(ts, <<s[1], k - 1>>, op) <=> n \in Outermost(ts, s, op) /\ n < k
  BY <1>3 DEF Outermost
<1>5. \A n : n \in Outermost(ts, <<k + 1, s[2]>>, op) <=> n \in Outermost(ts, s, op) /\ n > k
  BY <1>2, <1>3 DEF Outermost
<1> QED BY <1>4, <1>5

\* What a chain means does not depend on the operator at which it is split.
Splits(ts, e, s) ==
  \A m \in {"expression", "term"} : \A k \in Outermost(ts, s, Operator(m)) :
     (m = "term" => Outermost(ts, s, "OR") = {})
     => MeaningOf(ts, e)[s]
        = Join(m, MeaningOf(ts, e)[<<s[1], k - 1>>], MeaningOf(ts, e)[<<k + 1, s[2]>>])

LEMMA SplitsAgree ==
  ASSUME NEW ts \in Seq(Tokens), NEW e \in Totals, NEW s \in Segments(ts),
         \A x \in Segments(ts) : Width(ts)[x] < Width(ts)[s] => Splits(ts, e, x),
         NEW m \in {"expression", "term"}, m = "term" => Outermost(ts, s, "OR") = {},
         NEW a \in Outermost(ts, s, Operator(m)), NEW b \in Outermost(ts, s, Operator(m)), a < b
  PROVE  Join(m, MeaningOf(ts, e)[<<s[1], a - 1>>], MeaningOf(ts, e)[<<a + 1, s[2]>>])
         = Join(m, MeaningOf(ts, e)[<<s[1], b - 1>>], MeaningOf(ts, e)[<<b + 1, s[2]>>])
<1> DEFINE M == MeaningOf(ts, e)
           i == s[1]
           j == s[2]
           left == <<i, b - 1>>
           right == <<a + 1, j>>
           between == <<a + 1, b - 1>>
<1>1. /\ a \in i..j /\ b \in i..j /\ Depth(ts, i, a) = 0 /\ Depth(ts, i, b) = 0
      /\ i \in Nat /\ j \in Nat
  BY DEF Outermost, Segments
<1>2. /\ left \in Segments(ts) /\ Width(ts)[left] < Width(ts)[s]
      /\ right \in Segments(ts) /\ Width(ts)[right] < Width(ts)[s]
      /\ <<i, a - 1>> \in Segments(ts) /\ <<b + 1, j>> \in Segments(ts)
  BY <1>1, Sides
<1>3. ASSUME NEW op
      PROVE  /\ \A n : n \in Outermost(ts, left, op) <=> n \in Outermost(ts, s, op) /\ n < b
             /\ \A n : n \in Outermost(ts, right, op) <=> n \in Outermost(ts, s, op) /\ n > a
  BY <1>1, OutermostOfSides
<1>4. a \in Outermost(ts, left, Operator(m)) /\ b \in Outermost(ts, right, Operator(m))
  <2> HIDE DEF left, right
  <2> QED BY <1>1, <1>3
<1>5. m = "term" => Outermost(ts, left, "OR") = {} /\ Outermost(ts, right, "OR") = {}
  <2> HIDE DEF left, right
  <2> QED BY <1>3
<1>6. between \in Segments(ts)
  <2>1. b \in right[1]..right[2] /\ <<right[1], b - 1>> = between
    BY <1>1
  <2> HIDE DEF right, between
  <2> QED BY <1>2, <2>1, Sides
<1>7. M[left] = Join(m, M[<<i, a - 1>>], M[between])
  <2>1. left[1] = i /\ <<a + 1, left[2]>> = between
    OBVIOUS
  <2>2. Splits(ts, e, left)
    BY <1>2
  <2> HIDE DEF left, between
  <2> QED BY <1>4, <1>5, <2>1, <2>2 DEF Splits
<1>8. M[right] = Join(m, M[between], M[<<b + 1, j>>])
  <2>1. right[2] = j /\ <<right[1], b - 1>> = between
    OBVIOUS
  <2>2. Splits(ts, e, right)
    BY <1>2
  <2> HIDE DEF right, between
  <2> QED BY <1>4, <1>5, <2>1, <2>2 DEF Splits
<1>9. M[<<i, a - 1>>] \in Meanings /\ M[between] \in Meanings /\ M[<<b + 1, j>>] \in Meanings
  <2> HIDE DEF between
  <2> QED BY <1>2, <1>6, MeaningIs
<1> QED
  <2> DEFINE x == M[<<i, a - 1>>]
             y == M[between]
             z == M[<<b + 1, j>>]
  <2>1. Join(m, x, Join(m, y, z)) = Join(m, Join(m, x, y), z)
    <3>1. x \in Meanings /\ y \in Meanings /\ z \in Meanings
      BY <1>9
    <3> HIDE DEF x, y, z
    <3> QED BY <3>1, JoinTypes
  <2> QED BY <1>7, <1>8, <2>1

LEMMA AnySplit ==
  ASSUME NEW ts \in Seq(Tokens), NEW e \in Totals
  PROVE  \A s \in Segments(ts) : Splits(ts, e, s)
<1> DEFINE M == MeaningOf(ts, e)
           T == {s \in Segments(ts) : ~Splits(ts, e, s)}
<1> SUFFICES ASSUME T # {} PROVE FALSE
  OBVIOUS
<1>1. PICK s \in T : \A x \in Segments(ts) : Width(ts)[x] < Width(ts)[s] => x \notin T
  <2>1. T \in SUBSET Segments(ts)
    OBVIOUS
  <2> HIDE DEF T
  <2> QED BY <2>1, WidthType, Smallest
<1>2. s \in Segments(ts) /\ ~Splits(ts, e, s)
  BY <1>1
<1>3. \A x \in Segments(ts) : Width(ts)[x] < Width(ts)[s] => Splits(ts, e, x)
  BY <1>1
<1>4. ASSUME NEW m \in {"expression", "term"}, NEW k \in Outermost(ts, s, Operator(m)),
             m = "term" => Outermost(ts, s, "OR") = {}
      PROVE  M[s] = Join(m, M[<<s[1], k - 1>>], M[<<k + 1, s[2]>>])
  <2> DEFINE l == CHOOSE l \in Outermost(ts, s, Operator(m)) : TRUE
  <2>1. l \in Outermost(ts, s, Operator(m))
    OBVIOUS
  <2>2. M[s] = Join(m, M[<<s[1], l - 1>>], M[<<l + 1, s[2]>>])
    <3>1. M[s] = MeaningStep(ts, e, M, s)
      BY <1>2, MeaningIs
    <3>2. MeaningStep(ts, e, M, s) = Split(ts, M, s, m)
      <4>1. CASE m = "expression"
        BY <2>1, <4>1 DEF MeaningStep, Operator
      <4>2. CASE m = "term"
        BY <1>4, <2>1, <4>2 DEF MeaningStep, Operator
      <4> QED BY <4>1, <4>2
    <3>3. Split(ts, M, s, m) = Join(m, M[<<s[1], l - 1>>], M[<<l + 1, s[2]>>])
      BY DEF Split
    <3> QED BY <3>1, <3>2, <3>3
  <2>3. l \in Int /\ k \in Int
    BY <2>1, <1>2 DEF Outermost, Segments
  <2>4. CASE l < k
    <3> HIDE DEF l
    <3> QED BY <1>2, <1>3, <1>4, <2>1, <2>2, <2>4, SplitsAgree
  <2>5. CASE k < l
    <3> HIDE DEF l
    <3> QED BY <1>2, <1>3, <1>4, <2>1, <2>2, <2>5, SplitsAgree
  <2>6. CASE k = l
    <3> HIDE DEF l
    <3> QED BY <2>2, <2>6
  <2> QED BY <2>3, <2>4, <2>5, <2>6
<1> QED BY <1>2, <1>4 DEF Splits

\* A segment that means something begins with a comparison or a parenthesis.
Starters == Fields \cup {"("}

LEMMA Starts ==
  ASSUME NEW ts \in Seq(Tokens), NEW e \in Totals
  PROVE  \A s \in Segments(ts) :
            MeaningOf(ts, e)[s] \in Values => s[1] <= s[2] /\ ts[s[1]] \in Starters
<1> DEFINE M == MeaningOf(ts, e)
           T == {s \in Segments(ts) : M[s] \in Values /\ ~(s[1] <= s[2] /\ ts[s[1]] \in Starters)}
<1> SUFFICES ASSUME T # {} PROVE FALSE
  OBVIOUS
<1>1. PICK s \in T : \A x \in Segments(ts) : Width(ts)[x] < Width(ts)[s] => x \notin T
  <2>1. T \in SUBSET Segments(ts)
    OBVIOUS
  <2> HIDE DEF T
  <2> QED BY <2>1, WidthType, Smallest
<1>2. /\ s \in Segments(ts) /\ M[s] \in Values /\ ~(s[1] <= s[2] /\ ts[s[1]] \in Starters)
      /\ M[s] = MeaningStep(ts, e, M, s) /\ s[1] \in Nat /\ s[2] \in Nat
  <2>1. s \in Segments(ts) /\ M[s] \in Values /\ ~(s[1] <= s[2] /\ ts[s[1]] \in Starters)
    BY <1>1
  <2>2. M[s] = MeaningStep(ts, e, M, s)
    BY <2>1, MeaningIs
  <2>3. s[1] \in Nat /\ s[2] \in Nat
    BY <2>1 DEF Segments
  <2> QED BY <2>1, <2>2, <2>3
<1>3. ASSUME NEW m \in {"expression", "term"}, NEW k \in Outermost(ts, s, Operator(m)),
             m = "term" => Outermost(ts, s, "OR") = {}
      PROVE  FALSE
  <2>1. k \in s[1]..s[2]
    BY DEF Outermost
  <2> DEFINE a == <<s[1], k - 1>>
             b == <<k + 1, s[2]>>
  <2>2. a \in Segments(ts) /\ b \in Segments(ts) /\ Width(ts)[a] < Width(ts)[s]
    BY <1>2, <2>1, Sides
  <2>3. M[s] = Join(m, M[a], M[b])
    BY <1>2, <1>3, AnySplit DEF Splits
  <2>4. M[a] \in Meanings /\ M[b] \in Meanings
    <3> HIDE DEF a, b
    <3> QED BY <2>2, MeaningIs
  <2>5. M[a] \in Values
    <3> HIDE DEF a, b, M
    <3> QED BY <1>2, <2>3, <2>4 DEF Join, Meanings, Values
  <2>6. a \notin T
    BY <1>1, <2>2
  <2>7. a[1] = s[1] /\ a[2] = k - 1
    OBVIOUS
  <2>8. s[1] <= k - 1 /\ ts[s[1]] \in Starters
    <3> HIDE DEF a
    <3> QED BY <2>2, <2>5, <2>6, <2>7
  <2> QED BY <1>2, <2>1, <2>8
<1>4. Outermost(ts, s, "OR") = {}
  BY <1>3 DEF Operator
<1>5. Outermost(ts, s, "AND") = {}
  BY <1>3, <1>4 DEF Operator
<1>6. CASE s[1] = s[2] /\ ts[s[1]] \in Fields
  BY <1>2, <1>6 DEF Starters
<1>7. CASE s[1] + 2 <= s[2] /\ ts[s[1]] = "(" /\ ts[s[2]] = ")"
  BY <1>2, <1>7 DEF Starters
<1>8. CASE /\ ~(s[1] = s[2] /\ ts[s[1]] \in Fields)
           /\ ~(s[1] + 2 <= s[2] /\ ts[s[1]] = "(" /\ ts[s[2]] = ")")
  <2>1. MeaningStep(ts, e, M, s) = "malformed"
    BY <1>4, <1>5, <1>8 DEF MeaningStep
  <2> QED BY <1>2, <2>1 DEF Values
<1> QED BY <1>6, <1>7, <1>8

-----------------------------------------------------------------------------
(* The parser and the meaning.  A method that is called where a segment    *)
(* starts, in the precedence it parses, raises, or returns what the        *)
(* segment means and stops behind it, or it stops before a token that can  *)
(* follow no value: Python skipped the right side of "or" or "and", and    *)
(* nothing can get past that token.                                        *)

Completes(known, e) == \A f \in Fields : known[f] # "unknown" => e[f] = known[f]

Level(ts, s, m) == /\ m # "expression" => Outermost(ts, s, "OR") = {}
                   /\ m = "factor" => Outermost(ts, s, "AND") = {}
Follows(ts, s, m) == s[2] < Len(ts) =>
                       /\ m = "expression" => ts[s[2] + 1] # "OR"
                       /\ m # "factor" => ts[s[2] + 1] # "AND"

Raises(r) == r.value \in Raised
Stops(ts, r) == r.value \in Values /\ r.next <= Len(ts) /\ ts[r.next] \in Starters
Means(ts, e, s, r) == r = Result(MeaningOf(ts, e)[s], s[2] + 1)
Right(ts, e, s, r) == Raises(r) \/ Stops(ts, r) \/ Means(ts, e, s, r)

Holds(ts, known, e, s, m) ==
  (MeaningOf(ts, e)[s] \in Values /\ Level(ts, s, m) /\ Follows(ts, s, m))
  => Right(ts, e, s, Parse(ts, known)[Call(m, s[1], "none")])

LEMMA StartersAreNoOperators == \A t \in Starters : t \notin {"AND", "OR", ")"}
  BY ConditionAssumption DEF Starters

\* The loop of a chain is over when no operator follows.
LEMMA LoopEnds ==
  ASSUME NEW ts \in Seq(Tokens), NEW known \in Valuations, NEW m \in {"expression", "term"},
         NEW i \in 1..(Len(ts) + 1), NEW v \in Values, ~Peek(ts, i, Operator(m))
  PROVE  Parse(ts, known)[Call(m, i, v)] = Result(v, i)
<1> DEFINE c == Call(m, i, v)
           p == Parse(ts, known)
<1>1. c \in Calls(ts) /\ c.method = m /\ c.at = i /\ c.result = v
  BY CallTypes DEF Methods
<1>2. p[c] = ParseChain(ts, p, c)
  BY <1>1, ParseIs DEF ParseStep
<1>3. v # "none"
  BY DEF Values
<1> HIDE DEF c, p
<1>4. ParseChain(ts, p, c) = Result(v, i)
  BY <1>1, <1>3 DEF ParseChain
<1> QED BY <1>2, <1>4 DEF c, p

\* At a token that begins a value no operator follows.
LEMMA LoopStops ==
  ASSUME NEW ts \in Seq(Tokens), NEW known \in Valuations, NEW m \in {"expression", "term"},
         NEW i \in 1..Len(ts), NEW v \in Values, ts[i] \in Starters
  PROVE  Stops(ts, Parse(ts, known)[Call(m, i, v)])
<1>1. ~Peek(ts, i, Operator(m))
  BY StartersAreNoOperators DEF Peek, Operator
<1>2. i \in 1..(Len(ts) + 1)
  OBVIOUS
<1>3. Parse(ts, known)[Call(m, i, v)] = Result(v, i)
  BY <1>1, <1>2, LoopEnds
<1> QED BY <1>3 DEF Stops, Result

LEMMA LoopBegins ==
  ASSUME NEW ts \in Seq(Tokens), NEW known \in Valuations, NEW m \in {"expression", "term"},
         NEW i \in 1..(Len(ts) + 1)
  PROVE  Parse(ts, known)[Call(m, i, "none")] = ParseOperand(Parse(ts, known), m, i)
<1> DEFINE c == Call(m, i, "none")
           p == Parse(ts, known)
<1>1. c \in Calls(ts) /\ c.method = m /\ c.at = i /\ c.result = "none"
  BY CallTypes DEF Methods
<1>2. p[c] = ParseChain(ts, p, c)
  BY <1>1, ParseIs DEF ParseStep
<1>3. ParseChain(ts, p, c) = ParseOperand(p, m, i)
  <2> HIDE DEF p, c
  <2> QED BY <1>1 DEF ParseChain
<1> QED BY <1>2, <1>3

\* The loop goes on at an operator: it skips the operand when the result is
\* decided, and takes the operand's result otherwise.
LEMMA LoopGoesOn ==
  ASSUME NEW ts \in Seq(Tokens), NEW known \in Valuations, NEW m \in {"expression", "term"},
         NEW i \in 1..Len(ts), NEW v \in Values, ts[i] = Operator(m)
  PROVE  Parse(ts, known)[Call(m, i, v)]
         = Parse(ts, known)[Call(m, i + 1, IF v = Decides(m) THEN v ELSE "none")]
<1> DEFINE c == Call(m, i, v)
           p == Parse(ts, known)
<1>1. c \in Calls(ts) /\ c.method = m /\ c.at = i /\ c.result = v
  <2>1. i \in 1..(Len(ts) + 1)
    OBVIOUS
  <2> QED BY <2>1, CallTypes DEF Methods
<1>2. p[c] = ParseChain(ts, p, c)
  BY <1>1, ParseIs DEF ParseStep
<1>3. Peek(ts, i, Operator(m)) /\ v # "none" /\ i + 1 \in 1..(Len(ts) + 1)
  BY DEF Peek, Values
<1>4. CASE v = Decides(m)
  <2>1. ParseChain(ts, p, c) = p[Call(m, i + 1, v)]
    <3> HIDE DEF p, c
    <3> QED BY <1>1, <1>3, <1>4 DEF ParseChain
  <2> QED BY <1>2, <1>4, <2>1
<1>5. CASE v # Decides(m)
  <2>1. ParseChain(ts, p, c) = ParseOperand(p, m, i + 1)
    <3> HIDE DEF p, c
    <3> QED BY <1>1, <1>3, <1>5 DEF ParseChain
  <2>2. p[Call(m, i + 1, "none")] = ParseOperand(p, m, i + 1)
    BY <1>3, LoopBegins
  <2> QED BY <1>2, <1>5, <2>1, <2>2
<1> QED BY <1>4, <1>5

\* An operand that is right raises, stops, or leaves the loop behind it.
LEMMA OperandMeans ==
  ASSUME NEW ts \in Seq(Tokens), NEW known \in Valuations, NEW e \in Totals,
         NEW m \in {"expression", "term"}, NEW s \in Segments(ts),
         Right(ts, e, s, Parse(ts, known)[Call(Operand(m), s[1], "none")])
  PROVE  LET t == Parse(ts, known)[Call(m, s[1], "none")]
         IN  \/ Raises(t)
             \/ Stops(ts, t)
             \/ /\ MeaningOf(ts, e)[s] \in Values
                /\ t = Parse(ts, known)[Call(m, s[2] + 1, MeaningOf(ts, e)[s])]
<1> DEFINE p == Parse(ts, known)
           r == p[Call(Operand(m), s[1], "none")]
           t == p[Call(m, s[1], "none")]
           v == MeaningOf(ts, e)[s]
<1>1. /\ s[1] \in 1..(Len(ts) + 1) /\ s[2] \in 0..Len(ts) /\ Len(ts) \in Nat
      /\ m \in Methods /\ Operand(m) \in Methods
  BY DEF Segments, Methods, Operand
<1>2. t = ParseOperand(p, m, s[1])
  BY <1>1, LoopBegins
<1>3. r \in AnyResult /\ r.next \in 1..(Len(ts) + 1)
  <2> DEFINE c == Call(Operand(m), s[1], "none")
  <2>1. c \in Calls(ts)
    BY <1>1, CallTypes
  <2>2. p[c] \in Sound(ts, known, c)
    <3> HIDE DEF c
    <3> QED BY <2>1, ParseIs DEF SoundParses
  <2> QED BY <2>2 DEF Sound
<1>4. CASE Raises(r)
  <2>1. t = r
    BY <1>2, <1>4 DEF ParseOperand, Raises
  <2> QED BY <1>4, <2>1
<1>5. ASSUME ~Raises(r)
      PROVE  r.value \in Values /\ t = p[Call(m, r.next, r.value)]
  <2>1. t = p[Call(m, r.next, r.value)]
    BY <1>2, <1>5 DEF ParseOperand, Raises
  <2>2. r.value \in Values
    <3> HIDE DEF r
    <3> QED BY <1>3, <1>5 DEF AnyResult, Raises
  <2> QED BY <2>1, <2>2
<1>6. CASE ~Raises(r) /\ Stops(ts, r)
  <2>1. r.next \in 1..Len(ts) /\ ts[r.next] \in Starters /\ r.value \in Values
    <3> HIDE DEF r
    <3> QED BY <1>3, <1>6 DEF Stops
  <2>2. Stops(ts, p[Call(m, r.next, r.value)])
    <3> HIDE DEF r
    <3> QED BY <2>1, LoopStops
  <2>3. Stops(ts, t)
    <3> HIDE DEF r, t
    <3> QED BY <1>5, <1>6, <2>2
  <2> QED BY <2>3
<1>7. CASE ~Raises(r) /\ Means(ts, e, s, r)
  <2>1. r.value = v /\ r.next = s[2] + 1
    <3> HIDE DEF r
    <3> QED BY <1>7 DEF Means, Result
  <2>2. v \in Values /\ t = p[Call(m, s[2] + 1, v)]
    <3> HIDE DEF r, v, t
    <3> QED BY <1>5, <1>7, <2>1
  <2> QED BY <2>2
<1>8. Right(ts, e, s, r)
  OBVIOUS
<1> HIDE DEF r
<1> QED BY <1>4, <1>6, <1>7, <1>8 DEF Right

LEMMA FactorMeans ==
  ASSUME NEW ts \in Seq(Tokens), NEW known \in Valuations, NEW e \in Totals, Completes(known, e),
         NEW s \in Segments(ts),
         \A x \in Segments(ts) : Width(ts)[x] < Width(ts)[s] => Holds(ts, known, e, x, "expression")
  PROVE  Holds(ts, known, e, s, "factor")
<1> DEFINE p == Parse(ts, known)
           M == MeaningOf(ts, e)
           i == s[1]
           j == s[2]
           c == Call("factor", i, "none")
           d == Call("expression", i + 1, "none")
           r == p[d]
<1> SUFFICES ASSUME M[s] \in Values, Level(ts, s, "factor") PROVE Right(ts, e, s, p[c])
  BY DEF Holds
<1>1. i \in 1..(Len(ts) + 1) /\ j \in 0..Len(ts) /\ Len(ts) \in Nat
  BY DEF Segments
<1>2. p[c] = ParseFactor(ts, known, p, i)
  <2>1. c \in Calls(ts) /\ c.method = "factor" /\ c.at = i
    <3> HIDE DEF i
    <3> QED BY <1>1, CallTypes DEF Methods
  <2>2. p[c] = ParseStep(ts, known, p, c)
    <3> HIDE DEF c
    <3> QED BY <2>1, ParseIs
  <2> HIDE DEF p, c, i
  <2> QED BY <2>1, <2>2 DEF ParseStep
<1>3. M[s] = MeaningStep(ts, e, M, s)
  BY MeaningIs
<1>4. CASE i = j /\ ts[i] \in Fields
  <2>1. M[s] = e[ts[i]]
    BY <1>3, <1>4 DEF MeaningStep, Level
  <2>2. ~Peek(ts, i, "(")
    BY <1>4, ConditionAssumption DEF Peek
  <2>3. p[c] = Result(known[ts[i]], i + 1)
    <3>1. ParseComparison(ts, i, known) = Result(known[ts[i]], i + 1)
      BY <1>1, <1>4 DEF ParseComparison
    <3> HIDE DEF p, c
    <3> QED BY <1>2, <2>2, <3>1 DEF ParseFactor
  <2>4. CASE known[ts[i]] = "unknown"
    <3>1. Raises(p[c])
      <4> HIDE DEF p, c, i
      <4> QED BY <2>3, <2>4 DEF Raises, Result, Raised
    <3> QED BY <3>1 DEF Right
  <2>5. CASE known[ts[i]] # "unknown"
    <3>1. Means(ts, e, s, p[c])
      <4>1. e[ts[i]] = known[ts[i]]
        BY <1>4, <2>5 DEF Completes
      <4>2. p[c] = Result(M[s], j + 1)
        <5> HIDE DEF p, c, M
        <5> QED BY <1>4, <2>1, <2>3, <4>1
      <4> QED BY <4>2 DEF Means
    <3> QED BY <3>1 DEF Right
  <2> QED BY <2>4, <2>5
<1>5. CASE ~(i = j /\ ts[i] \in Fields) /\ i + 2 <= j /\ ts[i] = "(" /\ ts[j] = ")"
  <2> DEFINE inner == <<i + 1, j - 1>>
  <2>1. inner \in Segments(ts) /\ Width(ts)[inner] < Width(ts)[s]
    BY <1>5, Within
  <2>2. inner[1] = i + 1 /\ inner[2] = j - 1 /\ inner[2] + 1 = j
    BY <1>1
  <2>3. M[inner] = M[s]
    BY <1>3, <1>5 DEF MeaningStep, Level
  <2>4. Level(ts, inner, "expression") /\ Follows(ts, inner, "expression")
    <3> HIDE DEF inner
    <3> QED BY <1>5, <2>2 DEF Level, Follows
  <2>5. Right(ts, e, inner, r)
    <3>1. Holds(ts, known, e, inner, "expression")
      <4> HIDE DEF inner
      <4> QED BY <2>1
    <3>2. MeaningOf(ts, e)[inner] \in Values
      BY <2>3
    <3>3. Right(ts, e, inner, p[Call("expression", inner[1], "none")])
      <4> HIDE DEF inner
      <4> QED BY <2>4, <3>1, <3>2 DEF Holds
    <3> QED BY <3>3, <2>2
  <2>6. Peek(ts, i, "(")
    BY <1>1, <1>5 DEF Peek
  <2>7. r.next \in 1..(Len(ts) + 1)
    <3>1. i + 1 \in 1..(Len(ts) + 1)
      BY <1>1, <1>5
    <3>2. d \in Calls(ts)
      <4> HIDE DEF i
      <4> QED BY <3>1, CallTypes DEF Methods
    <3>3. p[d] \in Sound(ts, known, d)
      <4> HIDE DEF d
      <4> QED BY <3>2, ParseIs DEF SoundParses
    <3> QED BY <3>3 DEF Sound
  <2>8. CASE Raises(r)
    <3>1. p[c] = r
      BY <1>2, <2>6, <2>8 DEF ParseFactor, Raises
    <3>2. Raises(p[c])
      BY <2>8, <3>1
    <3> QED BY <3>2 DEF Right
  <2>9. CASE ~Raises(r) /\ Stops(ts, r)
    <3>1. ~Peek(ts, r.next, ")")
      <4> HIDE DEF r
      <4> QED BY <2>9, StartersAreNoOperators DEF Stops, Peek
    <3>2. p[c] = Unsupported(r.next)
      <4> HIDE DEF p, c, i
      <4> QED BY <1>2, <2>6, <2>9, <3>1 DEF ParseFactor, Raises
    <3>3. Raises(p[c])
      <4> HIDE DEF p, c, r
      <4> QED BY <3>2 DEF Raises, Unsupported, Result, Raised
    <3> QED BY <3>3 DEF Right
  <2>10. CASE ~Raises(r) /\ Means(ts, e, inner, r)
    <3>1. r.value = M[inner] /\ r.next = inner[2] + 1
      <4> HIDE DEF r, inner
      <4> QED BY <2>10 DEF Means, Result
    <3>2. r.value = M[s] /\ r.next = j
      <4> HIDE DEF r, inner
      <4> QED BY <2>2, <2>3, <3>1
    <3>3. Peek(ts, r.next, ")")
      <4> HIDE DEF r
      <4> QED BY <1>1, <1>5, <3>2 DEF Peek
    <3>4. p[c] = Result(M[s], j + 1)
      <4> HIDE DEF p, c, i, M
      <4> QED BY <1>2, <2>6, <2>10, <3>2, <3>3 DEF ParseFactor, Raises
    <3>5. Means(ts, e, s, p[c])
      BY <3>4 DEF Means
    <3> QED BY <3>5 DEF Right
  <2> HIDE DEF r
  <2> QED BY <2>5, <2>8, <2>9, <2>10 DEF Right
<1>6. CASE /\ ~(i = j /\ ts[i] \in Fields)
           /\ ~(i + 2 <= j /\ ts[i] = "(" /\ ts[j] = ")")
  <2>1. M[s] = "malformed"
    BY <1>3, <1>6 DEF MeaningStep, Level
  <2> QED BY <2>1 DEF Values
<1> QED BY <1>4, <1>5, <1>6

\* A segment without an operator of the chain is one operand.
LEMMA OneOperand ==
  ASSUME NEW ts \in Seq(Tokens), NEW known \in Valuations, NEW e \in Totals,
         NEW m \in {"expression", "term"}, NEW s \in Segments(ts),
         Holds(ts, known, e, s, Operand(m)), Outermost(ts, s, Operator(m)) = {}
  PROVE  Holds(ts, known, e, s, m)
<1> DEFINE p == Parse(ts, known)
           M == MeaningOf(ts, e)
           t == p[Call(m, s[1], "none")]
<1> SUFFICES ASSUME M[s] \in Values, Level(ts, s, m), Follows(ts, s, m)
             PROVE  Right(ts, e, s, t)
  BY DEF Holds
<1>1. Level(ts, s, Operand(m)) /\ Follows(ts, s, Operand(m))
  BY DEF Level, Follows, Operand, Operator
<1>2. Right(ts, e, s, p[Call(Operand(m), s[1], "none")])
  BY <1>1 DEF Holds
<1>3. Raises(t) \/ Stops(ts, t) \/ t = p[Call(m, s[2] + 1, M[s])]
  BY <1>2, OperandMeans
<1>4. CASE t = p[Call(m, s[2] + 1, M[s])]
  <2>1. s[2] + 1 \in 1..(Len(ts) + 1) /\ s[2] \in Nat /\ Len(ts) \in Nat
    BY DEF Segments
  <2>2. ~Peek(ts, s[2] + 1, Operator(m))
    BY <2>1 DEF Peek, Follows, Operator
  <2>3. p[Call(m, s[2] + 1, M[s])] = Result(M[s], s[2] + 1)
    <3> DEFINE k == s[2] + 1
               v == M[s]
    <3>1. k \in 1..(Len(ts) + 1) /\ v \in Values /\ ~Peek(ts, k, Operator(m))
      BY <2>1, <2>2
    <3>2. p[Call(m, k, v)] = Result(v, k)
      <4> HIDE DEF k, v
      <4> QED BY <3>1, LoopEnds
    <3> QED BY <3>2
  <2>4. Means(ts, e, s, t)
    <3> HIDE DEF t, p
    <3> QED BY <1>4, <2>3 DEF Means
  <2> QED BY <2>4 DEF Right
<1> QED BY <1>3, <1>4 DEF Right

\* A segment with one is its first operand, and the chain behind it.
LEMMA SeveralOperands ==
  ASSUME NEW ts \in Seq(Tokens), NEW known \in Valuations, NEW e \in Totals,
         NEW m \in {"expression", "term"}, NEW s \in Segments(ts),
         \A x \in Segments(ts) : Width(ts)[x] < Width(ts)[s] =>
            Holds(ts, known, e, x, Operand(m)) /\ Holds(ts, known, e, x, m),
         Outermost(ts, s, Operator(m)) # {}
  PROVE  Holds(ts, known, e, s, m)
<1> DEFINE p == Parse(ts, known)
           M == MeaningOf(ts, e)
           t == p[Call(m, s[1], "none")]
           O == Outermost(ts, s, Operator(m))
<1> SUFFICES ASSUME M[s] \in Values, Level(ts, s, m), Follows(ts, s, m)
             PROVE  Right(ts, e, s, t)
  BY DEF Holds
<1>1. s[1] \in Nat /\ s[2] \in Nat /\ s[2] <= Len(ts) /\ Len(ts) \in Nat /\ s[1] >= 1
  BY DEF Segments
<1>2. PICK k \in O : \A n \in O : k <= n
  <2>1. O \in SUBSET Nat /\ O # {}
    BY <1>1 DEF Outermost
  <2> HIDE DEF O
  <2> QED BY <2>1, Least
<1> DEFINE a == <<s[1], k - 1>>
           b == <<k + 1, s[2]>>
<1>3. k \in s[1]..s[2] /\ Depth(ts, s[1], k) = 0 /\ ts[k] = Operator(m) /\ k \in 1..Len(ts)
  BY <1>1, <1>2 DEF Outermost
<1>4. /\ a \in Segments(ts) /\ Width(ts)[a] < Width(ts)[s]
      /\ b \in Segments(ts) /\ Width(ts)[b] < Width(ts)[s]
  BY <1>3, Sides
<1>5. a[1] = s[1] /\ a[2] = k - 1 /\ a[2] + 1 = k /\ b[1] = k + 1 /\ b[2] = s[2]
  BY <1>3
<1>6. M[s] = Join(m, M[a], M[b])
  <2>1. m = "term" => Outermost(ts, s, "OR") = {}
    BY DEF Level
  <2> QED BY <1>2, <2>1, AnySplit DEF Splits
<1>7. M[a] \in Values /\ M[b] \in Values
  <2>1. M[a] \in Meanings /\ M[b] \in Meanings
    <3> HIDE DEF a, b
    <3> QED BY <1>4, MeaningIs
  <2> HIDE DEF a, b, M
  <2> QED BY <1>6, <2>1 DEF Join, Meanings, Values
<1>8. ASSUME NEW op
      PROVE  /\ \A n : n \in Outermost(ts, a, op) <=> n \in Outermost(ts, s, op) /\ n < k
             /\ \A n : n \in Outermost(ts, b, op) <=> n \in Outermost(ts, s, op) /\ n > k
  BY <1>3, OutermostOfSides
<1>9. Right(ts, e, a, p[Call(Operand(m), a[1], "none")])
  <2>1. Outermost(ts, a, Operator(m)) = {}
    <3>1. \A n \in O : n \in Nat
      BY <1>1 DEF Outermost
    <3> HIDE DEF a
    <3> QED BY <1>2, <1>3, <1>8, <3>1
  <2>2. m = "term" => Outermost(ts, a, "OR") = {}
    <3> HIDE DEF a
    <3> QED BY <1>8 DEF Level
  <2>3. Level(ts, a, Operand(m))
    <3> HIDE DEF a
    <3> QED BY <2>1, <2>2 DEF Level, Operand, Operator
  <2>4. Follows(ts, a, Operand(m))
    <3> HIDE DEF a
    <3> QED BY <1>3, <1>5 DEF Follows, Operand, Operator
  <2> HIDE DEF a
  <2> QED BY <1>4, <1>7, <2>3, <2>4 DEF Holds
<1>10. Raises(t) \/ Stops(ts, t) \/ t = p[Call(m, k, M[a])]
  <2>1. \/ Raises(p[Call(m, a[1], "none")])
        \/ Stops(ts, p[Call(m, a[1], "none")])
        \/ p[Call(m, a[1], "none")] = p[Call(m, a[2] + 1, M[a])]
    <3> HIDE DEF a
    <3> QED BY <1>4, <1>9, OperandMeans
  <2>2. t = p[Call(m, a[1], "none")] /\ Call(m, a[2] + 1, M[a]) = Call(m, k, M[a])
    <3> HIDE DEF p, a
    <3> QED BY <1>5
  <2> HIDE DEF p, a, t
  <2> QED BY <2>1, <2>2
<1>11. CASE t = p[Call(m, k, M[a])] /\ M[a] = Decides(m)
  <2>1. t = p[Call(m, k + 1, M[a])]
    <3> DEFINE v == M[a]
    <3>1. v \in Values
      BY <1>7
    <3>2. p[Call(m, k, v)] = p[Call(m, k + 1, IF v = Decides(m) THEN v ELSE "none")]
      <4> HIDE DEF v
      <4> QED BY <1>3, <3>1, LoopGoesOn
    <3> HIDE DEF p, t
    <3> QED BY <1>11, <3>2
  <2>2. k + 1 \in 1..Len(ts) /\ ts[k + 1] \in Starters
    <3>1. b[1] <= b[2] /\ ts[b[1]] \in Starters
      <4> HIDE DEF b
      <4> QED BY <1>4, <1>7, Starts
    <3> HIDE DEF b
    <3> QED BY <1>1, <1>3, <1>5, <3>1
  <2>3. Stops(ts, p[Call(m, k + 1, M[a])])
    <3> DEFINE v == M[a]
               n == k + 1
    <3>1. v \in Values /\ n \in 1..Len(ts) /\ ts[n] \in Starters
      BY <1>7, <2>2
    <3>2. Stops(ts, p[Call(m, n, v)])
      <4> HIDE DEF v, n
      <4> QED BY <3>1, LoopStops
    <3> QED BY <3>2
  <2>4. Stops(ts, t)
    <3> HIDE DEF p, t, a
    <3> QED BY <2>1, <2>3
  <2> QED BY <2>4 DEF Right
<1>12. CASE t = p[Call(m, k, M[a])] /\ M[a] # Decides(m)
  <2>1. t = p[Call(m, b[1], "none")]
    <3> DEFINE v == M[a]
    <3>1. v \in Values
      BY <1>7
    <3>2. p[Call(m, k, v)] = p[Call(m, k + 1, IF v = Decides(m) THEN v ELSE "none")]
      <4> HIDE DEF v
      <4> QED BY <1>3, <3>1, LoopGoesOn
    <3>3. t = p[Call(m, k + 1, "none")]
      <4> HIDE DEF p, t
      <4> QED BY <1>12, <3>2
    <3> HIDE DEF p, t, b
    <3> QED BY <1>5, <3>3
  <2>2. M[s] = M[b]
    <3> HIDE DEF a, b, M
    <3> QED BY <1>6, <1>7, <1>12 DEF Join, Values, Decides
  <2>3. Level(ts, b, m)
    <3>1. m = "term" => Outermost(ts, b, "OR") = {}
      <4> HIDE DEF b
      <4> QED BY <1>8 DEF Level
    <3> HIDE DEF b
    <3> QED BY <3>1 DEF Level
  <2>4. Follows(ts, b, m)
    <3> HIDE DEF b
    <3> QED BY <1>5 DEF Follows
  <2>5. Right(ts, e, b, p[Call(m, b[1], "none")])
    <3> HIDE DEF b
    <3> QED BY <1>4, <1>7, <2>3, <2>4 DEF Holds
  <2> HIDE DEF b, p, t
  <2> QED BY <1>5, <2>1, <2>2, <2>5 DEF Right, Means
<1> HIDE DEF t, p
<1> QED BY <1>10, <1>11, <1>12 DEF Right

\* Every method, on every segment.
LEMMA ParseMeans ==
  ASSUME NEW ts \in Seq(Tokens), NEW known \in Valuations, NEW e \in Totals, Completes(known, e)
  PROVE  \A s \in Segments(ts) : Holds(ts, known, e, s, "expression")
<1> DEFINE T == {s \in Segments(ts) : \E m \in Methods : ~Holds(ts, known, e, s, m)}
<1> SUFFICES ASSUME T # {} PROVE FALSE
  BY DEF Methods
<1>1. PICK s \in T : \A x \in Segments(ts) : Width(ts)[x] < Width(ts)[s] => x \notin T
  <2>1. T \in SUBSET Segments(ts) /\ T # {} /\ Width(ts) \in [Segments(ts) -> Nat]
    BY WidthType
  <2> HIDE DEF T
  <2> QED BY <2>1, Smallest
<1>2. s \in Segments(ts) /\ \E m \in Methods : ~Holds(ts, known, e, s, m)
  BY <1>1
<1>3. \A x \in Segments(ts) : Width(ts)[x] < Width(ts)[s] =>
         /\ Holds(ts, known, e, x, "expression")
         /\ Holds(ts, known, e, x, "term")
         /\ Holds(ts, known, e, x, "factor")
  BY <1>1 DEF Methods
<1> HIDE DEF T
<1>4. Holds(ts, known, e, s, "factor")
  BY <1>2, <1>3, FactorMeans
<1>5. ASSUME NEW m \in {"expression", "term"}, Holds(ts, known, e, s, Operand(m))
      PROVE  Holds(ts, known, e, s, m)
  <2>1. CASE Outermost(ts, s, Operator(m)) = {}
    BY <1>2, <1>5, <2>1, OneOperand
  <2>2. CASE Outermost(ts, s, Operator(m)) # {}
    <3>1. \A x \in Segments(ts) : Width(ts)[x] < Width(ts)[s] =>
             Holds(ts, known, e, x, Operand(m)) /\ Holds(ts, known, e, x, m)
      BY <1>3 DEF Operand
    <3> QED BY <1>2, <2>2, <3>1, SeveralOperands
  <2> QED BY <2>1, <2>2
<1>6. Holds(ts, known, e, s, "term")
  BY <1>4, <1>5 DEF Operand
<1>7. Holds(ts, known, e, s, "expression")
  BY <1>5, <1>6 DEF Operand
<1> QED BY <1>2, <1>4, <1>6, <1>7 DEF Methods

-----------------------------------------------------------------------------
(* The verdict.                                                            *)

\* A condition of any length that the documented grammar gives a meaning is decided as
\* it means or not at all, whatever the missing values are; "unknown" names a real lack.
LEMMA VerdictOf ==
  ASSUME NEW ts \in Seq(Tokens), NEW known \in Valuations, NEW e \in Totals,
         Completes(known, e), ts # <<>>, Meaning(ts, e) \in Values,
         Evaluate(ts, known) \in {"applicable", "not_applicable"}
  PROVE  Evaluate(ts, known) = IF Meaning(ts, e) = "true" THEN "applicable" ELSE "not_applicable"
<1> DEFINE s == <<1, Len(ts)>>
           r == Parse(ts, known)[Call("expression", 1, "none")]
           v == MeaningOf(ts, e)[s]
<1>1. Len(ts) \in Nat /\ s \in Segments(ts) /\ s[1] = 1 /\ s[2] = Len(ts)
  BY DEF Segments
<1>2. v \in Values /\ v = Meaning(ts, e)
  BY DEF Meaning
<1>3. Right(ts, e, s, r)
  <2>1. Level(ts, s, "expression") /\ Follows(ts, s, "expression")
    <3> HIDE DEF s
    <3> QED BY <1>1 DEF Level, Follows
  <2>2. Holds(ts, known, e, s, "expression")
    <3> HIDE DEF s
    <3> QED BY <1>1, ParseMeans
  <2> HIDE DEF s
  <2> QED BY <1>1, <1>2, <2>1, <2>2 DEF Holds
<1>4. r.value \in Values /\ r.next = Len(ts) + 1
  <2> HIDE DEF r
  <2> QED BY DEF Evaluate, r
<1>5. ~Raises(r) /\ ~Stops(ts, r)
  <2> HIDE DEF r
  <2> QED BY <1>1, <1>4 DEF Raises, Raised, Values, Stops
<1>6. r.value = v
  <2> HIDE DEF r, s
  <2> QED BY <1>3, <1>5 DEF Right, Means, Result
<1>7. Evaluate(ts, known) = IF r.value = "true" THEN "applicable" ELSE "not_applicable"
  BY <1>4 DEF Evaluate, Values
<1> QED BY <1>2, <1>6, <1>7

LEMMA UnknownIsLacking ==
  ASSUME NEW ts \in Seq(Tokens), NEW known \in Valuations, Evaluate(ts, known) = "unknown"
  PROVE  Lacking(ts, known)
<1> DEFINE c == Call("expression", 1, "none")
<1>1. c \in Calls(ts)
  BY CallTypes DEF Methods
<1>2. Parse(ts, known)[c] \in Sound(ts, known, c)
  <2> HIDE DEF c
  <2> QED BY <1>1, ParseIs DEF SoundParses
<1>3. Parse(ts, known)[c].value = "unknown"
  BY DEF Evaluate
<1> HIDE DEF c
<1> QED BY <1>2, <1>3 DEF Sound

Conditions == tokens \in Seq(Tokens) /\ env \in Valuations

\* Spec only ever extends the condition and keeps the values.
THEOREM ConditionsAreTyped == Spec => []Conditions
<1>1. Init => Conditions
  BY DEF Init, Conditions, Valuations
<1>2. Conditions /\ [Extend]_<<tokens, env>> => Conditions'
  BY DEF Conditions, Extend, Valuations
<1> QED BY <1>1, <1>2, PTL DEF Spec

\* No verdict of the evaluator is the wrong one, for conditions of every length.
THEOREM EvaluatorVerdictsAreRight == Spec => []VerdictsAreRight
<1>1. Conditions => VerdictsAreRight
  <2> SUFFICES ASSUME Conditions PROVE VerdictsAreRight
    OBVIOUS
  <2>1. tokens \in Seq(Tokens) /\ env \in Valuations
    BY DEF Conditions
  <2>2. ASSUME tokens # <<>>, Verdict \in {"applicable", "not_applicable"}, NEW e \in Totals,
               \A f \in Fields : env[f] # "unknown" => e[f] = env[f],
               Meaning(tokens, e) \in Values
        PROVE  Verdict = IF Meaning(tokens, e) = "true" THEN "applicable" ELSE "not_applicable"
    <3>1. Completes(env, e)
      BY <2>2 DEF Completes
    <3> QED BY <2>1, <2>2, <3>1, VerdictOf DEF Verdict
  <2>3. ASSUME Verdict = "unknown"
        PROVE  \E f \in Mentioned : env[f] = "unknown"
    <3>1. Lacking(tokens, env)
      BY <2>1, <2>3, UnknownIsLacking DEF Verdict
    <3> QED BY <2>1, <3>1 DEF Lacking, Mentioned
  <2> QED BY <2>2, <2>3 DEF VerdictsAreRight, Totals
<1> QED BY <1>1, ConditionsAreTyped, PTL
=============================================================================
