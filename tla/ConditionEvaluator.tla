------------------------- MODULE ConditionEvaluator -------------------------
(***************************************************************************)
(* The recursive-descent evaluator of methodology row conditions           *)
(* (condition_evaluator.py).  A condition is a sequence of tokens; a whole *)
(* comparison (FIELD = value, FIELD IN (...)) is one token, named by its   *)
(* field, and Bad is a field that is not followed by = or IN.  What a      *)
(* comparison yields is given by env: true, false, or unknown when the     *)
(* runtime value is missing.                                               *)
(*                                                                         *)
(* Parsing and evaluating happen in one pass, so what a method returns is  *)
(* a value and the index of the next token; a raised exception is a value  *)
(* too and stops the pass.  The methods call each other: together they are *)
(* one recursive function from calls to results.  The state machine only   *)
(* enumerates conditions up to MaxTokens.                                  *)
(***************************************************************************)
EXTENDS Integers, Sequences, FiniteSets

CONSTANTS Fields, Bad, MaxTokens

ASSUME ConditionAssumption ==
    /\ MaxTokens \in Nat
    /\ Bad \notin Fields
    /\ {"AND", "OR", "(", ")"} \cap (Fields \cup {Bad}) = {}

VARIABLES tokens, env

Tokens == {"AND", "OR", "(", ")", Bad} \cup Fields
Values == {"true", "false"}
Raised == {"unknown", "unsupported"}

-----------------------------------------------------------------------------
Peek(ts, i, kind) == i <= Len(ts) /\ ts[i] = kind

Result(value, i) == [value |-> value, next |-> i]
Unsupported(i) == Result("unsupported", i)

ParseComparison(ts, i, e) ==
    IF i <= Len(ts) /\ ts[i] \in Fields THEN Result(e[ts[i]], i + 1) ELSE Unsupported(i)

\* A call of a method of the parser: where it starts, and the result that its
\* while loop has so far ("none" before the first operand).
Call(method, i, result) == [method |-> method, at |-> i, result |-> result]
Methods == {"expression", "term", "factor"}
Calls(ts) == [method : Methods, at : 1..(Len(ts) + 1), result : Values \cup {"none"}]

\* parse_expression chains terms by OR, parse_term chains factors by AND.
Operand(method) == IF method = "expression" THEN "term" ELSE "factor"
Operator(method) == IF method = "expression" THEN "OR" ELSE "AND"

\* Variant: result = self.parse_term(), without "result or".
NothingDecides(method) == "none"

\* Python does not evaluate the right side of "result or .." when result is
\* true, nor that of "result and .." when it is false.
Decides(method) == IF method = "expression" THEN "true" ELSE "false"

\* The operand at i, and on with the loop.
ParseOperand(parse, method, i) ==
    LET r == parse[Call(Operand(method), i, "none")]
    IN  IF r.value \in Raised THEN r ELSE parse[Call(method, r.next, r.value)]

\* while OR: consume it; result = result or self.parse_term().
ParseChain(ts, parse, c) ==
    IF c.result = "none" THEN ParseOperand(parse, c.method, c.at)
    ELSE IF ~Peek(ts, c.at, Operator(c.method)) THEN Result(c.result, c.at)
    ELSE IF c.result = Decides(c.method)
    THEN parse[Call(c.method, c.at + 1, c.result)]
    ELSE ParseOperand(parse, c.method, c.at + 1)

ParseFactor(ts, e, parse, i) ==
    LET r == parse[Call("expression", i + 1, "none")]
    IN  IF ~Peek(ts, i, "(") THEN ParseComparison(ts, i, e)
        ELSE IF r.value \in Raised THEN r
        ELSE IF Peek(ts, r.next, ")") THEN Result(r.value, r.next + 1)
        ELSE Unsupported(r.next)

ParseStep(ts, e, parse, c) ==
    IF c.method = "factor" THEN ParseFactor(ts, e, parse, c.at) ELSE ParseChain(ts, parse, c)

Parse(ts, e) == LET parse[c \in Calls(ts)] == ParseStep(ts, e, parse, c) IN parse

Evaluate(ts, e) ==
    LET r == Parse(ts, e)[Call("expression", 1, "none")]
    IN  IF ts = <<>> THEN "applicable"
        ELSE IF r.value = "unknown" THEN "unknown"
        ELSE IF r.value \notin Values \/ r.next # Len(ts) + 1 THEN "unsupported_condition"
        ELSE IF r.value = "true" THEN "applicable" ELSE "not_applicable"

-----------------------------------------------------------------------------
(* What the documented grammar means, by splitting a condition at its      *)
(* outermost operators.  A segment of a condition is given by its first    *)
(* and its last token; it is empty when they are in the wrong order.       *)

Segments(ts) == (1..(Len(ts) + 1)) \X (0..Len(ts))

Depth(ts, i, k) == Cardinality({j \in i..k : ts[j] = "("})
                 - Cardinality({j \in i..k : ts[j] = ")"})

Outermost(ts, s, op) == {k \in s[1]..s[2] : ts[k] = op /\ Depth(ts, s[1], k) = 0}

Join(method, a, b) ==
    IF "malformed" \in {a, b} THEN "malformed"
    ELSE IF method = "expression" THEN (IF "true" \in {a, b} THEN "true" ELSE "false")
    ELSE (IF "false" \in {a, b} THEN "false" ELSE "true")

Split(ts, means, s, method) ==
    LET k == CHOOSE k \in Outermost(ts, s, Operator(method)) : TRUE
    IN  Join(method, means[<<s[1], k - 1>>], means[<<k + 1, s[2]>>])

MeaningStep(ts, e, means, s) ==
    IF Outermost(ts, s, "OR") # {} THEN Split(ts, means, s, "expression")
    ELSE IF Outermost(ts, s, "AND") # {} THEN Split(ts, means, s, "term")
    ELSE IF s[1] = s[2] /\ ts[s[1]] \in Fields THEN e[ts[s[1]]]
    ELSE IF s[1] + 2 <= s[2] /\ ts[s[1]] = "(" /\ ts[s[2]] = ")"
    THEN means[<<s[1] + 1, s[2] - 1>>]
    ELSE "malformed"

MeaningOf(ts, e) == LET means[s \in Segments(ts)] == MeaningStep(ts, e, means, s) IN means
Meaning(ts, e) == MeaningOf(ts, e)[<<1, Len(ts)>>]

-----------------------------------------------------------------------------
(* Every condition of at most MaxTokens tokens, under every valuation.     *)

Init == /\ tokens = <<>>
        /\ env \in [Fields -> Values \cup {"unknown"}]

Extend == /\ Len(tokens) < MaxTokens
          /\ \E t \in Tokens : tokens' = Append(tokens, t)
          /\ UNCHANGED env

Spec == Init /\ [][Extend]_<<tokens, env>>

-----------------------------------------------------------------------------
(* Properties.                                                             *)

AllKnown == \A f \in Fields : env[f] # "unknown"
Mentioned == {tokens[i] : i \in DOMAIN tokens} \cap Fields
Verdict == Evaluate(tokens, env)

\* A verdict is never the wrong one: a condition of the documented grammar that
\* is decided is decided as the grammar means it -- AND binds tighter than OR,
\* parentheses override -- whatever the values are that the runtime lacks; and
\* "unknown" is only ever due to a mentioned field without one.
VerdictsAreRight ==
    /\ (tokens # <<>> /\ Verdict \in {"applicable", "not_applicable"}) =>
          \A e \in [Fields -> Values] :
              ((\A f \in Fields : env[f] # "unknown" => e[f] = env[f])
                  /\ Meaning(tokens, e) \in Values)
              => Verdict = (IF Meaning(tokens, e) = "true" THEN "applicable"
                            ELSE "not_applicable")
    /\ Verdict = "unknown" => \E f \in Mentioned : env[f] = "unknown"

\* docs/condition_evaluator.md, "Supported Syntax": a condition of the grammar
\* whose fields all have values evaluates to applicable or not_applicable.
SupportedConditionsAreDecided ==
    (AllKnown /\ tokens # <<>> /\ Meaning(tokens, env) \in Values)
    => Verdict \in {"applicable", "not_applicable"}
=============================================================================
