----------------------------- MODULE MCLocalRules -----------------------------
(* Two versions of a rule for a sensor and a rule for a door.  What a package *)
(* does on an event follows from its entity and its condition.               *)
EXTENDS LocalRules

CONSTANTS first, second, other, e1, e2, sensor, door

MCPackage == {first, second, other}
MCRuleOf  == [p \in MCPackage |-> IF p = other THEN other ELSE first]

\* Texts, as sequences of characters.
MCOn   == <<15, 14>>
MCOff  == <<15, 6, 6>>
Warm   == <<2, 5>>
Ajar   == <<1, 10>>
MCFloat == [t \in {Warm} |-> 25]

C == INSTANCE RuleCondition WITH
       On <- MCOn, Off <- MCOff, Float <- MCFloat, Denied <- {"event.raw"}

Var(path)     == [op |-> "var", path |-> path]
Literal(v)    == [op |-> "literal", value |-> v]
Both(x, y)    == [op |-> "and", args |-> <<x, y>>]
Either(x, y)  == [op |-> "or", args |-> <<x, y>>]
Not(x)        == [op |-> "not", arg |-> x]
Is(op, x, y)  == [op |-> op, left |-> x, right |-> y]
Present(path) == [op |-> "exists", path |-> path]

MCEntityOf == [x \in MCPackage \cup {e1, e2} |-> IF x \in {other, e2} THEN door ELSE sensor]
StateOf    == [e \in {e1, e2} |-> IF e = e1 THEN Warm ELSE Ajar]
Context(e) == [path \in {"event.value"} |-> C!CanonicalStateValue(StateOf[e])]

WarmerThan(n) == Is("gt", Var("event.value"), Literal(C!Num(n)))

\* The rule of the door compares a text with a number, which is an error.
ConditionOf ==
  [p \in MCPackage |->
     IF p = second THEN Either(Not(Present("event.value")), WarmerThan(10)) ELSE WarmerThan(20)]

Bound == {k \in MCPackage \X Event : MCEntityOf[k[1]] = MCEntityOf[k[2]]}
With(result) == {k \in Bound : C!Result(ConditionOf[k[1]], Context(k[2])) = result}
Hits   == With("hit")
Errors == With("error")

MCOutcome ==
  [k \in MCPackage \X Event |->
     CASE k \in Hits -> "hit"
       [] k \in Errors -> "error"
       [] k \in Bound \ (Hits \cup Errors) -> "skipped"
       [] OTHER -> "unbound"]

MCRefused == {<<first, e1>>}

-----------------------------------------------------------------------------
(* Laws of conditions, for all that are built from these.                  *)

Values == {C!Bool(TRUE), C!Bool(FALSE), C!Num(0), C!Num(1), C!Text(Warm), C!Text(Ajar),
           C!Text(<<2>>), C!List(<<C!Num(1)>>)}

Leaves ==
  {Literal(v) : v \in Values}
    \cup {Var(path) : path \in {"event.value", "event.raw", "event.absent"}}
    \cup {Present(path) : path \in {"event.value", "event.raw", "event.absent"}}

Conditions == Leaves \cup {Not(x) : x \in Leaves}

Truth(x) == C!Result(x, Context(e1))

\* _eval, and and or: a part without a truth value leaves the whole without one,
\* whatever comes before it, the test for its presence included; otherwise the
\* laws of logic hold, De Morgan's among them.  The empty condition holds, but is
\* no truth value inside another.
ASSUME ConnectivesAreStrict ==
  /\ Truth(C!Always) = "hit" /\ Truth(Not(C!Always)) = "error"
  /\ \A x, y \in Conditions :
       /\ (Truth(Both(x, y)) = "error") = ("error" \in {Truth(x), Truth(y)})
       /\ (Truth(Both(x, y)) = "hit") = ({Truth(x), Truth(y)} = {"hit"})
       /\ (Truth(Either(x, y)) = "skipped") = ({Truth(x), Truth(y)} = {"skipped"})
       /\ Truth(Not(Both(x, y))) = Truth(Either(Not(x), Not(y)))

\* _compare: equality is an equivalence that ignores whether 1 is a number or
\* True, the order is a strict one of each type, and the operators agree.
ASSUME ComparisonsAgree ==
  \A v, w \in Values :
    LET Holds(op, l, r) == Truth(Is(op, Literal(l), Literal(r)))
    IN  /\ Holds("eq", v, w) = Holds("eq", w, v) /\ Holds("eq", v, v) = "hit"
        /\ Holds("ne", v, w) # Holds("eq", v, w)
        /\ Holds("gt", v, w) = Holds("lt", w, v) /\ Holds("gte", v, w) = Holds("lte", w, v)
        /\ Holds("gt", v, w) = "error" \/ Holds("gt", v, w) # Holds("lte", v, w)
        /\ \A u \in Values :
             Holds("eq", u, v) = "hit" /\ Holds("eq", v, w) = "hit" => Holds("eq", u, w) = "hit"
        /\ \A u \in Values :
             Holds("lt", u, v) = "hit" /\ Holds("lt", v, w) = "hit" => Holds("lt", u, w) = "hit"

=============================================================================
