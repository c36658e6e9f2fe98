---------------------------- MODULE RuleCondition ----------------------------
(***************************************************************************)
(* The condition of a rule: what _eval of rule_runtime.py makes of it for  *)
(* the state an event brings.  A value carries its type, as a Python value *)
(* does; numbers are integers, texts are sequences of characters, and an   *)
(* exception is a value of type "error".  Every operator is strict: there  *)
(* is no short circuit.                                                    *)
(***************************************************************************)
EXTENDS Integers, Sequences, FiniteSetsExt

CONSTANTS
  On, Off,  \* the texts "on" and "off"
  Float,    \* what float() makes of the texts that are numerals
  Denied    \* paths with a segment of DENIED_SEGMENTS, under a root that is allowed

Bool(b)    == [type |-> "bool", of |-> IF b THEN 1 ELSE 0]
Num(n)     == [type |-> "num", of |-> n]
Text(t)    == [type |-> "text", of |-> t]
List(vs)   == [type |-> "list", of |-> vs]
Error(why) == [type |-> "error", of |-> why]

\* The text of a Home Assistant state as a value.
CanonicalStateValue(t) ==
  CASE t = On -> Bool(TRUE)
    [] t = Off -> Bool(FALSE)
    [] t \in DOMAIN Float -> Num(Float[t])
    [] OTHER -> Text(t)

\* A path that is denied, present, or anything else.
Resolve(path, context) ==
  CASE path \in Denied -> Error("raw_payload_access_denied")
    [] path \in DOMAIN context \ Denied -> context[path]
    [] OTHER -> Error("missing_field")

Exists(value) ==
  IF value = Error("raw_payload_access_denied") THEN value
  ELSE Bool(value.type # "error")

\* and, or: all arguments are evaluated, then all must be boolean.
Connect(op, values) ==
  LET failed == {i \in DOMAIN values : values[i].type = "error"}
      true   == {i \in DOMAIN values : values[i].of = 1}
  IN  CASE values = <<>> -> Error("invalid_condition")
        [] failed # {} -> values[Min(failed)]
        [] failed = {} /\ \E i \in DOMAIN values : values[i].type # "bool" -> Error("type_mismatch")
        [] OTHER -> Bool(IF op = "and" THEN true = DOMAIN values ELSE true # {})

Negate(value) ==
  CASE value.type = "error" -> value
    [] value.type = "bool" -> Bool(value.of = 0)
    [] OTHER -> Error("type_mismatch")

\* == of Python: a boolean is a number.
RECURSIVE Equal(_, _)
Equal(l, r) ==
  \/ {l.type, r.type} \subseteq {"bool", "num"} /\ l.of = r.of
  \/ l.type = "text" /\ r.type = "text" /\ l.of = r.of
  \/ /\ l.type = "list" /\ r.type = "list" /\ Len(l.of) = Len(r.of)
     /\ \A i \in DOMAIN l.of : Equal(l.of[i], r.of[i])

Within(part, whole) ==
  \E i \in 0..(Len(whole) - Len(part)) : SubSeq(whole, i + 1, i + Len(part)) = part

Before(s, t) ==
  \E i \in 0..Len(s) :
    /\ i < Len(t) /\ SubSeq(s, 1, i) = SubSeq(t, 1, i)
    /\ i = Len(s) \/ s[i + 1] < t[i + 1]

Less(l, r) == IF l.type = "num" THEN l.of < r.of ELSE Before(l.of, r.of)

Contains(l, r) ==
  CASE l.type = "text" /\ r.type = "text" -> Bool(Within(r.of, l.of))
    [] l.type = "list" -> Bool(\E i \in DOMAIN l.of : Equal(l.of[i], r))
    [] OTHER -> Error("type_mismatch")

\* _compare: any two values are equal or not; only numbers, and only texts, have
\* an order, and a boolean has none.
Compare(op, l, r) ==
  IF l.type = "error" THEN l ELSE IF r.type = "error" THEN r
  ELSE CASE op = "eq" -> Bool(Equal(l, r))
         [] op = "ne" -> Bool(~Equal(l, r))
         [] op = "contains" -> Contains(l, r)
         [] OTHER ->
              IF l.type # r.type \/ l.type \notin {"num", "text"} THEN Error("type_mismatch")
              ELSE Bool(CASE op = "gt"  -> Less(r, l)
                          [] op = "gte" -> ~Less(l, r)
                          [] op = "lt"  -> Less(l, r)
                          [] op = "lte" -> ~Less(r, l))

RECURSIVE Eval(_, _)
Eval(node, context) ==
  CASE node.op = "literal" -> node.value
    [] node.op = "var" -> Resolve(node.path, context)
    [] node.op = "exists" -> Exists(Resolve(node.path, context))
    [] node.op \in {"and", "or"} ->
         Connect(node.op, [i \in DOMAIN node.args |-> Eval(node.args[i], context)])
    [] node.op = "not" -> Negate(Eval(node.arg, context))
    [] node.op \in {"eq", "ne", "gt", "gte", "lt", "lte", "contains"} ->
         Compare(node.op, Eval(node.left, context), Eval(node.right, context))
    [] OTHER -> Error("invalid_operator")

\* A rule without a condition; inside a condition it is not one.
Always == [op |-> "always"]

\* evaluate_condition and what _execute makes of it.
Result(condition, context) ==
  LET value == IF condition = Always THEN Bool(TRUE) ELSE Eval(condition, context)
  IN  CASE value = Bool(TRUE) -> "hit" [] value = Bool(FALSE) -> "skipped" [] OTHER -> "error"

=============================================================================
