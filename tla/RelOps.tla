------------------------------- MODULE RelOps -------------------------------
(***************************************************************************)
(* Values as domains compare them (value.rs) and the relational operators  *)
(* of an atomic domain (RelOp in domain.rs).                               *)
(*                                                                         *)
(* A value is a record with the name of its variant in `type`.  A string   *)
(* is its rank in the order of strings.  A number is an integer: integers  *)
(* that an f64 cannot represent are what makes comparison hard, fractions  *)
(* order like any other number.  Objects and bytes, compared by structure  *)
(* alone, behave as "null" and "bool" do here.                             *)
(***************************************************************************)
EXTENDS Integers, Sequences

CONSTANT
  ExactLimit      \* 2^53 in the code: integers up to here are exact in f64

ASSUME ExactAssumption == ExactLimit \in Nat /\ ExactLimit % 4 = 0

VNull == [type |-> "null"]
VBool(b) == [type |-> "bool", b |-> b]
VInt(n) == [type |-> "int", n |-> n]
VFloat(n) == [type |-> "float", n |-> n]
VStr(rank) == [type |-> "str", s |-> rank]
VList(items) == [type |-> "list", items |-> items]

\* `i as f64` for |n| up to 2 * ExactLimit: beyond the limit only even numbers
\* are representable and an odd one goes to the neighbour with an even mantissa.
AsF64(n) ==
  IF n \in (-ExactLimit) .. ExactLimit \/ n % 2 = 0
    THEN n
    ELSE IF (n - 1) % 4 = 0 THEN n - 1 ELSE n + 1

IsNumber(v) == v.type \in {"int", "float"}
AsNumber(v) == IF v.type = "int" THEN AsF64(v.n) ELSE v.n

Number(v) == v \in [type : {"int", "float"}, n : Int]

\* Integers are equal exactly, an integer and a float after conversion, all
\* else by structure.
LooselyEquals(a, b) ==
  IF IsNumber(a) /\ IsNumber(b) /\ a.type # b.type
    THEN AsNumber(a) = AsNumber(b)
    ELSE a = b

-----------------------------------------------------------------------------
(* compare_values: numbers as f64, strings by rank, anything else not.     *)

Less(a, b) ==
  \/ IsNumber(a) /\ IsNumber(b) /\ AsNumber(a) < AsNumber(b)
  \/ a.type = "str" /\ b.type = "str" /\ a.s < b.s

\* Mutant of Same: equality is that of eq, exact on integers.
SameExactly(a, b) ==
  \/ IsNumber(a) /\ IsNumber(b) /\ LooselyEquals(a, b)
  \/ a.type = "str" /\ b.type = "str" /\ a.s = b.s

Same(a, b) ==
  \/ IsNumber(a) /\ IsNumber(b) /\ AsNumber(a) = AsNumber(b)
  \/ a.type = "str" /\ b.type = "str" /\ a.s = b.s

Greater(a, b) == Less(b, a)

HasItem(list, v) ==
  list.type = "list" /\ \E k \in DOMAIN list.items : LooselyEquals(list.items[k], v)

\* value_between: a list of two numbers at least, of which the first two count.
Between(actual, range) ==
  /\ range.type = "list"
  /\ Len(range.items) >= 2
  /\ IsNumber(range.items[1]) /\ IsNumber(range.items[2]) /\ IsNumber(actual)
  /\ AsNumber(range.items[1]) <= AsNumber(actual)
  /\ AsNumber(actual) <= AsNumber(range.items[2])

Ops == {"eq", "ne", "gt", "ge", "lt", "le", "contains", "not_contains", "in",
        "not_in", "between", "not_between", "exists", "not_exists"}

\* RelOp::apply, for an attribute that is there.
Apply(op, actual, expected) ==
  CASE op = "eq"           -> LooselyEquals(actual, expected)
    [] op = "ne"           -> ~LooselyEquals(actual, expected)
    [] op = "gt"           -> Greater(actual, expected)
    [] op = "ge"           -> Greater(actual, expected) \/ Same(actual, expected)
    [] op = "lt"           -> Less(actual, expected)
    [] op = "le"           -> Less(actual, expected) \/ Same(actual, expected)
    [] op = "contains"     -> HasItem(actual, expected)
    [] op = "not_contains" -> ~HasItem(actual, expected)
    [] op = "in"           -> HasItem(expected, actual)
    [] op = "not_in"       -> ~HasItem(expected, actual)
    [] op = "between"      -> Between(actual, expected)
    [] op = "not_between"  -> ~Between(actual, expected)
    [] OTHER               -> FALSE

-----------------------------------------------------------------------------
(* What rules may rely on.                                                 *)

\* A number whose value f64 represents.
Exact(v) == v.n \in (-ExactLimit) .. ExactLimit

\* The operators applied to numbers agree with each other, although eq compares
\* integers exactly and the others as f64: a is either less than b or at least
\* b, either greater or at most b, and not both less and greater; eq implies ge
\* and le; between is ge and le; and where f64 is exact, ge and le imply eq.
NumbersAgree(a, b, c) ==
  /\ Apply("lt", a, b) <=> ~Apply("ge", a, b)
  /\ Apply("gt", a, b) <=> ~Apply("le", a, b)
  /\ ~(Apply("lt", a, b) /\ Apply("gt", a, b))
  /\ Apply("eq", a, b) => Apply("ge", a, b) /\ Apply("le", a, b)
  /\ Apply("between", a, VList(<<b, c>>)) <=> Apply("ge", a, b) /\ Apply("le", a, c)
  /\ Exact(a) /\ Exact(b) /\ Apply("ge", a, b) /\ Apply("le", a, b) => Apply("eq", a, b)

=============================================================================
