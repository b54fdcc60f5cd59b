------------------------------ MODULE StateOps ------------------------------
(***************************************************************************)
(* The primitives that compute on the state: state_set, state_compute and  *)
(* set_context (primitive/state_ops.rs) with the context operations        *)
(* (instruction/registry.rs), get_index, object_keys, set_intersection,    *)
(* set_diff and set_union (primitive/compute_ops.rs).                      *)
(*                                                                         *)
(* A parameter is a value, or None where it is not given; an instruction   *)
(* that returns an error leaves the state to its caller as it was.         *)
(* Numbers are integers: floats do not saturate.                           *)
(***************************************************************************)
EXTENDS RefResolve

CONSTANTS
  Initial,      \* the data a state may start with
  Attrs,        \* values of attr
  Operands,     \* values of value
  Operations,   \* values of operation
  Lists,        \* values of ref, list_a and list_b
  Indexes,      \* values of index
  Paths,        \* paths that the properties write along
  Samples,      \* values that the properties resolve and hash
  IntLimit,     \* 2^63 in the code: integers are -IntLimit .. IntLimit - 1
  MaxNesting,   \* bound: how far into the state its integers are looked for
  MaxVersion    \* bound: how many writes a behaviour makes

Words == Seq(DOMAIN Code)
Integers64 == -IntLimit .. IntLimit - 1

\* One of the variants of Value, its parts in U: integers are i64, bytes have
\* two digits each, and objects finitely many keys.
WellFormed(v, U) ==
  \/ v = VNull
  \/ v.type = "bool"  /\ v = VBool(v.b) /\ v.b \in BOOLEAN
  \/ v.type = "int"   /\ v = VInt(v.n) /\ v.n \in Integers64
  \/ v.type = "float" /\ v = VFloat(v.bits) /\ v.bits \in Int
  \/ v.type = "str"   /\ v = VStr(v.text) /\ v.text \in Words
  \/ v.type = "bytes" /\ v = VBytes(v.digits) /\ v.digits \in Words /\ Len(v.digits) % 2 = 0
  \/ v.type = "list"  /\ v = VList(v.items) /\ v.items \in Seq(U)
  \/ /\ v.type = "obj" /\ v = VObj(v.fields)
     /\ v.fields \in [DOMAIN v.fields -> U]
     /\ IsFiniteSet(DOMAIN v.fields) /\ DOMAIN v.fields \subseteq Words

\* v is a Value, whatever is inside it.
Sound(v) == \A w \in Inside(v, MaxNesting) : WellFormed(w, Inside(v, MaxNesting))

\* What the program is given are values, with texts over the known tokens.
ASSUME ValuesAssumption ==
  /\ \A d \in Initial : Sound(VObj(d))
  /\ \A v \in Attrs \cup Samples \cup ((Operands \cup Lists \cup Indexes) \ {None}) : Sound(v)
  /\ Paths \subseteq Words
  /\ {"item", "keys", "intersection", "diff", "union"} \subseteq DOMAIN Code
ASSUME IntLimitAssumption == IntLimit \in Nat /\ IntLimit > 1
ASSUME BoundAssumption == MaxVersion \in Nat /\ MaxNesting \in Nat

VARIABLES
  data,      \* State.data
  version    \* State.version

vars == <<data, version>>

Text(name) == VStr(<<name>>)

-----------------------------------------------------------------------------
(* The context operations, on the old value a and the operand b.           *)

\* `as i64`; a mutant of Saturated, the plain operators of release builds.
Wrapped(n) == ((n + IntLimit) % (2 * IntLimit)) - IntLimit

Saturated(n) ==
  CASE n < -IntLimit    -> -IntLimit
    [] n > IntLimit - 1 -> IntLimit - 1
    [] OTHER            -> n

BothInts(a, b) == a.type = "int" /\ b.type = "int"

OpsAdd(a, b) ==
  CASE BothInts(a, b) -> VInt(Saturated(a.n + b.n))
    [] a.type = "str" /\ b.type = "str" -> VStr(a.text \o b.text)
    [] a.type = "list" /\ b.type = "list" -> VList(a.items \o b.items)
    [] OTHER -> b

OpsSub(a, b) == IF BothInts(a, b) THEN VInt(Saturated(a.n - b.n)) ELSE a

OpsMul(a, b) == IF BothInts(a, b) THEN VInt(Saturated(a.n * b.n)) ELSE b

\* Division of integers rounds towards zero.
Quotient(m, n) ==
  LET Abs(k) == IF k < 0 THEN -k ELSE k
      q == Abs(m) \div Abs(n)
  IN  IF (m < 0) = (n < 0) THEN q ELSE -q

\* By zero, and where the quotient is out of range, the dividend stays.
OpsDiv(a, b) ==
  IF /\ BothInts(a, b)
     /\ b.n # 0
     /\ Quotient(a.n, b.n) < IntLimit
    THEN VInt(Quotient(a.n, b.n))
    ELSE a

\* A Null is not appended; what is no list becomes the first of two elements.
OpsAppend(a, b) ==
  CASE b = VNull -> a
    [] b # VNull /\ a.type = "list" -> VList(Append(a.items, b))
    [] b # VNull /\ a.type # "list" -> VList(<<a, b>>)

\* Every occurrence is removed.
OpsRemove(a, b) ==
  IF a.type = "list" THEN VList(Taken(a.items, {k \in DOMAIN a.items : a.items[k] # b})) ELSE a

\* The length is converted by `as i64`.
OpsLength(b) == VInt(IF b.type = "list" THEN Wrapped(Len(b.items)) ELSE 0)

\* get_context_operation, and the operand itself where there is none.
ContextOp(name, a, b) ==
  CASE name = <<"add">>    -> OpsAdd(a, b)
    [] name = <<"sub">>    -> OpsSub(a, b)
    [] name = <<"mul">>    -> OpsMul(a, b)
    [] name = <<"div">>    -> OpsDiv(a, b)
    [] name = <<"append">> -> OpsAppend(a, b)
    [] name = <<"remove">> -> OpsRemove(a, b)
    [] name = <<"length">> -> OpsLength(b)
    [] OTHER               -> b

ComputeOperations ==
  {<<"add">>, <<"sub">>, <<"mul">>, <<"div">>, <<"append">>, <<"remove">>, <<"length">>}
ValidOperations == (ComputeOperations \ {<<"length">>}) \cup {<<"set">>}

-----------------------------------------------------------------------------
(* Lists of strings, for the operations on sets.                           *)

\* A string parameter is a path, whether or not it starts with a dollar.
PathIn(v) == IF v.text # <<>> /\ Head(v.text) = "$" THEN Tail(v.text) ELSE v.text

IsStr(v) == v.type = "str"

\* extract_string_list: what is no string is passed over.
StringList(given) ==
  LET v == ResolvePath(data, OrElse(given, VNull))
      list == IF IsStr(v) THEN GetPath(data, PathIn(v)) ELSE v
  IN  IF list.type = "list"
        THEN LET strings == Taken(list.items, {k \in DOMAIN list.items : IsStr(list.items[k])})
             IN  [k \in DOMAIN strings |-> strings[k].text]
        ELSE <<>>

\* sort: equal texts keep their order.
Sorted(texts) ==
  LET before == {p \in (DOMAIN texts) \X (DOMAIN texts) :
                   \/ TextLess(texts[p[1]], texts[p[2]])
                   \/ texts[p[1]] = texts[p[2]] /\ p[1] < p[2]}
      at == Arranged(DOMAIN texts, before)
  IN  [i \in DOMAIN at |-> texts[at[i]]]

\* The members of a that occur in the set S, and those that do not.
Common(a, S) == Taken(a, {k \in DOMAIN a : a[k] \in S})
Other(a, S) == Taken(a, {k \in DOMAIN a : a[k] \notin S})

\* Mutant of Intersection: what is kept is taken from both lists.
IntersectionTwice(a, b) == Sorted(Common(b, Range(a)) \o Common(a, Range(b)))

\* What occurs in a and b is taken from b, and from a what does not occur in
\* b, each as often as it stands there; a union has no duplicates.
Intersection(a, b) == Sorted(Common(b, Range(a)))
Difference(a, b) == Sorted(Other(a, Range(b)))
Union(a, b) == LET both == Range(a) \cup Range(b) IN Arranged(both, TextOrder(both))

Texts(texts) == VList([k \in DOMAIN texts |-> VStr(texts[k])])

-----------------------------------------------------------------------------
(* State::set_path at the end of a primitive; it fails on a deep path.     *)
Write(path, v) ==
  /\ version < MaxVersion
  /\ ~TooDeep(path)
  /\ data' = SetPath(data, path, v)
  /\ version' = IF Counted(data, path) THEN version + 1 ELSE version

\* attr must resolve to a string: the primitive fails otherwise.
WriteAttr(attr, v) ==
  LET a == ResolvePath(data, attr) IN IsStr(a) /\ Write(a.text, v)

StateSet ==
  \E attr \in Attrs, value \in Operands :
    WriteAttr(attr, ResolvePath(data, OrElse(value, VNull)))

\* The operation is a name of the list; what is no string is the default.
Operation(given, default, valid) ==
  LET op == OrElse(given, VStr(default))
  IN  IF IsStr(op) THEN {op.text} \cap valid ELSE {default}

\* The old value at attr, combined with the operand.
Combine(attr, name, value) ==
  LET old == OrElse(GetPath(data, ResolvePath(data, attr).text), VNull)
  IN  ContextOp(name, old, ResolvePath(data, OrElse(value, VNull)))

StateCompute ==
  \E attr \in Attrs, op \in Operations, value \in Operands :
    \E name \in Operation(op, <<"add">>, ComputeOperations) :
      /\ IsStr(ResolvePath(data, attr))
      /\ WriteAttr(attr, Combine(attr, name, value))

SetContext ==
  \E attr \in Attrs, op \in Operations, value \in Operands :
    \E name \in Operation(op, <<"set">>, ValidOperations) :
      /\ IsStr(ResolvePath(data, attr))
      /\ WriteAttr(attr, Combine(attr, name, value))

\* An index is an integer or the path of one, and 0 otherwise.
IndexGiven(index) ==
  LET i == ResolvePath(data, OrElse(index, VNull))
      n == IF IsStr(i) THEN GetPath(data, PathIn(i)) ELSE i
  IN  IF n.type = "int" THEN n.n ELSE 0

\* A negative index counts from the end; what it does not reach is Null.
Element(items, i) ==
  LET k == IF i < 0 THEN Len(items) + i ELSE i
  IN  IF k \in 0 .. Len(items) - 1 THEN items[k + 1] ELSE VNull

\* get_index: ref is the path of a list, not the list.
GetIndex ==
  \E ref \in Lists, index \in Indexes :
    LET r == ResolvePath(data, OrElse(ref, VNull))
        list == IF IsStr(r) THEN GetPath(data, PathIn(r)) ELSE None
    IN  Write(<<"item">>,
              IF list.type = "list" THEN Element(list.items, IndexGiven(index)) ELSE VNull)

\* object_keys: ref is the path of an object, or the object itself.
ObjectKeys ==
  \E ref \in Lists :
    LET r == ResolvePath(data, OrElse(ref, VNull))
        object == IF IsStr(r) THEN GetPath(data, PathIn(r)) ELSE r
    IN  Write(<<"keys">>,
              Texts(IF object.type = "obj" THEN SortedKeys(object.fields) ELSE <<>>))

SetOperation ==
  \E a, b \in Lists :
    LET A == StringList(a)
        B == StringList(b)
    IN  \/ Write(<<"intersection">>, Texts(Intersection(A, B)))
        \/ Write(<<"diff">>, Texts(Difference(A, B)))
        \/ Write(<<"union">>, Texts(Union(A, B)))

Init == data \in Initial /\ version = 0

\* The bound on writes is reached.
Ended == version = MaxVersion /\ UNCHANGED vars

Next ==
  \/ StateSet \/ StateCompute \/ SetContext
  \/ GetIndex \/ ObjectKeys \/ SetOperation
  \/ Ended

Spec == Init /\ [][Next]_vars
-----------------------------------------------------------------------------
IntegersIn(v) == {w.n : w \in {u \in Inside(v, MaxNesting) : u.type = "int"}}

(* No counter of a rule program wraps around: whatever is computed from    *)
(* what, over and over, adding what is not negative leads no lower, taking *)
(* it away no higher, products keep their sign, quotients come no further  *)
(* from zero, and every integer of the state is an i64.                    *)
NoWrapAround ==
  /\ IntegersIn(VObj(data)) \subseteq Integers64
  /\ \A m \in IntegersIn(VObj(data)), n \in UNION {IntegersIn(v) : v \in Operands} :
       LET a == VInt(m)
           b == VInt(n)
       IN  /\ (OpsAdd(a, b).n >= m) = (n >= 0 \/ m = -IntLimit)
           /\ (OpsSub(a, b).n <= m) = (n >= 0 \/ m = IntLimit - 1)
           /\ (OpsMul(a, b).n > 0) = ((m > 0 /\ n > 0) \/ (m < 0 /\ n < 0))
           /\ OpsDiv(a, b).n \in (IF m < 0 THEN m .. -m ELSE -m .. m)
           /\ {OpsAdd(a, b).n, OpsSub(a, b).n, OpsMul(a, b).n} \subseteq Integers64

Segments == [path \in Paths |-> SplitPath(path)]

(* A value written along a path is read back there, and reads along other  *)
(* paths do not notice; except that a list filled up on the way shows Null *)
(* where there was nothing.  This is what set_path (state.rs) promises for *)
(* paths that name a place of the state, from every state and for every    *)
(* place, through objects, lists and elements that do not exist yet.       *)
WritesReadBack ==
  \A path \in Paths, v \in {VNull, VInt(1)} :
    LET after == SetPath(data, path, v)
    IN  IsPlace(data, Segments[path]) =>
          /\ ReadsBack(data, after, path, v)
          /\ \A other \in Paths : Frame(data, after, Segments[path], Segments[other])

(* The version is what tells execute_until_stable of the layer above that  *)
(* something changed: no change of the data goes without it.               *)
VersionTellsChange ==
  [][data' # data => version' = version + 1]_vars

StringLists == {StringList(v) : v \in Lists}

Occurrences(list, x) == Cardinality({k \in DOMAIN list : list[k] = x})

(* The operations on lists as sets: sorted results with the right members  *)
(* whatever the order and the repetitions of the operands; and what is     *)
(* left of a after set_diff and what set_intersection keeps of it are the  *)
(* whole of a, each string as often as it stands there.                    *)
SetLaws ==
  \A a, b \in StringLists :
    LET meet == Intersection(b, a)
        rest == Difference(a, b)
    IN  /\ Range(meet) = Range(a) \cap Range(b)
        /\ Range(rest) = Range(a) \ Range(b)
        /\ Union(a, b) = Union(b, a) /\ IsInjective(Union(a, b))
        /\ \A list \in {meet, rest, Union(a, b)} :
             \A k \in 1 .. Len(list) - 1 : ~TextLess(list[k + 1], list[k])
        /\ \A x \in Range(a) :
             Occurrences(meet, x) + Occurrences(rest, x) = Occurrences(a, x)

(* Dispatch hands the primitives of its table no reference that is still   *)
(* to be followed: chains are followed to their end, a cycle ends in Null. *)
(* The limit on the depth makes no difference where no way through chains  *)
(* and nesting is longer.                                                  *)
RefsResolved ==
  \A v \in Samples :
    LET r == ResolveRefs(data, v)
    IN  /\ PassFree(data, v) => ~Live(r, MaxRefDepth + 1)
        /\ WithinLimit(data, v) => r = ResolveUpTo(data, v, 2 * MaxRefDepth)

\* Hashes of lists of values that do not change.
SampleHashes ==
  [list \in {<<>>} \cup {<<v>> : v \in Samples} \cup {<<v, VNull>> : v \in Samples} |->
     ContentHash(list)]

(* The hash of a state tells it from every other: values that content_hash *)
(* does not tell apart differ at most below MAX_HASH_DEPTH.  The same for  *)
(* lists of values, although content_hash joins them without a count.      *)
HashTellsApart ==
  \A list \in {<<VObj(data)>>} \cup {<<VObj(data), v>> : v \in Samples} :
    LET hash == ContentHash(list)
    IN  \A other \in DOMAIN SampleHashes :
          hash = SampleHashes[other] => CutAll(list) = CutAll(other)
=============================================================================
