------------------------------- MODULE Values -------------------------------
(***************************************************************************)
(* Value (value.rs): the values a state is made of, and the bytes that     *)
(* content_hash (deterministic.rs) feeds to SHA-256 for them.              *)
(*                                                                         *)
(* A text is a sequence of tokens: names, digits and the characters the    *)
(* code looks at.  A number that the encoding writes with a fixed width is *)
(* one byte here; SHA-256 is the identity, as it tells its inputs apart.   *)
(***************************************************************************)
EXTENDS Integers, Sequences, FiniteSets, SequencesExt, Functions

CONSTANTS
  Code,          \* tokens to numbers: the order of texts, and their bytes
  MaxHashDepth   \* MAX_HASH_DEPTH, 128 in the code

ASSUME CodeAssumption == IsInjective(Code) /\ \A t \in DOMAIN Code : Code[t] \in Nat
ASSUME DepthAssumption == MaxHashDepth \in Nat

VNull == [type |-> "null"]
VBool(b) == [type |-> "bool", b |-> b]
VInt(n) == [type |-> "int", n |-> n]
VFloat(bits) == [type |-> "float", bits |-> bits]
VStr(text) == [type |-> "str", text |-> text]
VList(items) == [type |-> "list", items |-> items]
VObj(fields) == [type |-> "obj", fields |-> fields]
VBytes(digits) == [type |-> "bytes", digits |-> digits]

\* None: what get and get_path return when there is nothing.
None == [type |-> "none"]

NoFields == [k \in {} |-> VNull]
Put(fields, key, v) == [k \in DOMAIN fields \cup {key} |-> IF k = key THEN v ELSE fields[k]]
Field(fields, key) == IF key \in DOMAIN fields THEN fields[key] ELSE None

\* Value::get: a field of an object, and nothing for any other value.
FieldOf(v, key) == IF v.type = "obj" THEN Field(v.fields, key) ELSE None
OrElse(v, default) == IF v = None THEN default ELSE v

-----------------------------------------------------------------------------
(* Values inside values, layer by layer: recursion over values that ends   *)
(* at a depth, as functions of the depth.                                  *)

PartsOf(v) ==
  CASE v.type = "list" -> Range(v.items)
    [] v.type = "obj"  -> Range(v.fields)
    [] OTHER           -> {}

\* Everything that stands n levels inside v, for n up to `depth`.
Layers(v, depth) ==
  LET At[n \in 0 .. depth] == IF n = 0 THEN {v} ELSE UNION {PartsOf(w) : w \in At[n - 1]}
  IN  At

\* Everything v is made of, v included, down to that depth.
Inside(v, depth) == UNION {Layers(v, depth)[n] : n \in 0 .. depth}

\* The value that Op gives, from the bottom layer up, to each member of a
\* layer n, given those of layer n + 1; nothing is below the last layer.
BottomUp(layers, depth, Op(_, _, _)) ==
  LET Of[n \in 0 .. depth] ==
        LET below == IF n = depth THEN <<>> ELSE Of[n + 1]
        IN  [w \in layers[n] |-> Op(w, n, below)]
  IN  Of[0]

\* A list or an object with other parts, found under the old ones.
Rebuilt(v, parts) ==
  CASE v.type = "list" -> VList([k \in DOMAIN v.items |-> parts[v.items[k]]])
    [] v.type = "obj"  -> VObj([k \in DOMAIN v.fields |-> parts[v.fields[k]]])
    [] OTHER           -> v

-----------------------------------------------------------------------------
(* The order of texts, and iteration in that order.                        *)

TextBytes(text) == [k \in DOMAIN text |-> Code[text[k]]]

\* The order of String: that of the bytes.
TextLess(s, t) ==
  \/ IsStrictPrefix(s, t)
  \/ \E k \in DOMAIN s \cap DOMAIN t :
       /\ \A j \in 1 .. k - 1 : s[j] = t[j]
       /\ Code[s[k]] < Code[t[k]]

\* The members of a finite set, each at the place that the number of those
\* before it says; `before` is a strict total order on S, a set of pairs.
Arranged(S, before) ==
  [i \in 1 .. Cardinality(S) |->
     CHOOSE x \in S : Cardinality({y \in S : <<y, x>> \in before}) = i - 1]

TextOrder(texts) == {p \in texts \X texts : TextLess(p[1], p[2])}

\* iter_sorted: the keys in order.
SortedKeys(fields) == Arranged(DOMAIN fields, TextOrder(DOMAIN fields))

\* The members of a sequence at the given positions.
Taken(seq, positions) ==
  LET at == Arranged(positions, {p \in positions \X positions : p[1] < p[2]})
  IN  [i \in DOMAIN at |-> seq[at[i]]]

-----------------------------------------------------------------------------
(* value_to_bytes: a tag per variant, and a length before what varies.     *)

\* Mutant of Prefix: no length is written.
PrefixMissing(n) == <<>>

Prefix(n) == <<n>>

\* value_to_bytes_inner, from the bytes of the parts; a value below the limit
\* leaves only a placeholder.
Bytes(v, depth, parts) ==
  LET Entry(key) == Prefix(Len(key)) \o TextBytes(key) \o parts[v.fields[key]]
      keys == SortedKeys(v.fields)
  IN  IF depth > MaxHashDepth
        THEN <<7>>
        ELSE CASE v.type = "null"  -> <<0>>
               [] v.type = "bool"  -> <<1, IF v.b THEN 1 ELSE 0>>
               [] v.type = "int"   -> <<2, v.n>>
               [] v.type = "float" -> <<3, v.bits>>
               [] v.type = "str"   -> <<4>> \o Prefix(Len(v.text)) \o TextBytes(v.text)
               [] v.type = "list"  ->
                    <<5>> \o Prefix(Len(v.items))
                          \o FlattenSeq([k \in DOMAIN v.items |-> parts[v.items[k]]])
               [] v.type = "obj"   ->
                    <<6>> \o Prefix(Cardinality(DOMAIN v.fields))
                          \o FlattenSeq([k \in DOMAIN keys |-> Entry(keys[k])])
               [] v.type = "bytes" ->
                    <<8>> \o Prefix(Len(v.digits) \div 2) \o TextBytes(v.digits)

Encode(v) == BottomUp(Layers(v, MaxHashDepth + 1), MaxHashDepth + 1, Bytes)[v]

\* content_hash: the values one after the other, without a count.
ContentHash(values) == FlattenSeq([k \in DOMAIN values |-> Encode(values[k])])

-----------------------------------------------------------------------------
(* What the encoding promises.                                             *)

\* v with everything below MaxHashDepth replaced by the same thing.
Kept(v, depth, parts) == IF depth > MaxHashDepth THEN None ELSE Rebuilt(v, parts)

Cut(v) == BottomUp(Layers(v, MaxHashDepth + 1), MaxHashDepth + 1, Kept)[v]

CutAll(values) == [k \in DOMAIN values |-> Cut(values[k])]
=============================================================================
