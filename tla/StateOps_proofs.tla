--------------------------- MODULE StateOps_proofs ---------------------------
(***************************************************************************)
(* The properties of StateOps as theorems about its specification, for all *)
(* data, texts, paths and limits: values, paths, references, orders and    *)
(* hashes at any depth and of any length.                                  *)
(*                                                                         *)
(* A value is a member of a set that holds the parts of its members, so    *)
(* that nothing is said of how deep it nests; the inductive invariant      *)
(* DataInv says that the data of the state are such a value.  What each    *)
(* property promises is then proved of the operators, for every value:     *)
(* that arranging a set lists it in order, that a path that was written is *)
(* read and others keep what they held, that resolving leaves nothing to   *)
(* follow, and that equal encodings are encodings of equal values.  Each   *)
(* recursive function is first shown to have the values its definition     *)
(* says; induction along the numbers (Upwards) does the rest.              *)
(***************************************************************************)
EXTENDS StateOps, SequenceTheorems, FiniteSetTheorems, WellFoundedInduction, TLAPS

-----------------------------------------------------------------------------
(* Recursion and induction along positions.                                *)

\* A set of numbers has a least one.
LEMMA Least ==
  ASSUME NEW T, T \subseteq Nat, T # {}
  PROVE  \E m \in T : \A k \in T : m <= k
<1> DEFINE R == {ss \in Nat \X Nat : ss[1] < ss[2]}
<1>1. IsWellFoundedOn(R, Nat)
  BY NatLessThanWellFounded DEF OpToRel
<1>2. \A y, x \in Nat : y < x => <<y, x>> \in R
  OBVIOUS
<1> HIDE DEF R
<1>3. PICK m \in T : \A k \in T : ~ (<<k, m>> \in R)
  BY <1>1, WFMin
<1>4. ASSUME NEW k \in T PROVE m <= k
  <2>1. m \in Nat /\ k \in Nat /\ ~(k < m)
    BY <1>2, <1>3
  <2> QED BY <2>1
<1> QED BY <1>4

\* What holds of 0 and passes from a number to the next holds of all.
LEMMA Upwards ==
  ASSUME NEW Good, 0 \in Good, \A n \in Nat : n \in Good => n + 1 \in Good
  PROVE  Nat \subseteq Good
<1> DEFINE T == Nat \ Good
<1>1. SUFFICES ASSUME T # {} PROVE FALSE
  OBVIOUS
<1>2. T \subseteq Nat
  OBVIOUS
<1>3. PICK m \in T : \A k \in T : m <= k
  <2> HIDE DEF T
  <2> QED BY <1>1, <1>2, Least
<1>4. m \in Nat /\ m # 0
  OBVIOUS
<1>5. m - 1 \in Nat /\ ~(m <= m - 1)
  BY <1>4
<1>6. m - 1 \in Good
  BY <1>3, <1>5
<1> QED BY <1>4, <1>5, <1>6

\* What stands after each segment, from what stands before it (get_path).
LEMMA AlongDefined ==
  ASSUME NEW fields, NEW parts, Len(parts) \in Nat
  PROVE  Along(fields, parts) =
           [k \in 0 .. Len(parts) |->
              IF k = 0 THEN VObj(fields) ELSE Descend(Along(fields, parts)[k - 1], parts[k])]
<1> DEFINE Body(f, n) ==
             [k \in 0 .. n |-> IF k = 0 THEN VObj(fields) ELSE Descend(f[k - 1], parts[k])]
           Some == {n \in Nat : \E f : f = Body(f, n)}
<1>1. 0 \in Some
  <2> DEFINE g == [k \in 0 .. 0 |-> VObj(fields)]
  <2>1. g = Body(g, 0)
    OBVIOUS
  <2> QED BY <2>1
<1>2. ASSUME NEW n \in Nat, n \in Some PROVE n + 1 \in Some
  <2>1. PICK f : f = Body(f, n)
    BY <1>2
  <2> DEFINE g == [k \in 0 .. n + 1 |-> IF k = n + 1 THEN Descend(f[n], parts[n + 1]) ELSE f[k]]
  <2>2. ASSUME NEW k \in 0 .. n + 1
        PROVE  g[k] = IF k = 0 THEN VObj(fields) ELSE Descend(g[k - 1], parts[k])
    <3>1. CASE k = n + 1
      BY <3>1
    <3>2. CASE k # n + 1
      BY <2>1, <3>2
    <3> QED BY <3>1, <3>2
  <2>3. g = Body(g, n + 1)
    BY <2>2
  <2> HIDE DEF g, Body
  <2> QED BY <2>3
<1>3. Nat \subseteq Some
  <2> HIDE DEF Some
  <2> QED BY <1>1, <1>2, Upwards
<1>4. \E f : f = Body(f, Len(parts))
  BY <1>3
<1> QED BY <1>4 DEF Along

\* What has been read of a path after each character (split_path).
LEMMA SplitDefined ==
  ASSUME NEW text, Len(text) \in Nat
  PROVE  \E f : /\ f = [k \in 0 .. Len(text) |->
                          IF k = 0 THEN [parts |-> <<>>, current |-> <<>>, bracket |-> FALSE]
                                   ELSE Accept(f[k - 1], text[k])]
               /\ SplitPath(text) = Close(f[Len(text)]).parts
<1> DEFINE start == [parts |-> <<>>, current |-> <<>>, bracket |-> FALSE]
           Body(f, n) == [k \in 0 .. n |-> IF k = 0 THEN start ELSE Accept(f[k - 1], text[k])]
           Some == {n \in Nat : \E f : f = Body(f, n)}
<1> HIDE DEF start
<1>1. 0 \in Some
  <2> DEFINE g == [k \in 0 .. 0 |-> start]
  <2>1. g = Body(g, 0)
    OBVIOUS
  <2> QED BY <2>1
<1>2. ASSUME NEW n \in Nat, n \in Some PROVE n + 1 \in Some
  <2>1. PICK f : f = Body(f, n)
    BY <1>2
  <2> DEFINE g == [k \in 0 .. n + 1 |-> IF k = n + 1 THEN Accept(f[n], text[n + 1]) ELSE f[k]]
  <2>2. ASSUME NEW k \in 0 .. n + 1
        PROVE  g[k] = IF k = 0 THEN start ELSE Accept(g[k - 1], text[k])
    <3>1. CASE k = n + 1
      BY <3>1
    <3>2. CASE k # n + 1
      BY <2>1, <3>2
    <3> QED BY <3>1, <3>2
  <2>3. g = Body(g, n + 1)
    BY <2>2
  <2> HIDE DEF g, Body
  <2> QED BY <2>3
<1>3. Nat \subseteq Some
  <2> HIDE DEF Some
  <2> QED BY <1>1, <1>2, Upwards
<1> DEFINE Read == CHOOSE f : f = Body(f, Len(text))
<1>4. \E f : f = Body(f, Len(text))
  BY <1>3
<1>5. Read = Body(Read, Len(text))
  <2> HIDE DEF Body
  <2> QED BY <1>4
<1>6. SplitPath(text) = Close(Read[Len(text)]).parts
  BY DEF SplitPath, start
<1> HIDE DEF Read
<1> QED BY <1>5, <1>6 DEF start

\* What stands after each segment once a path has been written (set_path_recursive).
LEMMA AfterWriteDefined ==
  ASSUME NEW fields, NEW parts, NEW v, Len(parts) \in Nat
  PROVE  AfterWrite(fields, parts, v) =
           [k \in 0 .. Len(parts) |->
              IF k = Len(parts) THEN v
              ELSE Rewritten(Along(fields, parts)[k], parts, k,
                             AfterWrite(fields, parts, v)[k + 1], v)]
<1> DEFINE N == Len(parts)
           Step(k, w) == Rewritten(Along(fields, parts)[k], parts, k, w, v)
           Body(f, n) == [k \in N - n .. N |-> IF k = N THEN v ELSE Step(k, f[k + 1])]
           Some == {n \in Nat : n <= N => \E f : f = Body(f, n)}
<1>0. N \in Nat
  OBVIOUS
<1> HIDE DEF N, Step
<1>1. 0 \in Some
  <2> DEFINE g == [k \in N .. N |-> v]
  <2>1. g = Body(g, 0)
    BY <1>0
  <2> HIDE DEF g, Body
  <2> QED BY <2>1
<1>2. ASSUME NEW n \in Nat, n \in Some PROVE n + 1 \in Some
  <2>0. SUFFICES ASSUME n + 1 <= N PROVE \E f : f = Body(f, n + 1)
    OBVIOUS
  <2>1. PICK f : f = Body(f, n)
    BY <1>0, <1>2, <2>0
  <2> DEFINE m == N - (n + 1)
             g == [k \in m .. N |-> IF k = m THEN Step(m, f[m + 1]) ELSE f[k]]
  <2>2. ASSUME NEW k \in m .. N
        PROVE  g[k] = IF k = N THEN v ELSE Step(k, g[k + 1])
    <3>0. m \in Nat /\ m < N /\ m + 1 = N - n
      BY <1>0, <2>0
    <3> HIDE DEF m
    <3>1. CASE k = m
      BY <3>0, <3>1, <1>0
    <3>2. CASE k # m
      <4>1. k \in N - n .. N
        BY <3>0, <3>2, <1>0
      <4>2. f[k] = IF k = N THEN v ELSE Step(k, f[k + 1])
        BY <2>1, <4>1
      <4>3. k # N => k + 1 \in m .. N /\ k + 1 # m
        BY <4>1, <3>0, <1>0
      <4> QED BY <4>2, <4>3, <3>2
    <3> QED BY <3>1, <3>2
  <2>3. g = Body(g, n + 1)
    BY <2>2
  <2> HIDE DEF g, Body
  <2> QED BY <2>3
<1>3. Nat \subseteq Some
  <2> HIDE DEF Some
  <2> QED BY <1>1, <1>2, Upwards
<1>4. \E f : f = Body(f, N)
  BY <1>0, <1>3
<1> DEFINE New == CHOOSE f : f = [k \in 0 .. N |-> IF k = N THEN v ELSE Step(k, f[k + 1])]
<1>5. \E f : f = [k \in 0 .. N |-> IF k = N THEN v ELSE Step(k, f[k + 1])]
  BY <1>0, <1>4
<1>6. New = [k \in 0 .. N |-> IF k = N THEN v ELSE Step(k, New[k + 1])]
  BY <1>5
<1>7. AfterWrite(fields, parts, v) = New
  BY DEF AfterWrite, N, Step
<1> HIDE DEF New
<1> QED BY <1>6, <1>7 DEF N, Step

-----------------------------------------------------------------------------
(* Paths.                                                                  *)

\* The segments read so far are texts.
Reading == [parts : Seq(Words), current : Words, bracket : BOOLEAN]

\* A segment that ends is a text.
LEMMA CloseTyped ==
  ASSUME NEW s \in Reading
  PROVE  Close(s) \in Reading
<1> DEFINE p == IF s.current = <<>> THEN s.parts ELSE Append(s.parts, s.current)
<1>1. s.parts \in Seq(Words) /\ s.current \in Words /\ s.bracket \in BOOLEAN
  BY DEF Reading
<1>2. p \in Seq(Words)
  BY <1>1, AppendProperties
<1>3. <<>> \in Words
  BY DEF Words
<1>4. Close(s) = [parts |-> p, current |-> <<>>, bracket |-> s.bracket]
  <2>1. Close(s) = [s EXCEPT !.parts = p, !.current = <<>>]
    BY DEF Close
  <2> HIDE DEF p
  <2> QED BY <2>1 DEF Reading
<1> HIDE DEF p
<1> QED BY <1>1, <1>2, <1>3, <1>4 DEF Reading

\* One more token of a path leaves texts.
LEMMA AcceptTyped ==
  ASSUME NEW s \in Reading, NEW t \in DOMAIN Code
  PROVE  Accept(s, t) \in Reading
<1>1. Close(s) \in Reading
  BY CloseTyped
<1>2. Append(s.current, t) \in Words
  BY DEF Reading, Words
<1>3. [Close(s) EXCEPT !.bracket = TRUE] \in Reading /\ [Close(s) EXCEPT !.bracket = FALSE] \in Reading
  BY <1>1 DEF Reading
<1>4. [s EXCEPT !.current = Append(@, t)] \in Reading
  BY <1>2 DEF Reading
<1> QED BY <1>1, <1>3, <1>4 DEF Accept

\* split_path returns texts.
LEMMA SplitTyped ==
  ASSUME NEW text \in Words
  PROVE  SplitPath(text) \in Seq(Words)
<1> DEFINE start == [parts |-> <<>>, current |-> <<>>, bracket |-> FALSE]
<1>0. Len(text) \in Nat /\ \A k \in 1 .. Len(text) : text[k] \in DOMAIN Code
  BY DEF Words
<1>1. PICK f : /\ f = [k \in 0 .. Len(text) |-> IF k = 0 THEN start ELSE Accept(f[k - 1], text[k])]
               /\ SplitPath(text) = Close(f[Len(text)]).parts
  BY <1>0, SplitDefined
<1> DEFINE Good == {k \in Nat : k <= Len(text) => f[k] \in Reading}
<1>2. 0 \in Good
  BY <1>0, <1>1 DEF Reading, Words
<1>3. ASSUME NEW n \in Nat, n \in Good PROVE n + 1 \in Good
  <2>1. SUFFICES ASSUME n + 1 <= Len(text) PROVE f[n + 1] \in Reading
    OBVIOUS
  <2>2. f[n] \in Reading /\ text[n + 1] \in DOMAIN Code
    BY <1>0, <1>3, <2>1
  <2>3. f[n + 1] = Accept(f[n], text[n + 1])
    <3>1. n + 1 \in 0 .. Len(text) /\ n + 1 # 0 /\ (n + 1) - 1 = n
      BY <1>0, <2>1
    <3> HIDE DEF start
    <3> QED BY <1>1, <3>1
  <2> QED BY <2>2, <2>3, AcceptTyped
<1>4. Nat \subseteq Good
  <2> HIDE DEF Good
  <2> QED BY <1>2, <1>3, Upwards
<1>5. f[Len(text)] \in Reading
  BY <1>0, <1>4
<1>6. Close(f[Len(text)]) \in Reading
  BY <1>5, CloseTyped
<1> QED BY <1>1, <1>6 DEF Reading

\* A write that is not counted changes nothing (set_path_recursive).
LEMMA UncountedKeeps ==
  ASSUME NEW d, NEW path \in Words, NEW v, ~Counted(d, path)
  PROVE  SetPath(d, path, v) = d
<1> DEFINE parts == SplitPath(path)
<1>1. parts \in Seq(Words)
  BY SplitTyped
<1>2. path # <<>> /\ (Len(parts) > 1 => Ignored(d, parts))
  BY DEF Counted
<1>5. Len(parts) # 1
  BY DEF Counted
<1> HIDE DEF parts
<1>3. CASE parts = <<>>
  BY <1>2, <1>3 DEF SetPath, parts
<1>4. CASE parts # <<>>
  <2>1. Len(parts) \in Nat /\ Len(parts) > 1
    <3>1. Len(parts) \in Nat /\ Len(parts) # 0
      BY <1>1, <1>4, EmptySeq
    <3>2. \A n \in Nat : n # 0 /\ n # 1 => n > 1
      OBVIOUS
    <3> QED BY <1>5, <3>1, <3>2
  <2>2. SetPath(d, path, v) = SetParts(d, parts, v)
    BY <1>2, <1>4, <2>1 DEF SetPath, parts
  <2>3. AfterWrite(d, parts, v)[0] =
          Rewritten(Along(d, parts)[0], parts, 0, AfterWrite(d, parts, v)[0 + 1], v)
    BY <2>1, AfterWriteDefined
  <2>4. Along(d, parts)[0] = VObj(d)
    BY <2>1, AlongDefined
  <2>5. SubSeq(parts, 0 + 1, Len(parts)) = parts
    BY <1>1, <2>1
  <2>6. FieldsOf(VObj(d)) = d
    BY DEF FieldsOf, VObj
  <2>7. ~ToElement(VObj(d), parts, 0)
    BY DEF ToElement
  <2>8. AfterWrite(d, parts, v)[0] = VObj(d)
    BY <1>2, <2>1, <2>3, <2>4, <2>5, <2>6, <2>7 DEF Rewritten
  <2> QED BY <2>2, <2>8 DEF SetParts, VObj
<1> QED BY <1>3, <1>4

-----------------------------------------------------------------------------
(* Values.  A value is a member of a set that holds the parts of each of   *)
(* its members; how deep it nests does not matter then.                    *)

Closed(U) == \A w \in U : WellFormed(w, U)
Proper(v) == \E U : Closed(U) /\ v \in U

\* The same value in a larger set.
LEMMA WellFormedIn ==
  ASSUME NEW U, NEW W, U \subseteq W, NEW w, WellFormed(w, U)
  PROVE  WellFormed(w, W)
<1>1. CASE w.type = "list" /\ w = VList(w.items) /\ w.items \in Seq(U)
  <2>1. w.items \in Seq(W)
    BY <1>1, SeqMonotonic
  <2> QED BY <1>1, <2>1 DEF WellFormed
<1>2. CASE /\ w.type = "obj" /\ w = VObj(w.fields)
           /\ w.fields \in [DOMAIN w.fields -> U]
           /\ IsFiniteSet(DOMAIN w.fields) /\ DOMAIN w.fields \subseteq Words
  <2>1. w.fields \in [DOMAIN w.fields -> W]
    BY <1>2
  <2> QED BY <1>2, <2>1 DEF WellFormed
<1> QED BY <1>1, <1>2 DEF WellFormed

\* Closed sets together are closed.
LEMMA UnionClosed ==
  ASSUME NEW F, \A U \in F : Closed(U)
  PROVE  Closed(UNION F)
<1>1. ASSUME NEW w \in UNION F PROVE WellFormed(w, UNION F)
  <2>1. PICK U \in F : w \in U
    OBVIOUS
  <2>2. WellFormed(w, U) /\ U \subseteq UNION F
    BY <2>1 DEF Closed
  <2> QED BY <2>2, WellFormedIn
<1> QED BY <1>1 DEF Closed

\* A value made of members of a closed set.
LEMMA MadeOfProper ==
  ASSUME NEW U, Closed(U), NEW v, WellFormed(v, U)
  PROVE  Proper(v)
<1> DEFINE W == U \cup {v}
<1>1. WellFormed(v, W)
  BY WellFormedIn
<1>2. \A w \in U : WellFormed(w, W)
  BY WellFormedIn DEF Closed
<1>3. Closed(W)
  BY <1>1, <1>2 DEF Closed
<1> QED BY <1>3 DEF Proper

\* A value without parts.
LEMMA LeafProper ==
  ASSUME NEW v, WellFormed(v, {})
  PROVE  Proper(v)
<1>1. Closed({})
  BY DEF Closed
<1> QED BY <1>1, MadeOfProper

\* The closed sets of the values of a function, in one.
LEMMA CommonClosed ==
  ASSUME NEW f, \A k \in DOMAIN f : Proper(f[k])
  PROVE  \E U : Closed(U) /\ \A k \in DOMAIN f : f[k] \in U
<1> DEFINE H(k) == CHOOSE U : Closed(U) /\ f[k] \in U
           F == {H(k) : k \in DOMAIN f}
<1>1. ASSUME NEW k \in DOMAIN f PROVE Closed(H(k)) /\ f[k] \in H(k)
  BY DEF Proper
<1>2. \A U \in F : Closed(U)
  BY <1>1
<1>3. \A k \in DOMAIN f : f[k] \in UNION F
  BY <1>1
<1> HIDE DEF F
<1>4. Closed(UNION F)
  BY <1>2, UnionClosed
<1> QED BY <1>3, <1>4

\* A list of values is a value.
LEMMA ListProper ==
  ASSUME NEW n \in Nat, NEW items, DOMAIN items = 1 .. n, items = [k \in 1 .. n |-> items[k]],
         \A k \in 1 .. n : Proper(items[k])
  PROVE  Proper(VList(items))
<1>1. PICK U : Closed(U) /\ \A k \in 1 .. n : items[k] \in U
  BY CommonClosed
<1>2. items \in [1 .. n -> U]
  BY <1>1
<1>3. items \in Seq(U)
  BY <1>2
<1>4. VList(items).type = "list" /\ VList(items).items = items
  BY DEF VList
<1>5. WellFormed(VList(items), U)
  BY <1>3, <1>4 DEF WellFormed
<1> QED BY <1>1, <1>5, MadeOfProper

\* An object with values under finitely many texts is a value.
LEMMA ObjectProper ==
  ASSUME NEW K, NEW fields, DOMAIN fields = K, fields = [k \in K |-> fields[k]],
         IsFiniteSet(K), K \subseteq Words,
         \A k \in K : Proper(fields[k])
  PROVE  Proper(VObj(fields))
<1>1. PICK U : Closed(U) /\ \A k \in K : fields[k] \in U
  BY CommonClosed
<1>2. fields \in [K -> U]
  BY <1>1
<1>4. VObj(fields).type = "obj" /\ VObj(fields).fields = fields
  BY DEF VObj
<1>5. WellFormed(VObj(fields), U)
  BY <1>2, <1>4 DEF WellFormed
<1> QED BY <1>1, <1>5, MadeOfProper

\* The elements of a list.
LEMMA ItemsProper ==
  ASSUME NEW v, Proper(v), v.type = "list"
  PROVE  /\ v = VList(v.items)
         /\ Len(v.items) \in Nat /\ DOMAIN v.items = 1 .. Len(v.items)
         /\ v.items = [k \in 1 .. Len(v.items) |-> v.items[k]]
         /\ \A k \in 1 .. Len(v.items) : Proper(v.items[k])
<1>1. PICK U : Closed(U) /\ v \in U
  BY DEF Proper
<1>4. WellFormed(v, U) /\ VNull.type = "null"
  BY <1>1 DEF Closed, VNull
<1>2. v = VList(v.items) /\ v.items \in Seq(U)
  BY <1>4 DEF WellFormed
<1>3. \A k \in 1 .. Len(v.items) : v.items[k] \in U
  BY <1>2
<1> QED BY <1>1, <1>2, <1>3 DEF Proper

\* The fields of an object.
LEMMA FieldsProper ==
  ASSUME NEW v, Proper(v), v.type = "obj"
  PROVE  /\ v = VObj(v.fields)
         /\ v.fields = [k \in DOMAIN v.fields |-> v.fields[k]]
         /\ IsFiniteSet(DOMAIN v.fields) /\ DOMAIN v.fields \subseteq Words
         /\ \A k \in DOMAIN v.fields : Proper(v.fields[k])
<1>1. PICK U : Closed(U) /\ v \in U
  BY DEF Proper
<1>2. /\ v = VObj(v.fields) /\ v.fields \in [DOMAIN v.fields -> U]
      /\ IsFiniteSet(DOMAIN v.fields) /\ DOMAIN v.fields \subseteq Words
  <2>1. WellFormed(v, U) /\ VNull.type = "null"
    BY <1>1 DEF Closed, VNull
  <2> QED BY <2>1 DEF WellFormed
<1>3. \A k \in DOMAIN v.fields : v.fields[k] \in U
  BY <1>2
<1> QED BY <1>1, <1>2, <1>3 DEF Proper

\* The other variants; nothing is not a value.
LEMMA VariantsProper ==
  ASSUME NEW v, Proper(v)
  PROVE  /\ v.type \in {"null", "bool", "int", "float", "str", "bytes", "list", "obj"}
         /\ v # None
         /\ v.type = "null" => v = VNull
         /\ v.type = "bool" => v = VBool(v.b) /\ v.b \in BOOLEAN
         /\ v.type = "int" => v = VInt(v.n) /\ v.n \in Integers64
         /\ v.type = "float" => v = VFloat(v.bits) /\ v.bits \in Int
         /\ v.type = "str" => v = VStr(v.text) /\ v.text \in Words
         /\ v.type = "bytes" => v = VBytes(v.digits) /\ v.digits \in Words /\ Len(v.digits) % 2 = 0
<1>1. PICK U : Closed(U) /\ v \in U
  BY DEF Proper
<1>2. WellFormed(v, U)
  BY <1>1 DEF Closed
<1>3. VNull.type = "null" /\ None.type = "none"
  BY DEF VNull, None
<1>4. v.type \in {"null", "bool", "int", "float", "str", "bytes", "list", "obj"}
  BY <1>2, <1>3 DEF WellFormed
<1>5. v # None
  BY <1>3, <1>4
<1>6. v.type = "null" => v = VNull
  BY <1>2, <1>3 DEF WellFormed
<1>7. v.type = "int" => v = VInt(v.n) /\ v.n \in Integers64
  BY <1>2, <1>3 DEF WellFormed
<1>8. v.type = "str" => v = VStr(v.text) /\ v.text \in Words
  BY <1>2, <1>3 DEF WellFormed
<1> QED BY <1>2, <1>3, <1>4, <1>5, <1>6, <1>7, <1>8 DEF WellFormed

\* What stands at each level inside a value, from what stands above it.
LEMMA LayersDefined ==
  ASSUME NEW v, NEW depth \in Nat
  PROVE  Layers(v, depth) =
           [n \in 0 .. depth |->
              IF n = 0 THEN {v} ELSE UNION {PartsOf(w) : w \in Layers(v, depth)[n - 1]}]
<1> DEFINE Below(S) == UNION {PartsOf(w) : w \in S}
           Body(f, m) == [n \in 0 .. m |-> IF n = 0 THEN {v} ELSE Below(f[n - 1])]
           Some == {m \in Nat : \E f : f = Body(f, m)}
<1> HIDE DEF Below
<1>1. 0 \in Some
  <2> DEFINE g == [n \in 0 .. 0 |-> {v}]
  <2>1. g = Body(g, 0)
    OBVIOUS
  <2> HIDE DEF g, Body
  <2> QED BY <2>1
<1>2. ASSUME NEW m \in Nat, m \in Some PROVE m + 1 \in Some
  <2>1. PICK f : f = Body(f, m)
    BY <1>2
  <2> DEFINE g == [n \in 0 .. m + 1 |-> IF n = m + 1 THEN Below(f[m]) ELSE f[n]]
  <2>2. ASSUME NEW n \in 0 .. m + 1
        PROVE  g[n] = IF n = 0 THEN {v} ELSE Below(g[n - 1])
    <3>1. CASE n = m + 1
      BY <3>1
    <3>2. CASE n # m + 1
      <4>1. n \in 0 .. m /\ (n # 0 => n - 1 \in 0 .. m)
        BY <3>2
      <4>2. f[n] = IF n = 0 THEN {v} ELSE Below(f[n - 1])
        BY <2>1, <4>1
      <4> QED BY <3>2, <4>1, <4>2
    <3> QED BY <3>1, <3>2
  <2>3. g = Body(g, m + 1)
    BY <2>2
  <2> HIDE DEF g, Body
  <2> QED BY <2>3
<1>3. Nat \subseteq Some
  <2> HIDE DEF Some
  <2> QED BY <1>1, <1>2, Upwards
<1> DEFINE At == CHOOSE f : f = Body(f, depth)
<1>4. At = Body(At, depth)
  <2> HIDE DEF Body
  <2> QED BY <1>3
<1>5. Layers(v, depth) = At
  BY DEF Layers, Below
<1> HIDE DEF At
<1> QED BY <1>4, <1>5 DEF Below

\* A value's parts are values.
LEMMA PartsProper ==
  ASSUME NEW U, Closed(U), NEW v \in U
  PROVE  PartsOf(v) \subseteq U
<1>1. WellFormed(v, U) /\ VNull.type = "null"
  BY DEF Closed, VNull
<1>2. CASE v.type = "list"
  <2>1. v.items \in Seq(U)
    BY <1>1, <1>2 DEF WellFormed
  <2> QED BY <1>2, <2>1 DEF PartsOf, Range
<1>3. CASE v.type = "obj"
  <2>1. v.fields \in [DOMAIN v.fields -> U]
    BY <1>1, <1>3 DEF WellFormed
  <2> QED BY <1>3, <2>1 DEF PartsOf, Range
<1> QED BY <1>2, <1>3 DEF PartsOf

\* Everything inside a value is a value.
LEMMA InsideClosed ==
  ASSUME NEW U, Closed(U), NEW v \in U, NEW depth \in Nat
  PROVE  /\ \A n \in 0 .. depth : Layers(v, depth)[n] \subseteq U
         /\ Inside(v, depth) \subseteq U
<1> DEFINE Good == {n \in Nat : n <= depth => Layers(v, depth)[n] \subseteq U}
<1>1. 0 \in Good
  BY LayersDefined
<1>2. ASSUME NEW n \in Nat, n \in Good PROVE n + 1 \in Good
  <2>1. SUFFICES ASSUME n + 1 <= depth PROVE Layers(v, depth)[n + 1] \subseteq U
    OBVIOUS
  <2>2. n + 1 \in 0 .. depth /\ n + 1 # 0 /\ (n + 1) - 1 = n /\ n <= depth
    BY <2>1
  <2>3. Layers(v, depth)[n + 1] = UNION {PartsOf(w) : w \in Layers(v, depth)[n]}
    BY <2>2, LayersDefined
  <2>4. Layers(v, depth)[n] \subseteq U
    BY <1>2, <2>2
  <2> QED BY <2>3, <2>4, PartsProper
<1>3. Nat \subseteq Good
  <2> HIDE DEF Good
  <2> QED BY <1>1, <1>2, Upwards
<1>4. \A n \in 0 .. depth : Layers(v, depth)[n] \subseteq U
  BY <1>3
<1> QED BY <1>4 DEF Inside

\* What the assumptions call sound is a value.
LEMMA SoundProper ==
  ASSUME NEW v, Sound(v)
  PROVE  Proper(v)
<1> DEFINE U == Inside(v, MaxNesting)
<1>1. MaxNesting \in Nat
  BY BoundAssumption
<1>2. v \in Layers(v, MaxNesting)[0]
  BY <1>1, LayersDefined
<1>3. v \in U
  BY <1>1, <1>2 DEF Inside
<1>4. Closed(U)
  BY DEF Sound, Closed
<1> HIDE DEF U
<1> QED BY <1>3, <1>4 DEF Proper

-----------------------------------------------------------------------------
(* Reading and writing keeps to values.                                    *)

\* A value, or nothing.
Maybe(v) == v = None \/ Proper(v)

\* Null, integers and texts are values.
LEMMA NullProper == Proper(VNull)
BY LeafProper DEF WellFormed

\* An integer of 64 bits.
LEMMA IntProper ==
  ASSUME NEW n \in Integers64
  PROVE  Proper(VInt(n))
<1>1. VInt(n).type = "int" /\ VInt(n).n = n
  BY DEF VInt
<1>2. WellFormed(VInt(n), {})
  BY <1>1 DEF WellFormed
<1> QED BY <1>2, LeafProper

\* A text over the known tokens.
LEMMA StrProper ==
  ASSUME NEW t \in Words
  PROVE  Proper(VStr(t))
<1>1. VStr(t).type = "str" /\ VStr(t).text = t
  BY DEF VStr
<1>2. WellFormed(VStr(t), {})
  BY <1>1 DEF WellFormed
<1> QED BY <1>2, LeafProper

\* Fields and positions of values hold values, or nothing.
LEMMA FieldProper ==
  ASSUME NEW d, Proper(VObj(d)), NEW key
  PROVE  Maybe(Field(d, key))
<1>1. VObj(d).type = "obj" /\ VObj(d).fields = d
  BY DEF VObj
<1> QED BY <1>1, FieldsProper DEF Field, Maybe

\* The same for a value that may be no object.
LEMMA FieldOfProper ==
  ASSUME NEW v, Maybe(v), NEW key
  PROVE  Maybe(FieldOf(v, key))
<1>1. None.type # "obj"
  BY DEF None
<1>2. CASE v.type = "obj" /\ Proper(v)
  <2>1. v = VObj(v.fields)
    BY <1>2, FieldsProper
  <2> QED BY <1>2, <2>1, FieldProper DEF FieldOf
<1> QED BY <1>1, <1>2 DEF FieldOf, Maybe

\* One segment further down (get_path).
LEMMA DescendProper ==
  ASSUME NEW v, Maybe(v), NEW segment
  PROVE  Maybe(Descend(v, segment))
<1>1. None.type = "none"
  BY DEF None
<1>2. CASE v.type = "obj" /\ Proper(v)
  <2>1. v = VObj(v.fields)
    BY <1>2, FieldsProper
  <2> QED BY <1>2, <2>1, FieldProper DEF Descend
<1>3. CASE v.type = "list" /\ IsIndex(segment) /\ IndexOf(segment) < Len(v.items) /\ Proper(v)
  <2>1. IndexOf(segment) \in Nat
    BY <1>3, DigitsAssumption DEF IsIndex, IndexOf
  <2>2. IndexOf(segment) + 1 \in 1 .. Len(v.items)
    BY <1>3, <2>1, ItemsProper
  <2> QED BY <1>3, <2>2, ItemsProper DEF Descend, Maybe
<1> QED BY <1>1, <1>2, <1>3 DEF Descend, Maybe

\* What stands after each segment of a path.
LEMMA AlongProper ==
  ASSUME NEW d, Proper(VObj(d)), NEW parts, Len(parts) \in Nat
  PROVE  \A k \in 0 .. Len(parts) : Maybe(Along(d, parts)[k])
<1> DEFINE Good == {k \in Nat : k <= Len(parts) => Maybe(Along(d, parts)[k])}
<1>1. 0 \in Good
  BY AlongDefined DEF Maybe
<1>2. ASSUME NEW n \in Nat, n \in Good PROVE n + 1 \in Good
  <2>1. SUFFICES ASSUME n + 1 <= Len(parts) PROVE Maybe(Along(d, parts)[n + 1])
    OBVIOUS
  <2>2. n + 1 \in 0 .. Len(parts) /\ n + 1 # 0 /\ (n + 1) - 1 = n /\ n <= Len(parts)
    BY <2>1
  <2>3. Along(d, parts)[n + 1] = Descend(Along(d, parts)[n], parts[n + 1])
    BY <2>2, AlongDefined
  <2>4. Maybe(Along(d, parts)[n])
    BY <1>2, <2>2
  <2> QED BY <2>3, <2>4, DescendProper
<1>3. Nat \subseteq Good
  <2> HIDE DEF Good
  <2> QED BY <1>1, <1>2, Upwards
<1> QED BY <1>3

\* get_path
LEMMA GetProper ==
  ASSUME NEW d, Proper(VObj(d)), NEW path \in Words
  PROVE  Maybe(GetPath(d, path))
<1>1. VObj(d).type = "obj" /\ VObj(d).fields = d
  BY DEF VObj
<1>2. CASE path = <<>>
  BY <1>1, <1>2, FieldsProper DEF GetPath, Maybe
<1>3. CASE path # <<>>
  <2> DEFINE parts == SplitPath(path)
  <2>1. Len(parts) \in Nat
    BY SplitTyped
  <2>2. Maybe(Along(d, parts)[Len(parts)])
    <3> HIDE DEF parts
    <3> QED BY <2>1, AlongProper
  <2> QED BY <1>3, <2>2 DEF GetPath, Walk, Maybe
<1> QED BY <1>2, <1>3

\* resolve_path
LEMMA ResolveProper ==
  ASSUME NEW d, Proper(VObj(d)), NEW v, Proper(v)
  PROVE  Proper(ResolvePath(d, v))
<1> DEFINE path == FieldOf(v, RefKey)
<1>1. Maybe(path) /\ None.type # "str"
  BY FieldOfProper DEF Maybe, None
<1>2. CASE path.type = "str"
  <2>1. path.text \in Words
    <3> HIDE DEF path
    <3> QED BY <1>1, <1>2, VariantsProper DEF Maybe
  <2>2. Maybe(GetPath(d, path.text))
    <3> HIDE DEF path
    <3> QED BY <2>1, GetProper
  <2>3. Proper(ResolveRefPath(d, path.text))
    <3> HIDE DEF path
    <3> QED BY <2>2, NullProper DEF ResolveRefPath, OrElse, Maybe
  <2> QED BY <1>2, <2>3 DEF ResolvePath
<1>3. CASE path.type # "str"
  BY <1>3 DEF ResolvePath
<1> QED BY <1>2, <1>3

\* The members of a list of values.
Itemized(items) ==
  /\ Len(items) \in Nat /\ DOMAIN items = 1 .. Len(items)
  /\ items = [k \in 1 .. Len(items) |-> items[k]]
  /\ \A k \in 1 .. Len(items) : Proper(items[k])

\* What a value has as a list is a list of values.
LEMMA ItemsItemized ==
  ASSUME NEW v, Maybe(v)
  PROVE  Itemized(Items(v))
<1>1. CASE v.type = "list" /\ Proper(v)
  BY <1>1, ItemsProper DEF Items, Itemized
<1>2. None.type # "list"
  BY DEF None
<1>3. CASE v.type # "list"
  <2>1. Items(v) = <<>>
    BY <1>3 DEF Items
  <2>2. Len(<<>>) = 0 /\ DOMAIN <<>> = 1 .. 0 /\ <<>> = [k \in 1 .. 0 |-> <<>>[k]]
    OBVIOUS
  <2> QED BY <2>1, <2>2 DEF Itemized
<1> QED BY <1>1, <1>2, <1>3 DEF Maybe

\* A list is filled up to the index with Null (set_path).
LEMMA ExtendedProper ==
  ASSUME NEW items, Itemized(items), NEW i \in Nat, NEW v, Proper(v)
  PROVE  Proper(VList(Extended(items, i, v)))
<1> DEFINE n == IF i < Len(items) THEN Len(items) ELSE i + 1
           e == Extended(items, i, v)
<1>1. n \in Nat
  BY DEF Itemized
<1>2. DOMAIN e = 1 .. n /\ e = [k \in 1 .. n |-> e[k]]
  BY DEF Extended
<1>3. ASSUME NEW k \in 1 .. n PROVE Proper(e[k])
  <2>1. e[k] = IF k = i + 1 THEN v ELSE IF k <= Len(items) THEN items[k] ELSE VNull
    BY DEF Extended
  <2>2. k <= Len(items) => Proper(items[k])
    BY DEF Itemized
  <2> HIDE DEF e
  <2> QED BY <2>1, <2>2, NullProper
<1> HIDE DEF e, n
<1>4. Proper(VList(e))
  BY <1>1, <1>2, <1>3, ListProper
<1> QED BY <1>4 DEF e

\* An object with one field set.
LEMMA PutProper ==
  ASSUME NEW d, Proper(VObj(d)), NEW key \in Words, NEW v, Proper(v)
  PROVE  Proper(VObj(Put(d, key, v)))
<1>1. VObj(d).type = "obj" /\ VObj(d).fields = d
  BY DEF VObj
<1>2. /\ IsFiniteSet(DOMAIN d) /\ DOMAIN d \subseteq Words
      /\ \A k \in DOMAIN d : Proper(d[k])
  BY <1>1, FieldsProper
<1> DEFINE K == DOMAIN d \cup {key}
           p == Put(d, key, v)
<1>3. IsFiniteSet(K) /\ K \subseteq Words
  BY <1>2, FS_AddElement
<1>4. DOMAIN p = K /\ p = [k \in K |-> p[k]]
  BY DEF Put
<1>5. \A k \in K : Proper(p[k])
  BY <1>2 DEF Put
<1> HIDE DEF p, K
<1>6. Proper(VObj(p))
  BY <1>3, <1>4, <1>5, ObjectProper
<1> QED BY <1>6 DEF p

\* The object that set_path begins anew with.
LEMMA EmptyProper == Proper(VObj(NoFields))
<1>1. IsFiniteSet({})
  BY FS_EmptySet
<1>2. DOMAIN NoFields = {} /\ NoFields = [k \in {} |-> NoFields[k]]
  BY DEF NoFields
<1> HIDE DEF NoFields
<1> QED BY <1>1, <1>2, ObjectProper

\* What a value has as an object is an object of values.
LEMMA FieldsOfProper ==
  ASSUME NEW v, Maybe(v)
  PROVE  Proper(VObj(FieldsOf(v)))
<1>1. None.type # "obj"
  BY DEF None
<1>2. CASE v.type = "obj" /\ Proper(v)
  BY <1>2, FieldsProper DEF FieldsOf
<1>3. CASE v.type # "obj"
  BY <1>3, EmptyProper DEF FieldsOf
<1> QED BY <1>1, <1>2, <1>3 DEF Maybe

\* One segment of a write (set_path_recursive).
LEMMA RewrittenProper ==
  ASSUME NEW old, Maybe(old), NEW parts \in Seq(Words), NEW k \in Nat, k < Len(parts),
         NEW below, Proper(below), NEW v, Proper(v)
  PROVE  Proper(Rewritten(old, parts, k, below, v))
<1> DEFINE segment == parts[k + 1]
           fields == FieldsOf(old)
           rest == SubSeq(parts, k + 1, Len(parts))
<1>1. segment \in Words
  OBVIOUS
<1>2. Head(rest) = segment
  OBVIOUS
<1>3. Proper(VObj(fields))
  BY FieldsOfProper
<1>4. IsIndex(segment) => IndexOf(segment) \in Nat
  BY DigitsAssumption DEF IsIndex, IndexOf
<1>5. CASE ToElement(old, parts, k)
  <2>1. Rewritten(old, parts, k, below, v) = VList(Extended(Items(old), IndexOf(segment), below))
    BY <1>5 DEF Rewritten
  <2>2. IsIndex(segment)
    BY <1>5 DEF ToElement
  <2> HIDE DEF segment
  <2> QED BY <2>1, <2>2, <1>4, ItemsItemized, ExtendedProper
<1>6. CASE ~ToElement(old, parts, k) /\ Ignored(fields, rest)
  <2>1. Rewritten(old, parts, k, below, v) = VObj(fields)
    BY <1>6 DEF Rewritten
  <2> QED BY <2>1, <1>3
<1>7. CASE ~ToElement(old, parts, k) /\ ~Ignored(fields, rest) /\ IsIndex(segment)
  <2>1. Rewritten(old, parts, k, below, v) = VObj(AtOnlyList(fields, segment, v))
    BY <1>7 DEF Rewritten
  <2> DEFINE key == IF fields = NoFields THEN segment ELSE TheList(fields)
  <2>2. key \in Words
    <3>1. CASE fields # NoFields
      <4>1. IndexFits(fields, rest)
        BY <1>2, <1>7, <3>1 DEF Ignored
      <4>2. Cardinality(ListKeys(fields)) = 1
        BY <4>1 DEF IndexFits
      <4>3. ListKeys(fields) # {}
        BY <4>2, FS_EmptySet
      <4>4. TheList(fields) \in DOMAIN fields
        BY <4>3 DEF TheList, ListKeys
      <4>5. DOMAIN fields \subseteq Words
        <5>1. VObj(fields).type = "obj" /\ VObj(fields).fields = fields
          BY DEF VObj
        <5> HIDE DEF fields
        <5> QED BY <1>3, <5>1, FieldsProper
      <4> QED BY <3>1, <4>4, <4>5
    <3> QED BY <3>1, <1>1
  <2> HIDE DEF fields, segment, rest
  <2>3. Maybe(Field(fields, key))
    BY <1>3, FieldProper
  <2>4. AtOnlyList(fields, segment, v) =
          Put(fields, key, VList(Extended(Items(Field(fields, key)), IndexOf(segment), v)))
    BY DEF AtOnlyList
  <2> HIDE DEF key
  <2>5. Itemized(Items(Field(fields, key)))
    BY <2>3, ItemsItemized
  <2>6. Proper(VList(Extended(Items(Field(fields, key)), IndexOf(segment), v)))
    BY <1>4, <1>7, <2>5, ExtendedProper
  <2> QED BY <2>1, <2>2, <2>4, <2>6, <1>3, PutProper
<1>8. CASE ~ToElement(old, parts, k) /\ ~Ignored(fields, rest) /\ ~IsIndex(segment)
  <2>1. Rewritten(old, parts, k, below, v) = VObj(Put(fields, segment, below))
    BY <1>8 DEF Rewritten
  <2> HIDE DEF fields, segment
  <2> QED BY <2>1, <1>1, <1>3, PutProper
<1> HIDE DEF fields, segment, rest
<1> QED BY <1>5, <1>6, <1>7, <1>8

\* set_path
LEMMA SetProper ==
  ASSUME NEW d, Proper(VObj(d)), NEW path \in Words, NEW v, Proper(v)
  PROVE  Proper(VObj(SetPath(d, path, v)))
<1> DEFINE parts == SplitPath(path)
           n == Len(parts)
           new == AfterWrite(d, parts, v)
<1>1. parts \in Seq(Words) /\ n \in Nat /\ <<>> \in Words
  BY SplitTyped DEF Words
<1>2. CASE path = <<>>
  <2>1. SetPath(d, path, v) = Put(d, <<>>, v)
    BY <1>2 DEF SetPath
  <2> QED BY <1>1, <2>1, PutProper
<1>3. CASE path # <<>> /\ parts = <<>>
  BY <1>3 DEF SetPath
<1>4. CASE path # <<>> /\ parts # <<>> /\ n = 1
  <2>1. Head(parts) \in Words
    BY <1>1, <1>4
  <2>2. SetPath(d, path, v) = Put(d, Head(parts), v)
    BY <1>4 DEF SetPath
  <2> QED BY <2>1, <2>2, PutProper
<1>5. CASE path # <<>> /\ parts # <<>> /\ n > 1
  <2>1. SetPath(d, path, v) = SetParts(d, parts, v)
    BY <1>5 DEF SetPath
  <2> HIDE DEF parts
  <2> DEFINE Good == {m \in Nat : m <= n => Proper(new[n - m])}
  <2>2. 0 \in Good
    BY <1>1, AfterWriteDefined
  <2>3. ASSUME NEW m \in Nat, m \in Good PROVE m + 1 \in Good
    <3>1. SUFFICES ASSUME m + 1 <= n PROVE Proper(new[n - (m + 1)])
      OBVIOUS
    <3> DEFINE k == n - (m + 1)
    <3>2. k \in Nat /\ k \in 0 .. n /\ k < n /\ k + 1 = n - m /\ m <= n
      BY <1>1, <3>1
    <3>3. new[k] = Rewritten(Along(d, parts)[k], parts, k, new[k + 1], v)
      <4> HIDE DEF k
      <4> QED BY <1>1, <3>2, AfterWriteDefined
    <3>4. Maybe(Along(d, parts)[k])
      <4> HIDE DEF k
      <4> QED BY <1>1, <3>2, AlongProper
    <3>5. Proper(new[k + 1])
      BY <2>3, <3>2
    <3> HIDE DEF k, new, n
    <3>6. Proper(new[k])
      BY <1>1, <3>2, <3>3, <3>4, <3>5, RewrittenProper DEF n
    <3> QED BY <3>6 DEF k
  <2>4. Nat \subseteq Good
    <3> HIDE DEF Good
    <3> QED BY <2>2, <2>3, Upwards
  <2>5. Proper(new[0])
    BY <1>1, <2>4
  <2>6. new[0].type = "obj"
    <3>1. new[0] = Rewritten(Along(d, parts)[0], parts, 0, new[0 + 1], v)
      BY <1>1, <1>5, AfterWriteDefined
    <3>2. ~ToElement(Along(d, parts)[0], parts, 0)
      BY DEF ToElement
    <3> HIDE DEF new
    <3> QED BY <3>1, <3>2 DEF Rewritten, VObj
  <2>7. new[0] = VObj(new[0].fields)
    <3> HIDE DEF new
    <3> QED BY <2>5, <2>6, FieldsProper
  <2> QED BY <2>1, <2>5, <2>7 DEF SetParts
<1>6. n = 0 \/ n = 1 \/ n > 1
  BY <1>1
<1>7. n = 0 => parts = <<>>
  BY <1>1, EmptySeq
<1> HIDE DEF n, parts
<1> QED BY <1>2, <1>3, <1>4, <1>5, <1>6, <1>7

-----------------------------------------------------------------------------
(* Sorting.                                                                *)

\* A strict total order on S.
Orders(before, S) ==
  /\ \A x \in S : <<x, x>> \notin before
  /\ \A x, y, z \in S : <<x, y>> \in before /\ <<y, z>> \in before => <<x, z>> \in before
  /\ \A x, y \in S : x = y \/ <<x, y>> \in before \/ <<y, x>> \in before

\* The sequence s lists the members of S, each once and in order.
InOrder(s, S, before) ==
  /\ Len(s) \in Nat /\ DOMAIN s = 1 .. Len(s) /\ Len(s) = Cardinality(S)
  /\ s = [i \in 1 .. Len(s) |-> s[i]]
  /\ \A i \in 1 .. Len(s) : s[i] \in S
  /\ \A x \in S : \E i \in 1 .. Len(s) : s[i] = x
  /\ \A i, j \in 1 .. Len(s) : i < j => <<s[i], s[j]>> \in before

\* A member comes after those before it.
LEMMA RankGrows ==
  ASSUME NEW S, IsFiniteSet(S), NEW before, Orders(before, S), NEW x \in S
  PROVE  /\ Cardinality({z \in S : <<z, x>> \in before}) \in 0 .. Cardinality(S) - 1
         /\ \A y \in S : <<x, y>> \in before =>
              Cardinality({z \in S : <<z, x>> \in before})
                < Cardinality({z \in S : <<z, y>> \in before})
<1> DEFINE Down(y) == {z \in S : <<z, y>> \in before}
<1>0. Cardinality(S) \in Nat
  BY FS_CardinalityType
<1>1. \A y : IsFiniteSet(Down(y)) /\ Cardinality(Down(y)) \in Nat
  BY FS_Subset, FS_CardinalityType
<1>2. \A U, W : IsFiniteSet(W) /\ U \subseteq W /\ U # W => Cardinality(U) < Cardinality(W)
  <2>1. ASSUME NEW U, NEW W, IsFiniteSet(W), U \subseteq W, U # W
        PROVE  Cardinality(U) < Cardinality(W)
    <3>1. /\ IsFiniteSet(U) /\ Cardinality(U) <= Cardinality(W)
          /\ Cardinality(U) # Cardinality(W)
      BY <2>1, FS_Subset
    <3>2. Cardinality(U) \in Nat /\ Cardinality(W) \in Nat
      BY <2>1, <3>1, FS_CardinalityType
    <3> QED BY <3>1, <3>2
  <2> QED BY <2>1
<1>3. x \notin Down(x) /\ Down(x) \subseteq S
  BY DEF Orders
<1>4. Cardinality(Down(x)) < Cardinality(S)
  <2> HIDE DEF Down
  <2> QED BY <1>2, <1>3
<1>5. ASSUME NEW y \in S, <<x, y>> \in before
      PROVE  Cardinality(Down(x)) < Cardinality(Down(y))
  <2>1. Down(x) \subseteq Down(y) /\ x \in Down(y)
    BY <1>5 DEF Orders
  <2> HIDE DEF Down
  <2> QED BY <1>1, <1>2, <1>3, <2>1
<1>6. Cardinality(Down(x)) \in 0 .. Cardinality(S) - 1
  <2> HIDE DEF Down
  <2> QED BY <1>0, <1>1, <1>4
<1> QED BY <1>5, <1>6

\* The places are the numbers from 1 to that of the members, one each.
LEMMA ArrangedLists ==
  ASSUME NEW S, IsFiniteSet(S), NEW before, Orders(before, S)
  PROVE  InOrder(Arranged(S, before), S, before)
<1> DEFINE Rank(x) == Cardinality({z \in S : <<z, x>> \in before})
           n == Cardinality(S)
           N == 0 .. n - 1
           f == [x \in S |-> Rank(x)]
           a == Arranged(S, before)
<1>0. n \in Nat /\ IsFiniteSet(N) /\ Cardinality(N) = n
  <2>1. n \in Nat
    BY FS_CardinalityType
  <2> HIDE DEF n
  <2>2. 0 \in Int /\ n - 1 \in Int /\ (IF 0 > n - 1 THEN 0 ELSE (n - 1) - 0 + 1) = n
    BY <2>1
  <2> QED BY <2>1, <2>2, FS_Interval
<1>1. \A x \in S : Rank(x) \in N /\ \A y \in S : <<x, y>> \in before => Rank(x) < Rank(y)
  BY RankGrows
<1> HIDE DEF Rank
<1>2. f \in Injection(S, N)
  <2>1. f \in [S -> N]
    BY <1>1
  <2>2. ASSUME NEW x \in S, NEW y \in S, f[x] = f[y] PROVE x = y
    <3>1. Rank(x) = Rank(y) /\ Rank(x) \in N /\ Rank(y) \in N
      BY <2>2, <1>1
    <3>2. ~(Rank(x) < Rank(y)) /\ ~(Rank(y) < Rank(x))
      BY <3>1, <1>0
    <3> QED BY <3>2, <1>1 DEF Orders
  <2> QED BY <2>1, <2>2 DEF Injection, IsInjective
<1>3. f \in Surjection(S, N)
  <2> HIDE DEF f, N, n
  <2> QED BY <1>0, <1>2, FS_Injection DEF n
<1>4. \A k \in N : \E x \in S : Rank(x) = k
  BY <1>3 DEF Surjection
<1>5. \A x, y \in S : Rank(x) = Rank(y) => x = y
  BY <1>2 DEF Injection, IsInjective
<1>6. a = [i \in 1 .. n |-> CHOOSE x \in S : Rank(x) = i - 1]
  BY DEF Arranged, Rank
<1>7. DOMAIN a = 1 .. n /\ a = [i \in 1 .. n |-> a[i]]
  BY <1>6
<1>8. Len(a) = n
  BY <1>0, <1>7
<1>9. \A i \in 1 .. n : a[i] \in S /\ Rank(a[i]) = i - 1
  <2>1. ASSUME NEW i \in 1 .. n PROVE a[i] \in S /\ Rank(a[i]) = i - 1
    <3>1. i - 1 \in N
      BY <1>0
    <3>2. \E x \in S : Rank(x) = i - 1
      BY <1>4, <3>1
    <3>3. a[i] = CHOOSE x \in S : Rank(x) = i - 1
      BY <1>6
    <3> HIDE DEF a
    <3> QED BY <3>2, <3>3
  <2> QED BY <2>1
<1> HIDE DEF a
<1>10. \A x \in S : \E i \in 1 .. n : a[i] = x
  <2>1. ASSUME NEW x \in S PROVE \E i \in 1 .. n : a[i] = x
    <3>1. Rank(x) \in N /\ Rank(x) + 1 \in 1 .. n /\ (Rank(x) + 1) - 1 = Rank(x)
      BY <1>0, <1>1
    <3>2. a[Rank(x) + 1] \in S /\ Rank(a[Rank(x) + 1]) = Rank(x)
      BY <1>9, <3>1
    <3> QED BY <1>5, <3>1, <3>2
  <2> QED BY <2>1
<1>11. ASSUME NEW i \in 1 .. n, NEW j \in 1 .. n, i < j
       PROVE  <<a[i], a[j]>> \in before
  <2>1. a[i] \in S /\ a[j] \in S /\ Rank(a[i]) = i - 1 /\ Rank(a[j]) = j - 1
    BY <1>9
  <2>2. Rank(a[i]) # Rank(a[j]) /\ ~(Rank(a[j]) < Rank(a[i]))
    BY <1>0, <1>11, <2>1
  <2>3. a[i] # a[j] /\ <<a[j], a[i]>> \notin before
    BY <1>1, <2>1, <2>2
  <2> QED BY <2>1, <2>3 DEF Orders
<1> HIDE DEF n
<1>12. InOrder(a, S, before)
  BY <1>0, <1>7, <1>8, <1>9, <1>10, <1>11 DEF InOrder, n
<1> QED BY <1>12 DEF a

\* The order of numbers.
Ascending(P) == {p \in P \X P : p[1] < p[2]}

\* It is a strict total order of positions.
LEMMA PositionsOrdered ==
  ASSUME NEW P, P \subseteq Nat
  PROVE  Orders(Ascending(P), P)
<1> DEFINE before == Ascending(P)
<1>1. \A x, y \in P : <<x, y>> \in before <=> x < y
  BY DEF Ascending
<1>2. \A x, y, z \in Nat : ~(x < x) /\ (x < y /\ y < z => x < z) /\ (x = y \/ x < y \/ y < x)
  OBVIOUS
<1> HIDE DEF before
<1>3. \A x \in P : x \in Nat
  OBVIOUS
<1>4. Orders(before, P)
  BY <1>1, <1>2, <1>3 DEF Orders
<1> QED BY <1>4 DEF before

\* A prefix, position by position.
LEMMA PrefixMeans ==
  ASSUME NEW S, NEW s \in Seq(S), NEW t \in Seq(S)
  PROVE  IsPrefix(s, t) <=> Len(s) <= Len(t) /\ \A k \in 1 .. Len(s) : s[k] = t[k]
<1>0. Len(s) \in Nat /\ Len(t) \in Nat
  OBVIOUS
<1>1. SubSeq(s, 1, Len(s)) = s
  OBVIOUS
<1>2. ASSUME Len(s) <= Len(t)
      PROVE  SubSeq(t, 1, Len(s)) = [k \in 1 .. Len(s) |-> t[k]]
  BY <1>0, <1>2
<1>3. s = [k \in 1 .. Len(s) |-> s[k]]
  OBVIOUS
<1> QED BY <1>0, <1>1, <1>2, <1>3 DEF IsPrefix

\* Where the smaller text ends, or has the smaller token.
Splits(s, t, k) ==
  /\ k \in 1 .. Len(t) /\ k <= Len(s) + 1
  /\ \A j \in 1 .. k - 1 : s[j] = t[j]
  /\ k <= Len(s) => Code[s[k]] < Code[t[k]]

\* What TextLess says by prefixes, said by the first position that differs.
LEMMA TextLessSplits ==
  ASSUME NEW s \in Words, NEW t \in Words
  PROVE  TextLess(s, t) <=> \E k \in Nat : Splits(s, t, k)
<1>0. Len(s) \in Nat /\ Len(t) \in Nat /\ DOMAIN s = 1 .. Len(s) /\ DOMAIN t = 1 .. Len(t)
  BY DEF Words
<1>1. ASSUME IsStrictPrefix(s, t) PROVE Splits(s, t, Len(s) + 1)
  <2>1. Len(s) <= Len(t) /\ \A k \in 1 .. Len(s) : s[k] = t[k]
    BY <1>1, PrefixMeans DEF IsStrictPrefix, Words
  <2>2. Len(s) # Len(t)
    BY <1>1, <2>1, SeqEqual DEF IsStrictPrefix, Words
  <2>3. Len(s) + 1 \in 1 .. Len(t) /\ (Len(s) + 1) - 1 = Len(s) /\ ~(Len(s) + 1 <= Len(s))
    <3>1. \A m, n \in Nat : m <= n /\ m # n => m + 1 \in 1 .. n /\ (m + 1) - 1 = m /\ ~(m + 1 <= m)
      OBVIOUS
    <3> QED BY <1>0, <2>1, <2>2, <3>1
  <2> QED BY <1>0, <2>1, <2>3 DEF Splits
<1>2. ASSUME NEW k \in DOMAIN s \cap DOMAIN t, \A j \in 1 .. k - 1 : s[j] = t[j],
             Code[s[k]] < Code[t[k]]
      PROVE  Splits(s, t, k)
  BY <1>0, <1>2 DEF Splits
<1>3. ASSUME NEW k \in Nat, Splits(s, t, k) PROVE TextLess(s, t)
  <2>1. CASE k <= Len(s)
    BY <1>0, <1>3, <2>1 DEF Splits, TextLess
  <2>2. CASE ~(k <= Len(s))
    <3>1. k = Len(s) + 1 /\ Len(s) < Len(t) /\ \A j \in 1 .. Len(s) : s[j] = t[j]
      BY <1>0, <1>3, <2>2 DEF Splits
    <3>2. IsPrefix(s, t) /\ s # t
      BY <1>0, <3>1, PrefixMeans DEF Words
    <3> QED BY <3>2 DEF TextLess, IsStrictPrefix
  <2> QED BY <2>1, <2>2
<1> QED BY <1>0, <1>1, <1>2, <1>3 DEF TextLess

\* The order of the bytes is a strict total order of the texts.
LEMMA TextsOrdered ==
  ASSUME NEW s \in Words, NEW t \in Words
  PROVE  /\ ~TextLess(s, s)
         /\ \A u \in Words : TextLess(s, t) /\ TextLess(t, u) => TextLess(s, u)
         /\ s = t \/ TextLess(s, t) \/ TextLess(t, s)
<1>0. \A w \in Words : Len(w) \in Nat /\ \A k \in 1 .. Len(w) : w[k] \in DOMAIN Code
  BY DEF Words
<1>c. \A w \in Words : \A k \in 1 .. Len(w) : Code[w[k]] \in Nat
  BY <1>0, CodeAssumption
<1>1. ~TextLess(s, s)
  <2>1. ASSUME NEW k \in Nat, Splits(s, s, k) PROVE FALSE
    <3>1. k \in 1 .. Len(s) /\ Code[s[k]] < Code[s[k]]
      BY <1>0, <2>1 DEF Splits
    <3> QED BY <1>c, <3>1
  <2> QED BY <2>1, TextLessSplits
<1>2. ASSUME NEW u \in Words, TextLess(s, t), TextLess(t, u) PROVE TextLess(s, u)
  <2>1. PICK k \in Nat : Splits(s, t, k)
    BY <1>2, TextLessSplits
  <2>2. PICK l \in Nat : Splits(t, u, l)
    BY <1>2, TextLessSplits
  <2>3. CASE k < l
    <3>1. k \in 1 .. Len(u) /\ t[k] = u[k] /\ k <= Len(s) + 1
      BY <1>0, <2>1, <2>2, <2>3 DEF Splits
    <3>2. \A j \in 1 .. k - 1 : s[j] = u[j]
      BY <1>0, <2>1, <2>2, <2>3 DEF Splits
    <3>3. Splits(s, u, k)
      BY <3>1, <3>2, <2>1 DEF Splits
    <3> QED BY <3>3, TextLessSplits
  <2>4. CASE k >= l
    <3>1. l \in 1 .. Len(u) /\ l \in 1 .. Len(t) /\ l <= Len(s) + 1 /\ Code[t[l]] < Code[u[l]]
      BY <1>0, <2>1, <2>2, <2>4 DEF Splits
    <3>2. \A j \in 1 .. l - 1 : s[j] = u[j]
      BY <1>0, <2>1, <2>2, <2>4 DEF Splits
    <3>3. l <= Len(s) => s[l] = t[l] \/ Code[s[l]] < Code[t[l]]
      <4>1. k = l \/ l \in 1 .. k - 1
        BY <2>4, <3>1
      <4> QED BY <2>1, <4>1 DEF Splits
    <3>4. l <= Len(s) => Code[s[l]] < Code[u[l]]
      <4>1. l <= Len(s) => Code[s[l]] \in Nat
        BY <1>c, <3>1
      <4>2. Code[t[l]] \in Nat /\ Code[u[l]] \in Nat
        BY <1>c, <3>1
      <4> QED BY <3>1, <3>3, <4>1, <4>2
    <3>5. Splits(s, u, l)
      BY <3>1, <3>2, <3>4 DEF Splits
    <3> QED BY <3>5, TextLessSplits
  <2> QED BY <2>3, <2>4
<1>3. ASSUME s # t PROVE TextLess(s, t) \/ TextLess(t, s)
  <2> DEFINE D == {k \in Nat : k \in 1 .. Len(s) /\ k \in 1 .. Len(t) /\ s[k] # t[k]}
  <2>1. CASE D = {}
    <3>1. \A k \in Nat : k \in 1 .. Len(s) /\ k \in 1 .. Len(t) => s[k] = t[k]
      BY <2>1
    <3>2. CASE Len(s) <= Len(t)
      <4>1. \A k \in 1 .. Len(s) : s[k] = t[k]
        BY <1>0, <3>1, <3>2
      <4>2. IsStrictPrefix(s, t)
        BY <1>3, <3>2, <4>1, PrefixMeans DEF IsStrictPrefix, Words
      <4> QED BY <4>2 DEF TextLess
    <3>3. CASE Len(t) <= Len(s)
      <4>1. \A k \in 1 .. Len(t) : t[k] = s[k]
        BY <1>0, <3>1, <3>3
      <4>2. IsStrictPrefix(t, s)
        BY <1>3, <3>3, <4>1, PrefixMeans DEF IsStrictPrefix, Words
      <4> QED BY <4>2 DEF TextLess
    <3> QED BY <1>0, <3>2, <3>3
  <2>2. CASE D # {}
    <3>1. PICK k \in D : \A j \in D : k <= j
      <4>1. D \subseteq Nat
        OBVIOUS
      <4> HIDE DEF D
      <4> QED BY <2>2, <4>1, Least
    <3>2. k \in Nat /\ k \in 1 .. Len(s) /\ k \in 1 .. Len(t) /\ s[k] # t[k]
      OBVIOUS
    <3>3. \A j \in 1 .. k - 1 : s[j] = t[j]
      <4>1. ASSUME NEW j \in 1 .. k - 1 PROVE s[j] = t[j]
        <5>1. j \in Nat /\ j \in 1 .. Len(s) /\ j \in 1 .. Len(t) /\ ~(k <= j)
          BY <1>0, <3>2
        <5> QED BY <3>1, <5>1
      <4> QED BY <4>1
    <3>4. Code[s[k]] # Code[t[k]] /\ Code[s[k]] \in Nat /\ Code[t[k]] \in Nat
      BY <1>0, <1>c, <3>2, CodeAssumption DEF IsInjective
    <3>5. CASE Code[s[k]] < Code[t[k]]
      <4>1. Splits(s, t, k)
        BY <1>0, <3>2, <3>3, <3>5 DEF Splits
      <4> QED BY <3>2, <4>1, TextLessSplits
    <3>6. CASE Code[t[k]] < Code[s[k]]
      <4>1. Splits(t, s, k)
        BY <1>0, <3>2, <3>3, <3>6 DEF Splits
      <4> QED BY <3>2, <4>1, TextLessSplits
    <3> QED BY <3>4, <3>5, <3>6
  <2> QED BY <2>1, <2>2
<1> QED BY <1>1, <1>2, <1>3

\* The members of a sequence at some positions, in their order.
LEMMA TakenAt ==
  ASSUME NEW seq, Len(seq) \in Nat, NEW P, P \subseteq 1 .. Len(seq)
  PROVE  \E at : /\ InOrder(at, P, Ascending(P))
                 /\ Taken(seq, P) = [i \in 1 .. Len(at) |-> seq[at[i]]]
<1> DEFINE before == Ascending(P)
           at == Arranged(P, before)
<1>1. IsFiniteSet(P)
  <2>1. IsFiniteSet(1 .. Len(seq))
    BY FS_Interval
  <2> QED BY <2>1, FS_Subset
<1>2. Orders(before, P)
  <2>1. P \subseteq Nat
    OBVIOUS
  <2> QED BY <2>1, PositionsOrdered
<1>3. InOrder(at, P, before)
  <2> HIDE DEF before
  <2> QED BY <1>1, <1>2, ArrangedLists
<1>4. Taken(seq, P) = [i \in DOMAIN at |-> seq[at[i]]]
  BY DEF Taken, Ascending
<1> HIDE DEF at, before
<1>5. DOMAIN at = 1 .. Len(at)
  BY <1>3 DEF InOrder
<1> QED BY <1>3, <1>4, <1>5 DEF before

\* What is taken of a list of texts.
LEMMA TakenTexts ==
  ASSUME NEW S, NEW seq \in Seq(S), NEW P \in SUBSET DOMAIN seq
  PROVE  /\ Taken(seq, P) \in Seq(S)
         /\ Range(Taken(seq, P)) = {seq[k] : k \in P}
<1>0. Len(seq) \in Nat /\ DOMAIN seq = 1 .. Len(seq)
  OBVIOUS
<1>1. PICK at : /\ InOrder(at, P, Ascending(P))
                /\ Taken(seq, P) = [i \in 1 .. Len(at) |-> seq[at[i]]]
  <2>1. P \subseteq 1 .. Len(seq)
    BY <1>0
  <2> QED BY <1>0, <2>1, TakenAt
<1>2. /\ Len(at) \in Nat /\ \A i \in 1 .. Len(at) : at[i] \in P
      /\ \A k \in P : \E i \in 1 .. Len(at) : at[i] = k
  BY <1>1 DEF InOrder
<1>3. \A i \in 1 .. Len(at) : seq[at[i]] \in S
  BY <1>0, <1>2
<1>4. [i \in 1 .. Len(at) |-> seq[at[i]]] \in Seq(S)
  BY <1>2, <1>3
<1>5. Range([i \in 1 .. Len(at) |-> seq[at[i]]]) = {seq[k] : k \in P}
  BY <1>2 DEF Range
<1> QED BY <1>1, <1>4, <1>5

\* What is taken of the elements of a list.
LEMMA TakenItems ==
  ASSUME NEW items, Itemized(items), NEW P \in SUBSET DOMAIN items
  PROVE  LET t == Taken(items, P)
         IN  /\ Len(t) \in Nat /\ DOMAIN t = 1 .. Len(t)
             /\ t = [k \in 1 .. Len(t) |-> t[k]]
             /\ \A k \in 1 .. Len(t) : \E j \in P : t[k] = items[j]
             /\ Itemized(t)
<1> DEFINE t == Taken(items, P)
<1>0. Len(items) \in Nat /\ DOMAIN items = 1 .. Len(items)
  BY DEF Itemized
<1>1. PICK at : /\ InOrder(at, P, Ascending(P))
                /\ t = [i \in 1 .. Len(at) |-> items[at[i]]]
  <2>1. P \subseteq 1 .. Len(items)
    BY <1>0
  <2> QED BY <1>0, <2>1, TakenAt
<1>2. Len(at) \in Nat /\ \A i \in 1 .. Len(at) : at[i] \in P
  BY <1>1 DEF InOrder
<1> HIDE DEF t
<1>3. DOMAIN t = 1 .. Len(at) /\ t = [k \in 1 .. Len(at) |-> t[k]]
  BY <1>1
<1>4. Len(t) = Len(at)
  BY <1>2, <1>3
<1>5. \A k \in 1 .. Len(at) : \E j \in P : t[k] = items[j]
  BY <1>1, <1>2
<1>6. \A k \in 1 .. Len(at) : Proper(t[k])
  BY <1>0, <1>5 DEF Itemized
<1>7. Itemized(t)
  BY <1>2, <1>3, <1>4, <1>6 DEF Itemized
<1>8. /\ Len(t) \in Nat /\ DOMAIN t = 1 .. Len(t)
      /\ t = [k \in 1 .. Len(t) |-> t[k]]
      /\ \A k \in 1 .. Len(t) : \E j \in P : t[k] = items[j]
  BY <1>2, <1>3, <1>4, <1>5
<1> QED BY <1>7, <1>8 DEF t

\* A list of values, from its elements.
LEMMA ItemizedProper ==
  ASSUME NEW items, Itemized(items)
  PROVE  Proper(VList(items))
BY ListProper DEF Itemized

\* The order that sort uses: that of the texts, then that of the positions.
SortOrder(texts) ==
  {p \in (DOMAIN texts) \X (DOMAIN texts) :
     \/ TextLess(texts[p[1]], texts[p[2]])
     \/ texts[p[1]] = texts[p[2]] /\ p[1] < p[2]}

\* It is a strict total order: texts that are equal keep their places.
LEMMA SortOrdered ==
  ASSUME NEW texts \in Seq(Words)
  PROVE  Orders(SortOrder(texts), DOMAIN texts)
<1> DEFINE D == DOMAIN texts
           before == SortOrder(texts)
<1>0. D \subseteq Nat /\ \A k \in D : texts[k] \in Words
  OBVIOUS
<1>1. \A x, y \in D : <<x, y>> \in before <=>
        TextLess(texts[x], texts[y]) \/ (texts[x] = texts[y] /\ x < y)
  BY DEF SortOrder
<1>2. \A x \in D : ~TextLess(texts[x], texts[x])
  BY <1>0, TextsOrdered
<1>3. \A x, y, z \in D : TextLess(texts[x], texts[y]) /\ TextLess(texts[y], texts[z])
                           => TextLess(texts[x], texts[z])
  BY <1>0, TextsOrdered
<1>4. \A x, y \in D : texts[x] = texts[y] \/ TextLess(texts[x], texts[y])
                                          \/ TextLess(texts[y], texts[x])
  BY <1>0, TextsOrdered
<1> HIDE DEF before, D
<1>5. \A x \in D : <<x, x>> \notin before
  BY <1>0, <1>1, <1>2
<1>6. \A x, y, z \in D : <<x, y>> \in before /\ <<y, z>> \in before => <<x, z>> \in before
  <2>1. ASSUME NEW x \in D, NEW y \in D, NEW z \in D, <<x, y>> \in before, <<y, z>> \in before
        PROVE  <<x, z>> \in before
    <3>1. CASE TextLess(texts[x], texts[y])
      BY <2>1, <3>1, <1>1, <1>3
    <3>2. CASE texts[x] = texts[y] /\ x < y
      <4>1. x \in Nat /\ y \in Nat /\ z \in Nat /\ (y < z => x < z)
        BY <1>0, <3>2
      <4> QED BY <2>1, <3>2, <4>1, <1>1
    <3> QED BY <2>1, <3>1, <3>2, <1>1
  <2> QED BY <2>1
<1>7. \A x, y \in D : x = y \/ <<x, y>> \in before \/ <<y, x>> \in before
  <2>1. \A x, y \in D : x = y \/ x < y \/ y < x
    BY <1>0
  <2> QED BY <2>1, <1>1, <1>4
<1>8. Orders(before, D)
  BY <1>5, <1>6, <1>7 DEF Orders
<1> QED BY <1>8 DEF before, D

\* sort
LEMMA SortedAt ==
  ASSUME NEW texts \in Seq(Words)
  PROVE  \E at : /\ InOrder(at, DOMAIN texts, SortOrder(texts))
                 /\ Sorted(texts) = [i \in 1 .. Len(at) |-> texts[at[i]]]
<1> DEFINE before == SortOrder(texts)
           at == Arranged(DOMAIN texts, before)
<1>1. IsFiniteSet(DOMAIN texts)
  <2>1. Len(texts) \in Nat /\ DOMAIN texts = 1 .. Len(texts)
    OBVIOUS
  <2> QED BY <2>1, FS_Interval
<1>2. InOrder(at, DOMAIN texts, before)
  <2>1. Orders(before, DOMAIN texts)
    BY SortOrdered
  <2> HIDE DEF before
  <2> QED BY <1>1, <2>1, ArrangedLists
<1>3. Sorted(texts) = [i \in DOMAIN at |-> texts[at[i]]]
  BY DEF Sorted, SortOrder
<1> HIDE DEF at
<1>4. DOMAIN at = 1 .. Len(at)
  BY <1>2 DEF InOrder
<1> QED BY <1>2, <1>3, <1>4

\* sort leaves the same texts, none before a smaller one.
LEMMA SortedTexts ==
  ASSUME NEW texts \in Seq(Words)
  PROVE  /\ Sorted(texts) \in Seq(Words)
         /\ Range(Sorted(texts)) = Range(texts)
         /\ \A k \in 1 .. Len(Sorted(texts)) - 1 : ~TextLess(Sorted(texts)[k + 1], Sorted(texts)[k])
<1> DEFINE s == Sorted(texts)
<1>1. PICK at : /\ InOrder(at, DOMAIN texts, SortOrder(texts))
                /\ s = [i \in 1 .. Len(at) |-> texts[at[i]]]
  BY SortedAt
<1>2. /\ Len(at) \in Nat /\ \A i \in 1 .. Len(at) : at[i] \in DOMAIN texts
      /\ \A k \in DOMAIN texts : \E i \in 1 .. Len(at) : at[i] = k
      /\ \A i, j \in 1 .. Len(at) : i < j => <<at[i], at[j]>> \in SortOrder(texts)
  BY <1>1 DEF InOrder
<1> HIDE DEF s
<1>3. \A i \in 1 .. Len(at) : texts[at[i]] \in Words
  BY <1>2
<1>4. s \in Seq(Words) /\ Len(s) = Len(at)
  BY <1>1, <1>2, <1>3
<1>5. Range(s) = Range(texts)
  BY <1>1, <1>2 DEF Range
<1>6. ASSUME NEW k \in 1 .. Len(s) - 1 PROVE ~TextLess(s[k + 1], s[k])
  <2>1. k \in 1 .. Len(at) /\ k + 1 \in 1 .. Len(at) /\ k < k + 1
    BY <1>2, <1>4
  <2>2. <<at[k], at[k + 1]>> \in SortOrder(texts)
    BY <1>2, <2>1
  <2>3. TextLess(s[k], s[k + 1]) \/ s[k] = s[k + 1]
    BY <1>1, <2>1, <2>2 DEF SortOrder
  <2>4. s[k] \in Words /\ s[k + 1] \in Words
    BY <1>1, <1>3, <2>1
  <2> QED BY <2>3, <2>4, TextsOrdered
<1> QED BY <1>4, <1>5, <1>6 DEF s

-----------------------------------------------------------------------------
(* The context operations give values.                                     *)

\* Integers of any size, cut to 64 bits.
LEMMA SaturatedTyped ==
  ASSUME NEW n \in Int
  PROVE  Saturated(n) \in Integers64
BY IntLimitAssumption DEF Saturated, Integers64

\* Conversion by `as i64`.
LEMMA WrappedTyped ==
  ASSUME NEW n \in Int
  PROVE  Wrapped(n) \in Integers64
<1>1. IntLimit \in Nat /\ IntLimit > 0
  BY IntLimitAssumption
<1>2. (n + IntLimit) % (2 * IntLimit) \in 0 .. 2 * IntLimit - 1
  <2>1. 2 * IntLimit \in Nat /\ 2 * IntLimit > 0 /\ n + IntLimit \in Int
    BY <1>1
  <2>2. \A x \in Int, y \in Nat : y > 0 => x % y \in 0 .. y - 1
    OBVIOUS
  <2> HIDE <1>1
  <2> QED BY <2>1, <2>2
<1>3. \A x \in 0 .. 2 * IntLimit - 1 : x - IntLimit \in -IntLimit .. IntLimit - 1
  BY <1>1
<1> QED BY <1>2, <1>3 DEF Wrapped, Integers64

\* A quotient comes no further from zero than the dividend.
LEMMA QuotientBounded ==
  ASSUME NEW m \in Int, NEW n \in Int, n # 0
  PROVE  /\ Quotient(m, n) \in Int
         /\ m < 0  => Quotient(m, n) \in m .. -m
         /\ m >= 0 => Quotient(m, n) \in -m .. m
<1> DEFINE Abs(k) == IF k < 0 THEN -k ELSE k
           q == Abs(m) \div Abs(n)
<1>1. Abs(m) \in Nat /\ Abs(n) \in Nat /\ Abs(n) > 0
  OBVIOUS
<1>2. \A x, y \in Nat : y > 0 => x \div y \in 0 .. x
  <2>1. ASSUME NEW x \in Nat, NEW y \in Nat, y > 0 PROVE x \div y \in 0 .. x
    <3>1. x \div y \in Int /\ y * (x \div y) <= x /\ x < y * (x \div y + 1)
      BY <2>1
    <3>2. \A d \in Int : y * d <= x /\ x < y * (d + 1) => d \in 0 .. x
      BY <2>1
    <3> QED BY <3>1, <3>2
  <2> QED BY <2>1
<1>3. q \in 0 .. Abs(m)
  <2> HIDE DEF Abs
  <2> QED BY <1>1, <1>2
<1>4. Quotient(m, n) = IF (m < 0) = (n < 0) THEN q ELSE -q
  BY DEF Quotient
<1> HIDE DEF q
<1>5. q \in Int /\ 0 <= q /\ (m < 0 => q <= -m) /\ (m >= 0 => q <= m)
  BY <1>1, <1>3
<1>6. Quotient(m, n) = q \/ Quotient(m, n) = -q
  BY <1>4
<1> QED BY <1>5, <1>6

\* Two values in one closed set.
LEMMA TogetherClosed ==
  ASSUME NEW a, Proper(a), NEW b, Proper(b)
  PROVE  \E U : Closed(U) /\ a \in U /\ b \in U
<1>1. PICK U : Closed(U) /\ a \in U
  BY DEF Proper
<1>2. PICK W : Closed(W) /\ b \in W
  BY DEF Proper
<1> DEFINE F == {U, W}
<1>3. \A V \in F : Closed(V)
  BY <1>1, <1>2
<1>4. a \in UNION F /\ b \in UNION F
  BY <1>1, <1>2
<1> HIDE DEF F
<1>5. Closed(UNION F)
  BY <1>3, UnionClosed
<1> QED BY <1>4, <1>5

\* The elements of a list come from its closed set.
LEMMA ItemsIn ==
  ASSUME NEW U, Closed(U), NEW v \in U, v.type = "list"
  PROVE  v.items \in Seq(U)
<1>1. WellFormed(v, U) /\ VNull.type = "null"
  BY DEF Closed, VNull
<1> QED BY <1>1 DEF WellFormed

\* A sequence of members of a closed set makes a list.
LEMMA SeqProper ==
  ASSUME NEW U, Closed(U), NEW s \in Seq(U)
  PROVE  Proper(VList(s))
<1>1. VList(s).type = "list" /\ VList(s).items = s
  BY DEF VList
<1>2. WellFormed(VList(s), U)
  BY <1>1 DEF WellFormed
<1> QED BY <1>2, MadeOfProper

\* add
LEMMA AddProper ==
  ASSUME NEW a, Proper(a), NEW b, Proper(b)
  PROVE  Proper(OpsAdd(a, b))
<1>1. CASE BothInts(a, b)
  <2>1. a.n \in Int /\ b.n \in Int
    <3>1. a.n \in Integers64 /\ b.n \in Integers64
      BY <1>1, VariantsProper DEF BothInts
    <3> QED BY <3>1, IntLimitAssumption DEF Integers64
  <2>2. Saturated(a.n + b.n) \in Integers64
    BY <2>1, SaturatedTyped
  <2>3. OpsAdd(a, b) = VInt(Saturated(a.n + b.n))
    BY <1>1 DEF OpsAdd, BothInts
  <2> QED BY <2>2, <2>3, IntProper
<1>2. CASE a.type = "str" /\ b.type = "str"
  <2>1. a.text \in Words /\ b.text \in Words
    BY <1>2, VariantsProper
  <2>2. a.text \o b.text \in Words
    BY <2>1, ConcatProperties DEF Words
  <2>3. OpsAdd(a, b) = VStr(a.text \o b.text)
    BY <1>2 DEF OpsAdd, BothInts
  <2> QED BY <2>2, <2>3, StrProper
<1>3. CASE a.type = "list" /\ b.type = "list"
  <2>1. PICK U : Closed(U) /\ a \in U /\ b \in U
    BY TogetherClosed
  <2>2. a.items \in Seq(U) /\ b.items \in Seq(U)
    BY <1>3, <2>1, ItemsIn
  <2>3. a.items \o b.items \in Seq(U)
    BY <2>2, ConcatProperties
  <2>4. OpsAdd(a, b) = VList(a.items \o b.items)
    BY <1>3 DEF OpsAdd, BothInts
  <2> QED BY <2>1, <2>3, <2>4, SeqProper
<1>4. CASE ~BothInts(a, b) /\ ~(a.type = "str" /\ b.type = "str") /\ ~(a.type = "list" /\ b.type = "list")
  <2>1. OpsAdd(a, b) = b
    BY <1>4 DEF OpsAdd
  <2> QED BY <2>1
<1> QED BY <1>1, <1>2, <1>3, <1>4

\* sub, mul and div
LEMMA ArithmeticProper ==
  ASSUME NEW a, Proper(a), NEW b, Proper(b)
  PROVE  Proper(OpsSub(a, b)) /\ Proper(OpsMul(a, b)) /\ Proper(OpsDiv(a, b))
<1>1. CASE BothInts(a, b)
  <2>1. a.n \in Integers64 /\ b.n \in Integers64 /\ a.n \in Int /\ b.n \in Int
    <3>1. a.n \in Integers64 /\ b.n \in Integers64
      BY <1>1, VariantsProper DEF BothInts
    <3> QED BY <3>1, IntLimitAssumption DEF Integers64
  <2>2. Proper(OpsSub(a, b))
    <3>1. a.n - b.n \in Int
      BY <2>1
    <3> QED BY <1>1, <3>1, SaturatedTyped, IntProper DEF OpsSub
  <2>3. Proper(OpsMul(a, b))
    <3>1. a.n * b.n \in Int
      BY <2>1
    <3> QED BY <1>1, <3>1, SaturatedTyped, IntProper DEF OpsMul
  <2>4. Proper(OpsDiv(a, b))
    <3>1. CASE b.n # 0 /\ Quotient(a.n, b.n) < IntLimit
      <4> DEFINE q == Quotient(a.n, b.n)
      <4>1. q \in Int /\ (a.n < 0 => q \in a.n .. -a.n) /\ (a.n >= 0 => q \in -a.n .. a.n)
        BY <2>1, <3>1, QuotientBounded
      <4>2. q < IntLimit
        BY <3>1
      <4> HIDE DEF q
      <4>3. q \in Integers64
        BY <2>1, <4>1, <4>2, IntLimitAssumption DEF Integers64
      <4> QED BY <1>1, <3>1, <4>3, IntProper DEF OpsDiv, q
    <3>2. CASE ~(b.n # 0 /\ Quotient(a.n, b.n) < IntLimit)
      BY <3>2 DEF OpsDiv
    <3> QED BY <3>1, <3>2
  <2> QED BY <2>2, <2>3, <2>4
<1>2. CASE ~BothInts(a, b)
  BY <1>2 DEF OpsSub, OpsMul, OpsDiv
<1> QED BY <1>1, <1>2

\* append, remove and length
LEMMA ListOpsProper ==
  ASSUME NEW a, Proper(a), NEW b, Proper(b)
  PROVE  Proper(OpsAppend(a, b)) /\ Proper(OpsRemove(a, b)) /\ Proper(OpsLength(b))
<1>1. Proper(OpsAppend(a, b))
  <2>1. PICK U : Closed(U) /\ a \in U /\ b \in U
    BY TogetherClosed
  <2>2. CASE b = VNull
    BY <2>2 DEF OpsAppend
  <2>3. CASE b # VNull /\ a.type = "list"
    <3>1. Append(a.items, b) \in Seq(U)
      BY <2>1, <2>3, ItemsIn, AppendProperties
    <3>2. OpsAppend(a, b) = VList(Append(a.items, b))
      BY <2>3 DEF OpsAppend
    <3> QED BY <2>1, <3>1, <3>2, SeqProper
  <2>4. CASE b # VNull /\ a.type # "list"
    <3>1. <<a, b>> \in Seq(U)
      BY <2>1
    <3>2. OpsAppend(a, b) = VList(<<a, b>>)
      BY <2>4 DEF OpsAppend
    <3> QED BY <2>1, <3>1, <3>2, SeqProper
  <2> QED BY <2>2, <2>3, <2>4
<1>2. Proper(OpsRemove(a, b))
  <2>1. CASE a.type = "list"
    <3> DEFINE P == {k \in DOMAIN a.items : a.items[k] # b}
    <3>1. Itemized(a.items)
      BY <2>1, ItemsProper DEF Itemized
    <3>2. P \in SUBSET DOMAIN a.items
      OBVIOUS
    <3> HIDE DEF P
    <3>3. Itemized(Taken(a.items, P))
      BY <3>1, <3>2, TakenItems
    <3>4. Proper(VList(Taken(a.items, P)))
      BY <3>3, ItemizedProper
    <3> QED BY <2>1, <3>4 DEF OpsRemove, P
  <2>2. CASE a.type # "list"
    BY <2>2 DEF OpsRemove
  <2> QED BY <2>1, <2>2
<1>3. Proper(OpsLength(b))
  <2>1. CASE b.type = "list"
    <3>1. Len(b.items) \in Int
      BY <2>1, ItemsProper
    <3> QED BY <2>1, <3>1, WrappedTyped, IntProper DEF OpsLength
  <2>2. CASE b.type # "list"
    <3>1. 0 \in Integers64
      BY IntLimitAssumption DEF Integers64
    <3> QED BY <2>2, <3>1, IntProper DEF OpsLength
  <2> QED BY <2>1, <2>2
<1> QED BY <1>1, <1>2, <1>3

\* get_context_operation
LEMMA ContextOpProper ==
  ASSUME NEW name, NEW a, Proper(a), NEW b, Proper(b)
  PROVE  Proper(ContextOp(name, a, b))
<1>1. ContextOp(name, a, b) \in {OpsAdd(a, b), OpsSub(a, b), OpsMul(a, b), OpsDiv(a, b),
                                 OpsAppend(a, b), OpsRemove(a, b), OpsLength(b), b}
  BY DEF ContextOp
<1> QED BY <1>1, AddProper, ArithmeticProper, ListOpsProper

-----------------------------------------------------------------------------
(* Every state holds values.                                               *)

DataInv == Proper(VObj(data))

\* Parameters are values; what is not given counts as Null.
LEMMA GivenProper ==
  /\ \A v \in Attrs : Proper(v)
  /\ \A v \in Operands \cup Lists \cup Indexes : Proper(OrElse(v, VNull))
<1>1. \A v \in Attrs : Proper(v)
  BY ValuesAssumption, SoundProper
<1>2. ASSUME NEW v \in Operands \cup Lists \cup Indexes PROVE Proper(OrElse(v, VNull))
  <2>1. CASE v = None
    BY <2>1, NullProper DEF OrElse
  <2>2. CASE v # None
    <3>1. Sound(v)
      BY <2>2, ValuesAssumption
    <3> QED BY <2>2, <3>1, SoundProper DEF OrElse
  <2> QED BY <2>1, <2>2
<1> QED BY <1>1, <1>2

\* A list of texts is a value.
LEMMA TextsProper ==
  ASSUME NEW texts \in Seq(Words)
  PROVE  Proper(Texts(texts))
<1> DEFINE items == [k \in DOMAIN texts |-> VStr(texts[k])]
<1>1. /\ Len(texts) \in Nat /\ DOMAIN texts = 1 .. Len(texts)
      /\ \A k \in 1 .. Len(texts) : texts[k] \in Words
  OBVIOUS
<1>2. /\ DOMAIN items = 1 .. Len(texts)
      /\ items = [k \in 1 .. Len(texts) |-> items[k]]
      /\ \A k \in 1 .. Len(texts) : Proper(items[k])
  BY <1>1, StrProper
<1> HIDE DEF items
<1>3. Proper(VList(items))
  BY <1>1, <1>2, ListProper
<1> QED BY <1>3 DEF Texts, items

\* What a string parameter leads to, with or without a dollar.
LEMMA PathInTyped ==
  ASSUME NEW v, Proper(v), IsStr(v)
  PROVE  v.text \in Words /\ PathIn(v) \in Words
<1>1. v.text \in Words
  BY VariantsProper DEF IsStr
<1>2. v.text # <<>> => Tail(v.text) \in Words
  BY <1>1, HeadTailProperties DEF Words
<1> QED BY <1>1, <1>2 DEF PathIn

\* extract_string_list
LEMMA StringListTyped ==
  ASSUME DataInv, NEW given, Proper(OrElse(given, VNull))
  PROVE  StringList(given) \in Seq(Words)
<1> DEFINE v == ResolvePath(data, OrElse(given, VNull))
           list == IF IsStr(v) THEN GetPath(data, PathIn(v)) ELSE v
           P == {k \in DOMAIN list.items : IsStr(list.items[k])}
           strings == Taken(list.items, P)
<1>1. Proper(v)
  BY ResolveProper DEF DataInv
<1>2. Maybe(list)
  <2> HIDE DEF v
  <2> QED BY <1>1, PathInTyped, GetProper DEF DataInv, Maybe
<1>3. StringList(given) =
        IF list.type = "list" THEN [k \in DOMAIN strings |-> strings[k].text] ELSE <<>>
  BY DEF StringList
<1> HIDE DEF list
<1>4. CASE list.type = "list"
  <2>1. Proper(list)
    BY <1>2, <1>4 DEF Maybe, None
  <2>2. Itemized(list.items)
    BY <1>4, <2>1, ItemsProper DEF Itemized
  <2>3. P \in SUBSET DOMAIN list.items
    OBVIOUS
  <2>4. \A j \in P : Proper(list.items[j]) /\ IsStr(list.items[j])
    BY <2>2 DEF Itemized
  <2> HIDE DEF P
  <2>5. /\ Len(strings) \in Nat /\ DOMAIN strings = 1 .. Len(strings)
        /\ \A k \in 1 .. Len(strings) : \E j \in P : strings[k] = list.items[j]
    BY <2>2, <2>3, TakenItems
  <2> HIDE DEF strings
  <2>6. \A k \in 1 .. Len(strings) : strings[k].text \in Words
    <3>1. ASSUME NEW k \in 1 .. Len(strings) PROVE strings[k].text \in Words
      <4>1. Proper(strings[k]) /\ IsStr(strings[k])
        BY <2>4, <2>5
      <4> QED BY <4>1, PathInTyped
    <3> QED BY <3>1
  <2>7. [k \in 1 .. Len(strings) |-> strings[k].text] \in Seq(Words)
    BY <2>5, <2>6
  <2> QED BY <1>3, <1>4, <2>5, <2>7
<1>5. CASE list.type # "list"
  BY <1>3, <1>5, EmptySeq
<1> QED BY <1>4, <1>5

\* set_path at the end of a primitive keeps to values.
LEMMA WriteProper ==
  ASSUME DataInv, NEW path \in Words, NEW v, Proper(v), Write(path, v)
  PROVE  DataInv'
<1>1. Proper(VObj(SetPath(data, path, v)))
  BY SetProper DEF DataInv
<1>2. data' = SetPath(data, path, v)
  BY DEF Write
<1> QED BY <1>1, <1>2 DEF DataInv

\* A value written to the path that attr leads to.
LEMMA WriteAttrProper ==
  ASSUME DataInv, NEW attr \in Attrs, NEW v, Proper(v), WriteAttr(attr, v)
  PROVE  DataInv'
<1> DEFINE a == ResolvePath(data, attr)
<1>1. Proper(a)
  BY GivenProper, ResolveProper DEF DataInv
<1>2. IsStr(a) /\ Write(a.text, v)
  BY DEF WriteAttr
<1> HIDE DEF a
<1>3. a.text \in Words
  BY <1>1, <1>2, PathInTyped
<1> QED BY <1>2, <1>3, WriteProper

\* The new value of state_compute and set_context.
LEMMA CombineProper ==
  ASSUME DataInv, NEW attr \in Attrs, NEW name, NEW value \in Operands,
         IsStr(ResolvePath(data, attr))
  PROVE  Proper(Combine(attr, name, value))
<1> DEFINE a == ResolvePath(data, attr)
           old == OrElse(GetPath(data, a.text), VNull)
           b == ResolvePath(data, OrElse(value, VNull))
<1>1. Proper(a)
  BY GivenProper, ResolveProper DEF DataInv
<1>2. Proper(b)
  BY GivenProper, ResolveProper DEF DataInv
<1>3. Proper(old)
  <2>1. a.text \in Words
    <3>1. IsStr(a)
      OBVIOUS
    <3> HIDE DEF a
    <3> QED BY <1>1, <3>1, PathInTyped
  <2> HIDE DEF a
  <2>2. Maybe(GetPath(data, a.text))
    BY <2>1, GetProper DEF DataInv
  <2> QED BY <2>2, NullProper DEF OrElse, Maybe
<1>4. Combine(attr, name, value) = ContextOp(name, old, b)
  BY DEF Combine
<1> HIDE DEF old, b
<1> QED BY <1>2, <1>3, <1>4, ContextOpProper

\* Texts in the order of their bytes.
LEMMA TextsArranged ==
  ASSUME NEW T, IsFiniteSet(T), T \subseteq Words
  PROVE  /\ InOrder(Arranged(T, TextOrder(T)), T, TextOrder(T))
         /\ Arranged(T, TextOrder(T)) \in Seq(Words)
         /\ Range(Arranged(T, TextOrder(T))) = T
<1> DEFINE before == TextOrder(T)
           s == Arranged(T, before)
<1>1. \A x, y \in T : <<x, y>> \in before <=> TextLess(x, y)
  BY DEF TextOrder
<1> HIDE DEF before
<1>2. \A x, y, z \in T : /\ ~TextLess(x, x)
                         /\ TextLess(x, y) /\ TextLess(y, z) => TextLess(x, z)
                         /\ x = y \/ TextLess(x, y) \/ TextLess(y, x)
  BY TextsOrdered
<1>3. Orders(before, T)
  BY <1>1, <1>2 DEF Orders
<1>4. InOrder(s, T, before)
  BY <1>3, ArrangedLists
<1> HIDE DEF s
<1>5. /\ Len(s) \in Nat /\ DOMAIN s = 1 .. Len(s) /\ s = [i \in 1 .. Len(s) |-> s[i]]
      /\ \A i \in 1 .. Len(s) : s[i] \in T
      /\ \A x \in T : \E i \in 1 .. Len(s) : s[i] = x
  BY <1>4 DEF InOrder
<1>6. s \in [1 .. Len(s) -> Words]
  BY <1>5
<1>7. s \in Seq(Words)
  BY <1>5, <1>6
<1>8. Range(s) = T
  BY <1>5 DEF Range
<1> QED BY <1>4, <1>7, <1>8 DEF s, before

\* A sequence has finitely many members.
LEMMA RangeFinite ==
  ASSUME NEW S, NEW s \in Seq(S)
  PROVE  IsFiniteSet(Range(s))
<1> DEFINE f == [k \in 1 .. Len(s) |-> s[k]]
<1>1. Len(s) \in Nat /\ IsFiniteSet(1 .. Len(s))
  <2>1. Len(s) \in Nat
    OBVIOUS
  <2> QED BY <2>1, FS_Interval
<1>2. Range(s) = {s[k] : k \in 1 .. Len(s)}
  BY RangeEquality
<1>3. f \in Surjection(1 .. Len(s), Range(s))
  BY <1>2 DEF Surjection
<1> QED BY <1>1, <1>3, FS_Surjection

\* What set_intersection, set_diff and set_union work on are texts again.
LEMMA SetOpsTyped ==
  ASSUME NEW a \in Seq(Words), NEW b \in Seq(Words)
  PROVE  /\ Intersection(a, b) \in Seq(Words)
         /\ Difference(a, b) \in Seq(Words)
         /\ Union(a, b) \in Seq(Words)
<1>1. Common(b, Range(a)) \in Seq(Words)
  <2> DEFINE P == {k \in DOMAIN b : b[k] \in Range(a)}
  <2>1. P \in SUBSET DOMAIN b
    OBVIOUS
  <2> HIDE DEF P
  <2>2. Taken(b, P) \in Seq(Words)
    BY <2>1, TakenTexts
  <2> QED BY <2>2 DEF Common, P
<1>2. Other(a, Range(b)) \in Seq(Words)
  <2> DEFINE P == {k \in DOMAIN a : a[k] \notin Range(b)}
  <2>1. P \in SUBSET DOMAIN a
    OBVIOUS
  <2> HIDE DEF P
  <2>2. Taken(a, P) \in Seq(Words)
    BY <2>1, TakenTexts
  <2> QED BY <2>2 DEF Other, P
<1>3. Union(a, b) \in Seq(Words)
  <2> DEFINE both == Range(a) \cup Range(b)
  <2>1. IsFiniteSet(Range(a)) /\ IsFiniteSet(Range(b))
    BY RangeFinite
  <2>2. IsFiniteSet(both)
    BY <2>1, FS_Union
  <2>3. both \subseteq Words
    BY RangeOfSeq
  <2> HIDE DEF both
  <2>4. Arranged(both, TextOrder(both)) \in Seq(Words)
    BY <2>2, <2>3, TextsArranged
  <2> QED BY <2>4 DEF Union, both
<1> QED BY <1>1, <1>2, <1>3, SortedTexts DEF Intersection, Difference

\* An element of a list, or Null.
LEMMA ElementProper ==
  ASSUME NEW items, Itemized(items), NEW i \in Int
  PROVE  Proper(Element(items, i))
<1> DEFINE k == IF i < 0 THEN Len(items) + i ELSE i
<1>1. Len(items) \in Nat
  BY DEF Itemized
<1>2. k \in Int
  BY <1>1
<1>3. Element(items, i) = IF k \in 0 .. Len(items) - 1 THEN items[k + 1] ELSE VNull
  BY DEF Element
<1> HIDE DEF k
<1>4. k \in 0 .. Len(items) - 1 => k + 1 \in 1 .. Len(items)
  BY <1>1, <1>2
<1> QED BY <1>3, <1>4, NullProper DEF Itemized

\* An index that is given.
LEMMA IndexTyped ==
  ASSUME DataInv, NEW index \in Indexes
  PROVE  IndexGiven(index) \in Int
<1> DEFINE i == ResolvePath(data, OrElse(index, VNull))
           n == IF IsStr(i) THEN GetPath(data, PathIn(i)) ELSE i
<1>1. Proper(i)
  BY GivenProper, ResolveProper DEF DataInv
<1>2. Maybe(n)
  <2> HIDE DEF i
  <2> QED BY <1>1, PathInTyped, GetProper DEF DataInv, Maybe
<1>3. IndexGiven(index) = IF n.type = "int" THEN n.n ELSE 0
  BY DEF IndexGiven
<1> HIDE DEF n
<1>4. n.type = "int" => n.n \in Integers64
  <2>1. None.type # "int"
    BY DEF None
  <2> QED BY <1>2, <2>1, VariantsProper DEF Maybe
<1> QED BY <1>3, <1>4, IntLimitAssumption DEF Integers64

\* get_index, object_keys and the operations on sets.
LEMMA GetIndexProper ==
  ASSUME DataInv, GetIndex
  PROVE  DataInv'
<1>1. PICK ref \in Lists, index \in Indexes :
        LET r == ResolvePath(data, OrElse(ref, VNull))
            list == IF IsStr(r) THEN GetPath(data, PathIn(r)) ELSE None
        IN  Write(<<"item">>,
                  IF list.type = "list" THEN Element(list.items, IndexGiven(index)) ELSE VNull)
  BY DEF GetIndex
<1> DEFINE r == ResolvePath(data, OrElse(ref, VNull))
           list == IF IsStr(r) THEN GetPath(data, PathIn(r)) ELSE None
           v == IF list.type = "list" THEN Element(list.items, IndexGiven(index)) ELSE VNull
<1>2. Proper(r)
  BY GivenProper, ResolveProper DEF DataInv
<1>3. Maybe(list)
  <2> HIDE DEF r
  <2> QED BY <1>2, PathInTyped, GetProper DEF DataInv, Maybe
<1>4. Proper(v)
  <2> HIDE DEF list
  <2>1. CASE list.type = "list"
    <3>1. Proper(list)
      BY <1>3, <2>1 DEF Maybe, None
    <3>2. Itemized(list.items)
      BY <2>1, <3>1, ItemsProper DEF Itemized
    <3> QED BY <2>1, <3>2, IndexTyped, ElementProper
  <2> QED BY <2>1, NullProper
<1>5. Write(<<"item">>, v)
  BY <1>1
<1> HIDE DEF v
<1>6. <<"item">> \in Words
  BY ValuesAssumption DEF Words
<1> QED BY <1>4, <1>5, <1>6, WriteProper

\* object_keys writes a list of texts.
LEMMA ObjectKeysProper ==
  ASSUME DataInv, ObjectKeys
  PROVE  DataInv'
<1>1. PICK ref \in Lists :
        LET r == ResolvePath(data, OrElse(ref, VNull))
            object == IF IsStr(r) THEN GetPath(data, PathIn(r)) ELSE r
        IN  Write(<<"keys">>,
                  Texts(IF object.type = "obj" THEN SortedKeys(object.fields) ELSE <<>>))
  BY DEF ObjectKeys
<1> DEFINE r == ResolvePath(data, OrElse(ref, VNull))
           object == IF IsStr(r) THEN GetPath(data, PathIn(r)) ELSE r
           keys == IF object.type = "obj" THEN SortedKeys(object.fields) ELSE <<>>
<1>2. Proper(r)
  BY GivenProper, ResolveProper DEF DataInv
<1>3. Maybe(object)
  <2> HIDE DEF r
  <2> QED BY <1>2, PathInTyped, GetProper DEF DataInv, Maybe
<1>4. keys \in Seq(Words)
  <2> HIDE DEF object
  <2>1. CASE object.type = "obj"
    <3>1. Proper(object)
      BY <1>3, <2>1 DEF Maybe, None
    <3>2. IsFiniteSet(DOMAIN object.fields) /\ DOMAIN object.fields \subseteq Words
      BY <2>1, <3>1, FieldsProper
    <3>3. SortedKeys(object.fields) \in Seq(Words)
      BY <3>2, TextsArranged DEF SortedKeys
    <3> QED BY <2>1, <3>3
  <2> QED BY <2>1, EmptySeq
<1>5. Write(<<"keys">>, Texts(keys))
  BY <1>1
<1> HIDE DEF keys
<1>6. <<"keys">> \in Words
  BY ValuesAssumption DEF Words
<1>7. Proper(Texts(keys))
  BY <1>4, TextsProper
<1> QED BY <1>5, <1>6, <1>7, WriteProper

\* So do the set operations.
LEMMA SetOperationProper ==
  ASSUME DataInv, SetOperation
  PROVE  DataInv'
<1>1. PICK a \in Lists, b \in Lists :
        LET A == StringList(a)
            B == StringList(b)
        IN  \/ Write(<<"intersection">>, Texts(Intersection(A, B)))
            \/ Write(<<"diff">>, Texts(Difference(A, B)))
            \/ Write(<<"union">>, Texts(Union(A, B)))
  BY DEF SetOperation
<1> DEFINE A == StringList(a)
           B == StringList(b)
<1>2. A \in Seq(Words) /\ B \in Seq(Words)
  BY GivenProper, StringListTyped
<1>3. \/ Write(<<"intersection">>, Texts(Intersection(A, B)))
      \/ Write(<<"diff">>, Texts(Difference(A, B)))
      \/ Write(<<"union">>, Texts(Union(A, B)))
  BY <1>1
<1> HIDE DEF A, B
<1>4. /\ Proper(Texts(Intersection(A, B)))
      /\ Proper(Texts(Difference(A, B)))
      /\ Proper(Texts(Union(A, B)))
  BY <1>2, SetOpsTyped, TextsProper
<1>5. <<"intersection">> \in Words /\ <<"diff">> \in Words /\ <<"union">> \in Words
  BY ValuesAssumption DEF Words
<1> QED BY <1>3, <1>4, <1>5, WriteProper

\* Every action keeps to values.
LEMMA NextProper ==
  ASSUME DataInv, [Next]_vars
  PROVE  DataInv'
<1>1. CASE StateSet
  <2>1. PICK attr \in Attrs, value \in Operands :
          WriteAttr(attr, ResolvePath(data, OrElse(value, VNull)))
    BY <1>1 DEF StateSet
  <2>2. Proper(ResolvePath(data, OrElse(value, VNull)))
    BY GivenProper, ResolveProper DEF DataInv
  <2> QED BY <2>1, <2>2, WriteAttrProper
<1>2. ASSUME NEW attr \in Attrs, NEW name, NEW value \in Operands,
             IsStr(ResolvePath(data, attr)),
             WriteAttr(attr, Combine(attr, name, value))
      PROVE  DataInv'
  BY <1>2, CombineProper, WriteAttrProper
<1>3. CASE StateCompute
  <2>1. PICK attr \in Attrs, value \in Operands : \E name :
          /\ IsStr(ResolvePath(data, attr))
          /\ WriteAttr(attr, Combine(attr, name, value))
    BY <1>3 DEF StateCompute
  <2> QED BY <2>1, <1>2
<1>4. CASE SetContext
  <2>1. PICK attr \in Attrs, value \in Operands : \E name :
          /\ IsStr(ResolvePath(data, attr))
          /\ WriteAttr(attr, Combine(attr, name, value))
    BY <1>4 DEF SetContext
  <2> QED BY <2>1, <1>2
<1>5. CASE UNCHANGED vars
  BY <1>5 DEF vars, DataInv
<1> QED
  BY <1>1, <1>3, <1>4, <1>5, GetIndexProper, ObjectKeysProper, SetOperationProper
  DEF Next, Ended

(* The state of a rule program never leaves the values there are: whatever *)
(* a primitive computes from what and writes where, through objects and    *)
(* lists, every integer of the state is an i64, every key a text, and a    *)
(* list has no hole.                                                       *)
THEOREM StateHoldsValues == Spec => []DataInv
<1>1. Init => DataInv
  BY ValuesAssumption, SoundProper DEF Init, DataInv
<1>2. DataInv /\ [Next]_vars => DataInv'
  BY NextProper
<1> QED BY <1>1, <1>2, PTL DEF Spec

-----------------------------------------------------------------------------
(* The version tells a change.                                             *)

\* A write that changes something is counted.
LEMMA WriteCounts ==
  ASSUME NEW path \in Words, NEW v, Write(path, v), data' # data
  PROVE  version' = version + 1
<1>1. Counted(data, path)
  BY UncountedKeeps DEF Write
<1> QED BY <1>1 DEF Write

\* Every action ends in a write along a text.
LEMMA NextWrites ==
  ASSUME DataInv, Next
  PROVE  UNCHANGED vars \/ \E path \in Words : \E v : Write(path, v)
<1>1. ASSUME NEW attr \in Attrs, NEW v, WriteAttr(attr, v)
      PROVE  \E path \in Words : \E w : Write(path, w)
  <2> DEFINE a == ResolvePath(data, attr)
  <2>1. Proper(a)
    BY GivenProper, ResolveProper DEF DataInv
  <2>2. IsStr(a) /\ Write(a.text, v)
    BY <1>1 DEF WriteAttr
  <2> HIDE DEF a
  <2>3. a.text \in Words
    BY <2>1, <2>2, PathInTyped
  <2> QED BY <2>2, <2>3
<1>2. CASE StateSet
  <2>1. \E attr \in Attrs : \E v : WriteAttr(attr, v)
    BY <1>2 DEF StateSet
  <2> QED BY <1>1, <2>1
<1>3. CASE StateCompute
  <2>1. \E attr \in Attrs : \E v : WriteAttr(attr, v)
    BY <1>3 DEF StateCompute
  <2> QED BY <1>1, <2>1
<1>4. CASE SetContext
  <2>1. \E attr \in Attrs : \E v : WriteAttr(attr, v)
    BY <1>4 DEF SetContext
  <2> QED BY <1>1, <2>1
<1>5. /\ <<"item">> \in Words /\ <<"keys">> \in Words /\ <<"union">> \in Words
      /\ <<"intersection">> \in Words /\ <<"diff">> \in Words
  BY ValuesAssumption DEF Words
<1>6. CASE GetIndex
  <2>1. \E v : Write(<<"item">>, v)
    BY <1>6 DEF GetIndex
  <2> QED BY <1>5, <2>1
<1>7. CASE ObjectKeys
  <2>1. \E v : Write(<<"keys">>, v)
    BY <1>7 DEF ObjectKeys
  <2> QED BY <1>5, <2>1
<1>8. CASE SetOperation
  <2>1. \E v : Write(<<"intersection">>, v) \/ Write(<<"diff">>, v) \/ Write(<<"union">>, v)
    BY <1>8 DEF SetOperation
  <2> QED BY <1>5, <2>1
<1> QED BY <1>2, <1>3, <1>4, <1>6, <1>7, <1>8 DEF Next, Ended

(* No change of the data goes without a step of the version, which is what *)
(* execute_until_stable looks at.                                          *)
THEOREM VersionTells == Spec => VersionTellsChange
<1>1. DataInv /\ [Next]_vars => [data' # data => version' = version + 1]_vars
  <2>1. SUFFICES ASSUME DataInv, Next, data' # data PROVE version' = version + 1
    BY DEF vars
  <2>2. PICK path \in Words : \E v : Write(path, v)
    BY <2>1, NextWrites DEF vars
  <2> QED BY <2>1, <2>2, WriteCounts
<1>2. Spec => []DataInv
  BY StateHoldsValues
<1> QED BY <1>1, <1>2, PTL DEF Spec, VersionTellsChange

-----------------------------------------------------------------------------
(* No integer wraps around.                                                *)

\* What is inside a value has its integers in range.
LEMMA IntegersTyped ==
  ASSUME NEW v, Proper(v)
  PROVE  IntegersIn(v) \subseteq Integers64
<1>1. PICK U : Closed(U) /\ v \in U
  BY DEF Proper
<1>2. Inside(v, MaxNesting) \subseteq U
  BY <1>1, InsideClosed, BoundAssumption
<1>3. \A w \in U : w.type = "int" => w.n \in Integers64
  BY <1>1, VariantsProper DEF Proper
<1> QED BY <1>2, <1>3 DEF IntegersIn

\* Nothing is inside what is not given.
LEMMA NoneEmpty == IntegersIn(None) = {}
<1> DEFINE L == Layers(None, MaxNesting)
           Good == {n \in Nat : n <= MaxNesting => L[n] \subseteq {None}}
<1>0. MaxNesting \in Nat
  BY BoundAssumption
<1>1. None.type = "none"
  BY DEF None
<1>2. PartsOf(None) = {}
  BY <1>1 DEF PartsOf
<1>3. 0 \in Good
  BY <1>0, LayersDefined
<1>4. ASSUME NEW n \in Nat, n \in Good PROVE n + 1 \in Good
  <2>1. SUFFICES ASSUME n + 1 <= MaxNesting PROVE L[n + 1] \subseteq {None}
    OBVIOUS
  <2>2. n + 1 \in 0 .. MaxNesting /\ n + 1 # 0 /\ (n + 1) - 1 = n /\ n <= MaxNesting
    BY <1>0, <2>1
  <2>3. L[n + 1] = UNION {PartsOf(w) : w \in L[n]}
    BY <1>0, <2>2, LayersDefined
  <2>4. L[n] \subseteq {None}
    BY <1>4, <2>2
  <2> QED BY <1>2, <2>3, <2>4
<1>5. Nat \subseteq Good
  <2> HIDE DEF Good
  <2> QED BY <1>3, <1>4, Upwards
<1>6. \A n \in 0 .. MaxNesting : L[n] \subseteq {None}
  BY <1>5
<1>7. Inside(None, MaxNesting) \subseteq {None}
  BY <1>6 DEF Inside
<1> QED BY <1>1, <1>7 DEF IntegersIn

\* The laws of the arithmetic, for any two integers of 64 bits.
LEMMA ArithmeticLaws ==
  ASSUME NEW m \in Integers64, NEW n \in Integers64
  PROVE  LET a == VInt(m)
             b == VInt(n)
         IN  /\ (OpsAdd(a, b).n >= m) = (n >= 0 \/ m = -IntLimit)
             /\ (OpsSub(a, b).n <= m) = (n >= 0 \/ m = IntLimit - 1)
             /\ (OpsMul(a, b).n > 0) = ((m > 0 /\ n > 0) \/ (m < 0 /\ n < 0))
             /\ OpsDiv(a, b).n \in (IF m < 0 THEN m .. -m ELSE -m .. m)
             /\ {OpsAdd(a, b).n, OpsSub(a, b).n, OpsMul(a, b).n} \subseteq Integers64
<1> DEFINE a == VInt(m)
           b == VInt(n)
<1>0. IntLimit \in Nat /\ IntLimit > 1 /\ m \in -IntLimit .. IntLimit - 1
        /\ n \in -IntLimit .. IntLimit - 1 /\ m \in Int /\ n \in Int
  BY IntLimitAssumption DEF Integers64
<1>1. a.type = "int" /\ b.type = "int" /\ a.n = m /\ b.n = n
  BY DEF VInt
<1>2. \A i : VInt(i).n = i
  BY DEF VInt
<1> HIDE DEF a, b
<1>3. OpsAdd(a, b).n = Saturated(m + n)
  BY <1>1, <1>2 DEF OpsAdd, BothInts
<1>4. OpsSub(a, b).n = Saturated(m - n)
  BY <1>1, <1>2 DEF OpsSub, BothInts
<1>5. OpsMul(a, b).n = Saturated(m * n)
  BY <1>1, <1>2 DEF OpsMul, BothInts
<1>6. (Saturated(m + n) >= m) = (n >= 0 \/ m = -IntLimit)
  BY <1>0 DEF Saturated
<1>7. (Saturated(m - n) <= m) = (n >= 0 \/ m = IntLimit - 1)
  BY <1>0 DEF Saturated
<1>8. (Saturated(m * n) > 0) = ((m > 0 /\ n > 0) \/ (m < 0 /\ n < 0))
  <2>1. (m * n > 0) = ((m > 0 /\ n > 0) \/ (m < 0 /\ n < 0))
    <3>1. \A x, y \in Int : x > 0 /\ y > 0 => x * y > 0
      OBVIOUS
    <3>2. \A x, y \in Int : x < 0 /\ y < 0 => x * y > 0
      OBVIOUS
    <3>3. \A x, y \in Int : x <= 0 /\ y >= 0 => x * y <= 0 /\ y * x <= 0
      OBVIOUS
    <3>4. m * n \in Int
      BY <1>0
    <3> QED BY <1>0, <3>1, <3>2, <3>3, <3>4
  <2>2. \A p \in Int : (Saturated(p) > 0) = (p > 0)
    BY <1>0 DEF Saturated
  <2>3. m * n \in Int
    BY <1>0
  <2> QED BY <2>1, <2>2, <2>3
<1>9. OpsDiv(a, b).n \in (IF m < 0 THEN m .. -m ELSE -m .. m)
  <2>1. CASE n # 0 /\ Quotient(m, n) < IntLimit
    <3>1. OpsDiv(a, b).n = Quotient(m, n)
      BY <1>1, <1>2, <2>1 DEF OpsDiv, BothInts
    <3>2. /\ m < 0  => Quotient(m, n) \in m .. -m
          /\ m >= 0 => Quotient(m, n) \in -m .. m
      BY <1>0, <2>1, QuotientBounded
    <3>3. m < 0 \/ m >= 0
      BY <1>0
    <3>4. CASE m < 0
      BY <3>1, <3>2, <3>4
    <3>5. CASE m >= 0 /\ ~(m < 0)
      BY <3>1, <3>2, <3>5
    <3>6. m >= 0 => ~(m < 0)
      BY <1>0
    <3> QED BY <3>3, <3>4, <3>5, <3>6
  <2>2. CASE ~(n # 0 /\ Quotient(m, n) < IntLimit)
    <3>1. OpsDiv(a, b).n = m
      BY <1>1, <2>2 DEF OpsDiv, BothInts
    <3>2. m \in (IF m < 0 THEN m .. -m ELSE -m .. m)
      BY <1>0
    <3> QED BY <3>1, <3>2
  <2> QED BY <2>1, <2>2
<1>10. {Saturated(m + n), Saturated(m - n), Saturated(m * n)} \subseteq Integers64
  <2>1. m + n \in Int /\ m - n \in Int /\ m * n \in Int
    BY <1>0
  <2> QED BY <2>1, SaturatedTyped
<1> QED BY <1>3, <1>4, <1>5, <1>6, <1>7, <1>8, <1>9, <1>10 DEF a, b

(* No counter of a rule program wraps around, for every width of the       *)
(* integers: the invariant of the run, from StateHoldsValues.              *)
THEOREM NothingWraps == Spec => []NoWrapAround
<1>1. DataInv => NoWrapAround
  <2> SUFFICES ASSUME DataInv PROVE NoWrapAround
    OBVIOUS
  <2>1. IntegersIn(VObj(data)) \subseteq Integers64
    BY IntegersTyped DEF DataInv
  <2>2. \A v \in Operands : IntegersIn(v) \subseteq Integers64
    <3>1. \A v \in Operands \ {None} : Proper(v)
      BY ValuesAssumption, SoundProper
    <3> QED BY <3>1, IntegersTyped, NoneEmpty
  <2>3. \A m \in IntegersIn(VObj(data)), n \in UNION {IntegersIn(v) : v \in Operands} :
          m \in Integers64 /\ n \in Integers64
    BY <2>1, <2>2
  <2> QED BY <2>1, <2>3, ArithmeticLaws DEF NoWrapAround
<1>2. Spec => []DataInv
  BY StateHoldsValues
<1> QED BY <1>1, <1>2, PTL

-----------------------------------------------------------------------------
(* Lists of strings as sets.                                               *)

\* How often something occurs does not depend on the order.
LEMMA OccurrencesKept ==
  ASSUME NEW seq, NEW P, NEW before, Orders(before, P), IsFiniteSet(P),
         NEW at, InOrder(at, P, before), NEW x
  PROVE  Occurrences([i \in 1 .. Len(at) |-> seq[at[i]]], x)
           = Cardinality({k \in P : seq[k] = x})
<1> DEFINE r == [i \in 1 .. Len(at) |-> seq[at[i]]]
           I == {i \in 1 .. Len(at) : seq[at[i]] = x}
           K == {k \in P : seq[k] = x}
           f == [i \in I |-> at[i]]
<1>1. /\ Len(at) \in Nat /\ \A i \in 1 .. Len(at) : at[i] \in P
      /\ \A k \in P : \E i \in 1 .. Len(at) : at[i] = k
      /\ \A i, j \in 1 .. Len(at) : i < j => <<at[i], at[j]>> \in before
  BY DEF InOrder
<1>2. \A i, j \in 1 .. Len(at) : at[i] = at[j] => i = j
  <2>1. ASSUME NEW i \in 1 .. Len(at), NEW j \in 1 .. Len(at), at[i] = at[j] PROVE i = j
    <3>1. ~(i < j) /\ ~(j < i)
      BY <1>1, <2>1 DEF Orders
    <3>2. i \in Int /\ j \in Int
      BY <1>1
    <3> QED BY <3>1, <3>2
  <2> QED BY <2>1
<1>3. f \in Bijection(I, K)
  <2>1. f \in [I -> K]
    BY <1>1
  <2>2. \A i, j \in I : f[i] = f[j] => i = j
    BY <1>2
  <2>3. \A k \in K : \E i \in I : f[i] = k
    BY <1>1
  <2> QED BY <2>1, <2>2, <2>3 DEF Bijection, Injection, Surjection, IsInjective
<1>4. IsFiniteSet(I)
  <2>1. IsFiniteSet(1 .. Len(at))
    BY <1>1, FS_Interval
  <2> QED BY <2>1, FS_Subset
<1>5. Cardinality(I) = Cardinality(K)
  <2>1. ExistsBijection(I, K)
    BY <1>3 DEF ExistsBijection
  <2> HIDE DEF I, K
  <2> QED BY <1>4, <2>1, FS_Bijection
<1>6. {i \in DOMAIN r : r[i] = x} = I
  OBVIOUS
<1>7. Occurrences(r, x) = Cardinality(I)
  BY <1>6 DEF Occurrences
<1> QED BY <1>5, <1>7

\* Nor on sorting.
LEMMA SortedOccurrences ==
  ASSUME NEW texts \in Seq(Words), NEW x
  PROVE  Occurrences(Sorted(texts), x) = Occurrences(texts, x)
<1>1. PICK at : /\ InOrder(at, DOMAIN texts, SortOrder(texts))
                /\ Sorted(texts) = [i \in 1 .. Len(at) |-> texts[at[i]]]
  BY SortedAt
<1>2. IsFiniteSet(DOMAIN texts)
  <2>1. Len(texts) \in Nat /\ DOMAIN texts = 1 .. Len(texts)
    OBVIOUS
  <2> QED BY <2>1, FS_Interval
<1>3. Orders(SortOrder(texts), DOMAIN texts)
  BY SortOrdered
<1>4. Occurrences([i \in 1 .. Len(at) |-> texts[at[i]]], x)
        = Cardinality({k \in DOMAIN texts : texts[k] = x})
  BY <1>1, <1>2, <1>3, OccurrencesKept
<1> QED BY <1>1, <1>4 DEF Occurrences

\* What is taken occurs as often as it stands at the positions.
LEMMA TakenOccurrences ==
  ASSUME NEW a \in Seq(Words), NEW P, P \subseteq DOMAIN a, NEW x
  PROVE  Occurrences(Taken(a, P), x) = Cardinality({k \in P : a[k] = x})
<1>1. Len(a) \in Nat /\ DOMAIN a = 1 .. Len(a) /\ P \subseteq 1 .. Len(a) /\ P \subseteq Nat
  <2>1. Len(a) \in Nat /\ DOMAIN a = 1 .. Len(a)
    OBVIOUS
  <2> QED BY <2>1
<1>2. PICK at : /\ InOrder(at, P, Ascending(P))
                /\ Taken(a, P) = [i \in 1 .. Len(at) |-> a[at[i]]]
  BY <1>1, TakenAt
<1>3. IsFiniteSet(P)
  <2>1. IsFiniteSet(1 .. Len(a))
    BY <1>1, FS_Interval
  <2> QED BY <1>1, <2>1, FS_Subset
<1>4. Orders(Ascending(P), P)
  BY <1>1, PositionsOrdered
<1>5. Occurrences([i \in 1 .. Len(at) |-> a[at[i]]], x) = Cardinality({k \in P : a[k] = x})
  BY <1>2, <1>3, <1>4, OccurrencesKept
<1> QED BY <1>2, <1>5

\* What set_intersection and set_diff keep of a list.
LEMMA MeetAndRest ==
  ASSUME NEW a \in Seq(Words), NEW b \in Seq(Words)
  PROVE  LET meet == Intersection(b, a)
             rest == Difference(a, b)
         IN  /\ Range(meet) = Range(a) \cap Range(b)
             /\ Range(rest) = Range(a) \ Range(b)
             /\ \A k \in 1 .. Len(meet) - 1 : ~TextLess(meet[k + 1], meet[k])
             /\ \A k \in 1 .. Len(rest) - 1 : ~TextLess(rest[k + 1], rest[k])
             /\ \A x \in Range(a) :
                  Occurrences(meet, x) + Occurrences(rest, x) = Occurrences(a, x)
<1> DEFINE meet == Intersection(b, a)
           rest == Difference(a, b)
           P == {k \in DOMAIN a : a[k] \in Range(b)}
           Q == {k \in DOMAIN a : a[k] \notin Range(b)}
<1>1. meet = Sorted(Taken(a, P)) /\ rest = Sorted(Taken(a, Q))
  BY DEF Intersection, Difference, Common, Other
<1>2. P \subseteq DOMAIN a /\ Q \subseteq DOMAIN a
  OBVIOUS
<1>3. /\ {a[k] : k \in P} = Range(a) \cap Range(b)
      /\ {a[k] : k \in Q} = Range(a) \ Range(b)
  BY DEF Range
<1>4. /\ \A x \in Range(b) : {k \in P : a[k] = x} = {k \in DOMAIN a : a[k] = x}
                           /\ {k \in Q : a[k] = x} = {}
      /\ \A x : x \notin Range(b) => /\ {k \in Q : a[k] = x} = {k \in DOMAIN a : a[k] = x}
                                     /\ {k \in P : a[k] = x} = {}
  OBVIOUS
<1> HIDE DEF P, Q, meet, rest
<1>5. Taken(a, P) \in Seq(Words) /\ Taken(a, Q) \in Seq(Words)
  BY <1>2, TakenTexts
<1>6. Range(meet) = Range(a) \cap Range(b)
  <2>1. Range(Taken(a, P)) = {a[k] : k \in P}
    BY <1>2, TakenTexts
  <2>2. Range(meet) = Range(Taken(a, P))
    BY <1>1, <1>5, SortedTexts
  <2> QED BY <1>3, <2>1, <2>2
<1>7. Range(rest) = Range(a) \ Range(b)
  <2>1. Range(Taken(a, Q)) = {a[k] : k \in Q}
    BY <1>2, TakenTexts
  <2>2. Range(rest) = Range(Taken(a, Q))
    BY <1>1, <1>5, SortedTexts
  <2> QED BY <1>3, <2>1, <2>2
<1>8. /\ \A k \in 1 .. Len(meet) - 1 : ~TextLess(meet[k + 1], meet[k])
      /\ \A k \in 1 .. Len(rest) - 1 : ~TextLess(rest[k + 1], rest[k])
  BY <1>1, <1>5, SortedTexts
<1>9. ASSUME NEW x \in Range(a)
      PROVE  Occurrences(meet, x) + Occurrences(rest, x) = Occurrences(a, x)
  <2> DEFINE all == {k \in DOMAIN a : a[k] = x}
  <2>1. Occurrences(meet, x) = Cardinality({k \in P : a[k] = x})
    BY <1>1, <1>2, <1>5, SortedOccurrences, TakenOccurrences
  <2>2. Occurrences(rest, x) = Cardinality({k \in Q : a[k] = x})
    BY <1>1, <1>2, <1>5, SortedOccurrences, TakenOccurrences
  <2>3. Cardinality({}) = 0
    BY FS_EmptySet
  <2>4. Cardinality(all) \in Nat
    <3>1. Len(a) \in Nat /\ all \subseteq 1 .. Len(a)
      OBVIOUS
    <3>2. IsFiniteSet(1 .. Len(a))
      BY <3>1, FS_Interval
    <3> HIDE DEF all
    <3>3. IsFiniteSet(all)
      BY <3>1, <3>2, FS_Subset
    <3> QED BY <3>3, FS_CardinalityType
  <2>5. Occurrences(a, x) = Cardinality(all)
    BY DEF Occurrences
  <2>6. CASE x \in Range(b)
    <3>1. Occurrences(meet, x) = Cardinality(all) /\ Occurrences(rest, x) = 0
      BY <1>4, <2>1, <2>2, <2>3, <2>6
    <3> HIDE DEF all
    <3> QED BY <2>4, <2>5, <3>1
  <2>7. CASE x \notin Range(b)
    <3>1. Occurrences(rest, x) = Cardinality(all) /\ Occurrences(meet, x) = 0
      BY <1>4, <2>1, <2>2, <2>3, <2>7
    <3> HIDE DEF all
    <3> QED BY <2>4, <2>5, <3>1
  <2> QED BY <2>6, <2>7
<1> QED BY <1>6, <1>7, <1>8, <1>9 DEF meet, rest

\* set_union lists each string once and in order.
LEMMA UnionInOrder ==
  ASSUME NEW a \in Seq(Words), NEW b \in Seq(Words)
  PROVE  /\ Union(a, b) = Union(b, a) /\ IsInjective(Union(a, b))
         /\ \A k \in 1 .. Len(Union(a, b)) - 1 : ~TextLess(Union(a, b)[k + 1], Union(a, b)[k])
<1> DEFINE both == Range(a) \cup Range(b)
           u == Arranged(both, TextOrder(both))
<1>1. Range(b) \cup Range(a) = both
  OBVIOUS
<1>2. Union(a, b) = u /\ Union(b, a) = u
  BY <1>1 DEF Union
<1>3. IsFiniteSet(both) /\ both \subseteq Words
  <2>1. IsFiniteSet(Range(a)) /\ IsFiniteSet(Range(b))
    BY RangeFinite
  <2>2. IsFiniteSet(both)
    BY <2>1, FS_Union
  <2>3. both \subseteq Words
    BY RangeOfSeq
  <2> QED BY <2>2, <2>3
<1> HIDE DEF both
<1>4. InOrder(u, both, TextOrder(both))
  BY <1>3, TextsArranged
<1> HIDE DEF u
<1>5. /\ Len(u) \in Nat /\ DOMAIN u = 1 .. Len(u)
      /\ \A i \in 1 .. Len(u) : u[i] \in Words
      /\ \A i, j \in 1 .. Len(u) : i < j => TextLess(u[i], u[j])
  BY <1>3, <1>4 DEF InOrder, TextOrder
<1>6. IsInjective(u)
  <2>1. ASSUME NEW i \in 1 .. Len(u), NEW j \in 1 .. Len(u), u[i] = u[j] PROVE i = j
    <3>1. ~TextLess(u[i], u[j]) /\ ~TextLess(u[j], u[i])
      BY <1>5, <2>1, TextsOrdered
    <3>2. ~(i < j) /\ ~(j < i) /\ i \in Int /\ j \in Int
      BY <1>5, <3>1
    <3> QED BY <3>2
  <2> QED BY <1>5, <2>1 DEF IsInjective
<1>7. ASSUME NEW k \in 1 .. Len(u) - 1 PROVE ~TextLess(u[k + 1], u[k])
  <2>1. k \in 1 .. Len(u) /\ k + 1 \in 1 .. Len(u) /\ k < k + 1
    BY <1>5
  <2>2. TextLess(u[k], u[k + 1]) /\ u[k] \in Words /\ u[k + 1] \in Words
    BY <1>5, <2>1
  <2> QED BY <2>2, TextsOrdered
<1> QED BY <1>2, <1>6, <1>7

(* The operations on lists as sets keep their laws in every state, for all *)
(* lists of strings that the parameters can lead to.                       *)
THEOREM SetLawsHold == Spec => []SetLaws
<1>1. DataInv => SetLaws
  <2> SUFFICES ASSUME DataInv PROVE SetLaws
    OBVIOUS
  <2>1. StringLists \subseteq Seq(Words)
    BY GivenProper, StringListTyped DEF StringLists
  <2>2. SUFFICES ASSUME NEW a \in StringLists, NEW b \in StringLists
        PROVE  LET meet == Intersection(b, a)
                   rest == Difference(a, b)
               IN  /\ Range(meet) = Range(a) \cap Range(b)
                   /\ Range(rest) = Range(a) \ Range(b)
                   /\ Union(a, b) = Union(b, a) /\ IsInjective(Union(a, b))
                   /\ \A list \in {meet, rest, Union(a, b)} :
                        \A k \in 1 .. Len(list) - 1 : ~TextLess(list[k + 1], list[k])
                   /\ \A x \in Range(a) :
                        Occurrences(meet, x) + Occurrences(rest, x) = Occurrences(a, x)
    BY DEF SetLaws
  <2>3. a \in Seq(Words) /\ b \in Seq(Words)
    BY <2>1
  <2> QED BY <2>3, MeetAndRest, UnionInOrder
<1>2. Spec => []DataInv
  BY StateHoldsValues
<1> QED BY <1>1, <1>2, PTL

-----------------------------------------------------------------------------
(* What is written is read back.                                           *)

\* Nothing is read from the empty path.
LEMMA SplitEmpty == SplitPath(<<>>) = <<>>
<1> DEFINE start == [parts |-> <<>>, current |-> <<>>, bracket |-> FALSE]
<1>1. Len(<<>>) = 0 /\ Len(<<>>) \in Nat
  OBVIOUS
<1>2. PICK f : /\ f = [k \in 0 .. Len(<<>>) |->
                         IF k = 0 THEN start ELSE Accept(f[k - 1], (<<>>)[k])]
               /\ SplitPath(<<>>) = Close(f[Len(<<>>)]).parts
  BY <1>1, SplitDefined
<1>3. f[0] = start
  <2> HIDE DEF start
  <2> QED BY <1>1, <1>2
<1> QED BY <1>1, <1>2, <1>3 DEF Close

\* As long as two paths agree, they lead to the same.
LEMMA AlongAgrees ==
  ASSUME NEW d, NEW parts, Len(parts) \in Nat, NEW other, Len(other) \in Nat,
         NEW j \in Nat, j <= Len(parts), j <= Len(other),
         \A i \in 1 .. j : parts[i] = other[i]
  PROVE  \A k \in 0 .. j : Along(d, parts)[k] = Along(d, other)[k]
<1> DEFINE Good == {k \in Nat : k <= j => Along(d, parts)[k] = Along(d, other)[k]}
<1>1. 0 \in Good
  BY AlongDefined
<1>2. ASSUME NEW k \in Nat, k \in Good PROVE k + 1 \in Good
  <2>1. SUFFICES ASSUME k + 1 <= j PROVE Along(d, parts)[k + 1] = Along(d, other)[k + 1]
    OBVIOUS
  <2>2. /\ k + 1 \in 0 .. Len(parts) /\ k + 1 \in 0 .. Len(other) /\ k + 1 \in 1 .. j
        /\ k + 1 # 0 /\ (k + 1) - 1 = k /\ k <= j
    BY <2>1
  <2>3. Along(d, parts)[k + 1] = Descend(Along(d, parts)[k], parts[k + 1])
    BY <2>2, AlongDefined
  <2>4. Along(d, other)[k + 1] = Descend(Along(d, other)[k], other[k + 1])
    BY <2>2, AlongDefined
  <2> QED BY <1>2, <2>2, <2>3, <2>4
<1>3. Nat \subseteq Good
  <2> HIDE DEF Good
  <2> QED BY <1>1, <1>2, Upwards
<1> QED BY <1>3

\* What a path leads to half way.
LEMMA WalkPart ==
  ASSUME NEW d, NEW parts \in Seq(Words), NEW m \in Nat, m <= Len(parts)
  PROVE  Walk(d, SubSeq(parts, 1, m)) = Along(d, parts)[m]
<1> DEFINE s == SubSeq(parts, 1, m)
<1>1. Len(parts) \in Nat /\ Len(s) = m /\ \A i \in 1 .. m : parts[i] = s[i]
  OBVIOUS
<1> HIDE DEF s
<1>2. \A k \in 0 .. m : Along(d, parts)[k] = Along(d, s)[k]
  BY <1>1, AlongAgrees
<1>3. Along(d, parts)[m] = Along(d, s)[m]
  BY <1>2
<1> QED BY <1>1, <1>3 DEF Walk, s

\* A write under a key: the key holds the new value, the others what they did.
LEMMA NameStep ==
  ASSUME NEW old, old.type # "list", NEW segment, NEW w
  PROVE  LET new == VObj(Put(FieldsOf(old), segment, w))
         IN  /\ Descend(new, segment) = w
             /\ \A s : s # segment => Descend(new, s) = Descend(old, s)
<1> DEFINE f == FieldsOf(old)
           p == Put(f, segment, w)
           new == VObj(p)
<1>1. new.type = "obj" /\ new.fields = p
  BY DEF VObj
<1>2. DOMAIN p = DOMAIN f \cup {segment} /\ p[segment] = w
      /\ \A s \in DOMAIN f : s # segment => p[s] = f[s]
  BY DEF Put
<1> HIDE DEF p, new
<1>3. \A s : Descend(new, s) = Field(p, s)
  BY <1>1 DEF Descend
<1>4. \A s : s # segment => Field(p, s) = Field(f, s)
  BY <1>2 DEF Field
<1>5. \A s : Field(f, s) = Descend(old, s)
  <2>1. CASE old.type = "obj"
    BY <2>1 DEF Descend, FieldsOf
  <2>2. CASE old.type # "obj"
    <3>1. f = NoFields /\ DOMAIN NoFields = {}
      BY <2>2 DEF FieldsOf, NoFields
    <3>2. \A s : Field(f, s) = None
      BY <3>1 DEF Field
    <3> QED BY <2>2, <3>2 DEF Descend
  <2> QED BY <2>1, <2>2
<1>6. Field(p, segment) = w
  BY <1>2 DEF Field
<1> QED BY <1>3, <1>4, <1>5, <1>6 DEF new, p

\* A write at an index: the element is the new value, the others what they
\* were, or the Null that fills the list up.
LEMMA IndexStep ==
  ASSUME NEW old, Maybe(old), old.type # "obj",
         NEW segment \in Words, IsIndex(segment), NEW w
  PROVE  LET new == VList(Extended(Items(old), IndexOf(segment), w))
         IN  /\ Descend(new, segment) = w
             /\ \A s \in Words : s # segment =>
                  \/ Descend(new, s) = Descend(old, s)
                  \/ Descend(new, s) = VNull /\ Descend(old, s) = None
<1> DEFINE items == Items(old)
           i == IndexOf(segment)
           e == Extended(items, i, w)
           m == IF i < Len(items) THEN Len(items) ELSE i + 1
           new == VList(e)
<1>1. Len(items) \in Nat
  BY ItemsItemized DEF Itemized
<1>2. \A s \in Words : IsIndex(s) => IndexOf(s) \in Nat
  BY DigitsAssumption DEF IsIndex, IndexOf
<1>3. i \in Nat
  BY <1>2
<1>4. new.type = "list" /\ new.items = e
  BY DEF VList
<1>5. e = [k \in 1 .. m |-> IF k = i + 1 THEN w ELSE IF k <= Len(items) THEN items[k] ELSE VNull]
  BY DEF Extended
<1>6. m \in Nat /\ i < m /\ Len(items) <= m
  <2> HIDE DEF items, i
  <2> QED BY <1>1, <1>3
<1> HIDE DEF m
<1>7. Len(e) = m
  BY <1>5, <1>6
<1>8. \A l \in Nat : l < m => e[l + 1] = IF l = i THEN w ELSE IF l < Len(items) THEN items[l + 1] ELSE VNull
  <2> HIDE DEF e, items, i
  <2>1. ASSUME NEW l \in Nat, l < m
        PROVE  e[l + 1] = IF l = i THEN w ELSE IF l < Len(items) THEN items[l + 1] ELSE VNull
    <3>1. l + 1 \in 1 .. m /\ (l + 1 = i + 1 <=> l = i) /\ (l + 1 <= Len(items) <=> l < Len(items))
      BY <1>1, <1>3, <1>6, <2>1
    <3> QED BY <1>5, <3>1
  <2> QED BY <2>1
<1> HIDE DEF new, e
<1>9. \A s : IsIndex(s) /\ IndexOf(s) < m => Descend(new, s) = e[IndexOf(s) + 1]
  BY <1>4, <1>7 DEF Descend
<1>10. \A s : ~(IsIndex(s) /\ IndexOf(s) < m) => Descend(new, s) = None
  BY <1>4, <1>7 DEF Descend
<1>11. Descend(new, segment) = w
  BY <1>3, <1>6, <1>8, <1>9
<1>12. ASSUME NEW s \in Words, s # segment
       PROVE  \/ Descend(new, s) = Descend(old, s)
              \/ Descend(new, s) = VNull /\ Descend(old, s) = None
  <2>1. IsIndex(s) /\ IndexOf(s) < Len(items) => Descend(old, s) = items[IndexOf(s) + 1]
    <3>1. CASE old.type = "list"
      BY <3>1 DEF Descend, Items
    <3>2. CASE old.type # "list"
      BY <1>2, <3>2 DEF Items
    <3> QED BY <3>1, <3>2
  <2>2. ~(IsIndex(s) /\ IndexOf(s) < Len(items)) => Descend(old, s) = None
    BY DEF Descend, Items
  <2>3. IsIndex(s) => IndexOf(s) # i
    <3>1. SUFFICES ASSUME IsIndex(s), IndexOf(s) = i PROVE FALSE
      OBVIOUS
    <3>2. Head(s) = Head(segment)
      BY <3>1, DigitsAssumption DEF IsIndex, IndexOf, IsInjective
    <3>3. s = segment
      BY <3>1, <3>2 DEF IsIndex, Words
    <3> QED BY <1>12, <3>3
  <2> HIDE DEF items, i
  <2>4. CASE IsIndex(s) /\ IndexOf(s) < m
    <3>1. Descend(new, s) = IF IndexOf(s) < Len(items) THEN items[IndexOf(s) + 1] ELSE VNull
      BY <1>2, <1>8, <1>9, <2>3, <2>4
    <3> QED BY <2>1, <2>2, <2>4, <3>1
  <2>5. CASE ~(IsIndex(s) /\ IndexOf(s) < m)
    <3>1. ~(IsIndex(s) /\ IndexOf(s) < Len(items))
      BY <1>1, <1>2, <1>6, <2>5
    <3> QED BY <1>10, <2>2, <2>5, <3>1
  <2> QED BY <2>4, <2>5
<1> QED BY <1>11, <1>12 DEF new, e

\* What stands after k segments of a path becomes new: the next segment leads
\* to w, and any other leads where it did before, except to the Null of a list
\* that was filled up.
Leads(d, parts, k, w, new) ==
  /\ k = 0 => new.type = "obj" /\ new = VObj(new.fields)
  /\ Descend(new, parts[k + 1]) = w
  /\ \A s \in Words : s # parts[k + 1] =>
       \/ Descend(new, s) = Descend(Along(d, parts)[k], s)
       \/ Descend(new, s) = VNull /\ Descend(Along(d, parts)[k], s) = None

\* The path leads along new to v.
Follows(d, parts, after, v, new) ==
  /\ new[0] = VObj(after) /\ new[Len(parts)] = v
  /\ \A k \in 0 .. Len(parts) - 1 : Leads(d, parts, k, new[k + 1], new[k])

\* Places, by what stands along them.
LEMMA PlaceMeans ==
  ASSUME NEW d, NEW parts \in Seq(Words), IsPlace(d, parts), Len(parts) > 1
  PROVE  /\ ~IsIndex(parts[1])
         /\ \A k \in 1 .. Len(parts) - 1 :
              /\ IsIndex(parts[k + 1]) => ~IsIndex(parts[k]) /\ Along(d, parts)[k].type # "obj"
              /\ ~IsIndex(parts[k + 1]) => Along(d, parts)[k].type # "list"
<1>0. Len(parts) \in Nat /\ DOMAIN parts = 1 .. Len(parts)
  OBVIOUS
<1>1. \A k \in DOMAIN parts : IsIndex(parts[k]) => k > 1 /\ ~IsIndex(parts[k - 1])
  <2>1. Len(parts) # 1
    BY <1>0
  <2> QED BY <2>1 DEF IsPlace
<1>2. \A k \in 2 .. Len(parts) :
        Walk(d, SubSeq(parts, 1, k - 1)).type # (IF IsIndex(parts[k]) THEN "obj" ELSE "list")
  BY DEF IsPlace
<1>3. ~IsIndex(parts[1])
  BY <1>0, <1>1
<1>4. ASSUME NEW k \in 1 .. Len(parts) - 1
      PROVE  /\ IsIndex(parts[k + 1]) => ~IsIndex(parts[k]) /\ Along(d, parts)[k].type # "obj"
             /\ ~IsIndex(parts[k + 1]) => Along(d, parts)[k].type # "list"
  <2>1. /\ k + 1 \in DOMAIN parts /\ k + 1 \in 2 .. Len(parts) /\ (k + 1) - 1 = k
        /\ k \in Nat /\ k <= Len(parts)
    BY <1>0
  <2>2. IsIndex(parts[k + 1]) => ~IsIndex(parts[k])
    BY <1>1, <2>1
  <2>3. Walk(d, SubSeq(parts, 1, k)).type # (IF IsIndex(parts[k + 1]) THEN "obj" ELSE "list")
    BY <1>2, <2>1
  <2>4. Walk(d, SubSeq(parts, 1, k)) = Along(d, parts)[k]
    BY <2>1, WalkPart
  <2> QED BY <2>2, <2>3, <2>4
<1> QED BY <1>3, <1>4

\* One segment of a write along a place.
LEMMA PlaceStep ==
  ASSUME NEW d, Proper(VObj(d)), NEW parts \in Seq(Words), IsPlace(d, parts), Len(parts) > 1,
         NEW k \in 0 .. Len(parts) - 1, NEW w, NEW v
  PROVE  Leads(d, parts, k, w, Rewritten(Along(d, parts)[k], parts, k, w, v))
<1> DEFINE old == Along(d, parts)[k]
           new == Rewritten(old, parts, k, w, v)
           segment == parts[k + 1]
           fields == FieldsOf(old)
           rest == SubSeq(parts, k + 1, Len(parts))
<1>0. /\ Len(parts) \in Nat /\ k \in Nat /\ k < Len(parts) /\ k \in 0 .. Len(parts)
      /\ segment \in Words
  OBVIOUS
<1>1. Maybe(old)
  BY <1>0, AlongProper
<1>2. CASE IsIndex(segment)
  <2>1. k # 0
    BY <1>2, PlaceMeans
  <2>2. k \in 1 .. Len(parts) - 1
    BY <1>0, <2>1
  <2>3. ~IsIndex(parts[k]) /\ old.type # "obj"
    BY <1>2, <2>2, PlaceMeans
  <2>4. ToElement(old, parts, k)
    BY <1>0, <1>2, <2>1, <2>3 DEF ToElement
  <2>5. new = VList(Extended(Items(old), IndexOf(segment), w))
    BY <2>4 DEF Rewritten
  <2> HIDE DEF old, segment, new
  <2>6. /\ Descend(new, segment) = w
        /\ \A s \in Words : s # segment =>
             \/ Descend(new, s) = Descend(old, s)
             \/ Descend(new, s) = VNull /\ Descend(old, s) = None
    BY <1>0, <1>1, <1>2, <2>3, <2>5, IndexStep
  <2> QED BY <2>1, <2>6 DEF old, segment, new, Leads
<1>3. CASE ~IsIndex(segment)
  <2>1. old.type # "list"
    <3>1. CASE k = 0
      <4>1. old = VObj(d)
        BY <1>0, <3>1, AlongDefined
      <4> QED BY <4>1 DEF VObj
    <3>2. CASE k # 0
      <4>1. k \in 1 .. Len(parts) - 1
        BY <1>0, <3>2
      <4> QED BY <1>3, <4>1, PlaceMeans
    <3> QED BY <3>1, <3>2
  <2>2. ~ToElement(old, parts, k)
    BY <1>3 DEF ToElement
  <2>3. ~Ignored(fields, rest)
    <3>1. Head(rest) = segment /\ Len(rest) = Len(parts) - k
      BY <1>0
    <3>2. SUFFICES ASSUME Len(rest) > 1, Field(fields, segment).type = "list", ~IsIndex(rest[2])
                   PROVE  FALSE
      <4> HIDE DEF fields, rest, segment
      <4> QED BY <1>3, <3>1 DEF Ignored
    <3>3. rest[2] = parts[k + 2] /\ k + 1 \in 1 .. Len(parts) - 1
      BY <1>0, <3>1, <3>2
    <3>4. Along(d, parts)[k + 1].type # "list"
      <4>1. (k + 1) + 1 = k + 2
        BY <1>0
      <4> QED BY <3>2, <3>3, <4>1, PlaceMeans
    <3>5. Along(d, parts)[k + 1] = Descend(old, segment)
      <4>1. k + 1 \in 0 .. Len(parts) /\ k + 1 # 0 /\ (k + 1) - 1 = k
        BY <1>0
      <4> QED BY <1>0, <4>1, AlongDefined
    <3> HIDE DEF old, segment
    <3>6. CASE old.type = "obj"
      BY <3>2, <3>4, <3>5, <3>6 DEF FieldsOf, Descend
    <3>7. CASE old.type # "obj"
      <4>1. Field(fields, segment) = None
        BY <3>7 DEF FieldsOf, NoFields, Field
      <4> QED BY <3>2, <4>1 DEF None
    <3> QED BY <3>6, <3>7
  <2>4. new = VObj(Put(fields, segment, w))
    BY <1>3, <2>2, <2>3 DEF Rewritten
  <2>5. new.type = "obj" /\ new = VObj(new.fields)
    BY <2>4 DEF VObj
  <2>6. /\ Descend(new, segment) = w
        /\ \A s : s # segment => Descend(new, s) = Descend(old, s)
    <3> HIDE DEF old, segment, new
    <3> QED BY <2>1, <2>4, NameStep
  <2> QED BY <2>5, <2>6 DEF Leads
<1> QED BY <1>2, <1>3

\* A write along a place goes through to it (set_path, set_path_recursive).
LEMMA PlaceFollows ==
  ASSUME NEW d, Proper(VObj(d)), NEW path \in Words, IsPlace(d, SplitPath(path)), NEW v
  PROVE  \E new : Follows(d, SplitPath(path), SetPath(d, path, v), v, new)
<1> DEFINE parts == SplitPath(path)
           n == Len(parts)
           after == SetPath(d, path, v)
<1>1. parts \in Seq(Words) /\ n \in Nat
  BY SplitTyped
<1>2. parts # <<>>
  BY DEF IsPlace
<1>3. path # <<>>
  BY <1>2, SplitEmpty
<1>4. CASE n = 1
  <2> DEFINE new == [k \in 0 .. 1 |-> IF k = 0 THEN VObj(after) ELSE v]
  <2>1. after = Put(d, Head(parts), v) /\ Head(parts) = parts[1]
    BY <1>1, <1>2, <1>3, <1>4 DEF SetPath
  <2>2. Along(d, parts)[0] = VObj(d)
    BY <1>1, AlongDefined
  <2>3. FieldsOf(VObj(d)) = d /\ VObj(d).type # "list"
    BY DEF FieldsOf, VObj
  <2> HIDE DEF after, parts
  <2>4. new[0] = VObj(after) /\ new[0 + 1] = v /\ new[1] = v
    OBVIOUS
  <2> HIDE DEF new
  <2>5. /\ Descend(new[0], parts[1]) = v
        /\ \A s : s # parts[1] => Descend(new[0], s) = Descend(VObj(d), s)
    BY <2>1, <2>3, <2>4, NameStep
  <2>6. Follows(d, parts, after, v, new)
    <3>1. 0 .. n - 1 = {0} /\ 0 + 1 = 1
      BY <1>4
    <3>2. Leads(d, parts, 0, v, new[0])
      BY <2>2, <2>4, <2>5 DEF Leads, VObj
    <3> QED BY <1>4, <2>4, <3>1, <3>2 DEF Follows
  <2> QED BY <2>6 DEF parts, after
<1>5. CASE n > 1
  <2> DEFINE new == AfterWrite(d, parts, v)
  <2>1. after = new[0].fields
    BY <1>1, <1>2, <1>3, <1>5 DEF SetPath, SetParts
  <2> HIDE DEF after, parts
  <2>2. new[n] = v
    BY <1>1, AfterWriteDefined
  <2>3. \A k \in 0 .. n - 1 : new[k] = Rewritten(Along(d, parts)[k], parts, k, new[k + 1], v)
    BY <1>1, AfterWriteDefined
  <2> HIDE DEF new
  <2>4. IsPlace(d, parts)
    BY DEF parts
  <2>5. \A k \in 0 .. n - 1 : Leads(d, parts, k, new[k + 1], new[k])
    BY <1>1, <1>5, <2>3, <2>4, PlaceStep
  <2>6. new[0] = VObj(after)
    <3>1. 0 \in 0 .. n - 1
      BY <1>1, <1>5
    <3> QED BY <2>1, <2>5, <3>1 DEF Leads
  <2>7. Follows(d, parts, after, v, new)
    BY <2>2, <2>5, <2>6 DEF Follows
  <2> QED BY <2>7 DEF parts, after
<1>6. n = 1 \/ n > 1
  <2>1. n # 0
    BY <1>1, <1>2, EmptySeq
  <2>2. \A m \in Nat : m # 0 => m = 1 \/ m > 1
    OBVIOUS
  <2> HIDE DEF n
  <2> QED BY <1>1, <2>1, <2>2
<1> QED BY <1>4, <1>5, <1>6

\* Reading along the written path.
LEMMA FollowsAlong ==
  ASSUME NEW d, NEW parts \in Seq(Words), NEW after, NEW v, NEW new,
         Follows(d, parts, after, v, new)
  PROVE  \A k \in 0 .. Len(parts) : Along(after, parts)[k] = new[k]
<1> DEFINE Good == {k \in Nat : k <= Len(parts) => Along(after, parts)[k] = new[k]}
<1>0. Len(parts) \in Nat
  OBVIOUS
<1>1. 0 \in Good
  BY <1>0, AlongDefined DEF Follows
<1>2. ASSUME NEW k \in Nat, k \in Good PROVE k + 1 \in Good
  <2>1. SUFFICES ASSUME k + 1 <= Len(parts) PROVE Along(after, parts)[k + 1] = new[k + 1]
    OBVIOUS
  <2>2. /\ k + 1 \in 0 .. Len(parts) /\ k \in 0 .. Len(parts) - 1
        /\ k + 1 # 0 /\ (k + 1) - 1 = k /\ k <= Len(parts)
    BY <1>0, <2>1
  <2>3. Along(after, parts)[k + 1] = Descend(Along(after, parts)[k], parts[k + 1])
    BY <1>0, <2>2, AlongDefined
  <2>4. Descend(new[k], parts[k + 1]) = new[k + 1]
    BY <2>2 DEF Follows, Leads
  <2> QED BY <1>2, <2>2, <2>3, <2>4
<1>3. Nat \subseteq Good
  <2> HIDE DEF Good
  <2> QED BY <1>1, <1>2, Upwards
<1> QED BY <1>3

\* From where two states agree along a path, they go on to agree.
LEMMA AgreesOn ==
  ASSUME NEW d, NEW e, NEW parts, Len(parts) \in Nat,
         NEW j \in 0 .. Len(parts), Along(d, parts)[j] = Along(e, parts)[j]
  PROVE  Walk(d, parts) = Walk(e, parts)
<1> DEFINE Good == {m \in Nat : j + m <= Len(parts) =>
                      Along(d, parts)[j + m] = Along(e, parts)[j + m]}
<1>0. j \in Nat /\ j <= Len(parts)
  OBVIOUS
<1>1. 0 \in Good
  BY <1>0
<1>2. ASSUME NEW m \in Nat, m \in Good PROVE m + 1 \in Good
  <2>1. SUFFICES ASSUME j + (m + 1) <= Len(parts)
        PROVE  Along(d, parts)[j + (m + 1)] = Along(e, parts)[j + (m + 1)]
    OBVIOUS
  <2> DEFINE k == j + (m + 1)
  <2>2. k \in 0 .. Len(parts) /\ k # 0 /\ k - 1 = j + m /\ j + m <= Len(parts)
    BY <1>0, <2>1
  <2> HIDE DEF k
  <2>3. Along(d, parts)[k] = Descend(Along(d, parts)[k - 1], parts[k])
    BY <2>2, AlongDefined
  <2>4. Along(e, parts)[k] = Descend(Along(e, parts)[k - 1], parts[k])
    BY <2>2, AlongDefined
  <2>5. Along(d, parts)[k] = Along(e, parts)[k]
    BY <1>2, <2>2, <2>3, <2>4
  <2> QED BY <2>5 DEF k
<1>3. Nat \subseteq Good
  <2> HIDE DEF Good
  <2> QED BY <1>1, <1>2, Upwards
<1>4. Len(parts) - j \in Nat /\ j + (Len(parts) - j) = Len(parts)
  BY <1>0
<1>5. Along(d, parts)[Len(parts)] = Along(e, parts)[Len(parts)]
  BY <1>3, <1>4
<1> QED BY <1>5 DEF Walk

\* Reading along another path.
LEMMA FollowsFrame ==
  ASSUME NEW d, NEW parts \in Seq(Words), NEW after, NEW v, NEW new,
         Follows(d, parts, after, v, new), NEW other \in Seq(Words)
  PROVE  Frame(d, after, parts, other)
<1>0. Len(parts) \in Nat /\ Len(other) \in Nat
  OBVIOUS
<1>1. SUFFICES ASSUME ~IsPrefix(parts, other), ~IsPrefix(other, parts)
               PROVE  \/ Walk(after, other) = Walk(d, other)
                      \/ Walk(d, other) = None /\ Walk(after, other) = VNull
  BY DEF Frame
<1> DEFINE D == {k \in Nat : k \in 1 .. Len(parts) /\ k \in 1 .. Len(other) /\ parts[k] # other[k]}
<1>2. D # {}
  <2>1. SUFFICES ASSUME D = {} PROVE FALSE
    OBVIOUS
  <2>2. \A k \in Nat : k \in 1 .. Len(parts) /\ k \in 1 .. Len(other) => parts[k] = other[k]
    BY <2>1
  <2>3. CASE Len(parts) <= Len(other)
    <3>1. \A k \in 1 .. Len(parts) : parts[k] = other[k]
      BY <1>0, <2>2, <2>3
    <3> QED BY <1>1, <2>3, <3>1, PrefixMeans
  <2>4. CASE Len(other) <= Len(parts)
    <3>1. \A k \in 1 .. Len(other) : other[k] = parts[k]
      BY <1>0, <2>2, <2>4
    <3> QED BY <1>1, <2>4, <3>1, PrefixMeans
  <2> QED BY <1>0, <2>3, <2>4
<1>3. PICK j \in D : \A k \in D : j <= k
  <2>1. D \subseteq Nat
    OBVIOUS
  <2> HIDE DEF D
  <2> QED BY <1>2, <2>1, Least
<1>4. j \in Nat /\ j \in 1 .. Len(parts) /\ j \in 1 .. Len(other) /\ parts[j] # other[j]
  OBVIOUS
<1> DEFINE i == j - 1
<1>5. /\ i \in Nat /\ i + 1 = j /\ i <= Len(parts) /\ i <= Len(other)
      /\ i \in 0 .. Len(parts) - 1 /\ i \in 0 .. Len(parts)
  BY <1>0, <1>4
<1>6. \A k \in 1 .. i : parts[k] = other[k]
  <2>1. ASSUME NEW k \in 1 .. i PROVE parts[k] = other[k]
    <3>1. k \in Nat /\ k \in 1 .. Len(parts) /\ k \in 1 .. Len(other) /\ ~(j <= k)
      BY <1>0, <1>4
    <3> QED BY <1>3, <3>1
  <2> QED BY <2>1
<1> HIDE DEF i, D
<1>7. Along(d, other)[i] = Along(d, parts)[i]
  <2>1. \A k \in 0 .. i : Along(d, parts)[k] = Along(d, other)[k]
    BY <1>0, <1>5, <1>6, AlongAgrees
  <2> QED BY <1>5, <2>1
<1>8. Along(after, other)[i] = new[i]
  <2>1. \A k \in 0 .. i : Along(after, parts)[k] = Along(after, other)[k]
    BY <1>0, <1>5, <1>6, AlongAgrees
  <2>2. Along(after, parts)[i] = new[i]
    BY <1>5, FollowsAlong
  <2> QED BY <1>5, <2>1, <2>2
<1>9. /\ Along(d, other)[j] = Descend(Along(d, parts)[i], other[j])
      /\ Along(after, other)[j] = Descend(new[i], other[j])
  <2>1. j \in 0 .. Len(other) /\ j # 0 /\ j - 1 = i
    BY <1>0, <1>4, <1>5
  <2> QED BY <1>0, <1>7, <1>8, <2>1, AlongDefined
<1>10. \/ Along(after, other)[j] = Along(d, other)[j]
       \/ Along(after, other)[j] = VNull /\ Along(d, other)[j] = None
  <2>1. other[j] \in Words /\ other[j] # parts[i + 1]
    BY <1>4, <1>5
  <2> QED BY <1>5, <1>9, <2>1 DEF Follows, Leads
<1>11. CASE Along(after, other)[j] = Along(d, other)[j]
  <2>1. j \in 0 .. Len(other)
    BY <1>0, <1>4
  <2> QED BY <1>0, <1>11, <2>1, AgreesOn
<1>12. CASE Along(after, other)[j] = VNull /\ Along(d, other)[j] = None
  <2>1. CASE j = Len(other)
    BY <1>12, <2>1 DEF Walk
  <2>2. CASE j # Len(other)
    <3>1. j + 1 \in 0 .. Len(other) /\ j + 1 # 0 /\ (j + 1) - 1 = j
      BY <1>0, <1>4, <2>2
    <3>2. VNull.type = "null" /\ None.type = "none"
      BY DEF VNull, None
    <3>3. \A s : Descend(VNull, s) = None /\ Descend(None, s) = None
      BY <3>2 DEF Descend
    <3>4. Along(after, other)[j + 1] = None /\ Along(d, other)[j + 1] = None
      BY <1>0, <1>12, <3>1, <3>3, AlongDefined
    <3> QED BY <1>0, <3>1, <3>4, AgreesOn
  <2> QED BY <2>1, <2>2
<1> QED BY <1>10, <1>11, <1>12

(* Whatever set_path has written to a place is what get_path reads there,  *)
(* and no other path notices, in every state and along every path.         *)
THEOREM WritesAreRead == Spec => []WritesReadBack
<1>1. DataInv => WritesReadBack
  <2> SUFFICES ASSUME DataInv PROVE WritesReadBack
    OBVIOUS
  <2>1. \A p \in Paths : Segments[p] = SplitPath(p) /\ p \in Words
    BY ValuesAssumption DEF Segments
  <2>2. SUFFICES ASSUME NEW path \in Paths, NEW v, IsPlace(data, SplitPath(path))
        PROVE  /\ ReadsBack(data, SetPath(data, path, v), path, v)
               /\ \A other \in Paths :
                    Frame(data, SetPath(data, path, v), SplitPath(path), SplitPath(other))
    BY <2>1 DEF WritesReadBack
  <2> DEFINE after == SetPath(data, path, v)
             parts == SplitPath(path)
  <2>3. path \in Words /\ parts \in Seq(Words)
    BY <2>1, SplitTyped
  <2>4. PICK new : Follows(data, parts, after, v, new)
    BY <2>2, <2>3, PlaceFollows DEF DataInv
  <2>5. path # <<>> /\ parts # <<>>
    BY <2>2, SplitEmpty DEF IsPlace
  <2> HIDE DEF after
  <2>6. ReadsBack(data, after, path, v)
    <3>1. GetPath(after, path) = Along(after, parts)[Len(parts)]
      BY <2>5 DEF GetPath, Walk
    <3> HIDE DEF parts
    <3>2. Len(parts) \in 0 .. Len(parts)
      BY <2>3
    <3>3. Along(after, parts)[Len(parts)] = new[Len(parts)]
      BY <2>3, <2>4, <3>2, FollowsAlong
    <3> QED BY <2>4, <3>1, <3>3 DEF ReadsBack, Follows
  <2>7. \A other \in Paths : Frame(data, after, parts, SplitPath(other))
    <3> HIDE DEF parts
    <3> QED BY <2>1, <2>3, <2>4, SplitTyped, FollowsFrame
  <2> QED BY <2>6, <2>7 DEF after
<1>2. Spec => []DataInv
  BY StateHoldsValues
<1> QED BY <1>1, <1>2, PTL

-----------------------------------------------------------------------------
(* References are followed to their end.                                   *)

\* What resolution meets at each level, from the level above.
LEMMA LedDefined ==
  ASSUME NEW d, NEW v, NEW depth \in Nat
  PROVE  Led(d, v, depth) =
           [n \in 0 .. depth |->
              IF n = 0 THEN {v} ELSE UNION {LeadsTo(d, w) : w \in Led(d, v, depth)[n - 1]}]
<1> DEFINE Below(S) == UNION {LeadsTo(d, w) : w \in S}
           Body(f, m) == [n \in 0 .. m |-> IF n = 0 THEN {v} ELSE Below(f[n - 1])]
           Some == {m \in Nat : \E f : f = Body(f, m)}
<1> HIDE DEF Below
<1>1. 0 \in Some
  <2> DEFINE g == [n \in 0 .. 0 |-> {v}]
  <2>1. g = Body(g, 0)
    OBVIOUS
  <2> HIDE DEF g, Body
  <2> QED BY <2>1
<1>2. ASSUME NEW m \in Nat, m \in Some PROVE m + 1 \in Some
  <2>1. PICK f : f = Body(f, m)
    BY <1>2
  <2> DEFINE g == [n \in 0 .. m + 1 |-> IF n = m + 1 THEN Below(f[m]) ELSE f[n]]
  <2>2. ASSUME NEW n \in 0 .. m + 1
        PROVE  g[n] = IF n = 0 THEN {v} ELSE Below(g[n - 1])
    <3>1. CASE n = m + 1
      BY <3>1
    <3>2. CASE n # m + 1
      <4>1. n \in 0 .. m /\ (n # 0 => n - 1 \in 0 .. m)
        BY <3>2
      <4>2. f[n] = IF n = 0 THEN {v} ELSE Below(f[n - 1])
        BY <2>1, <4>1
      <4> QED BY <3>2, <4>1, <4>2
    <3> QED BY <3>1, <3>2
  <2>3. g = Body(g, m + 1)
    BY <2>2
  <2> HIDE DEF g, Body
  <2> QED BY <2>3
<1>3. Nat \subseteq Some
  <2> HIDE DEF Some
  <2> QED BY <1>1, <1>2, Upwards
<1> DEFINE At == CHOOSE f : f = Body(f, depth)
<1>4. At = Body(At, depth)
  <2> HIDE DEF Body
  <2> QED BY <1>3
<1>5. Led(d, v, depth) = At
  BY DEF Led, Below
<1> HIDE DEF At
<1> QED BY <1>4, <1>5 DEF Below

\* How deep one goes makes no difference for the levels above.
LEMMA LedSame ==
  ASSUME NEW d, NEW v, NEW depth \in Nat, NEW more \in Nat, depth <= more
  PROVE  \A n \in 0 .. depth : Led(d, v, depth)[n] = Led(d, v, more)[n]
<1> DEFINE Good == {n \in Nat : n <= depth => Led(d, v, depth)[n] = Led(d, v, more)[n]}
<1>1. 0 \in Good
  <2>1. 0 \in 0 .. depth /\ 0 \in 0 .. more
    OBVIOUS
  <2>2. Led(d, v, depth)[0] = {v}
    BY <2>1, LedDefined
  <2>3. Led(d, v, more)[0] = {v}
    BY <2>1, LedDefined
  <2> QED BY <2>2, <2>3
<1>2. ASSUME NEW n \in Nat, n \in Good PROVE n + 1 \in Good
  <2>1. SUFFICES ASSUME n + 1 <= depth PROVE Led(d, v, depth)[n + 1] = Led(d, v, more)[n + 1]
    OBVIOUS
  <2>2. n + 1 \in 0 .. depth /\ n + 1 \in 0 .. more /\ n + 1 # 0 /\ (n + 1) - 1 = n /\ n <= depth
    BY <2>1
  <2>3. Led(d, v, depth)[n + 1] = UNION {LeadsTo(d, w) : w \in Led(d, v, depth)[n]}
    BY <2>2, LedDefined
  <2>4. Led(d, v, more)[n + 1] = UNION {LeadsTo(d, w) : w \in Led(d, v, more)[n]}
    BY <2>2, LedDefined
  <2> QED BY <1>2, <2>2, <2>3, <2>4
<1>3. Nat \subseteq Good
  <2> HIDE DEF Good
  <2> QED BY <1>1, <1>2, Upwards
<1> QED BY <1>3

\* resolve_refs_inner at one level, when `fuel` levels are left at level 0.
Resolved(d, w, depth, fuel, below) ==
  CASE depth > fuel -> VNull
    [] depth <= fuel /\ Alone(w, RefKey)  -> below[ResolvePath(d, w)]
    [] depth <= fuel /\ Alone(w, PassKey) -> ResolvePass(d, w)
    [] OTHER -> Rebuilt(w, below)

\* The results at every level, from those of the level below.
Resolution(d, v, fuel, of) ==
  /\ \A n \in 0 .. fuel + 1 :
       of[n] = [w \in Led(d, v, fuel + 1)[n] |->
                  Resolved(d, w, n, fuel, IF n = fuel + 1 THEN <<>> ELSE of[n + 1])]
  /\ ResolveUpTo(d, v, fuel) = of[0][v]

\* There are such results.
LEMMA ResolveDefined ==
  ASSUME NEW d, NEW v, NEW fuel \in Nat
  PROVE  \E of : Resolution(d, v, fuel, of)
<1> DEFINE N == fuel + 1
           Step(k, below) == [w \in Led(d, v, N)[k] |-> Resolved(d, w, k, fuel, below)]
           Body(f, n) == [k \in N - n .. N |-> Step(k, IF k = N THEN <<>> ELSE f[k + 1])]
           Some == {n \in Nat : n <= N => \E f : f = Body(f, n)}
<1>0. N \in Nat
  OBVIOUS
<1> HIDE DEF N, Step
<1>1. 0 \in Some
  <2> DEFINE g == [k \in N .. N |-> Step(k, <<>>)]
  <2>1. g = Body(g, 0)
    BY <1>0
  <2> HIDE DEF g, Body
  <2> QED BY <2>1
<1>2. ASSUME NEW n \in Nat, n \in Some PROVE n + 1 \in Some
  <2>0. SUFFICES ASSUME n + 1 <= N PROVE \E f : f = Body(f, n + 1)
    OBVIOUS
  <2>1. PICK f : f = Body(f, n)
    BY <1>0, <1>2, <2>0
  <2> DEFINE m == N - (n + 1)
             g == [k \in m .. N |-> IF k = m THEN Step(m, f[m + 1]) ELSE f[k]]
  <2>2. ASSUME NEW k \in m .. N
        PROVE  g[k] = Step(k, IF k = N THEN <<>> ELSE g[k + 1])
    <3>0. m \in Nat /\ m < N /\ m + 1 = N - n
      BY <1>0, <2>0
    <3> HIDE DEF m
    <3>1. CASE k = m
      <4>1. k # N /\ k + 1 \in m .. N /\ k + 1 # m
        BY <3>0, <3>1, <1>0
      <4>2. g[k + 1] = f[m + 1]
        BY <3>1, <4>1
      <4> QED BY <3>1, <4>1, <4>2
    <3>2. CASE k # m
      <4>1. k \in N - n .. N
        BY <3>0, <3>2, <1>0
      <4>2. f[k] = Step(k, IF k = N THEN <<>> ELSE f[k + 1])
        BY <2>1, <4>1
      <4>3. k # N => k + 1 \in m .. N /\ k + 1 # m
        BY <4>1, <3>0, <1>0
      <4>4. k # N => g[k + 1] = f[k + 1]
        BY <4>3
      <4>5. g[k] = f[k]
        BY <3>2
      <4> HIDE DEF g
      <4> QED BY <4>2, <4>4, <4>5
    <3> QED BY <3>1, <3>2
  <2>3. g = Body(g, n + 1)
    BY <2>2
  <2> HIDE DEF g, Body
  <2> QED BY <2>3
<1>3. Nat \subseteq Some
  <2> HIDE DEF Some
  <2> QED BY <1>1, <1>2, Upwards
<1>4. \E f : f = Body(f, N)
  BY <1>0, <1>3
<1> DEFINE Of == CHOOSE f : f = [k \in 0 .. N |-> Step(k, IF k = N THEN <<>> ELSE f[k + 1])]
<1>5. \E f : f = [k \in 0 .. N |-> Step(k, IF k = N THEN <<>> ELSE f[k + 1])]
  BY <1>0, <1>4
<1>6. Of = [k \in 0 .. N |-> Step(k, IF k = N THEN <<>> ELSE Of[k + 1])]
  BY <1>5
<1>7. ResolveUpTo(d, v, fuel) = Of[0][v]
  BY DEF ResolveUpTo, BottomUp, N, Step, Resolved
<1> HIDE DEF Of
<1>8. \A n \in 0 .. N : Of[n] = Step(n, IF n = N THEN <<>> ELSE Of[n + 1])
  BY <1>6
<1> QED BY <1>7, <1>8 DEF N, Step, Resolution

\* What is clean holds no reference, however deep.
Clean(x) == \E U : x \in U /\ \A y \in U : ~Alone(y, RefKey) /\ PartsOf(y) \subseteq U

\* Clean parts without a reference around them.
LEMMA CleanMade ==
  ASSUME NEW x, ~Alone(x, RefKey), \A y \in PartsOf(x) : Clean(y)
  PROVE  Clean(x)
<1> DEFINE H(y) == CHOOSE U : y \in U /\ \A z \in U : ~Alone(z, RefKey) /\ PartsOf(z) \subseteq U
           F == {H(y) : y \in PartsOf(x)}
           W == {x} \cup UNION F
<1>1. ASSUME NEW y \in PartsOf(x)
      PROVE  y \in H(y) /\ \A z \in H(y) : ~Alone(z, RefKey) /\ PartsOf(z) \subseteq H(y)
  BY DEF Clean
<1> HIDE DEF H
<1>2. PartsOf(x) \subseteq W
  BY <1>1
<1>3. ASSUME NEW z \in UNION F PROVE ~Alone(z, RefKey) /\ PartsOf(z) \subseteq W
  <2>1. PICK y \in PartsOf(x) : z \in H(y)
    OBVIOUS
  <2>2. H(y) \subseteq W
    OBVIOUS
  <2> QED BY <1>1, <2>1, <2>2
<1>4. x \in W /\ \A z \in W : ~Alone(z, RefKey) /\ PartsOf(z) \subseteq W
  BY <1>2, <1>3
<1> HIDE DEF W
<1> QED BY <1>4 DEF Clean

\* Nothing inside is a reference.
LEMMA CleanDead ==
  ASSUME NEW x, Clean(x), NEW depth \in Nat
  PROVE  ~Live(x, depth)
<1>1. PICK U : x \in U /\ \A y \in U : ~Alone(y, RefKey) /\ PartsOf(y) \subseteq U
  BY DEF Clean
<1> DEFINE Good == {n \in Nat : n <= depth => Layers(x, depth)[n] \subseteq U}
<1>2. 0 \in Good
  BY <1>1, LayersDefined
<1>3. ASSUME NEW n \in Nat, n \in Good PROVE n + 1 \in Good
  <2>1. SUFFICES ASSUME n + 1 <= depth PROVE Layers(x, depth)[n + 1] \subseteq U
    OBVIOUS
  <2>2. n + 1 \in 0 .. depth /\ n + 1 # 0 /\ (n + 1) - 1 = n /\ n <= depth
    BY <2>1
  <2>3. Layers(x, depth)[n + 1] = UNION {PartsOf(w) : w \in Layers(x, depth)[n]}
    BY <2>2, LayersDefined
  <2>4. Layers(x, depth)[n] \subseteq U
    BY <1>3, <2>2
  <2> QED BY <1>1, <2>3, <2>4
<1>4. Nat \subseteq Good
  <2> HIDE DEF Good
  <2> QED BY <1>2, <1>3, Upwards
<1>5. \A n \in 0 .. depth : Layers(x, depth)[n] \subseteq U
  BY <1>4
<1> QED BY <1>1, <1>5 DEF Live, Inside

\* The parts of a list or an object that is put together anew.
LEMMA RebuiltParts ==
  ASSUME NEW w, NEW g
  PROVE  /\ PartsOf(Rebuilt(w, g)) \subseteq {g[y] : y \in PartsOf(w)}
         /\ \A key : Alone(Rebuilt(w, g), key) => Alone(w, key)
<1>1. CASE w.type = "list"
  <2> DEFINE r == [k \in DOMAIN w.items |-> g[w.items[k]]]
  <2>1. Rebuilt(w, g) = VList(r)
    BY <1>1 DEF Rebuilt
  <2>2. VList(r).type = "list" /\ VList(r).items = r
    BY DEF VList
  <2>3. Range(r) \subseteq {g[y] : y \in Range(w.items)}
    BY DEF Range
  <2> HIDE DEF r
  <2>4. PartsOf(VList(r)) = Range(r) /\ PartsOf(w) = Range(w.items)
    BY <1>1, <2>2 DEF PartsOf
  <2> QED BY <2>1, <2>2, <2>3, <2>4 DEF Alone
<1>2. CASE w.type = "obj"
  <2> DEFINE r == [k \in DOMAIN w.fields |-> g[w.fields[k]]]
  <2>1. Rebuilt(w, g) = VObj(r)
    BY <1>2 DEF Rebuilt
  <2>2. VObj(r).type = "obj" /\ VObj(r).fields = r /\ DOMAIN r = DOMAIN w.fields
    BY DEF VObj
  <2>3. Range(r) \subseteq {g[y] : y \in Range(w.fields)}
    BY DEF Range
  <2> HIDE DEF r
  <2>4. PartsOf(VObj(r)) = Range(r) /\ PartsOf(w) = Range(w.fields)
    BY <1>2, <2>2 DEF PartsOf
  <2> QED BY <1>2, <2>1, <2>2, <2>3, <2>4 DEF Alone
<1>3. CASE w.type # "list" /\ w.type # "obj"
  BY <1>3 DEF Rebuilt, PartsOf
<1> QED BY <1>1, <1>2, <1>3

\* Without parameters of the instruction on the way, nothing is left to follow.
LEMMA ResolvedClean ==
  ASSUME NEW d, NEW v, PassFree(d, v)
  PROVE  Clean(ResolveRefs(d, v))
<1> DEFINE F == MaxRefDepth
           N == F + 1
           L == Led(d, v, N)
<1>0. F \in Nat /\ N \in Nat
  BY RefAssumption
<1>1. PICK of : Resolution(d, v, F, of)
  <2> HIDE DEF F
  <2> QED BY <1>0, ResolveDefined
<1> DEFINE Good == {m \in Nat : m <= N => \A w \in L[N - m] : Clean(of[N - m][w])}
<1>2. 0 \in Good
  <2>1. SUFFICES ASSUME NEW w \in L[N] PROVE Clean(of[N][w])
    BY <1>0
  <2>2. of[N][w] = VNull
    <3>1. of[N] = [x \in L[N] |-> Resolved(d, x, N, F, <<>>)]
      BY <1>0, <1>1 DEF Resolution
    <3>2. of[N][w] = Resolved(d, w, N, F, <<>>)
      BY <3>1
    <3>3. N > F /\ ~(N <= F)
      BY <1>0
    <3> HIDE DEF N, F
    <3> QED BY <3>2, <3>3 DEF Resolved
  <2>3. ~Alone(VNull, RefKey) /\ PartsOf(VNull) = {}
    BY DEF Alone, PartsOf, VNull
  <2> QED BY <2>2, <2>3, CleanMade
<1>3. ASSUME NEW m \in Nat, m \in Good PROVE m + 1 \in Good
  <2> DEFINE n == N - (m + 1)
  <2>1. SUFFICES ASSUME m + 1 <= N, NEW w \in L[n] PROVE Clean(of[n][w])
    OBVIOUS
  <2>2. /\ n \in Nat /\ n \in 0 .. N /\ n \in 0 .. F /\ n # N /\ n <= F /\ ~(n > F)
        /\ n + 1 = N - m /\ m <= N /\ n + 1 \in 0 .. N /\ n + 1 # 0 /\ (n + 1) - 1 = n
    BY <1>0, <2>1
  <2>3. \A y \in L[n + 1] : Clean(of[n + 1][y])
    BY <1>3, <2>2
  <2>4. LeadsTo(d, w) \subseteq L[n + 1]
    <3>1. L[n + 1] = UNION {LeadsTo(d, x) : x \in L[n]}
      <4> HIDE DEF n, N
      <4> QED BY <1>0, <2>2, LedDefined
    <3> HIDE DEF L, n
    <3> QED BY <2>1, <3>1
  <2>5. ~Alone(w, PassKey)
    <3>1. L[n] = Led(d, v, F)[n]
      <4>1. F <= N
        BY <1>0
      <4> HIDE DEF n, N, F
      <4> QED BY <1>0, <2>2, <4>1, LedSame
    <3> HIDE DEF L, n
    <3> QED BY <2>1, <2>2, <3>1 DEF PassFree
  <2>6. of[n][w] = Resolved(d, w, n, F, of[n + 1])
    <3>1. of[n] = [x \in L[n] |-> Resolved(d, x, n, F, of[n + 1])]
      <4> HIDE DEF n
      <4> QED BY <1>1, <2>2 DEF Resolution
    <3> HIDE DEF L, n
    <3> QED BY <2>1, <3>1
  <2> DEFINE g == of[n + 1]
  <2> HIDE DEF n, N, L, F, Good, g
  <2>7. CASE Alone(w, RefKey)
    <3>1. of[n][w] = g[ResolvePath(d, w)]
      BY <2>2, <2>5, <2>6, <2>7 DEF Resolved, g
    <3>2. ResolvePath(d, w) \in L[n + 1]
      BY <2>4, <2>5, <2>7 DEF LeadsTo
    <3> QED BY <2>3, <3>1, <3>2 DEF g
  <2>8. CASE ~Alone(w, RefKey)
    <3>1. of[n][w] = Rebuilt(w, g)
      BY <2>2, <2>5, <2>6, <2>8 DEF Resolved, g
    <3>2. PartsOf(w) \subseteq L[n + 1]
      BY <2>4, <2>5, <2>8 DEF LeadsTo
    <3>3. ~Alone(Rebuilt(w, g), RefKey) /\ PartsOf(Rebuilt(w, g)) \subseteq {g[y] : y \in PartsOf(w)}
      BY <2>8, RebuiltParts
    <3>4. \A y \in PartsOf(Rebuilt(w, g)) : Clean(y)
      BY <2>3, <3>2, <3>3 DEF g
    <3> QED BY <3>1, <3>3, <3>4, CleanMade
  <2> QED BY <2>7, <2>8
<1>4. Nat \subseteq Good
  <2> HIDE DEF Good
  <2> QED BY <1>2, <1>3, Upwards
<1>5. \A w \in L[0] : Clean(of[0][w])
  <2>1. N \in Good
    BY <1>0, <1>4
  <2>2. N - N = 0 /\ N <= N
    BY <1>0
  <2> HIDE DEF N, L
  <2> QED BY <2>1, <2>2
<1>6. v \in L[0]
  BY <1>0, LedDefined
<1> QED BY <1>1, <1>5, <1>6 DEF ResolveRefs, Resolution

\* Where no way is longer than the limit, more levels give the same.
LEMMA LimitSuffices ==
  ASSUME NEW d, NEW v, WithinLimit(d, v)
  PROVE  ResolveRefs(d, v) = ResolveUpTo(d, v, 2 * MaxRefDepth)
<1> DEFINE F == MaxRefDepth
           G == 2 * MaxRefDepth
           N == F + 1
           L == Led(d, v, N)
           M == Led(d, v, G + 1)
<1>0. F \in Nat /\ G \in Nat /\ N \in Nat /\ G + 1 \in Nat /\ N <= G + 1 /\ F <= G
  BY RefAssumption
<1> HIDE DEF F, G
<1>1. PICK f : Resolution(d, v, F, f)
  BY <1>0, ResolveDefined
<1>2. PICK g : Resolution(d, v, G, g)
  BY <1>0, ResolveDefined
<1>3. \A n \in 0 .. N : L[n] = M[n]
  BY <1>0, LedSame
<1>4. L[N] = {}
  BY DEF WithinLimit, F
<1> DEFINE Good == {m \in Nat : m <= N => f[N - m] = g[N - m]}
<1>5. 0 \in Good
  <2>1. f[N] = [w \in L[N] |-> Resolved(d, w, N, F, <<>>)]
    BY <1>0, <1>1 DEF Resolution
  <2>2. g[N] = [w \in M[N] |-> Resolved(d, w, N, G, IF N = G + 1 THEN <<>> ELSE g[N + 1])]
    <3>1. N \in 0 .. G + 1
      BY <1>0
    <3> HIDE DEF N
    <3> QED BY <1>2, <3>1 DEF Resolution
  <2>3. L[N] = M[N]
    BY <1>0, <1>3
  <2>4. N - 0 = N
    BY <1>0
  <2> HIDE DEF N, L, M
  <2> QED BY <1>4, <2>1, <2>2, <2>3, <2>4
<1>6. ASSUME NEW m \in Nat, m \in Good PROVE m + 1 \in Good
  <2> DEFINE n == N - (m + 1)
  <2>1. SUFFICES ASSUME m + 1 <= N PROVE f[n] = g[n]
    OBVIOUS
  <2>2. /\ n \in Nat /\ n \in 0 .. N /\ n # N /\ n <= F /\ ~(n > F) /\ n \in 0 .. F + 1
        /\ n \in 0 .. G + 1 /\ n # G + 1 /\ n # F + 1 /\ n <= G /\ ~(n > G)
        /\ n + 1 = N - m /\ m <= N
    BY <1>0, <2>1
  <2>3. f[n + 1] = g[n + 1]
    BY <1>6, <2>2
  <2> HIDE DEF n
  <2>4. f[n] = [w \in L[n] |-> Resolved(d, w, n, F, f[n + 1])]
    BY <1>1, <2>2 DEF Resolution
  <2>5. g[n] = [w \in M[n] |-> Resolved(d, w, n, G, g[n + 1])]
    BY <1>2, <2>2 DEF Resolution
  <2>6. L[n] = M[n]
    BY <1>3, <2>2
  <2> HIDE DEF L, M, N
  <2>7. \A w, below : Resolved(d, w, n, F, below) = Resolved(d, w, n, G, below)
    BY <2>2 DEF Resolved
  <2> QED BY <2>3, <2>4, <2>5, <2>6, <2>7
<1>7. Nat \subseteq Good
  <2> HIDE DEF Good
  <2> QED BY <1>5, <1>6, Upwards
<1>8. f[0] = g[0]
  <2>1. N \in Good /\ N - N = 0 /\ N <= N
    BY <1>0, <1>7
  <2> HIDE DEF N
  <2> QED BY <2>1
<1> QED BY <1>1, <1>2, <1>8 DEF ResolveRefs, Resolution, F, G

(* In every state: what dispatch hands to the primitives of its table      *)
(* leads to no further reference, unless it is a parameter of the          *)
(* instruction, and is complete where no way is longer than the limit.     *)
THEOREM RefsAreResolved == Spec => []RefsResolved
<1>1. RefsResolved
  <2>1. ASSUME NEW v \in Samples
        PROVE  LET r == ResolveRefs(data, v)
               IN  /\ PassFree(data, v) => ~Live(r, MaxRefDepth + 1)
                   /\ WithinLimit(data, v) => r = ResolveUpTo(data, v, 2 * MaxRefDepth)
    <3>1. MaxRefDepth + 1 \in Nat
      BY RefAssumption
    <3> QED BY <3>1, ResolvedClean, CleanDead, LimitSuffices
  <2> QED BY <2>1 DEF RefsResolved
<1> QED BY <1>1, PTL

-----------------------------------------------------------------------------
(* The encoding that content_hash hashes tells values apart.               *)

\* Equally long beginnings of equal sequences are equal.
LEMMA ConcatSplit ==
  ASSUME NEW a \in Seq(Int), NEW b \in Seq(Int), NEW c \in Seq(Int), NEW e \in Seq(Int),
         Len(a) = Len(b), a \o c = b \o e
  PROVE  a = b /\ c = e
<1>1. Len(a) \in Nat /\ Len(c) \in Nat /\ Len(e) \in Nat
  OBVIOUS
<1>2. \A i \in 1 .. Len(a) : a[i] = b[i]
  <2>1. ASSUME NEW i \in 1 .. Len(a) PROVE a[i] = b[i]
    <3>1. (a \o c)[i] = a[i]
      BY <1>1, ConcatProperties
    <3>2. (b \o e)[i] = b[i]
      BY <1>1, ConcatProperties
    <3> QED BY <3>1, <3>2
  <2> QED BY <2>1
<1>3. a = b
  BY <1>2, SeqEqual
<1>4. a \o c = a \o e
  BY <1>3
<1>5. c = e
  BY <1>4, ConcatSimplifications
<1> QED BY <1>3, <1>5

\* One number at the front.
LEMMA ConsSplit ==
  ASSUME NEW m \in Int, NEW n \in Int, NEW c \in Seq(Int), NEW e \in Seq(Int),
         <<m>> \o c = <<n>> \o e
  PROVE  m = n /\ c = e
<1>1. <<m>> \in Seq(Int) /\ <<n>> \in Seq(Int) /\ Len(<<m>>) = Len(<<n>>)
  OBVIOUS
<1>2. <<m>> = <<n>> /\ c = e
  BY <1>1, ConcatSplit
<1> QED BY <1>2

\* One byte for each token.
LEMMA TextBytesTyped ==
  ASSUME NEW s \in Words
  PROVE  TextBytes(s) \in Seq(Int) /\ Len(TextBytes(s)) = Len(s)
<1>1. Len(s) \in Nat /\ DOMAIN s = 1 .. Len(s) /\ \A k \in 1 .. Len(s) : s[k] \in DOMAIN Code
  BY DEF Words
<1>2. \A k \in 1 .. Len(s) : Code[s[k]] \in Int
  BY <1>1, CodeAssumption
<1>3. TextBytes(s) = [k \in 1 .. Len(s) |-> Code[s[k]]]
  BY <1>1 DEF TextBytes
<1> QED BY <1>1, <1>2, <1>3

\* The bytes of a text, when its length is known.
LEMMA TextSplit ==
  ASSUME NEW s \in Words, NEW t \in Words, Len(s) = Len(t),
         NEW c \in Seq(Int), NEW e \in Seq(Int), TextBytes(s) \o c = TextBytes(t) \o e
  PROVE  s = t /\ c = e
<1>1. /\ TextBytes(s) \in Seq(Int) /\ TextBytes(t) \in Seq(Int)
      /\ Len(TextBytes(s)) = Len(s) /\ Len(TextBytes(t)) = Len(t)
  BY TextBytesTyped
<1>2. TextBytes(s) = TextBytes(t) /\ c = e
  <2> DEFINE x == TextBytes(s)
             y == TextBytes(t)
  <2>1. x \in Seq(Int) /\ y \in Seq(Int) /\ Len(x) = Len(y) /\ x \o c = y \o e
    BY <1>1
  <2> HIDE DEF x, y
  <2>2. x = y /\ c = e
    BY <2>1, ConcatSplit
  <2> QED BY <2>2 DEF x, y
<1>3. \A k \in 1 .. Len(s) : s[k] = t[k]
  <2>1. ASSUME NEW k \in 1 .. Len(s) PROVE s[k] = t[k]
    <3>1. /\ k \in DOMAIN s /\ k \in DOMAIN t
          /\ s[k] \in DOMAIN Code /\ t[k] \in DOMAIN Code
      BY DEF Words
    <3>2. Code[s[k]] = Code[t[k]]
      BY <1>2, <3>1 DEF TextBytes
    <3> QED BY <3>1, <3>2, CodeAssumption DEF IsInjective
  <2> QED BY <2>1
<1>4. s = t
  BY <1>3, SeqEqual DEF Words
<1> QED BY <1>2, <1>4

\* FlattenSeq, from the left.
Flattened(s, f) ==
  /\ f[1] = s[1]
  /\ \A i \in 1 .. Len(s) - 1 : f[i + 1] = f[i] \o s[i + 1]
  /\ FlattenSeq(s) = f[Len(s)]

\* FlattenSeq has such beginnings.
LEMMA FlattenDefined ==
  ASSUME NEW s, Len(s) \in Nat, Len(s) > 0
  PROVE  \E f : Flattened(s, f)
<1> DEFINE Body(f, n) == [i \in 1 .. n |-> IF i = 1 THEN s[i] ELSE f[i - 1] \o s[i]]
           Some == {n \in Nat : \E f : f = Body(f, n)}
<1>1. 0 \in Some
  <2> DEFINE g == [i \in 1 .. 0 |-> s[1]]
  <2>1. g = Body(g, 0)
    OBVIOUS
  <2> HIDE DEF g, Body
  <2> QED BY <2>1
<1>2. ASSUME NEW n \in Nat, n \in Some PROVE n + 1 \in Some
  <2>1. PICK f : f = Body(f, n)
    BY <1>2
  <2> DEFINE g == [i \in 1 .. n + 1 |-> IF i = n + 1
                                          THEN IF i = 1 THEN s[i] ELSE f[n] \o s[i]
                                          ELSE f[i]]
  <2>2. ASSUME NEW i \in 1 .. n + 1
        PROVE  g[i] = IF i = 1 THEN s[i] ELSE g[i - 1] \o s[i]
    <3>1. CASE i = n + 1
      <4>1. i # 1 => i - 1 \in 1 .. n + 1 /\ i - 1 # n + 1 /\ i - 1 = n
        BY <3>1
      <4>2. i # 1 => g[i - 1] = f[n]
        BY <4>1
      <4>3. g[i] = IF i = 1 THEN s[i] ELSE f[n] \o s[i]
        BY <3>1
      <4> HIDE DEF g
      <4> QED BY <4>2, <4>3
    <3>2. CASE i # n + 1
      <4>1. i \in 1 .. n /\ (i # 1 => i - 1 \in 1 .. n + 1 /\ i - 1 # n + 1)
        BY <3>2
      <4>2. f[i] = IF i = 1 THEN s[i] ELSE f[i - 1] \o s[i]
        BY <2>1, <4>1
      <4>3. g[i] = f[i] /\ (i # 1 => g[i - 1] = f[i - 1])
        BY <3>2, <4>1
      <4> HIDE DEF g
      <4> QED BY <4>2, <4>3
    <3> QED BY <3>1, <3>2
  <2>3. g = Body(g, n + 1)
    BY <2>2
  <2> HIDE DEF g, Body
  <2> QED BY <2>3
<1>3. Nat \subseteq Some
  <2> HIDE DEF Some
  <2> QED BY <1>1, <1>2, Upwards
<1> DEFINE f == CHOOSE f : f = Body(f, Len(s))
<1>4. f = Body(f, Len(s))
  <2> HIDE DEF Body
  <2> QED BY <1>3
<1>5. FlattenSeq(s) = f[Len(s)]
  BY DEF FlattenSeq
<1> HIDE DEF f
<1>6. \A i \in 1 .. Len(s) : f[i] = IF i = 1 THEN s[i] ELSE f[i - 1] \o s[i]
  BY <1>4
<1>7. f[1] = s[1]
  <2>1. 1 \in 1 .. Len(s)
    OBVIOUS
  <2> QED BY <1>6, <2>1
<1>8. ASSUME NEW i \in 1 .. Len(s) - 1 PROVE f[i + 1] = f[i] \o s[i + 1]
  <2>1. i + 1 \in 1 .. Len(s) /\ i + 1 # 1 /\ (i + 1) - 1 = i
    OBVIOUS
  <2> QED BY <1>6, <2>1
<1> QED BY <1>5, <1>7, <1>8 DEF Flattened

\* What joining sequences of numbers makes is one, and so are its beginnings.
LEMMA FlattenTyped ==
  ASSUME NEW s \in Seq(Seq(Int))
  PROVE  /\ FlattenSeq(s) \in Seq(Int)
         /\ \A f : Flattened(s, f) => \A i \in 1 .. Len(s) : f[i] \in Seq(Int)
<1>0. Len(s) \in Nat /\ \A i \in 1 .. Len(s) : s[i] \in Seq(Int)
  OBVIOUS
<1>1. ASSUME NEW f, Flattened(s, f) PROVE \A i \in 1 .. Len(s) : f[i] \in Seq(Int)
  <2> DEFINE Good == {i \in Nat : i \in 1 .. Len(s) => f[i] \in Seq(Int)}
  <2>1. 0 \in Good
    OBVIOUS
  <2>2. ASSUME NEW i \in Nat, i \in Good PROVE i + 1 \in Good
    <3>1. SUFFICES ASSUME i + 1 \in 1 .. Len(s) PROVE f[i + 1] \in Seq(Int)
      OBVIOUS
    <3>2. CASE i = 0
      <4>1. i + 1 = 1
        BY <3>2
      <4> QED BY <1>0, <1>1, <3>1, <4>1 DEF Flattened
    <3>3. CASE i # 0
      <4>1. i \in 1 .. Len(s) - 1 /\ i \in 1 .. Len(s)
        BY <1>0, <3>1, <3>3
      <4>2. f[i] \in Seq(Int) /\ s[i + 1] \in Seq(Int)
        BY <1>0, <2>2, <3>1, <4>1
      <4>3. f[i + 1] = f[i] \o s[i + 1]
        BY <1>1, <4>1 DEF Flattened
      <4> QED BY <4>2, <4>3, ConcatProperties
    <3> QED BY <3>2, <3>3
  <2>3. Nat \subseteq Good
    <3> HIDE DEF Good
    <3> QED BY <2>1, <2>2, Upwards
  <2> QED BY <2>3
<1>2. CASE Len(s) = 0
  <2>1. s = <<>>
    BY <1>2, EmptySeq
  <2>2. FlattenSeq(s) = <<>>
    BY <1>2, <2>1 DEF FlattenSeq
  <2> QED BY <1>1, <2>2
<1>3. CASE Len(s) # 0
  <2>1. PICK f : Flattened(s, f)
    BY <1>0, <1>3, FlattenDefined
  <2>2. Len(s) \in 1 .. Len(s)
    BY <1>0, <1>3
  <2>3. f[Len(s)] \in Seq(Int)
    BY <1>1, <2>1, <2>2
  <2> QED BY <1>1, <2>1, <2>3 DEF Flattened
<1> QED BY <1>2, <1>3

\* Whatever follows them, x and y agree and what follows agrees, and G holds.
Cancels(x, y, G) ==
  \A p, q \in Seq(Int) : x \o p = y \o q => G /\ p = q

\* Concatenation of sequences of numbers is associative.
LEMMA Regrouped == \A u, v, w \in Seq(Int) : (u \o v) \o w = u \o (v \o w)
BY ConcatAssociative

\* One after the other cancels where the first does and, if it holds, the second.
LEMMA BothCancel ==
  ASSUME NEW x1 \in Seq(Int), NEW y1 \in Seq(Int), NEW x2 \in Seq(Int), NEW y2 \in Seq(Int),
         NEW G1 \in BOOLEAN, NEW G2 \in BOOLEAN, Cancels(x1, y1, G1), G1 => Cancels(x2, y2, G2)
  PROVE  Cancels(x1 \o x2, y1 \o y2, G1 /\ G2)
<1>1. \A r \in Seq(Int) : (x1 \o x2) \o r = x1 \o (x2 \o r)
  <2>1. x1 \in Seq(Int) /\ x2 \in Seq(Int)
    OBVIOUS
  <2> QED BY <2>1, Regrouped
<1>2. \A r \in Seq(Int) : (y1 \o y2) \o r = y1 \o (y2 \o r)
  <2>1. y1 \in Seq(Int) /\ y2 \in Seq(Int)
    OBVIOUS
  <2> QED BY <2>1, Regrouped
<1>3. \A r \in Seq(Int) : x2 \o r \in Seq(Int) /\ y2 \o r \in Seq(Int)
  BY ConcatProperties
<1>4. \A p, q \in Seq(Int) : x1 \o p = y1 \o q => G1 /\ p = q
  BY DEF Cancels
<1>5. G1 => \A p, q \in Seq(Int) : x2 \o p = y2 \o q => G2 /\ p = q
  BY DEF Cancels
<1>6. ASSUME NEW p \in Seq(Int), NEW q \in Seq(Int), (x1 \o x2) \o p = (y1 \o y2) \o q
      PROVE  (G1 /\ G2) /\ p = q
  <2>1. x1 \o (x2 \o p) = y1 \o (y2 \o q)
    BY <1>1, <1>2, <1>6
  <2>2. G1 /\ x2 \o p = y2 \o q
    BY <1>3, <1>4, <2>1
  <2> QED BY <1>3, <1>5, <2>2
<1> QED BY <1>6 DEF Cancels

\* The beginnings of joined sequences cancel as far as their members do.
LEMMA BeginningsCancel ==
  ASSUME NEW s \in Seq(Seq(Int)), NEW t \in Seq(Seq(Int)),
         NEW f, NEW g, Flattened(s, f), Flattened(t, g),
         NEW m \in Nat, m <= Len(s), m <= Len(t),
         NEW G, \A i \in 1 .. m : Cancels(s[i], t[i], i \in G)
  PROVE  \A i \in 1 .. m : Cancels(f[i], g[i], 1 .. i \subseteq G)
<1>0. /\ Len(s) \in Nat /\ \A i \in 1 .. m : i \in 1 .. Len(s) /\ s[i] \in Seq(Int)
      /\ Len(t) \in Nat /\ \A i \in 1 .. m : i \in 1 .. Len(t) /\ t[i] \in Seq(Int)
  OBVIOUS
<1>1. \A i \in 1 .. m : f[i] \in Seq(Int) /\ g[i] \in Seq(Int)
  BY <1>0, FlattenTyped
<1> DEFINE Good == {i \in Nat : i \in 1 .. m => Cancels(f[i], g[i], 1 .. i \subseteq G)}
<1>2. 0 \in Good
  OBVIOUS
<1>3. ASSUME NEW i \in Nat, i \in Good PROVE i + 1 \in Good
  <2>1. SUFFICES ASSUME i + 1 \in 1 .. m
                 PROVE  Cancels(f[i + 1], g[i + 1], 1 .. i + 1 \subseteq G)
    OBVIOUS
  <2> HIDE DEF Good
  <2>2. CASE i = 0
    <3>1. i + 1 = 1 /\ 1 .. i + 1 = {1}
      BY <2>2
    <3>2. f[1] = s[1] /\ g[1] = t[1]
      BY DEF Flattened
    <3>3. Cancels(s[1], t[1], 1 \in G)
      BY <2>1, <3>1
    <3>4. 1 .. i + 1 \subseteq G <=> 1 \in G
      BY <3>1
    <3> QED BY <3>1, <3>2, <3>3, <3>4 DEF Cancels
  <2>3. CASE i # 0
    <3>1. /\ i \in 1 .. m /\ 1 .. i + 1 = (1 .. i) \cup {i + 1}
          /\ i \in 1 .. Len(s) - 1 /\ i \in 1 .. Len(t) - 1
      BY <1>0, <2>1, <2>3
    <3>2. f[i + 1] = f[i] \o s[i + 1] /\ g[i + 1] = g[i] \o t[i + 1]
      BY <3>1 DEF Flattened
    <3> DEFINE a == f[i]
               b == g[i]
               x == s[i + 1]
               y == t[i + 1]
               G1 == 1 .. i \subseteq G
               G2 == i + 1 \in G
    <3>3. a \in Seq(Int) /\ b \in Seq(Int) /\ x \in Seq(Int) /\ y \in Seq(Int)
      BY <1>0, <1>1, <2>1, <3>1
    <3>4. Cancels(a, b, G1)
      BY <1>3, <3>1 DEF Good
    <3>5. Cancels(x, y, G2)
      BY <2>1
    <3> HIDE DEF a, b, x, y
    <3>6. G1 \in BOOLEAN /\ G2 \in BOOLEAN /\ (1 .. i + 1 \subseteq G <=> G1 /\ G2)
      BY <3>1
    <3> HIDE DEF G1, G2
    <3>7. Cancels(a \o x, b \o y, G1 /\ G2)
      BY <3>3, <3>4, <3>5, <3>6, BothCancel
    <3>8. Cancels(a \o x, b \o y, 1 .. i + 1 \subseteq G)
      BY <3>6, <3>7 DEF Cancels
    <3> QED BY <3>2, <3>8 DEF a, b, x, y
  <2> QED BY <2>2, <2>3
<1>4. Nat \subseteq Good
  <2> HIDE DEF Good
  <2> QED BY <1>2, <1>3, Upwards
<1>5. ASSUME NEW i \in 1 .. m PROVE Cancels(f[i], g[i], 1 .. i \subseteq G)
  <2>1. i \in Good
    <3> HIDE DEF Good
    <3> QED BY <1>4
  <2> QED BY <2>1
<1> QED BY <1>5

\* As many joined sequences cancel where each of them does.
LEMMA FlattenCancels ==
  ASSUME NEW s \in Seq(Seq(Int)), NEW t \in Seq(Seq(Int)), Len(s) = Len(t),
         NEW G, \A i \in 1 .. Len(s) : Cancels(s[i], t[i], i \in G)
  PROVE  Cancels(FlattenSeq(s), FlattenSeq(t), 1 .. Len(s) \subseteq G)
<1>0. Len(s) \in Nat
  OBVIOUS
<1>1. CASE Len(s) = 0
  <2>1. s = <<>> /\ t = <<>>
    BY <1>1, EmptySeq
  <2>2. FlattenSeq(s) = <<>> /\ FlattenSeq(t) = <<>>
    BY <1>1, <2>1 DEF FlattenSeq
  <2>3. \A p \in Seq(Int) : <<>> \o p = p
    BY ConcatEmptySeq
  <2> QED BY <1>1, <2>2, <2>3 DEF Cancels
<1>2. CASE Len(s) # 0
  <2>1. Len(s) \in Nat /\ Len(s) > 0 /\ Len(t) \in Nat /\ Len(t) > 0
    BY <1>0, <1>2
  <2>2. PICK f : Flattened(s, f)
    BY <2>1, FlattenDefined
  <2>3. PICK g : Flattened(t, g)
    BY <2>1, FlattenDefined
  <2> DEFINE m == Len(s)
  <2>4. m \in Nat /\ m <= Len(s) /\ m <= Len(t) /\ m \in 1 .. m
    BY <2>1
  <2>5. \A i \in 1 .. m : Cancels(s[i], t[i], i \in G)
    OBVIOUS
  <2> HIDE DEF m
  <2>6. \A i \in 1 .. m : Cancels(f[i], g[i], 1 .. i \subseteq G)
    BY <2>2, <2>3, <2>4, <2>5, BeginningsCancel
  <2>7. Cancels(f[m], g[m], 1 .. m \subseteq G)
    BY <2>4, <2>6
  <2>8. FlattenSeq(s) = f[m] /\ FlattenSeq(t) = g[m]
    BY <2>2, <2>3 DEF Flattened, m
  <2> QED BY <2>7, <2>8 DEF m
<1> QED BY <1>1, <1>2

\* Joined sequences that are not empty, after the first m of them.
LEMMA RestFollows ==
  ASSUME NEW t \in Seq(Seq(Int)), \A i \in 1 .. Len(t) : Len(t[i]) > 0,
         NEW g, Flattened(t, g), NEW m \in 1 .. Len(t)
  PROVE  \E rest \in Seq(Int) : /\ FlattenSeq(t) = g[m] \o rest
                                /\ m < Len(t) => Len(rest) > 0
<1>0. /\ Len(t) \in Nat /\ m \in Nat /\ m <= Len(t)
      /\ \A i \in 1 .. Len(t) : t[i] \in Seq(Int) /\ g[i] \in Seq(Int)
  BY FlattenTyped
<1> DEFINE After(i) == \E rest \in Seq(Int) : g[m + i] = g[m] \o rest /\ (i > 0 => Len(rest) > 0)
           Good == {i \in Nat : m + i <= Len(t) => After(i)}
<1>1. 0 \in Good
  <2>1. g[m] \o <<>> = g[m] /\ m + 0 = m
    BY <1>0, ConcatEmptySeq
  <2>2. <<>> \in Seq(Int)
    OBVIOUS
  <2> QED BY <2>1, <2>2
<1>2. ASSUME NEW i \in Nat, i \in Good PROVE i + 1 \in Good
  <2>1. SUFFICES ASSUME m + (i + 1) <= Len(t) PROVE After(i + 1)
    <3> HIDE DEF After
    <3> QED OBVIOUS
  <2>2. /\ m + i \in 1 .. Len(t) - 1 /\ m + i <= Len(t)
        /\ m + (i + 1) = (m + i) + 1 /\ (m + i) + 1 \in 1 .. Len(t)
    BY <1>0, <2>1
  <2>3. PICK rest \in Seq(Int) : g[m + i] = g[m] \o rest
    BY <1>2, <2>2
  <2> DEFINE a == g[m]
             x == t[(m + i) + 1]
  <2>4. g[(m + i) + 1] = g[m + i] \o x
    BY <2>2 DEF Flattened
  <2>5. a \in Seq(Int) /\ x \in Seq(Int) /\ Len(x) > 0
    BY <1>0, <2>2
  <2>6. g[(m + i) + 1] = (a \o rest) \o x
    BY <2>3, <2>4
  <2> HIDE DEF a, x
  <2>7. (a \o rest) \o x = a \o (rest \o x)
    <3>1. a \in Seq(Int) /\ rest \in Seq(Int) /\ x \in Seq(Int)
      BY <2>5
    <3> QED BY <3>1, Regrouped
  <2>8. rest \o x \in Seq(Int) /\ Len(rest \o x) > 0
    <3>1. Len(rest) \in Nat /\ Len(x) \in Nat
      BY <2>5
    <3>2. rest \o x \in Seq(Int) /\ Len(rest \o x) = Len(rest) + Len(x)
      BY <2>5, ConcatProperties
    <3> QED BY <2>5, <3>1, <3>2
  <2>9. g[m + (i + 1)] = a \o (rest \o x)
    BY <2>2, <2>6, <2>7
  <2> QED BY <2>8, <2>9 DEF a
<1>3. Nat \subseteq Good
  <2> HIDE DEF Good
  <2> QED BY <1>1, <1>2, Upwards
<1>4. Len(t) - m \in Nat /\ m + (Len(t) - m) = Len(t) /\ (m < Len(t) => Len(t) - m > 0)
  BY <1>0
<1>5. After(Len(t) - m)
  <2>1. Len(t) - m \in Good
    <3> HIDE DEF Good
    <3> QED BY <1>3, <1>4
  <2>2. m + (Len(t) - m) <= Len(t)
    BY <1>0
  <2> HIDE DEF After
  <2> QED BY <2>1, <2>2
<1> QED BY <1>4, <1>5 DEF Flattened

\* One number cancels, and so do two.
LEMMA NumbersCancel ==
  ASSUME NEW k \in Int, NEW m \in Int, NEW n \in Int
  PROVE  /\ Cancels(<<m>>, <<n>>, m = n)
         /\ Cancels(<<k>> \o <<m>>, <<k>> \o <<n>>, m = n)
<1>1. \A i, j \in Int : Cancels(<<i>>, <<j>>, i = j)
  BY ConsSplit DEF Cancels
<1>2. Cancels(<<k>>, <<k>>, k = k) /\ Cancels(<<m>>, <<n>>, m = n)
  BY <1>1
<1> DEFINE G1 == k = k
           G2 == m = n
           a1 == <<k>>
           a2 == <<m>>
           b2 == <<n>>
<1>3. a1 \in Seq(Int) /\ a2 \in Seq(Int) /\ b2 \in Seq(Int)
  OBVIOUS
<1>4. G1 \in BOOLEAN /\ G2 \in BOOLEAN /\ Cancels(a1, a1, G1) /\ (G1 => Cancels(a2, b2, G2))
  BY <1>2
<1> HIDE DEF G1, G2, a1, a2, b2
<1>5. Cancels(a1 \o a2, a1 \o b2, G1 /\ G2)
  BY <1>3, <1>4, BothCancel
<1>6. Cancels(a1 \o a2, a1 \o b2, G2)
  BY <1>5 DEF Cancels
<1> QED BY <1>2, <1>6 DEF G2, a1, a2, b2

\* A text with a tag and its length before it.
LEMMA TextsCancel ==
  ASSUME NEW s \in Words, NEW t \in Words, NEW k \in Int, NEW m \in Int, NEW n \in Int,
         m = n => Len(s) = Len(t)
  PROVE  /\ <<k>> \o <<m>> \o TextBytes(s) \in Seq(Int)
         /\ Cancels(<<m>> \o TextBytes(s), <<n>> \o TextBytes(t), m = n /\ s = t)
         /\ Cancels(<<k>> \o <<m>> \o TextBytes(s), <<k>> \o <<n>> \o TextBytes(t), m = n /\ s = t)
<1> DEFINE a == TextBytes(s)
           b == TextBytes(t)
           a1 == <<m>>
           b1 == <<n>>
           a2 == <<k>> \o <<m>>
           b2 == <<k>> \o <<n>>
           G1 == m = n
           G2 == s = t
<1>1. /\ a \in Seq(Int) /\ b \in Seq(Int)
      /\ a1 \in Seq(Int) /\ b1 \in Seq(Int) /\ a2 \in Seq(Int) /\ b2 \in Seq(Int)
  BY TextBytesTyped
<1>2. G1 => Cancels(a, b, G2)
  BY TextSplit DEF Cancels
<1>3. G1 \in BOOLEAN /\ G2 \in BOOLEAN /\ Cancels(a1, b1, G1) /\ Cancels(a2, b2, G1)
  BY NumbersCancel
<1> HIDE DEF a, b, a1, b1, a2, b2, G1, G2
<1>4. Cancels(a1 \o a, b1 \o b, G1 /\ G2)
  BY <1>1, <1>2, <1>3, BothCancel
<1>5. Cancels(a2 \o a, b2 \o b, G1 /\ G2)
  BY <1>1, <1>2, <1>3, BothCancel
<1>6. a2 \o a \in Seq(Int)
  BY <1>1, ConcatProperties
<1> QED BY <1>4, <1>5, <1>6 DEF a, b, a1, b1, a2, b2, G1, G2

\* The entry of one field: the length of the key, the key, the value.
Entry(v, parts, key) == <<Len(key)>> \o TextBytes(key) \o parts[v.fields[key]]
Entries(v, parts) ==
  [k \in DOMAIN SortedKeys(v.fields) |-> Entry(v, parts, SortedKeys(v.fields)[k])]
Elements(v, parts) == [k \in DOMAIN v.items |-> parts[v.items[k]]]

\* The byte that stands first.
Tag(v) ==
  CASE v.type = "null"  -> 0
    [] v.type = "bool"  -> 1
    [] v.type = "int"   -> 2
    [] v.type = "float" -> 3
    [] v.type = "str"   -> 4
    [] v.type = "list"  -> 5
    [] v.type = "obj"   -> 6
    [] v.type = "bytes" -> 8

\* The encodings of the parts of x and y cancel, and then the parts agree.
Apart(x, y, g, h, p, q) ==
  /\ \A w \in PartsOf(x) : g[w] \in Seq(Int)
  /\ \A z \in PartsOf(y) : h[z] \in Seq(Int)
  /\ \A w \in PartsOf(x), z \in PartsOf(y) : Cancels(g[w], h[z], p[w] = q[z])

\* The keys of an object, in order.
LEMMA KeysListed ==
  ASSUME NEW v, Proper(v), v.type = "obj"
  PROVE  LET keys == SortedKeys(v.fields)
         IN  /\ Len(keys) \in Nat /\ DOMAIN keys = 1 .. Len(keys)
             /\ Len(keys) = Cardinality(DOMAIN v.fields)
             /\ \A i \in 1 .. Len(keys) : /\ keys[i] \in DOMAIN v.fields /\ keys[i] \in Words
                                          /\ Len(keys[i]) \in Nat
                                          /\ v.fields[keys[i]] \in PartsOf(v)
             /\ \A key \in DOMAIN v.fields : \E i \in 1 .. Len(keys) : keys[i] = key
<1> DEFINE T == DOMAIN v.fields
           keys == SortedKeys(v.fields)
<1>1. IsFiniteSet(T) /\ T \subseteq Words
  BY FieldsProper
<1>2. InOrder(Arranged(T, TextOrder(T)), T, TextOrder(T))
  <2> HIDE DEF T
  <2> QED BY <1>1, TextsArranged
<1>3. InOrder(keys, T, TextOrder(T))
  BY <1>2 DEF SortedKeys
<1>4. \A key \in T : v.fields[key] \in PartsOf(v)
  BY DEF PartsOf, Range
<1>5. \A s \in Words : Len(s) \in Nat
  BY DEF Words
<1> HIDE DEF keys, T
<1>6. /\ Len(keys) \in Nat /\ DOMAIN keys = 1 .. Len(keys) /\ Len(keys) = Cardinality(T)
      /\ \A i \in 1 .. Len(keys) : keys[i] \in T
      /\ \A key \in T : \E i \in 1 .. Len(keys) : keys[i] = key
  BY <1>3 DEF InOrder
<1> QED BY <1>1, <1>4, <1>5, <1>6 DEF keys, T

\* The elements of a list, as parts.
LEMMA ElementsTyped ==
  ASSUME NEW v, Proper(v), v.type = "list", NEW g, \A w \in PartsOf(v) : g[w] \in Seq(Int)
  PROVE  /\ Elements(v, g) \in Seq(Seq(Int)) /\ Len(Elements(v, g)) = Len(v.items)
         /\ \A k \in 1 .. Len(v.items) : /\ Elements(v, g)[k] = g[v.items[k]]
                                         /\ v.items[k] \in PartsOf(v)
<1>1. Len(v.items) \in Nat /\ DOMAIN v.items = 1 .. Len(v.items)
  BY ItemsProper
<1>2. \A k \in 1 .. Len(v.items) : v.items[k] \in PartsOf(v)
  BY <1>1 DEF PartsOf, Range
<1>3. Elements(v, g) = [k \in 1 .. Len(v.items) |-> g[v.items[k]]]
  BY <1>1 DEF Elements
<1>4. \A k \in 1 .. Len(v.items) : g[v.items[k]] \in Seq(Int)
  BY <1>2
<1> QED BY <1>1, <1>2, <1>3, <1>4

\* The entries of an object.
LEMMA EntriesTyped ==
  ASSUME NEW v, Proper(v), v.type = "obj", NEW g, \A w \in PartsOf(v) : g[w] \in Seq(Int)
  PROVE  /\ Entries(v, g) \in Seq(Seq(Int)) /\ Len(Entries(v, g)) = Len(SortedKeys(v.fields))
         /\ \A k \in 1 .. Len(SortedKeys(v.fields)) :
              Entries(v, g)[k] = Entry(v, g, SortedKeys(v.fields)[k])
<1> DEFINE keys == SortedKeys(v.fields)
<1>1. /\ Len(keys) \in Nat /\ DOMAIN keys = 1 .. Len(keys)
      /\ \A i \in 1 .. Len(keys) : /\ keys[i] \in Words /\ Len(keys[i]) \in Nat
                                   /\ v.fields[keys[i]] \in PartsOf(v)
  BY KeysListed
<1> HIDE DEF keys
<1>2. ASSUME NEW i \in 1 .. Len(keys) PROVE Entry(v, g, keys[i]) \in Seq(Int)
  <2> DEFINE a == TextBytes(keys[i])
             b == g[v.fields[keys[i]]]
             c == <<Len(keys[i])>>
  <2>1. a \in Seq(Int) /\ b \in Seq(Int) /\ c \in Seq(Int)
    BY <1>1, TextBytesTyped
  <2> HIDE DEF a, b, c
  <2>2. c \o a \in Seq(Int)
    BY <2>1, ConcatProperties
  <2>3. (c \o a) \o b \in Seq(Int)
    BY <2>1, <2>2, ConcatProperties
  <2> QED BY <2>3 DEF Entry, a, b, c
<1>3. Entries(v, g) = [k \in 1 .. Len(keys) |-> Entry(v, g, keys[k])]
  BY <1>1 DEF Entries, keys
<1>4. Entries(v, g) \in Seq(Seq(Int)) /\ Len(Entries(v, g)) = Len(keys)
  BY <1>1, <1>2, <1>3
<1>5. \A k \in 1 .. Len(keys) : Entries(v, g)[k] = Entry(v, g, keys[k])
  BY <1>3
<1> QED BY <1>4, <1>5 DEF keys

\* The first number of a concatenation.
LEMMA FirstKept ==
  ASSUME NEW x \in Seq(Int), NEW y \in Seq(Int), Len(x) > 0
  PROVE  x \o y \in Seq(Int) /\ Len(x \o y) > 0 /\ (x \o y)[1] = x[1]
<1>1. Len(x) \in Nat /\ Len(y) \in Nat
  OBVIOUS
<1>2. 1 \in 1 .. Len(x) + Len(y) /\ 1 <= Len(x) /\ Len(x) + Len(y) > 0
  BY <1>1
<1>3. /\ x \o y \in Seq(Int) /\ Len(x \o y) = Len(x) + Len(y)
      /\ \A i \in 1 .. Len(x) + Len(y) : (x \o y)[i] = IF i <= Len(x) THEN x[i] ELSE y[i - Len(x)]
  BY ConcatProperties
<1> QED BY <1>2, <1>3

\* What a tag and one more number, and whatever follows, begin with.
LEMMA TagFirst ==
  ASSUME NEW k \in Int, NEW m \in Int, NEW c \in Seq(Int)
  PROVE  /\ <<k>> \o <<m>> \o c \in Seq(Int)
         /\ Len(<<k>> \o <<m>> \o c) > 0
         /\ (<<k>> \o <<m>> \o c)[1] = k
<1> DEFINE a == <<k>>
           b == <<m>>
<1>1. a \in Seq(Int) /\ b \in Seq(Int) /\ Len(a) > 0 /\ a[1] = k
  OBVIOUS
<1> HIDE DEF a, b
<1>2. a \o b \in Seq(Int) /\ Len(a \o b) > 0 /\ (a \o b)[1] = k
  BY <1>1, FirstKept
<1>3. (a \o b) \o c \in Seq(Int) /\ Len((a \o b) \o c) > 0 /\ ((a \o b) \o c)[1] = k
  BY <1>2, FirstKept
<1> QED BY <1>3 DEF a, b

\* The encoding of a value, from those of its parts, begins with its tag.
LEMMA BytesTyped ==
  ASSUME NEW v, Proper(v), NEW n \in Nat, NEW g, \A w \in PartsOf(v) : g[w] \in Seq(Int)
  PROVE  /\ Bytes(v, n, g) \in Seq(Int) /\ Len(Bytes(v, n, g)) > 0
         /\ n <= MaxHashDepth => Bytes(v, n, g)[1] = Tag(v)
<1>0. MaxHashDepth \in Nat
  BY DepthAssumption
<1>1. CASE n > MaxHashDepth
  <2>1. Bytes(v, n, g) = <<7>> /\ ~(n <= MaxHashDepth)
    BY <1>0, <1>1 DEF Bytes
  <2> QED BY <2>1
<1>2. CASE ~(n > MaxHashDepth) /\ v.type = "null"
  <2>1. Bytes(v, n, g) = <<0>> /\ Tag(v) = 0
    BY <1>2 DEF Bytes, Tag
  <2> QED BY <2>1
<1>3. CASE ~(n > MaxHashDepth) /\ v.type = "bool"
  <2>1. Bytes(v, n, g) = <<1, IF v.b THEN 1 ELSE 0>> /\ Tag(v) = 1
    BY <1>3 DEF Bytes, Tag
  <2> QED BY <2>1
<1>4. CASE ~(n > MaxHashDepth) /\ v.type = "int"
  <2>1. Bytes(v, n, g) = <<2, v.n>> /\ Tag(v) = 2
    BY <1>4 DEF Bytes, Tag
  <2>2. v.n \in Int
    <3>1. v.n \in Integers64
      BY <1>4, VariantsProper
    <3>2. IntLimit \in Int
      BY IntLimitAssumption
    <3> QED BY <3>1, <3>2 DEF Integers64
  <2> QED BY <2>1, <2>2
<1>5. CASE ~(n > MaxHashDepth) /\ v.type = "float"
  <2>1. Bytes(v, n, g) = <<3, v.bits>> /\ Tag(v) = 3
    BY <1>5 DEF Bytes, Tag
  <2>2. v.bits \in Int
    BY <1>5, VariantsProper
  <2> QED BY <2>1, <2>2
<1>6. CASE ~(n > MaxHashDepth) /\ v.type = "str"
  <2>1. Bytes(v, n, g) = <<4>> \o <<Len(v.text)>> \o TextBytes(v.text) /\ Tag(v) = 4
    BY <1>6 DEF Bytes, Tag, Prefix
  <2>2. TextBytes(v.text) \in Seq(Int) /\ Len(v.text) \in Nat
    <3>1. v.text \in Words
      BY <1>6, VariantsProper
    <3>2. Len(v.text) \in Nat
      BY <3>1 DEF Words
    <3> QED BY <3>1, <3>2, TextBytesTyped
  <2> QED BY <2>1, <2>2, TagFirst
<1>7. CASE ~(n > MaxHashDepth) /\ v.type = "list"
  <2>1. Bytes(v, n, g) = <<5>> \o <<Len(v.items)>> \o FlattenSeq(Elements(v, g)) /\ Tag(v) = 5
    BY <1>7 DEF Bytes, Tag, Prefix, Elements
  <2>2. Elements(v, g) \in Seq(Seq(Int)) /\ Len(v.items) \in Int
    BY <1>7, ElementsTyped, ItemsProper
  <2>3. FlattenSeq(Elements(v, g)) \in Seq(Int)
    BY <2>2, FlattenTyped
  <2> QED BY <2>1, <2>2, <2>3, TagFirst
<1>8. CASE ~(n > MaxHashDepth) /\ v.type = "obj"
  <2>1. Bytes(v, n, g) = <<6>> \o <<Cardinality(DOMAIN v.fields)>> \o FlattenSeq(Entries(v, g))
          /\ Tag(v) = 6
    BY <1>8 DEF Bytes, Tag, Prefix, Entries, Entry
  <2>2. Entries(v, g) \in Seq(Seq(Int)) /\ Cardinality(DOMAIN v.fields) \in Int
    BY <1>8, EntriesTyped, KeysListed
  <2>3. FlattenSeq(Entries(v, g)) \in Seq(Int)
    BY <2>2, FlattenTyped
  <2> QED BY <2>1, <2>2, <2>3, TagFirst
<1>9. CASE ~(n > MaxHashDepth) /\ v.type = "bytes"
  <2>1. Bytes(v, n, g) = <<8>> \o <<Len(v.digits) \div 2>> \o TextBytes(v.digits) /\ Tag(v) = 8
    BY <1>9 DEF Bytes, Tag, Prefix
  <2>2. TextBytes(v.digits) \in Seq(Int) /\ Len(v.digits) \in Nat
    <3>1. v.digits \in Words
      BY <1>9, VariantsProper
    <3>2. Len(v.digits) \in Nat
      BY <3>1 DEF Words
    <3> QED BY <3>1, <3>2, TextBytesTyped
  <2>3. Len(v.digits) \div 2 \in Int
    BY <2>2
  <2> QED BY <2>1, <2>2, <2>3, TagFirst
<1>10. v.type \in {"null", "bool", "int", "float", "str", "bytes", "list", "obj"}
  BY VariantsProper
<1> QED BY <1>1, <1>2, <1>3, <1>4, <1>5, <1>6, <1>7, <1>8, <1>9, <1>10

\* Encodings of values whose tags differ cancel: they are never alike.
LEMMA TagsApart ==
  ASSUME NEW a \in Seq(Int), NEW b \in Seq(Int), Len(a) > 0, Len(b) > 0, a[1] # b[1], NEW G
  PROVE  Cancels(a, b, G)
<1>1. ASSUME NEW p \in Seq(Int), NEW q \in Seq(Int), a \o p = b \o q PROVE FALSE
  <2>1. (a \o p)[1] = a[1]
    BY FirstKept
  <2>2. (b \o q)[1] = b[1]
    BY FirstKept
  <2> QED BY <1>1, <2>1, <2>2
<1> QED BY <1>1 DEF Cancels

\* Two lists.
LEMMA ListsApart ==
  ASSUME NEW x, NEW y, Proper(x), Proper(y), x.type = "list", y.type = "list",
         NEW g, NEW h, NEW p, NEW q, Apart(x, y, g, h, p, q)
  PROVE  Cancels(<<5>> \o <<Len(x.items)>> \o FlattenSeq(Elements(x, g)),
                 <<5>> \o <<Len(y.items)>> \o FlattenSeq(Elements(y, h)),
                 Rebuilt(x, p) = Rebuilt(y, q))
<1> DEFINE s == Elements(x, g)
           t == Elements(y, h)
           m == Len(x.items)
           n == Len(y.items)
           G == {k \in 1 .. m : p[x.items[k]] = q[y.items[k]]}
           a1 == <<5>> \o <<m>>
           b1 == <<5>> \o <<n>>
           a2 == FlattenSeq(s)
           b2 == FlattenSeq(t)
           G1 == m = n
           G2 == 1 .. m \subseteq G
<1>1. /\ \A w \in PartsOf(x) : g[w] \in Seq(Int)
      /\ \A z \in PartsOf(y) : h[z] \in Seq(Int)
      /\ \A w \in PartsOf(x), z \in PartsOf(y) : Cancels(g[w], h[z], p[w] = q[z])
  BY DEF Apart
<1>2. /\ s \in Seq(Seq(Int)) /\ Len(s) = m
      /\ \A k \in 1 .. m : s[k] = g[x.items[k]] /\ x.items[k] \in PartsOf(x)
  BY <1>1, ElementsTyped
<1>3. /\ t \in Seq(Seq(Int)) /\ Len(t) = n
      /\ \A k \in 1 .. n : t[k] = h[y.items[k]] /\ y.items[k] \in PartsOf(y)
  BY <1>1, ElementsTyped
<1>4. /\ m \in Nat /\ DOMAIN x.items = 1 .. m
      /\ n \in Nat /\ DOMAIN y.items = 1 .. n
  BY ItemsProper
<1>5. G1 /\ G2 => Rebuilt(x, p) = Rebuilt(y, q)
  <2>1. SUFFICES ASSUME m = n, \A k \in 1 .. m : p[x.items[k]] = q[y.items[k]]
                 PROVE  Rebuilt(x, p) = Rebuilt(y, q)
    OBVIOUS
  <2>2. Rebuilt(x, p) = VList([k \in 1 .. m |-> p[x.items[k]]])
    BY <1>4 DEF Rebuilt
  <2>3. Rebuilt(y, q) = VList([k \in 1 .. m |-> q[y.items[k]]])
    BY <1>4, <2>1 DEF Rebuilt
  <2> QED BY <2>1, <2>2, <2>3
<1>6. a1 \in Seq(Int) /\ b1 \in Seq(Int)
  BY <1>4
<1>7. G1 \in BOOLEAN /\ G2 \in BOOLEAN /\ Cancels(a1, b1, G1)
  BY <1>4, NumbersCancel
<1> HIDE DEF s, t, m, n
<1>8. \A k \in 1 .. m : m = n => Cancels(s[k], t[k], k \in G)
  <2>1. ASSUME NEW k \in 1 .. m, m = n PROVE Cancels(s[k], t[k], k \in G)
    <3>1. Cancels(s[k], t[k], p[x.items[k]] = q[y.items[k]])
      BY <1>1, <1>2, <1>3, <2>1
    <3> QED BY <3>1 DEF Cancels
  <2> QED BY <2>1
<1> HIDE DEF G
<1>9. a2 \in Seq(Int) /\ b2 \in Seq(Int)
  BY <1>2, <1>3, FlattenTyped
<1>10. G1 => Cancels(a2, b2, G2)
  <2>1. SUFFICES ASSUME m = n PROVE Cancels(a2, b2, G2)
    OBVIOUS
  <2>2. \A k \in 1 .. Len(s) : Cancels(s[k], t[k], k \in G)
    BY <1>2, <1>8, <2>1
  <2>3. Cancels(FlattenSeq(s), FlattenSeq(t), 1 .. Len(s) \subseteq G)
    BY <1>2, <1>3, <2>1, <2>2, FlattenCancels
  <2> QED BY <1>2, <2>3
<1> HIDE DEF a1, b1, a2, b2, G1, G2
<1>11. Cancels(a1 \o a2, b1 \o b2, G1 /\ G2)
  BY <1>6, <1>7, <1>9, <1>10, BothCancel
<1>12. Cancels(a1 \o a2, b1 \o b2, Rebuilt(x, p) = Rebuilt(y, q))
  BY <1>5, <1>11 DEF Cancels
<1> QED BY <1>12 DEF a1, b1, a2, b2, m, n, s, t

\* Two entries: the keys are the same, and the values agree.
LEMMA EntriesCancel ==
  ASSUME NEW s \in Words, NEW t \in Words, NEW a \in Seq(Int), NEW b \in Seq(Int),
         NEW G \in BOOLEAN, Cancels(a, b, G)
  PROVE  Cancels(<<Len(s)>> \o TextBytes(s) \o a, <<Len(t)>> \o TextBytes(t) \o b, s = t /\ G)
<1> DEFINE m == Len(s)
           n == Len(t)
           a1 == <<m>> \o TextBytes(s)
           b1 == <<n>> \o TextBytes(t)
           G1 == m = n /\ s = t
<1>1. m \in Int /\ n \in Int /\ (m = n => Len(s) = Len(t))
  BY DEF Words
<1>2. a1 \in Seq(Int) /\ b1 \in Seq(Int)
  <2> DEFINE c == TextBytes(s)
             d == TextBytes(t)
             e == <<m>>
             f == <<n>>
  <2>1. c \in Seq(Int) /\ d \in Seq(Int) /\ e \in Seq(Int) /\ f \in Seq(Int)
    BY <1>1, TextBytesTyped
  <2> HIDE DEF c, d, e, f
  <2>2. e \o c \in Seq(Int) /\ f \o d \in Seq(Int)
    BY <2>1, ConcatProperties
  <2> QED BY <2>2 DEF c, d, e, f
<1> HIDE DEF m, n
<1>3. Cancels(a1, b1, G1) /\ G1 \in BOOLEAN
  BY <1>1, TextsCancel
<1>4. G1 => s = t
  OBVIOUS
<1> HIDE DEF a1, b1, G1
<1>5. Cancels(a1 \o a, b1 \o b, G1 /\ G)
  BY <1>2, <1>3, BothCancel
<1>6. Cancels(a1 \o a, b1 \o b, s = t /\ G)
  BY <1>4, <1>5 DEF Cancels
<1> QED BY <1>6 DEF a1, b1, m, n

\* Two objects.
LEMMA ObjectsApart ==
  ASSUME NEW x, NEW y, Proper(x), Proper(y), x.type = "obj", y.type = "obj",
         NEW g, NEW h, NEW p, NEW q, Apart(x, y, g, h, p, q)
  PROVE  Cancels(<<6>> \o <<Cardinality(DOMAIN x.fields)>> \o FlattenSeq(Entries(x, g)),
                 <<6>> \o <<Cardinality(DOMAIN y.fields)>> \o FlattenSeq(Entries(y, h)),
                 Rebuilt(x, p) = Rebuilt(y, q))
<1> DEFINE s == Entries(x, g)
           t == Entries(y, h)
           keys == SortedKeys(x.fields)
           others == SortedKeys(y.fields)
           m == Cardinality(DOMAIN x.fields)
           n == Cardinality(DOMAIN y.fields)
           Same(k) == keys[k] = others[k] /\ p[x.fields[keys[k]]] = q[y.fields[others[k]]]
           G == {k \in 1 .. m : Same(k)}
           a1 == <<6>> \o <<m>>
           b1 == <<6>> \o <<n>>
           a2 == FlattenSeq(s)
           b2 == FlattenSeq(t)
           G1 == m = n
           G2 == 1 .. m \subseteq G
<1>1. /\ \A w \in PartsOf(x) : g[w] \in Seq(Int)
      /\ \A z \in PartsOf(y) : h[z] \in Seq(Int)
      /\ \A w \in PartsOf(x), z \in PartsOf(y) : Cancels(g[w], h[z], p[w] = q[z])
  BY DEF Apart
<1>2. /\ Len(keys) \in Nat /\ Len(keys) = m
      /\ \A i \in 1 .. Len(keys) : /\ keys[i] \in DOMAIN x.fields /\ keys[i] \in Words
                                   /\ x.fields[keys[i]] \in PartsOf(x)
      /\ \A key \in DOMAIN x.fields : \E i \in 1 .. Len(keys) : keys[i] = key
  BY KeysListed
<1>3. /\ Len(others) \in Nat /\ Len(others) = n
      /\ \A i \in 1 .. Len(others) : /\ others[i] \in DOMAIN y.fields /\ others[i] \in Words
                                     /\ y.fields[others[i]] \in PartsOf(y)
      /\ \A key \in DOMAIN y.fields : \E i \in 1 .. Len(others) : others[i] = key
  BY KeysListed
<1>4. /\ s \in Seq(Seq(Int)) /\ Len(s) = Len(keys)
      /\ \A k \in 1 .. Len(keys) : s[k] = Entry(x, g, keys[k])
  BY <1>1, EntriesTyped
<1>5. /\ t \in Seq(Seq(Int)) /\ Len(t) = Len(others)
      /\ \A k \in 1 .. Len(others) : t[k] = Entry(y, h, others[k])
  BY <1>1, EntriesTyped
<1> HIDE DEF s, t, keys, others, m, n
<1>6. G1 /\ G2 => Rebuilt(x, p) = Rebuilt(y, q)
  <2>1. SUFFICES ASSUME m = n, \A k \in 1 .. m : Same(k)
                 PROVE  Rebuilt(x, p) = Rebuilt(y, q)
    OBVIOUS
  <2>2. \A key \in DOMAIN x.fields : key \in DOMAIN y.fields /\ p[x.fields[key]] = q[y.fields[key]]
    BY <1>2, <1>3, <2>1
  <2>3. \A key \in DOMAIN y.fields : key \in DOMAIN x.fields
    BY <1>2, <1>3, <2>1
  <2>4. DOMAIN x.fields = DOMAIN y.fields
    BY <2>2, <2>3
  <2>5. [key \in DOMAIN x.fields |-> p[x.fields[key]]] = [key \in DOMAIN y.fields |-> q[y.fields[key]]]
    BY <2>2, <2>4
  <2>6. Rebuilt(x, p) = VObj([key \in DOMAIN x.fields |-> p[x.fields[key]]])
    BY DEF Rebuilt
  <2>7. Rebuilt(y, q) = VObj([key \in DOMAIN y.fields |-> q[y.fields[key]]])
    BY DEF Rebuilt
  <2> QED BY <2>5, <2>6, <2>7
<1>7. m \in Int /\ n \in Int
  BY <1>2, <1>3
<1>8. a1 \in Seq(Int) /\ b1 \in Seq(Int)
  BY <1>7
<1>9. G1 \in BOOLEAN /\ G2 \in BOOLEAN /\ Cancels(a1, b1, G1)
  BY <1>7, NumbersCancel
<1>10. \A k \in 1 .. m : m = n => Cancels(s[k], t[k], k \in G)
  <2>1. ASSUME NEW k \in 1 .. m, m = n PROVE Cancels(s[k], t[k], k \in G)
    <3> DEFINE u == keys[k]
               v == others[k]
               a == g[x.fields[u]]
               b == h[y.fields[v]]
               H == p[x.fields[u]] = q[y.fields[v]]
    <3>1. k \in 1 .. Len(keys) /\ k \in 1 .. Len(others)
      BY <1>2, <1>3, <2>1
    <3>2. u \in Words /\ v \in Words /\ x.fields[u] \in PartsOf(x) /\ y.fields[v] \in PartsOf(y)
      BY <1>2, <1>3, <3>1
    <3>3. a \in Seq(Int) /\ b \in Seq(Int) /\ Cancels(a, b, H) /\ H \in BOOLEAN
      BY <1>1, <3>2
    <3>4. s[k] = <<Len(u)>> \o TextBytes(u) \o a
      BY <1>4, <3>1 DEF Entry
    <3>5. t[k] = <<Len(v)>> \o TextBytes(v) \o b
      BY <1>5, <3>1 DEF Entry
    <3>6. k \in G <=> u = v /\ H
      BY <2>1
    <3> HIDE DEF u, v, a, b, H, G
    <3>7. Cancels(s[k], t[k], u = v /\ H)
      BY <3>2, <3>3, <3>4, <3>5, EntriesCancel
    <3> QED BY <3>6, <3>7 DEF Cancels
  <2> QED BY <2>1
<1> HIDE DEF G
<1>11. a2 \in Seq(Int) /\ b2 \in Seq(Int)
  BY <1>4, <1>5, FlattenTyped
<1>12. G1 => Cancels(a2, b2, G2)
  <2>1. SUFFICES ASSUME m = n PROVE Cancels(a2, b2, G2)
    OBVIOUS
  <2>2. Len(s) = m /\ Len(s) = Len(t)
    BY <1>2, <1>3, <1>4, <1>5, <2>1
  <2>3. \A k \in 1 .. Len(s) : Cancels(s[k], t[k], k \in G)
    BY <1>10, <2>1, <2>2
  <2>4. Cancels(FlattenSeq(s), FlattenSeq(t), 1 .. Len(s) \subseteq G)
    BY <1>4, <1>5, <2>2, <2>3, FlattenCancels
  <2> QED BY <2>2, <2>4
<1> HIDE DEF a1, b1, a2, b2, G1, G2
<1>13. Cancels(a1 \o a2, b1 \o b2, G1 /\ G2)
  BY <1>8, <1>9, <1>11, <1>12, BothCancel
<1>14. Cancels(a1 \o a2, b1 \o b2, Rebuilt(x, p) = Rebuilt(y, q))
  BY <1>6, <1>13 DEF Cancels
<1> QED BY <1>14 DEF a1, b1, a2, b2, m, n, s, t

\* Two values at the same depth: their encodings cancel, and then they agree
\* down to the limit, if those of their parts do.
LEMMA BytesApart ==
  ASSUME NEW x, NEW y, Proper(x), Proper(y), NEW n \in Nat,
         NEW g, NEW h, NEW p, NEW q, Apart(x, y, g, h, p, q)
  PROVE  Cancels(Bytes(x, n, g), Bytes(y, n, h), Kept(x, n, p) = Kept(y, n, q))
<1>0. MaxHashDepth \in Nat
  BY DepthAssumption
<1>1. CASE n > MaxHashDepth
  <2>1. /\ Bytes(x, n, g) = <<7>> /\ Bytes(y, n, h) = <<7>>
        /\ Kept(x, n, p) = None /\ Kept(y, n, q) = None
    BY <1>1 DEF Bytes, Kept
  <2>2. Cancels(<<7>>, <<7>>, 7 = 7)
    <3>1. 7 \in Int
      OBVIOUS
    <3> QED BY <3>1, NumbersCancel
  <2> QED BY <2>1, <2>2 DEF Cancels
<1>2. CASE n <= MaxHashDepth
  <2>0. ~(n > MaxHashDepth)
    BY <1>0, <1>2
  <2> DEFINE a == Bytes(x, n, g)
             b == Bytes(y, n, h)
  <2>1. Kept(x, n, p) = Rebuilt(x, p) /\ Kept(y, n, q) = Rebuilt(y, q)
    BY <2>0 DEF Kept
  <2>2. /\ x.type \in {"null", "bool", "int", "float", "str", "bytes", "list", "obj"}
        /\ y.type \in {"null", "bool", "int", "float", "str", "bytes", "list", "obj"}
    BY VariantsProper
  <2>3. CASE x.type # y.type
    <3>1. a \in Seq(Int) /\ Len(a) > 0 /\ a[1] = Tag(x)
      BY <1>2, BytesTyped DEF Apart
    <3>2. b \in Seq(Int) /\ Len(b) > 0 /\ b[1] = Tag(y)
      BY <1>2, BytesTyped DEF Apart
    <3>3. Tag(x) # Tag(y)
      BY <2>2, <2>3 DEF Tag
    <3> HIDE DEF a, b
    <3>4. Cancels(a, b, Kept(x, n, p) = Kept(y, n, q))
      BY <3>1, <3>2, <3>3, TagsApart
    <3> QED BY <3>4 DEF a, b
  <2>4. CASE x.type = "null" /\ y.type = "null"
    <3>1. x = VNull /\ y = VNull
      BY <2>4, VariantsProper
    <3>2. a = <<0>> /\ b = <<0>>
      BY <2>0, <2>4 DEF Bytes
    <3>3. Rebuilt(x, p) = Rebuilt(y, q)
      BY <3>1 DEF Rebuilt, VNull
    <3>4. Cancels(<<0>>, <<0>>, 0 = 0)
      <4>1. 0 \in Int
        OBVIOUS
      <4> QED BY <4>1, NumbersCancel
    <3> QED BY <2>1, <3>2, <3>3, <3>4 DEF Cancels
  <2>5. CASE x.type = "bool" /\ y.type = "bool"
    <3>1. x = VBool(x.b) /\ x.b \in BOOLEAN /\ y = VBool(y.b) /\ y.b \in BOOLEAN
      BY <2>5, VariantsProper
    <3> DEFINE i == IF x.b THEN 1 ELSE 0
               j == IF y.b THEN 1 ELSE 0
    <3>2. a = <<1>> \o <<i>> /\ b = <<1>> \o <<j>>
      BY <2>0, <2>5 DEF Bytes
    <3>3. Rebuilt(x, p) = x /\ Rebuilt(y, q) = y
      BY <2>5 DEF Rebuilt
    <3>4. i = j => x = y
      BY <3>1
    <3>5. i \in Int /\ j \in Int /\ 1 \in Int
      OBVIOUS
    <3> HIDE DEF i, j
    <3>6. Cancels(<<1>> \o <<i>>, <<1>> \o <<j>>, i = j)
      BY <3>5, NumbersCancel
    <3> HIDE DEF a, b
    <3>7. Cancels(a, b, i = j)
      BY <3>2, <3>6
    <3>8. Cancels(a, b, Kept(x, n, p) = Kept(y, n, q))
      BY <2>1, <3>3, <3>4, <3>7 DEF Cancels
    <3> QED BY <3>8 DEF a, b
  <2>6. CASE x.type = "int" /\ y.type = "int"
    <3>1. x = VInt(x.n) /\ x.n \in Integers64 /\ y = VInt(y.n) /\ y.n \in Integers64
      BY <2>6, VariantsProper
    <3> DEFINE i == x.n
               j == y.n
    <3>2. a = <<2>> \o <<i>> /\ b = <<2>> \o <<j>>
      BY <2>0, <2>6 DEF Bytes
    <3>3. Rebuilt(x, p) = x /\ Rebuilt(y, q) = y
      BY <2>6 DEF Rebuilt
    <3>4. i = j => x = y
      BY <3>1
    <3>5. i \in Int /\ j \in Int /\ 2 \in Int
      BY <3>1, IntLimitAssumption DEF Integers64
    <3> HIDE DEF i, j
    <3>6. Cancels(<<2>> \o <<i>>, <<2>> \o <<j>>, i = j)
      BY <3>5, NumbersCancel
    <3> HIDE DEF a, b
    <3>7. Cancels(a, b, i = j)
      BY <3>2, <3>6
    <3>8. Cancels(a, b, Kept(x, n, p) = Kept(y, n, q))
      BY <2>1, <3>3, <3>4, <3>7 DEF Cancels
    <3> QED BY <3>8 DEF a, b
  <2>7. CASE x.type = "float" /\ y.type = "float"
    <3>1. x = VFloat(x.bits) /\ x.bits \in Int /\ y = VFloat(y.bits) /\ y.bits \in Int
      BY <2>7, VariantsProper
    <3> DEFINE i == x.bits
               j == y.bits
    <3>2. a = <<3>> \o <<i>> /\ b = <<3>> \o <<j>>
      BY <2>0, <2>7 DEF Bytes
    <3>3. Rebuilt(x, p) = x /\ Rebuilt(y, q) = y
      BY <2>7 DEF Rebuilt
    <3>4. i = j => x = y
      BY <3>1
    <3>5. i \in Int /\ j \in Int /\ 3 \in Int
      BY <3>1
    <3> HIDE DEF i, j
    <3>6. Cancels(<<3>> \o <<i>>, <<3>> \o <<j>>, i = j)
      BY <3>5, NumbersCancel
    <3> HIDE DEF a, b
    <3>7. Cancels(a, b, i = j)
      BY <3>2, <3>6
    <3>8. Cancels(a, b, Kept(x, n, p) = Kept(y, n, q))
      BY <2>1, <3>3, <3>4, <3>7 DEF Cancels
    <3> QED BY <3>8 DEF a, b
  <2>8. CASE x.type = "str" /\ y.type = "str"
    <3>1. x = VStr(x.text) /\ x.text \in Words /\ y = VStr(y.text) /\ y.text \in Words
      BY <2>8, VariantsProper
    <3> DEFINE s == x.text
               t == y.text
               i == Len(s)
               j == Len(t)
    <3>2. a = <<4>> \o <<i>> \o TextBytes(s) /\ b = <<4>> \o <<j>> \o TextBytes(t)
      BY <2>0, <2>8 DEF Bytes, Prefix
    <3>3. Rebuilt(x, p) = x /\ Rebuilt(y, q) = y
      BY <2>8 DEF Rebuilt
    <3>4. s = t => x = y
      BY <3>1
    <3>5. /\ s \in Words /\ t \in Words /\ 4 \in Int /\ i \in Int /\ j \in Int
          /\ (i = j => Len(s) = Len(t))
      BY <3>1 DEF Words
    <3> HIDE DEF i, j, s, t
    <3>6. Cancels(<<4>> \o <<i>> \o TextBytes(s), <<4>> \o <<j>> \o TextBytes(t), i = j /\ s = t)
      BY <3>5, TextsCancel
    <3> HIDE DEF a, b
    <3>7. Cancels(a, b, i = j /\ s = t)
      BY <3>2, <3>6
    <3>8. Cancels(a, b, Kept(x, n, p) = Kept(y, n, q))
      BY <2>1, <3>3, <3>4, <3>7 DEF Cancels
    <3> QED BY <3>8 DEF a, b
  <2>9. CASE x.type = "bytes" /\ y.type = "bytes"
    <3>1. /\ x = VBytes(x.digits) /\ x.digits \in Words /\ Len(x.digits) % 2 = 0
          /\ y = VBytes(y.digits) /\ y.digits \in Words /\ Len(y.digits) % 2 = 0
      BY <2>9, VariantsProper
    <3> DEFINE s == x.digits
               t == y.digits
               i == Len(s) \div 2
               j == Len(t) \div 2
    <3>2. a = <<8>> \o <<i>> \o TextBytes(s) /\ b = <<8>> \o <<j>> \o TextBytes(t)
      BY <2>0, <2>9 DEF Bytes, Prefix
    <3>3. Rebuilt(x, p) = x /\ Rebuilt(y, q) = y
      BY <2>9 DEF Rebuilt
    <3>4. s = t => x = y
      BY <3>1
    <3>5. /\ s \in Words /\ t \in Words /\ 8 \in Int /\ i \in Int /\ j \in Int
          /\ (i = j => Len(s) = Len(t))
      <4>1. Len(s) \in Nat /\ Len(t) \in Nat
        BY <3>1 DEF Words
      <4>2. \A u, v \in Nat : /\ u \div 2 \in Int
                              /\ u % 2 = 0 /\ v % 2 = 0 /\ u \div 2 = v \div 2 => u = v
        OBVIOUS
      <4>3. i \in Int /\ j \in Int
        BY <4>1, <4>2
      <4>4. i = j => Len(s) = Len(t)
        BY <3>1, <4>1, <4>2
      <4>5. s \in Words /\ t \in Words /\ 8 \in Int
        BY <3>1
      <4> QED BY <4>3, <4>4, <4>5
    <3> HIDE DEF i, j, s, t
    <3>6. Cancels(<<8>> \o <<i>> \o TextBytes(s), <<8>> \o <<j>> \o TextBytes(t), i = j /\ s = t)
      BY <3>5, TextsCancel
    <3> HIDE DEF a, b
    <3>7. Cancels(a, b, i = j /\ s = t)
      BY <3>2, <3>6
    <3>8. Cancels(a, b, Kept(x, n, p) = Kept(y, n, q))
      BY <2>1, <3>3, <3>4, <3>7 DEF Cancels
    <3> QED BY <3>8 DEF a, b
  <2>10. CASE x.type = "list" /\ y.type = "list"
    <3>1. /\ a = <<5>> \o <<Len(x.items)>> \o FlattenSeq(Elements(x, g))
          /\ b = <<5>> \o <<Len(y.items)>> \o FlattenSeq(Elements(y, h))
      BY <2>0, <2>10 DEF Bytes, Prefix, Elements
    <3> HIDE DEF a, b
    <3>2. Cancels(a, b, Rebuilt(x, p) = Rebuilt(y, q))
      BY <2>10, <3>1, ListsApart
    <3> QED BY <2>1, <3>2 DEF a, b
  <2>11. CASE x.type = "obj" /\ y.type = "obj"
    <3>1. /\ a = <<6>> \o <<Cardinality(DOMAIN x.fields)>> \o FlattenSeq(Entries(x, g))
          /\ b = <<6>> \o <<Cardinality(DOMAIN y.fields)>> \o FlattenSeq(Entries(y, h))
      BY <2>0, <2>11 DEF Bytes, Prefix, Entries, Entry
    <3> HIDE DEF a, b
    <3>2. Cancels(a, b, Rebuilt(x, p) = Rebuilt(y, q))
      BY <2>11, <3>1, ObjectsApart
    <3> QED BY <2>1, <3>2 DEF a, b
  <2> HIDE DEF a, b
  <2> QED BY <2>2, <2>3, <2>4, <2>5, <2>6, <2>7, <2>8, <2>9, <2>10, <2>11
<1> QED BY <1>0, <1>1, <1>2

\* The encodings at every depth, from those one deeper.
Encoding(v, of) ==
  /\ \A n \in 0 .. MaxHashDepth + 1 :
       of[n] = [w \in Layers(v, MaxHashDepth + 1)[n] |->
                  Bytes(w, n, IF n = MaxHashDepth + 1 THEN <<>> ELSE of[n + 1])]
  /\ Encode(v) = of[0][v]

\* There are such encodings.
LEMMA EncodeDefined ==
  ASSUME NEW v
  PROVE  \E of : Encoding(v, of)
<1> DEFINE N == MaxHashDepth + 1
           Step(k, below) == [w \in Layers(v, N)[k] |-> Bytes(w, k, below)]
           Body(f, n) == [k \in N - n .. N |-> Step(k, IF k = N THEN <<>> ELSE f[k + 1])]
           Some == {n \in Nat : n <= N => \E f : f = Body(f, n)}
<1>0. N \in Nat
  BY DepthAssumption
<1> HIDE DEF N, Step
<1>1. 0 \in Some
  <2> DEFINE g == [k \in N .. N |-> Step(k, <<>>)]
  <2>1. g = Body(g, 0)
    BY <1>0
  <2> HIDE DEF g, Body
  <2> QED BY <2>1
<1>2. ASSUME NEW n \in Nat, n \in Some PROVE n + 1 \in Some
  <2>0. SUFFICES ASSUME n + 1 <= N PROVE \E f : f = Body(f, n + 1)
    OBVIOUS
  <2>1. PICK f : f = Body(f, n)
    BY <1>0, <1>2, <2>0
  <2> DEFINE m == N - (n + 1)
             g == [k \in m .. N |-> IF k = m THEN Step(m, f[m + 1]) ELSE f[k]]
  <2>2. ASSUME NEW k \in m .. N
        PROVE  g[k] = Step(k, IF k = N THEN <<>> ELSE g[k + 1])
    <3>0. m \in Nat /\ m < N /\ m + 1 = N - n
      BY <1>0, <2>0
    <3> HIDE DEF m
    <3>1. CASE k = m
      <4>1. k # N /\ k + 1 \in m .. N /\ k + 1 # m
        BY <3>0, <3>1, <1>0
      <4>2. g[k + 1] = f[m + 1]
        BY <3>1, <4>1
      <4> QED BY <3>1, <4>1, <4>2
    <3>2. CASE k # m
      <4>1. k \in N - n .. N
        BY <3>0, <3>2, <1>0
      <4>2. f[k] = Step(k, IF k = N THEN <<>> ELSE f[k + 1])
        BY <2>1, <4>1
      <4>3. k # N => k + 1 \in m .. N /\ k + 1 # m
        BY <4>1, <3>0, <1>0
      <4>4. k # N => g[k + 1] = f[k + 1]
        BY <4>3
      <4>5. g[k] = f[k]
        BY <3>2
      <4> HIDE DEF g
      <4> QED BY <4>2, <4>4, <4>5
    <3> QED BY <3>1, <3>2
  <2>3. g = Body(g, n + 1)
    BY <2>2
  <2> HIDE DEF g, Body
  <2> QED BY <2>3
<1>3. Nat \subseteq Some
  <2> HIDE DEF Some
  <2> QED BY <1>1, <1>2, Upwards
<1>4. \E f : f = Body(f, N)
  BY <1>0, <1>3
<1> DEFINE Of == CHOOSE f : f = [k \in 0 .. N |-> Step(k, IF k = N THEN <<>> ELSE f[k + 1])]
<1>5. \E f : f = [k \in 0 .. N |-> Step(k, IF k = N THEN <<>> ELSE f[k + 1])]
  BY <1>0, <1>4
<1>6. Of = [k \in 0 .. N |-> Step(k, IF k = N THEN <<>> ELSE Of[k + 1])]
  BY <1>5
<1>7. Encode(v) = Of[0][v]
  BY DEF Encode, BottomUp, N, Step
<1> HIDE DEF Of
<1>8. \A n \in 0 .. N : Of[n] = Step(n, IF n = N THEN <<>> ELSE Of[n + 1])
  BY <1>6
<1> QED BY <1>7, <1>8 DEF N, Step, Encoding

\* The same for what is left of a value at every depth.
Cutting(v, of) ==
  /\ \A n \in 0 .. MaxHashDepth + 1 :
       of[n] = [w \in Layers(v, MaxHashDepth + 1)[n] |->
                  Kept(w, n, IF n = MaxHashDepth + 1 THEN <<>> ELSE of[n + 1])]
  /\ Cut(v) = of[0][v]

\* There is such a rest.
LEMMA CutDefined ==
  ASSUME NEW v
  PROVE  \E of : Cutting(v, of)
<1> DEFINE N == MaxHashDepth + 1
           Step(k, below) == [w \in Layers(v, N)[k] |-> Kept(w, k, below)]
           Body(f, n) == [k \in N - n .. N |-> Step(k, IF k = N THEN <<>> ELSE f[k + 1])]
           Some == {n \in Nat : n <= N => \E f : f = Body(f, n)}
<1>0. N \in Nat
  BY DepthAssumption
<1> HIDE DEF N, Step
<1>1. 0 \in Some
  <2> DEFINE g == [k \in N .. N |-> Step(k, <<>>)]
  <2>1. g = Body(g, 0)
    BY <1>0
  <2> HIDE DEF g, Body
  <2> QED BY <2>1
<1>2. ASSUME NEW n \in Nat, n \in Some PROVE n + 1 \in Some
  <2>0. SUFFICES ASSUME n + 1 <= N PROVE \E f : f = Body(f, n + 1)
    OBVIOUS
  <2>1. PICK f : f = Body(f, n)
    BY <1>0, <1>2, <2>0
  <2> DEFINE m == N - (n + 1)
             g == [k \in m .. N |-> IF k = m THEN Step(m, f[m + 1]) ELSE f[k]]
  <2>2. ASSUME NEW k \in m .. N
        PROVE  g[k] = Step(k, IF k = N THEN <<>> ELSE g[k + 1])
    <3>0. m \in Nat /\ m < N /\ m + 1 = N - n
      BY <1>0, <2>0
    <3> HIDE DEF m
    <3>1. CASE k = m
      <4>1. k # N /\ k + 1 \in m .. N /\ k + 1 # m
        BY <3>0, <3>1, <1>0
      <4>2. g[k + 1] = f[m + 1]
        BY <3>1, <4>1
      <4> QED BY <3>1, <4>1, <4>2
    <3>2. CASE k # m
      <4>1. k \in N - n .. N
        BY <3>0, <3>2, <1>0
      <4>2. f[k] = Step(k, IF k = N THEN <<>> ELSE f[k + 1])
        BY <2>1, <4>1
      <4>3. k # N => k + 1 \in m .. N /\ k + 1 # m
        BY <4>1, <3>0, <1>0
      <4>4. k # N => g[k + 1] = f[k + 1]
        BY <4>3
      <4>5. g[k] = f[k]
        BY <3>2
      <4> HIDE DEF g
      <4> QED BY <4>2, <4>4, <4>5
    <3> QED BY <3>1, <3>2
  <2>3. g = Body(g, n + 1)
    BY <2>2
  <2> HIDE DEF g, Body
  <2> QED BY <2>3
<1>3. Nat \subseteq Some
  <2> HIDE DEF Some
  <2> QED BY <1>1, <1>2, Upwards
<1>4. \E f : f = Body(f, N)
  BY <1>0, <1>3
<1> DEFINE Of == CHOOSE f : f = [k \in 0 .. N |-> Step(k, IF k = N THEN <<>> ELSE f[k + 1])]
<1>5. \E f : f = [k \in 0 .. N |-> Step(k, IF k = N THEN <<>> ELSE f[k + 1])]
  BY <1>0, <1>4
<1>6. Of = [k \in 0 .. N |-> Step(k, IF k = N THEN <<>> ELSE Of[k + 1])]
  BY <1>5
<1>7. Cut(v) = Of[0][v]
  BY DEF Cut, BottomUp, N, Step
<1> HIDE DEF Of
<1>8. \A n \in 0 .. N : Of[n] = Step(n, IF n = N THEN <<>> ELSE Of[n + 1])
  BY <1>6
<1> QED BY <1>7, <1>8 DEF N, Step, Cutting

\* Encodings of two values cancel, and then the values agree down to the limit.
LEMMA EncodingsApart ==
  ASSUME NEW x, NEW y, Proper(x), Proper(y)
  PROVE  /\ Encode(x) \in Seq(Int) /\ Len(Encode(x)) > 0
         /\ Encode(y) \in Seq(Int) /\ Len(Encode(y)) > 0
         /\ Cancels(Encode(x), Encode(y), Cut(x) = Cut(y))
<1> DEFINE N == MaxHashDepth + 1
           L == Layers(x, N)
           M == Layers(y, N)
<1>0. N \in Nat /\ MaxHashDepth \in Nat
  BY DepthAssumption
<1>1. PICK f : Encoding(x, f)
  BY EncodeDefined
<1>2. PICK g : Encoding(y, g)
  BY EncodeDefined
<1>3. PICK p : Cutting(x, p)
  BY CutDefined
<1>4. PICK q : Cutting(y, q)
  BY CutDefined
<1> DEFINE Fine(n) ==
             /\ \A w \in L[n] : f[n][w] \in Seq(Int) /\ Len(f[n][w]) > 0
             /\ \A z \in M[n] : g[n][z] \in Seq(Int) /\ Len(g[n][z]) > 0
             /\ \A w \in L[n], z \in M[n] : Cancels(f[n][w], g[n][z], p[n][w] = q[n][z])
           Good == {m \in Nat : m <= N => Fine(N - m)}
<1>5. ASSUME NEW n \in 0 .. N
      PROVE  /\ \A w \in L[n] : /\ f[n][w] = Bytes(w, n, IF n = N THEN <<>> ELSE f[n + 1])
                                /\ p[n][w] = Kept(w, n, IF n = N THEN <<>> ELSE p[n + 1])
             /\ \A z \in M[n] : /\ g[n][z] = Bytes(z, n, IF n = N THEN <<>> ELSE g[n + 1])
                                /\ q[n][z] = Kept(z, n, IF n = N THEN <<>> ELSE q[n + 1])
  <2>1. /\ f[n] = [u \in L[n] |-> Bytes(u, n, IF n = N THEN <<>> ELSE f[n + 1])]
        /\ g[n] = [u \in M[n] |-> Bytes(u, n, IF n = N THEN <<>> ELSE g[n + 1])]
    BY <1>1, <1>2 DEF Encoding
  <2>2. /\ p[n] = [u \in L[n] |-> Kept(u, n, IF n = N THEN <<>> ELSE p[n + 1])]
        /\ q[n] = [u \in M[n] |-> Kept(u, n, IF n = N THEN <<>> ELSE q[n + 1])]
    BY <1>3, <1>4 DEF Cutting
  <2> HIDE DEF L, M, N
  <2> QED BY <2>1, <2>2
<1>6. \A n \in 0 .. N : /\ \A w \in L[n] : Proper(w)
                        /\ \A z \in M[n] : Proper(z)
  <2>1. PICK U : Closed(U) /\ x \in U
    BY DEF Proper
  <2>2. PICK V : Closed(V) /\ y \in V
    BY DEF Proper
  <2> HIDE DEF N
  <2>3. \A n \in 0 .. N : L[n] \subseteq U
    BY <1>0, <2>1, InsideClosed
  <2>4. \A n \in 0 .. N : M[n] \subseteq V
    BY <1>0, <2>2, InsideClosed
  <2> HIDE DEF L, M
  <2> QED BY <2>1, <2>2, <2>3, <2>4 DEF Proper
<1>7. ASSUME NEW n \in 0 .. N, n # N
      PROVE  /\ \A w \in L[n] : PartsOf(w) \subseteq L[n + 1]
             /\ \A z \in M[n] : PartsOf(z) \subseteq M[n + 1]
  <2>1. n + 1 \in 0 .. N /\ n + 1 # 0 /\ (n + 1) - 1 = n
    BY <1>0, <1>7
  <2> HIDE DEF N
  <2>2. L[n + 1] = UNION {PartsOf(w) : w \in L[n]}
    BY <1>0, <2>1, LayersDefined
  <2>3. M[n + 1] = UNION {PartsOf(w) : w \in M[n]}
    BY <1>0, <2>1, LayersDefined
  <2> HIDE DEF L, M
  <2> QED BY <2>2, <2>3
<1>8. x \in L[0] /\ y \in M[0]
  BY <1>0, LayersDefined
<1> HIDE DEF L, M
<1>9. 0 \in Good
  <2>1. /\ \A w \in L[N] : f[N][w] = <<7>> /\ p[N][w] = None
        /\ \A z \in M[N] : g[N][z] = <<7>> /\ q[N][z] = None
    <3>1. N \in 0 .. N /\ N > MaxHashDepth
      BY <1>0
    <3> HIDE DEF N
    <3>2. /\ \A w \in L[N] : f[N][w] = Bytes(w, N, <<>>) /\ p[N][w] = Kept(w, N, <<>>)
          /\ \A z \in M[N] : g[N][z] = Bytes(z, N, <<>>) /\ q[N][z] = Kept(z, N, <<>>)
      BY <1>5, <3>1
    <3> QED BY <3>1, <3>2 DEF Bytes, Kept
  <2>2. Cancels(<<7>>, <<7>>, 7 = 7)
    <3>1. 7 \in Int
      OBVIOUS
    <3> QED BY <3>1, NumbersCancel
  <2>3. <<7>> \in Seq(Int) /\ Len(<<7>>) > 0 /\ N - 0 = N
    BY <1>0
  <2>4. Fine(N)
    <3> HIDE DEF N
    <3> QED BY <2>1, <2>2, <2>3
  <2> HIDE DEF N, Fine
  <2> QED BY <2>3, <2>4
<1>10. ASSUME NEW m \in Nat, m \in Good PROVE m + 1 \in Good
  <2> DEFINE n == N - (m + 1)
  <2>1. SUFFICES ASSUME m + 1 <= N PROVE Fine(n)
    OBVIOUS
  <2>2. n \in Nat /\ n \in 0 .. N /\ n # N /\ n + 1 = N - m /\ m <= N
    BY <1>0, <2>1
  <2>3. Fine(n + 1)
    <3> HIDE DEF Fine, N, n
    <3> QED BY <1>10, <2>2
  <2> HIDE DEF n, N, Good
  <2> DEFINE f1 == f[n + 1]
             g1 == g[n + 1]
             p1 == p[n + 1]
             q1 == q[n + 1]
  <2>4. /\ \A w \in L[n + 1] : f1[w] \in Seq(Int)
        /\ \A z \in M[n + 1] : g1[z] \in Seq(Int)
        /\ \A w \in L[n + 1], z \in M[n + 1] : Cancels(f1[w], g1[z], p1[w] = q1[z])
    BY <2>3
  <2>5. /\ \A w \in L[n] : f[n][w] = Bytes(w, n, f1) /\ p[n][w] = Kept(w, n, p1)
        /\ \A z \in M[n] : g[n][z] = Bytes(z, n, g1) /\ q[n][z] = Kept(z, n, q1)
    <3> HIDE DEF Fine
    <3> QED BY <1>5, <2>2
  <2> HIDE DEF f1, g1, p1, q1, Fine
  <2>6. /\ \A w \in L[n] : PartsOf(w) \subseteq L[n + 1]
        /\ \A z \in M[n] : PartsOf(z) \subseteq M[n + 1]
    BY <1>7, <2>2
  <2>7. /\ \A w \in L[n] : Proper(w)
        /\ \A z \in M[n] : Proper(z)
    BY <1>6, <2>2
  <2>8. ASSUME NEW w \in L[n] PROVE f[n][w] \in Seq(Int) /\ Len(f[n][w]) > 0
    <3>1. \A u \in PartsOf(w) : f1[u] \in Seq(Int)
      BY <2>4, <2>6
    <3>2. Bytes(w, n, f1) \in Seq(Int) /\ Len(Bytes(w, n, f1)) > 0
      BY <2>2, <2>7, <3>1, BytesTyped
    <3> QED BY <2>5, <3>2
  <2>9. ASSUME NEW z \in M[n] PROVE g[n][z] \in Seq(Int) /\ Len(g[n][z]) > 0
    <3>1. \A u \in PartsOf(z) : g1[u] \in Seq(Int)
      BY <2>4, <2>6
    <3>2. Bytes(z, n, g1) \in Seq(Int) /\ Len(Bytes(z, n, g1)) > 0
      BY <2>2, <2>7, <3>1, BytesTyped
    <3> QED BY <2>5, <3>2
  <2>10. ASSUME NEW w \in L[n], NEW z \in M[n]
         PROVE  Cancels(f[n][w], g[n][z], p[n][w] = q[n][z])
    <3>1. Apart(w, z, f1, g1, p1, q1)
      BY <2>4, <2>6 DEF Apart
    <3>2. Cancels(Bytes(w, n, f1), Bytes(z, n, g1), Kept(w, n, p1) = Kept(z, n, q1))
      BY <2>2, <2>7, <3>1, BytesApart
    <3> QED BY <2>5, <3>2
  <2> QED BY <2>8, <2>9, <2>10 DEF Fine
<1> HIDE DEF Fine
<1>11. Nat \subseteq Good
  <2> HIDE DEF Good
  <2> QED BY <1>9, <1>10, Upwards
<1>12. Fine(0)
  <2>1. N \in Good /\ N - N = 0 /\ N <= N
    BY <1>0, <1>11
  <2> HIDE DEF N
  <2> QED BY <2>1
<1>13. Encode(x) = f[0][x] /\ Encode(y) = g[0][y] /\ Cut(x) = p[0][x] /\ Cut(y) = q[0][y]
  BY <1>1, <1>2, <1>3, <1>4 DEF Encoding, Cutting
<1> QED BY <1>8, <1>12, <1>13 DEF Fine

\* A list of values, as content_hash takes it.
Hashable(s) ==
  /\ Len(s) \in Nat /\ DOMAIN s = 1 .. Len(s)
  /\ \A k \in 1 .. Len(s) : Proper(s[k])

Encodings(s) == [k \in DOMAIN s |-> Encode(s[k])]

\* The encodings of the members of a list, none of them empty.
LEMMA EncodingsTyped ==
  ASSUME NEW s, Hashable(s)
  PROVE  /\ Encodings(s) \in Seq(Seq(Int)) /\ Len(Encodings(s)) = Len(s)
         /\ \A k \in 1 .. Len(s) : Encodings(s)[k] = Encode(s[k]) /\ Len(Encodings(s)[k]) > 0
         /\ ContentHash(s) = FlattenSeq(Encodings(s))
<1>1. Len(s) \in Nat /\ DOMAIN s = 1 .. Len(s)
  BY DEF Hashable
<1>2. \A k \in 1 .. Len(s) : Encode(s[k]) \in Seq(Int) /\ Len(Encode(s[k])) > 0
  BY EncodingsApart DEF Hashable
<1>3. Encodings(s) = [k \in 1 .. Len(s) |-> Encode(s[k])]
  BY <1>1 DEF Encodings
<1>4. ContentHash(s) = FlattenSeq(Encodings(s))
  BY DEF ContentHash, Encodings
<1> QED BY <1>1, <1>2, <1>3, <1>4

\* A list with the same hash that is not shorter is not longer, and agrees.
LEMMA SameHash ==
  ASSUME NEW s, NEW t, Hashable(s), Hashable(t),
         ContentHash(s) = ContentHash(t), Len(s) <= Len(t)
  PROVE  /\ Len(s) = Len(t)
         /\ \A k \in 1 .. Len(s) : Cut(s[k]) = Cut(t[k])
<1> DEFINE a == Encodings(s)
           b == Encodings(t)
           m == Len(s)
           G == {k \in 1 .. m : Cut(s[k]) = Cut(t[k])}
<1>1. /\ m \in Nat /\ Len(t) \in Nat
      /\ \A k \in 1 .. m : Proper(s[k]) /\ Proper(t[k])
  BY DEF Hashable
<1>2. /\ a \in Seq(Seq(Int)) /\ Len(a) = m
      /\ \A k \in 1 .. m : a[k] = Encode(s[k]) /\ Len(a[k]) > 0
  BY EncodingsTyped
<1>3. /\ b \in Seq(Seq(Int)) /\ Len(b) = Len(t)
      /\ \A k \in 1 .. Len(b) : b[k] = Encode(t[k]) /\ Len(b[k]) > 0
  BY EncodingsTyped
<1>4. FlattenSeq(a) = FlattenSeq(b)
  BY EncodingsTyped
<1> HIDE DEF a, b
<1>5. CASE m = 0
  <2>1. SUFFICES ASSUME Len(t) # 0 PROVE FALSE
    BY <1>1, <1>5
  <2>2. FlattenSeq(a) = <<>>
    <3>1. a = <<>>
      BY <1>2, <1>5, EmptySeq
    <3> QED BY <3>1 DEF FlattenSeq
  <2>3. Len(b) \in Nat /\ Len(b) > 0 /\ 1 \in 1 .. Len(b)
    BY <1>1, <1>3, <2>1
  <2>4. PICK g : Flattened(b, g)
    BY <2>3, FlattenDefined
  <2>5. PICK rest \in Seq(Int) : FlattenSeq(b) = g[1] \o rest
    <3>1. \A i \in 1 .. Len(b) : Len(b[i]) > 0
      BY <1>3
    <3>2. \A k \in 1 .. Len(b) : \E rest \in Seq(Int) : /\ FlattenSeq(b) = g[k] \o rest
                                                        /\ k < Len(b) => Len(rest) > 0
      BY <1>3, <2>4, <3>1, RestFollows
    <3> QED BY <2>3, <3>2
  <2>6. g[1] \in Seq(Int) /\ Len(g[1]) > 0
    BY <1>3, <2>3, <2>4, FlattenTyped DEF Flattened
  <2>7. Len(g[1] \o rest) > 0
    BY <2>6, FirstKept
  <2>8. g[1] \o rest = <<>>
    BY <1>4, <2>2, <2>5
  <2>9. Len(<<>>) = 0
    OBVIOUS
  <2> QED BY <2>7, <2>8, <2>9
<1>6. CASE m # 0
  <2>1. /\ Len(a) \in Nat /\ Len(a) > 0 /\ Len(b) \in Nat /\ Len(b) > 0
        /\ m <= Len(a) /\ m <= Len(b) /\ m \in 1 .. m /\ m \in 1 .. Len(b) /\ m \in 1 .. Len(a)
    BY <1>1, <1>2, <1>3, <1>6
  <2>2. PICK f : Flattened(a, f)
    BY <2>1, FlattenDefined
  <2>3. PICK g : Flattened(b, g)
    BY <2>1, FlattenDefined
  <2>4. ASSUME NEW i \in 1 .. m PROVE Cancels(a[i], b[i], i \in G)
    <3>1. a[i] = Encode(s[i]) /\ b[i] = Encode(t[i])
      BY <1>1, <1>2, <1>3, <2>1
    <3>2. Cancels(Encode(s[i]), Encode(t[i]), Cut(s[i]) = Cut(t[i]))
      BY <1>1, EncodingsApart
    <3>3. i \in G <=> Cut(s[i]) = Cut(t[i])
      OBVIOUS
    <3> HIDE DEF G
    <3> QED BY <3>1, <3>2, <3>3 DEF Cancels
  <2> HIDE DEF G, m
  <2>5. \A i \in 1 .. m : Cancels(f[i], g[i], 1 .. i \subseteq G)
    BY <1>1, <1>2, <1>3, <2>1, <2>2, <2>3, <2>4, BeginningsCancel
  <2>6. Cancels(f[m], g[m], 1 .. m \subseteq G)
    BY <2>1, <2>5
  <2>7. PICK rest \in Seq(Int) : /\ FlattenSeq(b) = g[m] \o rest
                                 /\ m < Len(b) => Len(rest) > 0
    BY <1>3, <2>1, <2>3, RestFollows
  <2>8. FlattenSeq(a) = f[m] /\ f[m] \in Seq(Int)
    BY <1>2, <2>1, <2>2, FlattenTyped DEF Flattened
  <2>9. f[m] \o <<>> = f[m] /\ <<>> \in Seq(Int) /\ Len(<<>>) = 0
    BY <2>8, ConcatEmptySeq
  <2>10. f[m] \o <<>> = g[m] \o rest
    BY <1>4, <2>7, <2>8, <2>9
  <2>11. 1 .. m \subseteq G /\ <<>> = rest
    BY <2>6, <2>9, <2>10 DEF Cancels
  <2>12. ~(m < Len(b))
    BY <2>7, <2>9, <2>11
  <2>13. m = Len(t)
    BY <1>1, <1>3, <2>1, <2>12
  <2> QED BY <2>11, <2>13 DEF G, m
<1> QED BY <1>5, <1>6

\* Lists that content_hash does not tell apart differ at most below the limit.
LEMMA HashesApart ==
  ASSUME NEW s, NEW t, Hashable(s), Hashable(t), ContentHash(s) = ContentHash(t)
  PROVE  CutAll(s) = CutAll(t)
<1>1. Len(s) \in Nat /\ Len(t) \in Nat /\ DOMAIN s = 1 .. Len(s) /\ DOMAIN t = 1 .. Len(t)
  BY DEF Hashable
<1>2. Len(s) = Len(t) /\ \A k \in 1 .. Len(s) : Cut(s[k]) = Cut(t[k])
  <2>1. CASE Len(s) <= Len(t)
    BY <2>1, SameHash
  <2>2. CASE Len(t) <= Len(s)
    <3>1. Len(t) = Len(s) /\ \A k \in 1 .. Len(t) : Cut(t[k]) = Cut(s[k])
      BY <2>2, SameHash
    <3> QED BY <3>1
  <2>3. \A i, j \in Nat : i <= j \/ j <= i
    OBVIOUS
  <2> QED BY <1>1, <2>1, <2>2, <2>3
<1> QED BY <1>1, <1>2 DEF CutAll

(* In every state: the hash of a state, alone or before another value,     *)
(* tells it from every other list of values, down to MAX_HASH_DEPTH.       *)
THEOREM HashesTellApart == Spec => []HashTellsApart
<1>1. DataInv => HashTellsApart
  <2>1. SUFFICES ASSUME DataInv PROVE HashTellsApart
    OBVIOUS
  <2>2. Proper(VNull) /\ Proper(VObj(data)) /\ \A v \in Samples : Proper(v)
    <3>1. \A v \in Samples : Proper(v)
      BY ValuesAssumption, SoundProper
    <3> QED BY <2>1, <3>1, NullProper DEF DataInv
  <2>3. Hashable(<<>>)
    BY DEF Hashable
  <2>4. \A v : Proper(v) => Hashable(<<v>>)
    BY DEF Hashable
  <2>5. \A v, w : Proper(v) /\ Proper(w) => Hashable(<<v, w>>)
    BY DEF Hashable
  <2>6. \A list \in {<<VObj(data)>>} \cup {<<VObj(data), v>> : v \in Samples} : Hashable(list)
    BY <2>2, <2>4, <2>5
  <2>7. \A other \in DOMAIN SampleHashes :
          Hashable(other) /\ SampleHashes[other] = ContentHash(other)
    BY <2>2, <2>3, <2>4, <2>5 DEF SampleHashes
  <2>8. ASSUME NEW list, Hashable(list), NEW other \in DOMAIN SampleHashes,
               ContentHash(list) = SampleHashes[other]
        PROVE  CutAll(list) = CutAll(other)
    BY <2>7, <2>8, HashesApart
  <2> QED BY <2>6, <2>8 DEF HashTellsApart
<1> QED BY <1>1, StateHoldsValues, PTL
=============================================================================
