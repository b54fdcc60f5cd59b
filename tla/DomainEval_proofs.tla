-------------------------- MODULE DomainEval_proofs --------------------------
(***************************************************************************)
(* Every property of DomainEval as a theorem about its specification, for  *)
(* all documents, values, states and depth limits.                         *)
(*                                                                         *)
(* The definitions of DomainEval recurse on documents, on domains, on      *)
(* pairs of documents and on depth.  That each of them has the values its  *)
(* definition says is proved first, from one lemma on recursion along a    *)
(* rank.  Then a lemma about one level of a recursion follows the code,    *)
(* and induction on the rank or on the depth that is left carries it to    *)
(* every level.  The inductive invariant Answered says that the last       *)
(* primitive answered what the operators say of what it was asked.         *)
(***************************************************************************)
EXTENDS DomainEval, WellFoundedInduction, TLAPS

-----------------------------------------------------------------------------
(* The relational operators on numbers.                                    *)

\* A conversion to f64 yields a number and moves it by one at most.
LEMMA AsF64Close ==
  ASSUME NEW n \in Int
  PROVE  AsF64(n) \in Int /\ AsF64(n) \in (n - 1) .. (n + 1)
BY DEF AsF64

\* Integers that f64 represents are not changed.
LEMMA AsF64Exact ==
  ASSUME NEW n \in (-ExactLimit) .. ExactLimit
  PROVE  AsF64(n) = n
BY DEF AsF64

\* The order of integers may collapse in f64, it is never reversed.
LEMMA AsF64Monotone ==
  ASSUME NEW n \in Int, NEW m \in Int, n <= m
  PROVE  AsF64(n) <= AsF64(m)
<1>1. CASE n = m
  BY <1>1, AsF64Close
<1>2. CASE n + 1 = m
  BY <1>2, ExactAssumption DEF AsF64
<1>3. CASE n + 2 <= m
  BY <1>3, AsF64Close
<1>. QED
  BY <1>1, <1>2, <1>3

\* Numbers compare as two integers do.
LEMMA AsNumberInt ==
  ASSUME NEW v, Number(v)
  PROVE  AsNumber(v) \in Int
BY AsF64Close DEF AsNumber, Number, IsNumber

\* A number that f64 represents compares as itself.
LEMMA AsNumberExact ==
  ASSUME NEW v, Number(v), Exact(v)
  PROVE  AsNumber(v) = v.n
BY AsF64Exact DEF AsNumber, Exact

\* compare_values never reverses the order of two integers of a state: what is
\* less by lt is less, and what is less is le (RelOp::apply in domain.rs).
THEOREM IntegerOrderKept ==
  ASSUME NEW n \in Int, NEW m \in Int
  PROVE  /\ Apply("lt", VInt(n), VInt(m)) => n < m
         /\ n <= m => Apply("le", VInt(n), VInt(m))
<1>1. AsNumber(VInt(n)) = AsF64(n) /\ AsNumber(VInt(m)) = AsF64(m)
  BY DEF AsNumber, VInt
<1>2. AsF64(n) \in Int /\ AsF64(m) \in Int
  BY AsF64Close
<1>3. n <= m => AsF64(n) <= AsF64(m)
  BY AsF64Monotone
<1>4. m <= n => AsF64(m) <= AsF64(n)
  BY AsF64Monotone
<1>5. Apply("lt", VInt(n), VInt(m)) <=> AsF64(n) < AsF64(m)
  BY <1>1 DEF Apply, Less, IsNumber, VInt
<1>6. Apply("le", VInt(n), VInt(m)) <=> AsF64(n) < AsF64(m) \/ AsF64(n) = AsF64(m)
  BY <1>1 DEF Apply, Less, Same, IsNumber, VInt
<1>. QED
  BY <1>2, <1>3, <1>4, <1>5, <1>6

\* The operators agree with each other on all numbers, those that f64 cannot
\* represent among them.
THEOREM OperatorsAgree ==
  ASSUME NEW a, NEW b, NEW c, Number(a), Number(b), Number(c)
  PROVE  NumbersAgree(a, b, c)
<1>1. AsNumber(a) \in Int /\ AsNumber(b) \in Int /\ AsNumber(c) \in Int
  BY AsNumberInt
<1>2. /\ Apply("lt", a, b) <=> AsNumber(a) < AsNumber(b)
      /\ Apply("gt", a, b) <=> AsNumber(b) < AsNumber(a)
      /\ Apply("ge", a, b) <=> AsNumber(b) < AsNumber(a) \/ AsNumber(a) = AsNumber(b)
      /\ Apply("le", a, b) <=> AsNumber(a) < AsNumber(b) \/ AsNumber(a) = AsNumber(b)
      /\ Apply("le", a, c) <=> AsNumber(a) < AsNumber(c) \/ AsNumber(a) = AsNumber(c)
  BY DEF Apply, Less, Greater, Same, Number, IsNumber
<1>3. Apply("eq", a, b) <=> LooselyEquals(a, b)
  BY DEF Apply
<1>4. LooselyEquals(a, b) => AsNumber(a) = AsNumber(b)
  BY DEF LooselyEquals, Number
<1>5. Apply("between", a, VList(<<b, c>>))
        <=> AsNumber(b) <= AsNumber(a) /\ AsNumber(a) <= AsNumber(c)
  <2>1. Apply("between", a, VList(<<b, c>>)) <=> Between(a, VList(<<b, c>>))
    BY DEF Apply
  <2>2. /\ VList(<<b, c>>).type = "list"
        /\ VList(<<b, c>>).items = <<b, c>>
    BY DEF VList
  <2>3. Len(<<b, c>>) = 2 /\ <<b, c>>[1] = b /\ <<b, c>>[2] = c
    OBVIOUS
  <2>4. IsNumber(a) /\ IsNumber(b) /\ IsNumber(c)
    BY DEF Number, IsNumber
  <2>. QED
    BY <2>1, <2>2, <2>3, <2>4 DEF Between
<1>6. ASSUME Exact(a), Exact(b), AsNumber(a) = AsNumber(b)
      PROVE  LooselyEquals(a, b)
  <2>1. a.n = b.n
    BY <1>6, AsNumberExact
  <2>. QED
    BY <1>6, <2>1 DEF LooselyEquals, Number, IsNumber
<1>. QED
  BY <1>1, <1>2, <1>3, <1>4, <1>5, <1>6 DEF NumbersAgree

-----------------------------------------------------------------------------
(* Recursion along a rank.                                                 *)

\* A set of numbers has a least one.
LEMMA Least ==
  ASSUME NEW T, T \subseteq Nat, T # {}
  PROVE  \E m \in T : \A k \in T : m <= k
<1> DEFINE R == {ss \in Nat \X Nat : ss[1] < ss[2]}
<1>1. IsWellFoundedOn(R, Nat)
  BY NatLessThanWellFounded DEF OpToRel
<1>2. \A y, x \in Nat : y < x => <<y, x>> \in R
  OBVIOUS
<1> HIDE DEF R
<1>3. PICK m \in T : \A k \in T : ~ (<<k, m>> \in R)
  BY <1>1, WFMin
<1>4. ASSUME NEW k \in T PROVE m <= k
  <2>1. m \in Nat /\ k \in Nat /\ ~(k < m)
    BY <1>2, <1>3
  <2> QED BY <2>1
<1> QED BY <1>4

\* What holds of 0 and passes from a number to the next holds of all.
LEMMA Upwards ==
  ASSUME NEW Good, 0 \in Good, \A n \in Nat : n \in Good => n + 1 \in Good
  PROVE  Nat \subseteq Good
<1> DEFINE T == Nat \ Good
<1>1. SUFFICES ASSUME T # {} PROVE FALSE
  OBVIOUS
<1>2. T \subseteq Nat
  OBVIOUS
<1>3. PICK m \in T : \A k \in T : m <= k
  <2> HIDE DEF T
  <2> QED BY <1>1, <1>2, Least
<1>4. m \in Nat /\ m # 0
  OBVIOUS
<1>5. m - 1 \in Nat /\ ~(m <= m - 1)
  BY <1>4
<1>6. m - 1 \in Good
  BY <1>3, <1>5
<1> QED BY <1>4, <1>5, <1>6

\* What G makes of a function at x depends on its values of lower ranks only.
Contracts(G, rank, S, T) ==
  \A f, g \in [S -> T], x \in S :
    (\A y \in S : rank[y] < rank[x] => f[y] = g[y]) => G[f][x] = G[g][x]

HasSolution(G, S, T) == \E f \in [S -> T] : f = G[f]

\* A function that is defined by what it says of lower ranks exists.
LEMMA Recursion ==
  ASSUME NEW S, NEW T, T # {}, NEW rank \in [S -> Nat],
         NEW G \in [[S -> T] -> [S -> T]], Contracts(G, rank, S, T)
  PROVE  HasSolution(G, S, T)
<1> USE DEF Contracts
<1> DEFINE Upto(f, n) == \A x \in S : rank[x] < n => f[x] = G[f][x]
           Some == {n \in Nat : \E f \in [S -> T] : Upto(f, n)}
           Same2(n) == \A f, g \in [S -> T] : Upto(f, n) /\ Upto(g, n) =>
                         \A x \in S : rank[x] < n => f[x] = g[x]
           One == {n \in Nat : Same2(n)}
<1>r. \A x \in S : rank[x] \in Nat
  OBVIOUS
<1>1. Nat \subseteq Some
  <2>1. 0 \in Some
    <3> PICK t \in T : TRUE
      OBVIOUS
    <3>1. [x \in S |-> t] \in [S -> T]
      OBVIOUS
    <3>2. Upto([x \in S |-> t], 0)
      BY <1>r
    <3> QED BY <3>1, <3>2
  <2>2. ASSUME NEW n \in Nat, n \in Some PROVE n + 1 \in Some
    <3>1. PICK f \in [S -> T] : Upto(f, n)
      BY <2>2
    <3>2. G[f] \in [S -> T]
      OBVIOUS
    <3>3. ASSUME NEW x \in S, rank[x] < n + 1 PROVE G[f][x] = G[G[f]][x]
      <4>1. \A y \in S : rank[y] < rank[x] => rank[y] < n
        BY <3>3, <1>r
      <4>2. \A y \in S : rank[y] < rank[x] => f[y] = G[f][y]
        BY <3>1, <4>1
      <4> QED BY <3>2, <4>2
    <3>4. Upto(G[f], n + 1)
      BY <3>3
    <3> QED BY <3>2, <3>4
  <2> HIDE DEF Some
  <2> QED BY <2>1, <2>2, Upwards
<1>2. Nat \subseteq One
  <2>1. 0 \in One
    BY <1>r
  <2>2. ASSUME NEW n \in Nat, n \in One PROVE n + 1 \in One
    <3>1. ASSUME NEW f \in [S -> T], NEW g \in [S -> T], Upto(f, n + 1), Upto(g, n + 1),
                 NEW x \in S, rank[x] < n + 1
          PROVE  f[x] = g[x]
      <4>1. \A y \in S : rank[y] < n => rank[y] < n + 1
        BY <1>r
      <4>2. Upto(f, n) /\ Upto(g, n)
        BY <3>1, <4>1
      <4>3. \A y \in S : rank[y] < n => f[y] = g[y]
        BY <2>2, <4>2
      <4>4. \A y \in S : rank[y] < rank[x] => rank[y] < n
        BY <1>r, <3>1
      <4>5. G[f][x] = G[g][x]
        BY <4>3, <4>4
      <4> QED BY <3>1, <4>5
    <3> HIDE DEF Upto
    <3>2. Same2(n + 1)
      BY <3>1
    <3> HIDE DEF Same2
    <3> QED BY <3>2
  <2> HIDE DEF One
  <2> QED BY <2>1, <2>2, Upwards
<1> DEFINE h(n) == CHOOSE f \in [S -> T] : Upto(f, n)
           f == [x \in S |-> h(rank[x] + 1)[x]]
<1>3. ASSUME NEW n \in Nat PROVE h(n) \in [S -> T] /\ Upto(h(n), n)
  BY <1>1
<1>n. \A x \in S : rank[x] + 1 \in Nat /\ rank[x] < rank[x] + 1
  BY <1>r
<1>h. \A x \in S : h(rank[x] + 1) \in [S -> T] /\ Upto(h(rank[x] + 1), rank[x] + 1)
  <2> HIDE DEF h, Upto
  <2> QED BY <1>3, <1>n
<1>4. f \in [S -> T]
  <2> HIDE DEF h
  <2> QED BY <1>h, <1>n
<1>5. ASSUME NEW x \in S PROVE f[x] = G[f][x]
  <2> DEFINE a == h(rank[x] + 1)
  <2>1. a \in [S -> T] /\ Upto(a, rank[x] + 1)
    BY <1>h
  <2>2. ASSUME NEW y \in S, rank[y] < rank[x] PROVE f[y] = a[y]
    <3> DEFINE b == h(rank[y] + 1)
    <3>1. b \in [S -> T] /\ Upto(b, rank[y] + 1)
      BY <1>h
    <3>2. \A z \in S : rank[z] < rank[y] + 1 => rank[z] < rank[x] + 1
      BY <1>r, <2>2
    <3> HIDE DEF h
    <3>3. Upto(a, rank[y] + 1)
      BY <2>1, <3>2
    <3>4. Same2(rank[y] + 1)
      BY <1>2, <1>n
    <3>5. a[y] = b[y]
      BY <1>n, <2>1, <3>1, <3>3, <3>4
    <3> QED BY <3>5
  <2> HIDE DEF h
  <2>3. a[x] = G[a][x]
    BY <2>1, <1>n
  <2>4. f[x] = a[x]
    OBVIOUS
  <2> HIDE DEF f, a
  <2>5. G[a][x] = G[f][x]
    BY <1>4, <2>1, <2>2
  <2> QED BY <2>3, <2>4, <2>5
<1>6. G[f] \in [S -> T]
  <2> HIDE DEF f
  <2> QED BY <1>4
<1> HIDE DEF f
<1>7. f = G[f]
  BY <1>4, <1>5, <1>6
<1> QED BY <1>4, <1>7 DEF HasSolution

-----------------------------------------------------------------------------
(* The recursive definitions have solutions.                               *)

\* Every part of a document is a document of fewer levels.
LEMMA PartsBelow ==
  ASSUME NEW doc \in Documents, NEW k \in DOMAIN Children(doc)
  PROVE  /\ Children(doc)[k] \in Documents
         /\ Levels[doc] \in Nat /\ Levels[Children(doc)[k]] \in Nat
         /\ Levels[Children(doc)[k]] < Levels[doc]
<1>1. Children(doc) \in Seq(Documents) /\ Levels[Children(doc)[k]] < Levels[doc]
  BY DocumentsAssumption
<1>2. Levels \in [Documents -> Nat]
  BY DocumentsAssumption
<1> QED BY <1>1, <1>2

\* from_value is the function its definition says (domain_from_value).
LEMMA FromValueDefined ==
  FromValue = [doc \in Documents |->
                 Parse(doc, [k \in DOMAIN Children(doc) |-> FromValue[Children(doc)[k]]])]
<1> DEFINE Body(f, doc) == Parse(doc, [k \in DOMAIN Children(doc) |-> f[Children(doc)[k]]])
           Upto(f, n) == \A x \in Documents : Levels[x] < n => f[x] = Body(f, x)
           Some == {n \in Nat : \E f : Upto(f, n)}
           Same2(n) == \A f, g : Upto(f, n) /\ Upto(g, n) =>
                         \A x \in Documents : Levels[x] < n => f[x] = g[x]
           One == {n \in Nat : Same2(n)}
<1>r. \A x \in Documents : Levels[x] \in Nat
  BY DocumentsAssumption
<1>b. ASSUME NEW f, NEW g, NEW x \in Documents,
             \A y \in Documents : Levels[y] < Levels[x] => f[y] = g[y]
      PROVE  Body(f, x) = Body(g, x)
  <2>1. \A k \in DOMAIN Children(x) : f[Children(x)[k]] = g[Children(x)[k]]
    BY <1>b, PartsBelow
  <2>2. [k \in DOMAIN Children(x) |-> f[Children(x)[k]]] =
        [k \in DOMAIN Children(x) |-> g[Children(x)[k]]]
    BY <2>1
  <2> QED BY <2>2
<1> HIDE DEF Body
<1>1. Nat \subseteq Some
  <2>1. 0 \in Some
    BY <1>r
  <2>2. ASSUME NEW n \in Nat, n \in Some PROVE n + 1 \in Some
    <3>1. PICK f : Upto(f, n)
      BY <2>2
    <3> DEFINE g == [x \in Documents |-> Body(f, x)]
    <3>2. ASSUME NEW x \in Documents, Levels[x] < n + 1 PROVE g[x] = Body(g, x)
      <4>1. \A y \in Documents : Levels[y] < Levels[x] => Levels[y] < n
        BY <3>2, <1>r
      <4>2. \A y \in Documents : Levels[y] < Levels[x] => f[y] = g[y]
        BY <3>1, <4>1
      <4>3. g[x] = Body(f, x)
        OBVIOUS
      <4> HIDE DEF g
      <4> QED BY <1>b, <4>2, <4>3
    <3> HIDE DEF g
    <3>3. Upto(g, n + 1)
      BY <3>2
    <3> QED BY <3>3
  <2> HIDE DEF Some
  <2> QED BY <2>1, <2>2, Upwards
<1>2. Nat \subseteq One
  <2>1. 0 \in One
    BY <1>r
  <2>2. ASSUME NEW n \in Nat, n \in One PROVE n + 1 \in One
    <3>1. ASSUME NEW f, NEW g, Upto(f, n + 1), Upto(g, n + 1),
                 NEW x \in Documents, Levels[x] < n + 1
          PROVE  f[x] = g[x]
      <4>1. \A y \in Documents : Levels[y] < n => Levels[y] < n + 1
        BY <1>r
      <4>2. Upto(f, n) /\ Upto(g, n)
        BY <3>1, <4>1
      <4>3. \A y \in Documents : Levels[y] < n => f[y] = g[y]
        BY <2>2, <4>2
      <4>4. \A y \in Documents : Levels[y] < Levels[x] => Levels[y] < n
        BY <1>r, <3>1
      <4>5. Body(f, x) = Body(g, x)
        BY <1>b, <4>3, <4>4
      <4> QED BY <3>1, <4>5
    <3> HIDE DEF Upto
    <3>2. Same2(n + 1)
      BY <3>1
    <3> HIDE DEF Same2
    <3> QED BY <3>2
  <2> HIDE DEF One
  <2> QED BY <2>1, <2>2, Upwards
<1> DEFINE h(n) == CHOOSE f : Upto(f, n)
           F == [x \in Documents |-> h(Levels[x] + 1)[x]]
<1>3. ASSUME NEW n \in Nat PROVE Upto(h(n), n)
  BY <1>1
<1>n. \A x \in Documents : Levels[x] + 1 \in Nat /\ Levels[x] < Levels[x] + 1
  BY <1>r
<1>h. \A x \in Documents : Upto(h(Levels[x] + 1), Levels[x] + 1)
  <2> HIDE DEF h, Upto
  <2> QED BY <1>3, <1>n
<1>5. ASSUME NEW x \in Documents PROVE F[x] = Body(F, x)
  <2> DEFINE a == h(Levels[x] + 1)
  <2>1. Upto(a, Levels[x] + 1)
    BY <1>h
  <2>2. ASSUME NEW y \in Documents, Levels[y] < Levels[x] PROVE F[y] = a[y]
    <3> DEFINE b == h(Levels[y] + 1)
    <3>1. Upto(b, Levels[y] + 1)
      BY <1>h
    <3>2. \A z \in Documents : Levels[z] < Levels[y] + 1 => Levels[z] < Levels[x] + 1
      BY <1>r, <2>2
    <3> HIDE DEF h
    <3>3. Upto(a, Levels[y] + 1)
      BY <2>1, <3>2
    <3>4. Same2(Levels[y] + 1)
      BY <1>2, <1>n
    <3>5. a[y] = b[y]
      BY <1>n, <3>1, <3>3, <3>4
    <3> QED BY <3>5
  <2> HIDE DEF h
  <2>3. a[x] = Body(a, x)
    BY <2>1, <1>n
  <2>4. F[x] = a[x]
    OBVIOUS
  <2> HIDE DEF F, a
  <2>5. Body(F, x) = Body(a, x)
    BY <1>b, <2>2
  <2> QED BY <2>3, <2>4, <2>5
<1>6. F = [x \in Documents |-> F[x]]
  OBVIOUS
<1> HIDE DEF F
<1>7. F = [x \in Documents |-> Body(F, x)]
  BY <1>5, <1>6
<1> QED BY <1>7 DEF FromValue, Body

\* What parsing makes of a document comes from its own fields and its parts.
LEMMA ParsedShape ==
  ASSUME NEW doc \in Documents, FromValue[doc] # Invalid
  PROVE  /\ FromValue[doc].kind \in {"and", "or", "not"} =>
              /\ Type(doc) = FromValue[doc].kind
              /\ DOMAIN Parts(FromValue[doc]) = DOMAIN Children(doc)
              /\ \A k \in DOMAIN Children(doc) :
                   /\ Parts(FromValue[doc])[k] = FromValue[Children(doc)[k]]
                   /\ FromValue[Children(doc)[k]] # Invalid
         /\ FromValue[doc].kind \notin {"and", "or", "not"} => Parts(FromValue[doc]) = <<>>
<1> DEFINE parts == [k \in DOMAIN Children(doc) |-> FromValue[Children(doc)[k]]]
           d == FromValue[doc]
<1>1. d = Parse(doc, parts)
  BY FromValueDefined
<1>2. d.kind \notin {"and", "or", "not"} => Parts(d) = <<>>
  BY DEF Parts
<1> SUFFICES ASSUME d.kind \in {"and", "or", "not"}
             PROVE  /\ Type(doc) = d.kind
                    /\ DOMAIN Parts(d) = DOMAIN Children(doc)
                    /\ \A k \in DOMAIN Children(doc) : Parts(d)[k] = parts[k] /\ parts[k] # Invalid
  BY <1>2
<1>p. DOMAIN parts = DOMAIN Children(doc)
  OBVIOUS
<1> HIDE DEF parts, d
<1>3. ~Has(doc, "str")
  BY <1>1 DEF Parse, ParseString, Universal, Empty, DInstruction
<1>4. /\ \A k \in DOMAIN parts : parts[k] # Invalid
      /\ d = ParseObject(doc, parts)
  BY <1>1, <1>3 DEF Parse, Invalid
<1>5. Type(doc) # "atom"
  BY <1>4 DEF ParseObject, ParseAtom, DAtom, Invalid
<1>6. Type(doc) # "instruction"
  BY <1>4 DEF ParseObject, ParseInstruction, DInstruction, Invalid
<1>7. Type(doc) \in {"and", "or", "not"}
  BY <1>4, <1>5, <1>6 DEF ParseObject, Universal, Empty, Invalid
<1>8. CASE Type(doc) = "and"
  <2>1. d = DAnd(parts)
    BY <1>4, <1>8 DEF ParseObject, Invalid
  <2> QED BY <1>4, <1>8, <1>p, <2>1 DEF DAnd, Parts
<1>9. CASE Type(doc) = "or"
  <2>1. d = DOr(parts)
    BY <1>4, <1>9 DEF ParseObject, Invalid
  <2> QED BY <1>4, <1>9, <1>p, <2>1 DEF DOr, Parts
<1>10. CASE Type(doc) = "not"
  <2>1. d = DNot(parts[1]) /\ Has(doc, "inner")
    BY <1>4, <1>10 DEF ParseObject, Invalid
  <2>2. Children(doc) = <<doc.inner>>
    BY <1>10, <2>1 DEF Children, Compound
  <2>3. DOMAIN Children(doc) = {1}
    BY <2>2
  <2>4. Parts(d) = <<parts[1]>> /\ d.kind = "not"
    BY <2>1 DEF DNot, Parts
  <2>5. DOMAIN Parts(d) = {1} /\ Parts(d)[1] = parts[1]
    BY <2>4
  <2> QED BY <1>4, <1>10, <1>p, <2>3, <2>4, <2>5
<1> QED BY <1>7, <1>8, <1>9, <1>10

\* The least number of levels of a document that a domain is parsed from.
Rank == [d \in Domains |-> CHOOSE m \in Nat :
           /\ \E doc \in Documents : FromValue[doc] = d /\ Levels[doc] = m
           /\ \A doc \in Documents : FromValue[doc] = d => m <= Levels[doc]]

\* The rank of a domain is the least level it can be parsed at.
LEMMA RankLeast ==
  ASSUME NEW d \in Domains
  PROVE  /\ Rank[d] \in Nat
         /\ \E doc \in Documents : FromValue[doc] = d /\ Levels[doc] = Rank[d]
         /\ \A doc \in Documents : FromValue[doc] = d => Rank[d] <= Levels[doc]
<1> DEFINE T == {m \in Nat : \E doc \in Documents : FromValue[doc] = d /\ Levels[doc] = m}
<1>1. \A doc \in Documents : Levels[doc] \in Nat
  BY DocumentsAssumption
<1>2. T # {}
  BY <1>1 DEF Domains
<1>3. PICK m \in T : \A k \in T : m <= k
  <2>1. T \subseteq Nat
    OBVIOUS
  <2> HIDE DEF T
  <2> QED BY <1>2, <2>1, Least
<1>4. /\ m \in Nat
      /\ \E doc \in Documents : FromValue[doc] = d /\ Levels[doc] = m
      /\ \A doc \in Documents : FromValue[doc] = d => m <= Levels[doc]
  BY <1>1, <1>3
<1> QED BY <1>4 DEF Rank

\* The parts of a domain are domains, of lower rank.
LEMMA PartsAreDomains ==
  ASSUME NEW d \in Domains, NEW k \in DOMAIN Parts(d)
  PROVE  Parts(d)[k] \in Domains /\ Rank[Parts(d)[k]] < Rank[d]
<1>1. PICK doc \in Documents : FromValue[doc] = d /\ Levels[doc] = Rank[d]
  BY RankLeast
<1>2. d # Invalid
  BY DEF Domains
<1>3. d.kind \in {"and", "or", "not"}
  BY DEF Parts
<1>4. /\ DOMAIN Parts(d) = DOMAIN Children(doc)
      /\ Parts(d)[k] = FromValue[Children(doc)[k]]
      /\ FromValue[Children(doc)[k]] # Invalid
  BY <1>1, <1>2, <1>3, ParsedShape
<1>5. Children(doc)[k] \in Documents /\ Levels[Children(doc)[k]] < Levels[doc]
  BY <1>4, PartsBelow
<1>6. Parts(d)[k] \in Domains
  BY <1>4, <1>5 DEF Domains
<1>7. Rank[Parts(d)[k]] \in Nat /\ Rank[Parts(d)[k]] <= Levels[Children(doc)[k]]
  BY <1>4, <1>5, <1>6, RankLeast
<1>8. Levels[Children(doc)[k]] \in Nat /\ Levels[doc] \in Nat
  BY <1>4, PartsBelow
<1> QED BY <1>1, <1>5, <1>6, <1>7, <1>8

\* One level down from a place above the limit is a place.
LEMMA PlacesBelow ==
  ASSUME NEW p \in Places, p[2] <= MaxDomainDepth, NEW k \in DOMAIN Parts(p[1])
  PROVE  <<Parts(p[1])[k], p[2] + 1>> \in Places
<1>1. p[1] \in Domains /\ p[2] \in 0 .. MaxDomainDepth + 1
  BY DEF Places
<1>2. Parts(p[1])[k] \in Domains
  BY <1>1, PartsAreDomains
<1>3. p[2] + 1 \in 0 .. MaxDomainDepth + 1
  BY <1>1, DomainAssumption
<1> QED BY <1>2, <1>3 DEF Places

\* Recursion to a greater depth, which the limit ends.
LEMMA DepthRecursion ==
  ASSUME NEW G \in [[Places -> BOOLEAN] -> [Places -> BOOLEAN]],
         \A f, g \in [Places -> BOOLEAN], p \in Places :
           (p[2] <= MaxDomainDepth => \A k \in DOMAIN Parts(p[1]) :
              f[<<Parts(p[1])[k], p[2] + 1>>] = g[<<Parts(p[1])[k], p[2] + 1>>])
           => G[f][p] = G[g][p]
  PROVE  HasSolution(G, Places, BOOLEAN)
<1> DEFINE left == [p \in Places |-> MaxDomainDepth + 1 - p[2]]
<1>1. left \in [Places -> Nat]
  BY DomainAssumption DEF Places
<1>2. ASSUME NEW f \in [Places -> BOOLEAN], NEW g \in [Places -> BOOLEAN], NEW p \in Places,
             \A q \in Places : left[q] < left[p] => f[q] = g[q]
      PROVE  G[f][p] = G[g][p]
  <2>1. ASSUME p[2] <= MaxDomainDepth, NEW k \in DOMAIN Parts(p[1])
        PROVE  f[<<Parts(p[1])[k], p[2] + 1>>] = g[<<Parts(p[1])[k], p[2] + 1>>]
    <3> DEFINE q == <<Parts(p[1])[k], p[2] + 1>>
    <3>1. q \in Places
      BY <2>1, PlacesBelow
    <3>2. p[2] \in Nat /\ MaxDomainDepth \in Nat /\ q[2] = p[2] + 1
      BY DomainAssumption DEF Places
    <3>3. left[q] = MaxDomainDepth + 1 - q[2] /\ left[p] = MaxDomainDepth + 1 - p[2]
      BY <3>1
    <3> HIDE DEF q, left
    <3>4. left[q] < left[p]
      BY <3>2, <3>3
    <3>5. f[q] = g[q]
      BY <1>2, <3>1, <3>4
    <3> QED BY <3>5 DEF q
  <2> QED BY <2>1
<1> HIDE DEF left
<1>3. Contracts(G, left, Places, BOOLEAN)
  BY <1>2 DEF Contracts
<1>4. BOOLEAN # {}
  OBVIOUS
<1> QED BY <1>1, <1>3, <1>4, Recursion

\* The verdicts of contains_inner are the ones its recursion says.
LEMMA ContainsDefined ==
  ASSUME NEW s
  PROVE  ContainsInner(s) =
           [p \in Places |->
              /\ p[2] <= MaxDomainDepth
              /\ Judge(p[1], s, [k \in DOMAIN Parts(p[1]) |->
                                   ContainsInner(s)[<<Parts(p[1])[k], p[2] + 1>>]])]
<1> DEFINE Below(f, p) == [k \in DOMAIN Parts(p[1]) |-> f[<<Parts(p[1])[k], p[2] + 1>>]]
           G == [f \in [Places -> BOOLEAN] |->
                   [p \in Places |-> p[2] <= MaxDomainDepth /\ Judge(p[1], s, Below(f, p))]]
<1>1. G \in [[Places -> BOOLEAN] -> [Places -> BOOLEAN]]
  <2> HIDE DEF Below
  <2> QED OBVIOUS
<1>2. ASSUME NEW f \in [Places -> BOOLEAN], NEW g \in [Places -> BOOLEAN], NEW p \in Places,
             p[2] <= MaxDomainDepth => \A k \in DOMAIN Parts(p[1]) :
               f[<<Parts(p[1])[k], p[2] + 1>>] = g[<<Parts(p[1])[k], p[2] + 1>>]
      PROVE  G[f][p] = G[g][p]
  <2>1. p[2] <= MaxDomainDepth => Below(f, p) = Below(g, p)
    BY <1>2
  <2> HIDE DEF Below
  <2> QED BY <2>1
<1>3. HasSolution(G, Places, BOOLEAN)
  <2> HIDE DEF G
  <2> QED BY <1>1, <1>2, DepthRecursion
<1>4. PICK f \in [Places -> BOOLEAN] : f = G[f]
  BY <1>3 DEF HasSolution
<1>5. f = [p \in Places |-> p[2] <= MaxDomainDepth /\ Judge(p[1], s, Below(f, p))]
  <2> HIDE DEF Below
  <2> QED BY <1>4
<1> QED BY <1>5 DEF ContainsInner

\* What fits below the limit is what its recursion says.
LEMMA FitsDefined ==
  FitsInner = [p \in Places |->
                 /\ p[2] <= MaxDomainDepth
                 /\ \A k \in DOMAIN Parts(p[1]) : FitsInner[<<Parts(p[1])[k], p[2] + 1>>]]
<1> DEFINE Below(f, p) == \A k \in DOMAIN Parts(p[1]) : f[<<Parts(p[1])[k], p[2] + 1>>]
           G == [f \in [Places -> BOOLEAN] |->
                   [p \in Places |-> p[2] <= MaxDomainDepth /\ Below(f, p)]]
<1>1. G \in [[Places -> BOOLEAN] -> [Places -> BOOLEAN]]
  <2> HIDE DEF Below
  <2> QED OBVIOUS
<1>2. ASSUME NEW f \in [Places -> BOOLEAN], NEW g \in [Places -> BOOLEAN], NEW p \in Places,
             p[2] <= MaxDomainDepth => \A k \in DOMAIN Parts(p[1]) :
               f[<<Parts(p[1])[k], p[2] + 1>>] = g[<<Parts(p[1])[k], p[2] + 1>>]
      PROVE  G[f][p] = G[g][p]
  <2>1. p[2] <= MaxDomainDepth => Below(f, p) = Below(g, p)
    BY <1>2
  <2> HIDE DEF Below
  <2> QED BY <2>1
<1>3. HasSolution(G, Places, BOOLEAN)
  <2> HIDE DEF G
  <2> QED BY <1>1, <1>2, DepthRecursion
<1>4. PICK f \in [Places -> BOOLEAN] : f = G[f]
  BY <1>3 DEF HasSolution
<1>5. f = [p \in Places |-> p[2] <= MaxDomainDepth /\ Below(f, p)]
  <2> HIDE DEF Below
  <2> QED BY <1>4
<1> QED BY <1>5 DEF FitsInner

\* The meaning of a domain is made of those of its parts.
LEMMA ExtensionDefined ==
  ASSUME NEW S, NEW d \in Domains
  PROVE  Extension(d, S) =
           Meaning(d, S, [k \in DOMAIN Parts(d) |-> Extension(Parts(d)[k], S)])
<1> DEFINE T == SUBSET S
           Below(f, e) == [k \in DOMAIN Parts(e) |-> f[Parts(e)[k]]]
           G == [f \in [Domains -> T] |-> [e \in Domains |-> Meaning(e, S, Below(f, e))]]
<1>t. T # {}
  OBVIOUS
<1>1. \A f \in [Domains -> T], e \in Domains : Meaning(e, S, Below(f, e)) \in T
  <2> SUFFICES ASSUME NEW f \in [Domains -> T], NEW e \in Domains
               PROVE  Meaning(e, S, Below(f, e)) \in T
    OBVIOUS
  <2>1. \A k \in DOMAIN Below(f, e) : Below(f, e)[k] \subseteq S
    BY PartsAreDomains
  <2>2. UNION Range(Below(f, e)) \subseteq S
    <3> HIDE DEF Below
    <3> QED BY <2>1 DEF Range
  <2>3. AtomExtension(e, S) \subseteq S
    BY DEF AtomExtension
  <2> HIDE DEF Below
  <2> QED BY <2>2, <2>3 DEF Meaning
<1>2. G \in [[Domains -> T] -> [Domains -> T]]
  <2> HIDE DEF Below, T
  <2> QED BY <1>1
<1>3. ASSUME NEW f \in [Domains -> T], NEW g \in [Domains -> T], NEW e \in Domains,
             \A x \in Domains : Rank[x] < Rank[e] => f[x] = g[x]
      PROVE  G[f][e] = G[g][e]
  <2>1. Below(f, e) = Below(g, e)
    <3>1. \A k \in DOMAIN Parts(e) : f[Parts(e)[k]] = g[Parts(e)[k]]
      BY <1>3, PartsAreDomains
    <3> QED BY <3>1
  <2> HIDE DEF Below, T
  <2> QED BY <2>1
<1>4. Rank \in [Domains -> Nat]
  <2>1. \A e \in Domains : Rank[e] \in Nat
    BY RankLeast
  <2>2. Rank = [e \in Domains |-> Rank[e]]
    BY DEF Rank
  <2> QED BY <2>1, <2>2
<1>5. HasSolution(G, Domains, T)
  <2> HIDE DEF G, T
  <2>1. Contracts(G, Rank, Domains, T)
    BY <1>3 DEF Contracts
  <2> QED BY <1>t, <1>2, <1>4, <2>1, Recursion
<1>6. PICK f \in [Domains -> T] : f = G[f]
  BY <1>5 DEF HasSolution
<1>7. f = [e \in Domains |-> Meaning(e, S, Below(f, e))]
  <2> HIDE DEF Below, T
  <2> QED BY <1>6
<1> DEFINE E == CHOOSE h : h = [e \in Domains |-> Meaning(e, S, Below(h, e))]
<1>8. E = [e \in Domains |-> Meaning(e, S, Below(E, e))]
  <2> HIDE DEF Below, T
  <2> QED BY <1>7
<1>9. \A e : Extension(e, S) = E[e]
  BY DEF Extension
<1> HIDE DEF E
<1>10. E[d] = Meaning(d, S, Below(E, d))
  <2> HIDE DEF Below
  <2> QED BY <1>8
<1> QED BY <1>9, <1>10

\* The nodes of a document are itself and those of its parts.
LEMMA NodesDefined ==
  ASSUME NEW doc \in Documents
  PROVE  Nodes(doc) = {doc} \cup UNION {Nodes(Children(doc)[k]) : k \in DOMAIN Children(doc)}
<1> DEFINE T == SUBSET Documents
           Below(f, e) == UNION {f[Children(e)[k]] : k \in DOMAIN Children(e)}
           G == [f \in [Documents -> T] |-> [e \in Documents |-> {e} \cup Below(f, e)]]
<1>t. T # {}
  OBVIOUS
<1>1. ASSUME NEW f \in [Documents -> T], NEW e \in Documents PROVE {e} \cup Below(f, e) \in T
  <2>1. \A k \in DOMAIN Children(e) : f[Children(e)[k]] \subseteq Documents
    BY PartsBelow
  <2> QED BY <2>1
<1>2. G \in [[Documents -> T] -> [Documents -> T]]
  <2> HIDE DEF Below, T
  <2> QED BY <1>1
<1>3. ASSUME NEW f \in [Documents -> T], NEW g \in [Documents -> T], NEW e \in Documents,
             \A x \in Documents : Levels[x] < Levels[e] => f[x] = g[x]
      PROVE  G[f][e] = G[g][e]
  <2>1. Below(f, e) = Below(g, e)
    <3>1. \A k \in DOMAIN Children(e) : f[Children(e)[k]] = g[Children(e)[k]]
      BY <1>3, PartsBelow
    <3> QED BY <3>1
  <2> HIDE DEF Below, T
  <2> QED BY <2>1
<1>5. HasSolution(G, Documents, T)
  <2> HIDE DEF G, T
  <2>1. Contracts(G, Levels, Documents, T)
    BY <1>3 DEF Contracts
  <2>2. Levels \in [Documents -> Nat]
    BY DocumentsAssumption
  <2> QED BY <1>t, <1>2, <2>1, <2>2, Recursion
<1>6. PICK f \in [Documents -> T] : f = G[f]
  BY <1>5 DEF HasSolution
<1>7. f = [e \in Documents |-> {e} \cup Below(f, e)]
  <2> HIDE DEF Below, T
  <2> QED BY <1>6
<1> DEFINE N == CHOOSE h : h = [e \in Documents |-> {e} \cup Below(h, e)]
<1>8. N = [e \in Documents |-> {e} \cup Below(N, e)]
  <2> HIDE DEF Below, T
  <2> QED BY <1>7
<1>9. \A e : Nodes(e) = N[e]
  BY DEF Nodes
<1> HIDE DEF N
<1>10. N[doc] = {doc} \cup Below(N, doc)
  <2> HIDE DEF Below
  <2> QED BY <1>8
<1> QED BY <1>9, <1>10

\* What a document refers to comes from its own fields and the parts looked into.
LEMMA ReferencesDefined ==
  ASSUME NEW goals, NEW doc \in Documents
  PROVE  References(doc, goals) <=>
           \/ Type(doc) = "atom" /\ Attribute(doc) \in goals
           \/ Type(doc) = "universal"
           \/ Searched(doc) /\ \E k \in DOMAIN Children(doc) : References(Children(doc)[k], goals)
<1> DEFINE Body(f, e) == \/ Type(e) = "atom" /\ Attribute(e) \in goals
                         \/ Type(e) = "universal"
                         \/ Searched(e) /\ \E k \in DOMAIN Children(e) : f[Children(e)[k]]
           G == [f \in [Documents -> BOOLEAN] |-> [e \in Documents |-> Body(f, e)]]
<1>t. BOOLEAN # {}
  OBVIOUS
<1>1. \A f, e : Body(f, e) \in BOOLEAN
  OBVIOUS
<1>2. G \in [[Documents -> BOOLEAN] -> [Documents -> BOOLEAN]]
  <2> HIDE DEF Body
  <2> QED BY <1>1
<1>3. ASSUME NEW f \in [Documents -> BOOLEAN], NEW g \in [Documents -> BOOLEAN],
             NEW e \in Documents,
             \A x \in Documents : Levels[x] < Levels[e] => f[x] = g[x]
      PROVE  G[f][e] = G[g][e]
  <2>1. Body(f, e) = Body(g, e)
    <3>1. \A k \in DOMAIN Children(e) : f[Children(e)[k]] = g[Children(e)[k]]
      BY <1>3, PartsBelow
    <3> QED BY <3>1
  <2> HIDE DEF Body
  <2> QED BY <2>1
<1>5. HasSolution(G, Documents, BOOLEAN)
  <2> HIDE DEF G
  <2>1. Contracts(G, Levels, Documents, BOOLEAN)
    BY <1>3 DEF Contracts
  <2>2. Levels \in [Documents -> Nat]
    BY DocumentsAssumption
  <2> QED BY <1>t, <1>2, <2>1, <2>2, Recursion
<1>6. PICK f \in [Documents -> BOOLEAN] : f = G[f]
  BY <1>5 DEF HasSolution
<1>7. f = [e \in Documents |-> Body(f, e)]
  <2> HIDE DEF Body
  <2> QED BY <1>6
<1> DEFINE N == CHOOSE h : h = [e \in Documents |-> Body(h, e)]
<1>8. N = [e \in Documents |-> Body(N, e)]
  <2> HIDE DEF Body
  <2> QED BY <1>7
<1>9. \A e : References(e, goals) = N[e]
  BY DEF References
<1> HIDE DEF N
<1>10. N[doc] = Body(N, doc)
  <2> HIDE DEF Body
  <2> QED BY <1>8
<1> QED BY <1>9, <1>10

\* The verdict on two documents is Boolean.
LEMMA CompareBoolean ==
  ASSUME NEW d1, NEW d2, NEW u, NEW v
  PROVE  Compare(d1, d2, u, v) \in BOOLEAN
<1>1. \A d, w : Combine(d, w) = TRUE \/ Combine(d, w) = FALSE
  <2> SUFFICES ASSUME NEW d, NEW w PROVE Combine(d, w) = TRUE \/ Combine(d, w) = FALSE
    OBVIOUS
  <2>1. (FALSE \notin Range(w)) \in BOOLEAN /\ (TRUE \in Range(w)) \in BOOLEAN
    OBVIOUS
  <2>2. CASE ~Has(d, "domains") /\ (Type(d) = "and" \/ ~Binary(d))
    BY <2>2, <2>1 DEF Combine
  <2>3. CASE ~(~Has(d, "domains") /\ (Type(d) = "and" \/ ~Binary(d)))
    BY <2>3, <2>1 DEF Combine
  <2> QED BY <2>2, <2>3
<1>2. Combine(d1, u) \in BOOLEAN /\ Combine(d2, v) \in BOOLEAN
  BY <1>1
<1>3. (Attribute(d1) = Attribute(d2)) \in BOOLEAN
  OBVIOUS
<1> QED BY <1>2, <1>3 DEF Compare

\* The verdict on two documents is made of those on the parts of each.
LEMMA OverlapDefined ==
  ASSUME NEW doc1 \in Documents, NEW doc2 \in Documents
  PROVE  Overlap(doc1, doc2) =
           Compare(doc1, doc2,
                   [k \in DOMAIN Children(doc1) |-> Overlap(Children(doc1)[k], doc2)],
                   [k \in DOMAIN Children(doc2) |-> Overlap(doc1, Children(doc2)[k])])
<1> DEFINE D == Documents \X Documents
           One(f, p) == [k \in DOMAIN Children(p[1]) |-> f[<<Children(p[1])[k], p[2]>>]]
           Two(f, p) == [k \in DOMAIN Children(p[2]) |-> f[<<p[1], Children(p[2])[k]>>]]
           G == [f \in [D -> BOOLEAN] |-> [p \in D |-> Compare(p[1], p[2], One(f, p), Two(f, p))]]
           sum == [p \in D |-> Levels[p[1]] + Levels[p[2]]]
<1>t. BOOLEAN # {}
  OBVIOUS
<1>1. \A d1, d2, u, v : Compare(d1, d2, u, v) \in BOOLEAN
  BY CompareBoolean
<1>2. G \in [[D -> BOOLEAN] -> [D -> BOOLEAN]]
  <2> HIDE DEF One, Two, D
  <2> QED BY <1>1
<1>3. ASSUME NEW f \in [D -> BOOLEAN], NEW g \in [D -> BOOLEAN], NEW p \in D,
             \A q \in D : sum[q] < sum[p] => f[q] = g[q]
      PROVE  G[f][p] = G[g][p]
  <2>0. p[1] \in Documents /\ p[2] \in Documents /\ Levels[p[1]] \in Nat /\ Levels[p[2]] \in Nat
    BY DocumentsAssumption
  <2>1. One(f, p) = One(g, p)
    <3>1. ASSUME NEW k \in DOMAIN Children(p[1])
          PROVE  f[<<Children(p[1])[k], p[2]>>] = g[<<Children(p[1])[k], p[2]>>]
      <4> DEFINE q == <<Children(p[1])[k], p[2]>>
      <4>1. q \in D /\ q[1] = Children(p[1])[k] /\ q[2] = p[2]
        BY <2>0, PartsBelow
      <4>2. Levels[q[1]] \in Nat /\ Levels[q[1]] < Levels[p[1]]
        BY <2>0, PartsBelow
      <4>3. sum[q] = Levels[q[1]] + Levels[q[2]] /\ sum[p] = Levels[p[1]] + Levels[p[2]]
        BY <4>1
      <4> HIDE DEF q, sum
      <4>4. sum[q] < sum[p]
        BY <2>0, <4>1, <4>2, <4>3
      <4>5. f[q] = g[q]
        BY <1>3, <4>1, <4>4
      <4> QED BY <4>5 DEF q
    <3> QED BY <3>1
  <2>2. Two(f, p) = Two(g, p)
    <3>1. ASSUME NEW k \in DOMAIN Children(p[2])
          PROVE  f[<<p[1], Children(p[2])[k]>>] = g[<<p[1], Children(p[2])[k]>>]
      <4> DEFINE q == <<p[1], Children(p[2])[k]>>
      <4>1. q \in D /\ q[1] = p[1] /\ q[2] = Children(p[2])[k]
        BY <2>0, PartsBelow
      <4>2. Levels[q[2]] \in Nat /\ Levels[q[2]] < Levels[p[2]]
        BY <2>0, PartsBelow
      <4>3. sum[q] = Levels[q[1]] + Levels[q[2]] /\ sum[p] = Levels[p[1]] + Levels[p[2]]
        BY <4>1
      <4> HIDE DEF q, sum
      <4>4. sum[q] < sum[p]
        BY <2>0, <4>1, <4>2, <4>3
      <4>5. f[q] = g[q]
        BY <1>3, <4>1, <4>4
      <4> QED BY <4>5 DEF q
    <3> QED BY <3>1
  <2> HIDE DEF One, Two, D
  <2> QED BY <2>1, <2>2
<1>4. sum \in [D -> Nat]
  BY DocumentsAssumption
<1>5. HasSolution(G, D, BOOLEAN)
  <2> HIDE DEF G, sum, D
  <2>1. Contracts(G, sum, D, BOOLEAN)
    BY <1>3 DEF Contracts
  <2> QED BY <1>t, <1>2, <1>4, <2>1, Recursion
<1>6. PICK f \in [D -> BOOLEAN] : f = G[f]
  BY <1>5 DEF HasSolution
<1>7. f = [p \in D |-> Compare(p[1], p[2], One(f, p), Two(f, p))]
  <2> HIDE DEF One, Two, D
  <2> QED BY <1>6
<1> DEFINE O == CHOOSE h : h = [p \in D |-> Compare(p[1], p[2], One(h, p), Two(h, p))]
<1>8. O = [p \in D |-> Compare(p[1], p[2], One(O, p), Two(O, p))]
  <2> HIDE DEF One, Two, D
  <2> QED BY <1>7
<1>9. \A d1, d2 : Overlap(d1, d2) = O[<<d1, d2>>]
  BY DEF Overlap
<1> HIDE DEF O
<1>10. <<doc1, doc2>> \in D /\ <<doc1, doc2>>[1] = doc1 /\ <<doc1, doc2>>[2] = doc2
  OBVIOUS
<1>11. O[<<doc1, doc2>>] = Compare(doc1, doc2, One(O, <<doc1, doc2>>), Two(O, <<doc1, doc2>>))
  <2> HIDE DEF One, Two, D
  <2> QED BY <1>8, <1>10
<1> QED BY <1>9, <1>11

-----------------------------------------------------------------------------
(* Verdicts and meanings.                                                  *)

\* The negated operators that ask for an attribute are negations.
LEMMA Negations ==
  ASSUME NEW a, NEW b
  PROVE  /\ Apply("ne", a, b) <=> ~Apply("eq", a, b)
         /\ Apply("not_contains", a, b) <=> ~Apply("contains", a, b)
         /\ Apply("not_in", a, b) <=> ~Apply("in", a, b)
         /\ Apply("not_between", a, b) <=> ~Apply("between", a, b)
         /\ ~Apply("not_exists", a, b)
BY DEF Apply

\* An atom holds of the states in its meaning (contains_inner on Domain::Atom).
LEMMA AtomMeaning ==
  ASSUME NEW d, NEW s
  PROVE  AtomHolds(d, s.attrs[d.attribute]) <=> s \in AtomExtension(d, {s})
<1> DEFINE a == s.attrs[d.attribute]
<1>n. /\ Apply("ne", a, d.value) <=> ~Apply("eq", a, d.value)
      /\ Apply("not_contains", a, d.value) <=> ~Apply("contains", a, d.value)
      /\ Apply("not_in", a, d.value) <=> ~Apply("in", a, d.value)
      /\ Apply("not_between", a, d.value) <=> ~Apply("between", a, d.value)
      /\ ~Apply("not_exists", a, d.value)
  BY Negations
<1>1. CASE d.op = "exists"
  BY <1>1 DEF AtomHolds, AtomExtension
<1>2. CASE d.op = "not_exists"
  BY <1>2, <1>n DEF AtomHolds, AtomExtension
<1>3. CASE d.op = "ne"
  BY <1>3, <1>n DEF AtomHolds, AtomExtension
<1>4. CASE d.op \in {"not_contains", "not_in", "not_between"}
  BY <1>4, <1>n DEF AtomHolds, AtomExtension, Positive
<1>5. CASE d.op \notin {"exists", "not_exists", "ne", "not_contains", "not_in", "not_between"}
  BY <1>5 DEF AtomHolds, AtomExtension
<1> QED BY <1>1, <1>2, <1>3, <1>4, <1>5

\* A negation has a part.
LEMMA NotHasPart ==
  ASSUME NEW d \in Domains, d.kind = "not"
  PROVE  1 \in DOMAIN Parts(d)
<1>1. PICK doc \in Documents : FromValue[doc] = d
  BY DEF Domains
<1>2. d # Invalid
  BY DEF Domains
<1> DEFINE parts == [k \in DOMAIN Children(doc) |-> FromValue[Children(doc)[k]]]
<1>3. d = Parse(doc, parts)
  BY <1>1, FromValueDefined
<1>4. Type(doc) = "not" /\ DOMAIN Parts(d) = DOMAIN Children(doc)
  BY <1>1, <1>2, ParsedShape
<1> HIDE DEF parts
<1>5. ~Has(doc, "str")
  BY <1>3 DEF Parse, ParseString, Universal, Empty, DInstruction
<1>6. d = ParseObject(doc, parts)
  BY <1>2, <1>3, <1>5 DEF Parse
<1>7. Has(doc, "inner")
  BY <1>2, <1>4, <1>6 DEF ParseObject
<1>8. Children(doc) = <<doc.inner>>
  BY <1>4, <1>7 DEF Children, Compound
<1> QED BY <1>4, <1>8

\* A verdict is membership if the verdicts on the parts are.
LEMMA JudgeMeaning ==
  ASSUME NEW d \in Domains, NEW s, NEW verdicts, NEW extents,
         DOMAIN verdicts = DOMAIN Parts(d), DOMAIN extents = DOMAIN Parts(d),
         \A k \in DOMAIN Parts(d) : verdicts[k] <=> s \in extents[k]
  PROVE  Judge(d, s, verdicts) <=> s \in Meaning(d, {s}, extents)
<1>1. CASE d.kind = "atom"
  BY <1>1, AtomMeaning DEF Judge, Meaning
<1>2. CASE d.kind = "and"
  BY <1>2 DEF Judge, Meaning
<1>3. CASE d.kind = "or"
  <2>1. s \in UNION Range(extents) <=> \E k \in DOMAIN extents : s \in extents[k]
    BY DEF Range
  <2> QED BY <1>3, <2>1 DEF Judge, Meaning
<1>4. CASE d.kind = "not"
  BY <1>4, NotHasPart DEF Judge, Meaning
<1>5. CASE d.kind = "instruction"
  BY <1>5 DEF Judge, Meaning
<1>6. CASE d.kind \notin {"atom", "and", "or", "not", "instruction"}
  BY <1>6 DEF Judge, Meaning
<1> QED BY <1>1, <1>2, <1>3, <1>4, <1>5, <1>6

\* At any depth, as long as nothing below is too deep, the verdict is membership.
LEMMA VerdictAt ==
  ASSUME NEW s, NEW p \in Places, FitsInner[p]
  PROVE  ContainsInner(s)[p] <=> s \in Extension(p[1], {s})
<1> DEFINE C == ContainsInner(s)
           Right(q) == FitsInner[q] => (C[q] <=> s \in Extension(q[1], {s}))
           Good == {m \in Nat : \A q \in Places : q[2] + m = MaxDomainDepth + 1 => Right(q)}
<1>p. \A q \in Places : q[1] \in Domains /\ q[2] \in 0 .. MaxDomainDepth + 1
  BY DEF Places
<1>c. MaxDomainDepth \in Nat
  BY DomainAssumption
<1>1. 0 \in Good
  <2>1. ASSUME NEW q \in Places, q[2] = MaxDomainDepth + 1 PROVE ~FitsInner[q]
    <3>1. ~(q[2] <= MaxDomainDepth)
      BY <2>1, <1>c
    <3> QED BY <3>1, FitsDefined
  <2>2. \A q \in Places : q[2] + 0 = MaxDomainDepth + 1 => q[2] = MaxDomainDepth + 1
    BY <1>p
  <2> QED BY <2>1, <2>2
<1>2. ASSUME NEW m \in Nat, m \in Good PROVE m + 1 \in Good
  <2>1. ASSUME NEW q \in Places, q[2] + (m + 1) = MaxDomainDepth + 1, FitsInner[q]
        PROVE  C[q] <=> s \in Extension(q[1], {s})
    <3> DEFINE d == q[1]
               verdicts == [k \in DOMAIN Parts(d) |-> C[<<Parts(d)[k], q[2] + 1>>]]
               extents == [k \in DOMAIN Parts(d) |-> Extension(Parts(d)[k], {s})]
    <3>1. d \in Domains /\ q[2] \in 0 .. MaxDomainDepth + 1
      BY <1>p
    <3>2. /\ q[2] <= MaxDomainDepth
          /\ \A k \in DOMAIN Parts(d) : FitsInner[<<Parts(d)[k], q[2] + 1>>]
      BY <2>1, FitsDefined
    <3>3. C[q] <=> Judge(d, s, verdicts)
      BY <3>2, ContainsDefined
    <3>4. Extension(d, {s}) = Meaning(d, {s}, extents)
      BY <3>1, ExtensionDefined
    <3>5. ASSUME NEW k \in DOMAIN Parts(d) PROVE verdicts[k] <=> s \in extents[k]
      <4> DEFINE r == <<Parts(d)[k], q[2] + 1>>
      <4>1. r \in Places
        BY <3>2, PlacesBelow
      <4>2. r[1] = Parts(d)[k] /\ r[2] = q[2] + 1
        OBVIOUS
      <4>3. FitsInner[r]
        BY <3>2
      <4>4. verdicts[k] = C[r] /\ extents[k] = Extension(r[1], {s})
        OBVIOUS
      <4> HIDE DEF r, verdicts, extents, C
      <4>5. r[2] + m = MaxDomainDepth + 1
        BY <2>1, <3>1, <4>2, <1>c
      <4>6. Right(r)
        BY <1>2, <4>1, <4>5
      <4> QED BY <4>3, <4>4, <4>6
    <3> HIDE DEF C
    <3>6. DOMAIN verdicts = DOMAIN Parts(d) /\ DOMAIN extents = DOMAIN Parts(d)
      OBVIOUS
    <3> HIDE DEF verdicts, extents, d
    <3>7. Judge(d, s, verdicts) <=> s \in Meaning(d, {s}, extents)
      BY <3>1, <3>5, <3>6, JudgeMeaning
    <3> QED BY <3>3, <3>4, <3>7 DEF d
  <2> HIDE DEF C
  <2>2. \A q \in Places : q[2] + (m + 1) = MaxDomainDepth + 1 => Right(q)
    BY <2>1
  <2> HIDE DEF Right
  <2> QED BY <2>2
<1>3. Nat \subseteq Good
  <2> HIDE DEF Good
  <2> QED BY <1>1, <1>2, Upwards
<1> DEFINE left == MaxDomainDepth + 1 - p[2]
<1>4. left \in Nat /\ p[2] + left = MaxDomainDepth + 1
  BY <1>p, <1>c
<1> HIDE DEF left, C
<1>5. Right(p)
  BY <1>3, <1>4
<1> QED BY <1>5 DEF C

\* What the type of a document that parses says of the domain.
LEMMA TypeShape ==
  ASSUME NEW doc \in Documents, FromValue[doc] # Invalid
  PROVE  /\ Type(doc) \in {"and", "or", "not"} => FromValue[doc].kind = Type(doc)
         /\ Compound(doc) => Has(doc, "domains") \/ Binary(doc)
         /\ Type(doc) = "universal" => FromValue[doc] = Universal
         /\ Type(doc) = "empty" => FromValue[doc] = Empty
<1> DEFINE parts == [k \in DOMAIN Children(doc) |-> FromValue[Children(doc)[k]]]
           d == FromValue[doc]
<1>1. d = Parse(doc, parts)
  BY FromValueDefined
<1>2. Type(doc) # "" => ~Has(doc, "str")
  BY DocumentsAssumption DEF Type
<1> HIDE DEF parts, d
<1>3. Type(doc) # "" => d = ParseObject(doc, parts)
  <2>1. d # Invalid
    BY DEF d
  <2> QED BY <1>1, <1>2, <2>1 DEF Parse
<1>4. d # Invalid
  BY DEF d
<1>5. CASE Type(doc) = "and"
  <2>1. d = DAnd(parts) /\ (Has(doc, "domains") \/ Binary(doc))
    BY <1>3, <1>4, <1>5 DEF ParseObject
  <2> QED BY <1>5, <2>1 DEF DAnd, d
<1>6. CASE Type(doc) = "or"
  <2>1. d = DOr(parts) /\ (Has(doc, "domains") \/ Binary(doc))
    BY <1>3, <1>4, <1>6 DEF ParseObject
  <2> QED BY <1>6, <2>1 DEF DOr, d
<1>7. CASE Type(doc) = "not"
  <2>1. d = DNot(parts[1])
    BY <1>3, <1>4, <1>7 DEF ParseObject
  <2> QED BY <1>7, <2>1 DEF DNot, Compound, d
<1>8. CASE Type(doc) = "universal"
  BY <1>3, <1>8 DEF ParseObject, Compound, d
<1>9. CASE Type(doc) = "empty"
  BY <1>3, <1>9 DEF ParseObject, Compound, d
<1> QED BY <1>5, <1>6, <1>7, <1>8, <1>9 DEF Compound

\* An atom is about the attribute of its document.
LEMMA AtomShape ==
  ASSUME NEW doc \in Documents, FromValue[doc].kind = "atom"
  PROVE  /\ Type(doc) = "atom"
         /\ FromValue[doc].attribute = Attribute(doc)
         /\ Attribute(doc) \in Attributes
<1> DEFINE parts == [k \in DOMAIN Children(doc) |-> FromValue[Children(doc)[k]]]
           d == FromValue[doc]
<1>1. d = Parse(doc, parts)
  BY FromValueDefined
<1> HIDE DEF parts
<1>2. ~Has(doc, "str") /\ d = ParseObject(doc, parts)
  BY <1>1 DEF Parse, ParseString, Universal, Empty, DInstruction, Invalid
<1>3. Type(doc) = "atom" /\ d = ParseAtom(doc)
  BY <1>2
     DEF ParseObject, DAnd, DOr, DNot, ParseInstruction, DInstruction, Universal, Empty, Invalid
<1>4. Has(doc, "attribute") /\ d.attribute = doc.attribute
  BY <1>3 DEF ParseAtom, DAtom, Invalid
<1>5. doc.attribute \in Attributes
  BY <1>4, DocumentsAssumption
<1> QED BY <1>3, <1>4, <1>5 DEF Attribute

\* What is below a part is below the whole.
LEMMA NodesBelow ==
  ASSUME NEW doc \in Documents
  PROVE  /\ doc \in Nodes(doc)
         /\ \A k \in DOMAIN Children(doc) : Nodes(Children(doc)[k]) \subseteq Nodes(doc)
BY NodesDefined

\* Without `not`, a verdict is monotone in those on the parts.
LEMMA JudgeMonotone ==
  ASSUME NEW d \in Domains, NEW s, NEW verdicts, NEW extents, d.kind # "not",
         DOMAIN verdicts = DOMAIN Parts(d), DOMAIN extents = DOMAIN Parts(d),
         \A k \in DOMAIN Parts(d) : verdicts[k] => s \in extents[k],
         Judge(d, s, verdicts)
  PROVE  s \in Meaning(d, {s}, extents)
<1>1. CASE d.kind = "atom"
  BY <1>1, AtomMeaning DEF Judge, Meaning
<1>2. CASE d.kind = "and"
  BY <1>2 DEF Judge, Meaning
<1>3. CASE d.kind = "or"
  <2>1. s \in UNION Range(extents) <=> \E k \in DOMAIN extents : s \in extents[k]
    BY DEF Range
  <2> QED BY <1>3, <2>1 DEF Judge, Meaning
<1>5. CASE d.kind = "instruction"
  BY <1>5 DEF Judge, Meaning
<1>6. CASE d.kind \notin {"atom", "and", "or", "not", "instruction"}
  BY <1>6 DEF Judge, Meaning
<1> QED BY <1>1, <1>2, <1>3, <1>5, <1>6

Depths == 0 .. MaxDomainDepth + 1

\* Induction on the depth that is left: what holds at a depth because it holds
\* one level down holds at every depth.
LEMMA Downwards ==
  ASSUME NEW Good, MaxDomainDepth + 1 \in Good,
         \A n \in 0 .. MaxDomainDepth : n + 1 \in Good => n \in Good
  PROVE  Depths \subseteq Good
<1> DEFINE Left == {m \in Nat : \A n \in Depths : n + m = MaxDomainDepth + 1 => n \in Good}
<1>c. MaxDomainDepth \in Nat
  BY DomainAssumption
<1>1. 0 \in Left
  BY <1>c DEF Depths
<1>2. ASSUME NEW m \in Nat, m \in Left PROVE m + 1 \in Left
  <2>1. ASSUME NEW n \in Depths, n + (m + 1) = MaxDomainDepth + 1 PROVE n \in Good
    <3>1. n \in 0 .. MaxDomainDepth /\ n + 1 \in Depths /\ (n + 1) + m = MaxDomainDepth + 1
      BY <2>1, <1>c DEF Depths
    <3>2. n + 1 \in Good
      BY <1>2, <3>1
    <3> QED BY <3>1, <3>2
  <2> QED BY <2>1
<1>3. Nat \subseteq Left
  <2> HIDE DEF Left
  <2> QED BY <1>1, <1>2, Upwards
<1>4. \A n \in Depths : /\ MaxDomainDepth + 1 - n \in Nat
                        /\ n + (MaxDomainDepth + 1 - n) = MaxDomainDepth + 1
  BY <1>c DEF Depths
<1> QED BY <1>3, <1>4

\* One level of contains_inner, for the domain of a document.
LEMMA ContainsStep ==
  ASSUME NEW s, NEW doc \in Documents, FromValue[doc] # Invalid, NEW n \in Depths,
         NEW verdicts,
         verdicts = [k \in DOMAIN Parts(FromValue[doc]) |->
                       ContainsInner(s)[<<Parts(FromValue[doc])[k], n + 1>>]]
  PROVE  ContainsInner(s)[<<FromValue[doc], n>>] <=>
           n <= MaxDomainDepth /\ Judge(FromValue[doc], s, verdicts)
<1> DEFINE p == <<FromValue[doc], n>>
<1>1. p \in Places
  BY DEF Places, Domains, Depths
<1>2. p[1] = FromValue[doc] /\ p[2] = n
  OBVIOUS
<1> HIDE DEF p
<1>3. ContainsInner(s)[p] <=>
        /\ p[2] <= MaxDomainDepth
        /\ Judge(p[1], s, [k \in DOMAIN Parts(p[1]) |->
                             ContainsInner(s)[<<Parts(p[1])[k], p[2] + 1>>]])
  BY <1>1, ContainsDefined
<1> QED BY <1>2, <1>3 DEF p

\* At any depth, a domain without `not` holds of members of its meaning only.
LEMMA RefusesAt ==
  ASSUME NEW s, NEW n \in Depths, NEW doc \in Documents, FromValue[doc] # Invalid,
         \A e \in Nodes(doc) : Type(e) # "not",
         ContainsInner(s)[<<FromValue[doc], n>>]
  PROVE  s \in Extension(FromValue[doc], {s})
<1> DEFINE C == ContainsInner(s)
           NoNot(e) == \A x \in Nodes(e) : Type(x) # "not"
           Right(e, m) == FromValue[e] # Invalid /\ NoNot(e) /\ C[<<FromValue[e], m>>]
                            => s \in Extension(FromValue[e], {s})
           Good == {m \in Depths : \A e \in Documents : Right(e, m)}
<1>c. MaxDomainDepth \in Nat
  BY DomainAssumption
<1>1. MaxDomainDepth + 1 \in Good
  <2>1. MaxDomainDepth + 1 \in Depths /\ ~(MaxDomainDepth + 1 <= MaxDomainDepth)
    BY <1>c DEF Depths
  <2>2. ASSUME NEW e \in Documents, FromValue[e] # Invalid
        PROVE  ~C[<<FromValue[e], MaxDomainDepth + 1>>]
    BY <2>1, <2>2, ContainsStep
  <2> HIDE DEF C
  <2> QED BY <2>1, <2>2
<1>2. ASSUME NEW m \in 0 .. MaxDomainDepth, m + 1 \in Good PROVE m \in Good
  <2>1. ASSUME NEW e \in Documents, FromValue[e] # Invalid, NoNot(e), C[<<FromValue[e], m>>]
        PROVE  s \in Extension(FromValue[e], {s})
    <3> DEFINE d == FromValue[e]
               verdicts == [k \in DOMAIN Parts(d) |-> C[<<Parts(d)[k], m + 1>>]]
               extents == [k \in DOMAIN Parts(d) |-> Extension(Parts(d)[k], {s})]
    <3>1. d \in Domains /\ m \in Depths
      BY <2>1, <1>c DEF Domains, Depths
    <3>2. Judge(d, s, verdicts)
      BY <2>1, <3>1, ContainsStep
    <3>3. Extension(d, {s}) = Meaning(d, {s}, extents)
      BY <3>1, ExtensionDefined
    <3>4. d.kind # "not"
      BY <2>1, ParsedShape, NodesBelow
    <3>5. ASSUME NEW k \in DOMAIN Parts(d), verdicts[k] PROVE s \in extents[k]
      <4> DEFINE x == Children(e)[k]
      <4>1. d.kind \in {"and", "or"}
        BY <3>4 DEF Parts
      <4>2. k \in DOMAIN Children(e) /\ Parts(d)[k] = FromValue[x] /\ FromValue[x] # Invalid
        BY <2>1, <4>1, ParsedShape
      <4>3. x \in Documents
        BY <4>2, PartsBelow
      <4>4. NoNot(x)
        BY <2>1, <4>2, NodesBelow
      <4>5. C[<<FromValue[x], m + 1>>] /\ extents[k] = Extension(FromValue[x], {s})
        BY <3>5, <4>2
      <4>6. Right(x, m + 1)
        BY <1>2, <4>3
      <4> HIDE DEF x, C, NoNot, extents, d
      <4> QED BY <4>2, <4>4, <4>5, <4>6
    <3>6. DOMAIN verdicts = DOMAIN Parts(d) /\ DOMAIN extents = DOMAIN Parts(d)
      OBVIOUS
    <3> HIDE DEF verdicts, extents, d, C, NoNot
    <3>7. s \in Meaning(d, {s}, extents)
      BY <3>1, <3>2, <3>4, <3>5, <3>6, JudgeMonotone
    <3> QED BY <3>3, <3>7 DEF d
  <2>2. m \in Depths
    BY <1>c DEF Depths
  <2> HIDE DEF C, NoNot
  <2> QED BY <2>1, <2>2
<1>3. n \in Good
  <2> HIDE DEF Good
  <2> QED BY <1>1, <1>2, Downwards
<1> QED BY <1>3

-----------------------------------------------------------------------------
(* Overlap.                                                                *)

\* A document that parses, has atoms about one attribute and no empty `and`.
Plain(doc, attr) ==
  /\ FromValue[doc] # Invalid
  /\ \A n \in Nodes(doc) :
       /\ Type(n) = "atom" => Attribute(n) = attr
       /\ Type(n) = "and" => Children(n) # <<>>

\* The parts of a plain compound are plain.
LEMMA PlainParts ==
  ASSUME NEW attr, NEW doc \in Documents, Plain(doc, attr), Compound(doc),
         NEW k \in DOMAIN Children(doc)
  PROVE  Children(doc)[k] \in Documents /\ Plain(Children(doc)[k], attr)
<1>1. FromValue[doc] # Invalid /\ FromValue[doc].kind \in {"and", "or"}
  BY TypeShape DEF Plain, Compound
<1>2. FromValue[Children(doc)[k]] # Invalid
  BY <1>1, ParsedShape
<1>3. Nodes(Children(doc)[k]) \subseteq Nodes(doc)
  BY NodesBelow
<1> QED BY <1>2, <1>3, PartsBelow DEF Plain

\* The meaning of a compound is within that of a part, or made of those of the parts.
LEMMA CompoundMeaning ==
  ASSUME NEW S, NEW doc \in Documents, FromValue[doc] # Invalid, Compound(doc),
         NEW s \in Extension(FromValue[doc], S)
  PROVE  /\ Type(doc) = "and" =>
              \A k \in DOMAIN Children(doc) : s \in Extension(FromValue[Children(doc)[k]], S)
         /\ Type(doc) = "or" =>
              \E k \in DOMAIN Children(doc) : s \in Extension(FromValue[Children(doc)[k]], S)
<1> DEFINE d == FromValue[doc]
           extents == [k \in DOMAIN Parts(d) |-> Extension(Parts(d)[k], S)]
<1>1. d \in Domains
  BY DEF Domains
<1>2. s \in Meaning(d, S, extents)
  BY <1>1, ExtensionDefined
<1>3. d.kind = Type(doc) /\ d.kind \in {"and", "or"}
  BY TypeShape DEF Compound
<1>4. /\ DOMAIN Parts(d) = DOMAIN Children(doc)
      /\ \A k \in DOMAIN Children(doc) : Parts(d)[k] = FromValue[Children(doc)[k]]
  BY <1>3, ParsedShape
<1>5. /\ DOMAIN extents = DOMAIN Children(doc)
      /\ \A k \in DOMAIN Children(doc) : extents[k] = Extension(FromValue[Children(doc)[k]], S)
  BY <1>4
<1> HIDE DEF extents, d
<1>6. CASE d.kind = "and"
  BY <1>2, <1>3, <1>5, <1>6 DEF Meaning
<1>7. CASE d.kind = "or"
  <2>1. s \in UNION Range(extents)
    BY <1>2, <1>7 DEF Meaning
  <2>2. \E k \in DOMAIN extents : s \in extents[k]
    BY <2>1 DEF Range
  <2> QED BY <1>3, <1>5, <1>7, <2>2
<1> QED BY <1>3, <1>6, <1>7

\* A compound is refused when all of its parts are, and an `and` needs one.
LEMMA CombineRefuses ==
  ASSUME NEW attr, NEW doc \in Documents, Plain(doc, attr), Compound(doc),
         NEW verdicts \in [DOMAIN Children(doc) -> BOOLEAN],
         Combine(doc, verdicts) = FALSE
  PROVE  /\ Type(doc) = "and" => \E k \in DOMAIN Children(doc) : verdicts[k] = FALSE
         /\ Type(doc) = "or" => \A k \in DOMAIN Children(doc) : verdicts[k] = FALSE
<1>1. FromValue[doc] # Invalid /\ (Has(doc, "domains") \/ Binary(doc))
  BY TypeShape DEF Plain
<1>2. /\ TRUE \in Range(verdicts) <=> \E k \in DOMAIN Children(doc) : verdicts[k] = TRUE
      /\ FALSE \in Range(verdicts) <=> \E k \in DOMAIN Children(doc) : verdicts[k] = FALSE
  BY DEF Range
<1>3. \A k \in DOMAIN Children(doc) : verdicts[k] = TRUE \/ verdicts[k] = FALSE
  OBVIOUS
<1>4. CASE Has(doc, "domains")
  <2>1. TRUE \notin Range(verdicts)
    BY <1>4 DEF Combine
  <2>2. \A k \in DOMAIN Children(doc) : verdicts[k] = FALSE
    BY <1>2, <1>3, <2>1
  <2>3. Type(doc) = "and" => DOMAIN Children(doc) # {}
    <3>1. Type(doc) = "and" => Children(doc) # <<>>
      BY NodesBelow DEF Plain
    <3>2. Children(doc) \in Seq(Documents)
      BY DocumentsAssumption
    <3> QED BY <3>1, <3>2
  <2> QED BY <2>2, <2>3
<1>5. CASE ~Has(doc, "domains") /\ Type(doc) = "and"
  BY <1>2, <1>5 DEF Combine
<1>6. CASE ~Has(doc, "domains") /\ Type(doc) = "or"
  <2>1. TRUE \notin Range(verdicts)
    BY <1>1, <1>6 DEF Combine
  <2> QED BY <1>2, <1>3, <1>6, <2>1
<1> QED BY <1>4, <1>5, <1>6 DEF Compound

\* A compound that is refused against a document has no state in common with it,
\* if its parts have none where they are refused.
LEMMA RefusedApart ==
  ASSUME NEW S, NEW attr, NEW doc \in Documents, Plain(doc, attr), Compound(doc),
         NEW other, NEW verdicts \in [DOMAIN Children(doc) -> BOOLEAN],
         Combine(doc, verdicts) = FALSE,
         \A k \in DOMAIN Children(doc) : verdicts[k] = FALSE =>
           Extension(FromValue[Children(doc)[k]], S) \cap other = {}
  PROVE  Extension(FromValue[doc], S) \cap other = {}
<1> SUFFICES ASSUME NEW s \in Extension(FromValue[doc], S), s \in other PROVE FALSE
  OBVIOUS
<1>1. FromValue[doc] # Invalid
  BY DEF Plain
<1>2. CASE Type(doc) = "and"
  <2>1. PICK k \in DOMAIN Children(doc) : verdicts[k] = FALSE
    BY <1>2, CombineRefuses
  <2>2. s \in Extension(FromValue[Children(doc)[k]], S)
    BY <1>1, <1>2, CompoundMeaning
  <2> QED BY <2>1, <2>2
<1>3. CASE Type(doc) = "or"
  <2>1. PICK k \in DOMAIN Children(doc) : s \in Extension(FromValue[Children(doc)[k]], S)
    BY <1>1, <1>3, CompoundMeaning
  <2>2. verdicts[k] = FALSE
    BY <1>3, <2>1, CombineRefuses
  <2> QED BY <2>1, <2>2
<1> QED BY <1>2, <1>3 DEF Compound

\* No state satisfies the empty domain.
LEMMA EmptyMeaning ==
  ASSUME NEW S, NEW doc \in Documents, FromValue[doc] # Invalid, Type(doc) = "empty"
  PROVE  Extension(FromValue[doc], S) = {}
<1>1. FromValue[doc] = Empty
  BY TypeShape
<1>2. FromValue[doc] \in Domains
  BY DEF Domains
<1>3. PICK extents : Extension(FromValue[doc], S) = Meaning(FromValue[doc], S, extents)
  BY <1>2, ExtensionDefined
<1> QED BY <1>1, <1>3 DEF Meaning, Empty, Universal

\* Documents that are told not to overlap have no state in common.
LEMMA RefusedDisjoint ==
  ASSUME NEW S, NEW attr, NEW doc1 \in Documents, NEW doc2 \in Documents,
         Plain(doc1, attr), Plain(doc2, attr), ~Overlap(doc1, doc2)
  PROVE  Extension(FromValue[doc1], S) \cap Extension(FromValue[doc2], S) = {}
<1> DEFINE Right(d1, d2) == Plain(d1, attr) /\ Plain(d2, attr) /\ Overlap(d1, d2) = FALSE =>
             Extension(FromValue[d1], S) \cap Extension(FromValue[d2], S) = {}
           Good == {m \in Nat : \A d1, d2 \in Documents :
                      Levels[d1] + Levels[d2] < m => Right(d1, d2)}
<1>l. \A d \in Documents : Levels[d] \in Nat
  BY DocumentsAssumption
<1>b. \A d1, d2 \in Documents : Overlap(d1, d2) \in BOOLEAN
  <2> SUFFICES ASSUME NEW d1 \in Documents, NEW d2 \in Documents
               PROVE  Overlap(d1, d2) \in BOOLEAN
    OBVIOUS
  <2> DEFINE u == [k \in DOMAIN Children(d1) |-> Overlap(Children(d1)[k], d2)]
             v == [k \in DOMAIN Children(d2) |-> Overlap(d1, Children(d2)[k])]
  <2>1. Overlap(d1, d2) = Compare(d1, d2, u, v)
    BY OverlapDefined
  <2> HIDE DEF u, v
  <2> QED BY <2>1, CompareBoolean
<1>1. 0 \in Good
  BY <1>l
<1>2. ASSUME NEW m \in Nat, m \in Good PROVE m + 1 \in Good
  <2>1. ASSUME NEW d1 \in Documents, NEW d2 \in Documents, Levels[d1] + Levels[d2] < m + 1,
               Plain(d1, attr), Plain(d2, attr), Overlap(d1, d2) = FALSE
        PROVE  Extension(FromValue[d1], S) \cap Extension(FromValue[d2], S) = {}
    <3> DEFINE one == [k \in DOMAIN Children(d1) |-> Overlap(Children(d1)[k], d2)]
               two == [k \in DOMAIN Children(d2) |-> Overlap(d1, Children(d2)[k])]
    <3>1. Compare(d1, d2, one, two) = FALSE
      BY <2>1, OverlapDefined
    <3>2. /\ one \in [DOMAIN Children(d1) -> BOOLEAN]
          /\ two \in [DOMAIN Children(d2) -> BOOLEAN]
      BY <1>b, PartsBelow
    <3>3. ASSUME NEW k \in DOMAIN Children(d1), Compound(d1), one[k] = FALSE
          PROVE  Extension(FromValue[Children(d1)[k]], S) \cap Extension(FromValue[d2], S) = {}
      <4> DEFINE c == Children(d1)[k]
      <4>1. c \in Documents /\ Plain(c, attr)
        BY <2>1, <3>3, PlainParts
      <4>2. Levels[c] + Levels[d2] < m
        <5>1. /\ Levels[c] \in Nat /\ Levels[d1] \in Nat /\ Levels[d2] \in Nat
              /\ Levels[c] < Levels[d1]
          BY <1>l, PartsBelow
        <5> HIDE DEF c
        <5> QED BY <2>1, <5>1
      <4>3. Overlap(c, d2) = FALSE
        BY <3>3
      <4> HIDE DEF c
      <4>4. Right(c, d2)
        BY <1>2, <4>1, <4>2
      <4> QED BY <2>1, <4>1, <4>3, <4>4 DEF c
    <3>4. ASSUME NEW k \in DOMAIN Children(d2), Compound(d2), two[k] = FALSE
          PROVE  Extension(FromValue[Children(d2)[k]], S) \cap Extension(FromValue[d1], S) = {}
      <4> DEFINE c == Children(d2)[k]
      <4>1. c \in Documents /\ Plain(c, attr)
        BY <2>1, <3>4, PlainParts
      <4>2. Levels[d1] + Levels[c] < m
        <5>1. /\ Levels[c] \in Nat /\ Levels[d1] \in Nat /\ Levels[d2] \in Nat
              /\ Levels[c] < Levels[d2]
          BY <1>l, PartsBelow
        <5> HIDE DEF c
        <5> QED BY <2>1, <5>1
      <4>3. Overlap(d1, c) = FALSE
        BY <3>4
      <4> HIDE DEF c
      <4>4. Right(d1, c)
        BY <1>2, <4>1, <4>2
      <4>5. Extension(FromValue[d1], S) \cap Extension(FromValue[c], S) = {}
        BY <2>1, <4>1, <4>3, <4>4
      <4> QED BY <4>5 DEF c
    <3> HIDE DEF one, two
    <3>5. FromValue[d1] # Invalid /\ FromValue[d2] # Invalid
      BY <2>1 DEF Plain
    <3>6. CASE Type(d1) = "empty" \/ Type(d2) = "empty"
      <4>1. Extension(FromValue[d1], S) = {} \/ Extension(FromValue[d2], S) = {}
        BY <3>5, <3>6, EmptyMeaning
      <4> QED BY <4>1
    <3>7. Type(d1) # "universal" /\ Type(d2) # "universal"
      BY <3>1 DEF Compare
    <3>8. ~(Type(d1) = "atom" /\ Type(d2) = "atom")
      <4>1. SUFFICES ASSUME Type(d1) = "atom", Type(d2) = "atom" PROVE FALSE
        OBVIOUS
      <4>2. Attribute(d1) = attr /\ Attribute(d2) = attr
        BY <2>1, <4>1, NodesBelow DEF Plain
      <4> QED BY <3>1, <4>1, <4>2 DEF Compare
    <3>9. CASE Type(d1) # "empty" /\ Type(d2) # "empty"
      <4>1. {Type(d1), Type(d2)} # {"atom"}
        BY <3>8
      <4>2. "universal" \notin {Type(d1), Type(d2)} /\ "empty" \notin {Type(d1), Type(d2)}
        BY <3>7, <3>9
      <4>3. CASE Compound(d1)
        <5>1. Combine(d1, one) = FALSE
          BY <3>1, <4>1, <4>2, <4>3 DEF Compare
        <5> DEFINE other == Extension(FromValue[d2], S)
        <5>2. \A k \in DOMAIN Children(d1) : one[k] = FALSE =>
                Extension(FromValue[Children(d1)[k]], S) \cap other = {}
          BY <3>3, <4>3
        <5> HIDE DEF other
        <5>3. Extension(FromValue[d1], S) \cap other = {}
          BY <2>1, <3>2, <4>3, <5>1, <5>2, RefusedApart
        <5> QED BY <5>3 DEF other
      <4>4. CASE ~Compound(d1)
        <5>1. Compound(d2) /\ Combine(d2, two) = FALSE
          BY <3>1, <4>1, <4>2, <4>4 DEF Compare
        <5> DEFINE other == Extension(FromValue[d1], S)
        <5>2. \A k \in DOMAIN Children(d2) : two[k] = FALSE =>
                Extension(FromValue[Children(d2)[k]], S) \cap other = {}
          BY <3>4, <5>1
        <5> HIDE DEF other
        <5>3. Extension(FromValue[d2], S) \cap other = {}
          BY <2>1, <3>2, <5>1, <5>2, RefusedApart
        <5> QED BY <5>3 DEF other
      <4> QED BY <4>3, <4>4
    <3> QED BY <3>6, <3>9
  <2>2. \A d1, d2 \in Documents : Levels[d1] + Levels[d2] < m + 1 => Right(d1, d2)
    BY <2>1
  <2> HIDE DEF Right
  <2> QED BY <2>2
<1>3. Nat \subseteq Good
  <2> HIDE DEF Good
  <2> QED BY <1>1, <1>2, Upwards
<1>4. /\ Levels[doc1] + Levels[doc2] + 1 \in Nat
      /\ Levels[doc1] + Levels[doc2] < Levels[doc1] + Levels[doc2] + 1
  BY <1>l
<1>5. Right(doc1, doc2)
  BY <1>3, <1>4
<1>6. Overlap(doc1, doc2) = FALSE
  BY <1>b
<1> QED BY <1>5, <1>6

-----------------------------------------------------------------------------
(* filter_rules                                                            *)

\* A state with another value of an attribute.
With(s, attr, v) == [s EXCEPT !.attrs[attr] = v]

TypedState(s) ==
  /\ s = [attrs |-> s.attrs, itype |-> s.itype]
  /\ s.attrs \in [Attributes -> AttrValues \cup {Absent}]

\* Another value of an attribute leaves the others and the instruction alone.
LEMMA WithOther ==
  ASSUME NEW s, TypedState(s), NEW attr, NEW v
  PROVE  /\ With(s, attr, v).itype = s.itype
         /\ \A b \in Attributes \ {attr} : With(s, attr, v).attrs[b] = s.attrs[b]
<1>1. s = [attrs |-> s.attrs, itype |-> s.itype] /\ DOMAIN s.attrs = Attributes
  BY DEF TypedState
<1>2. With(s, attr, v) = [attrs |-> [s.attrs EXCEPT ![attr] = v], itype |-> s.itype]
  BY <1>1 DEF With
<1>3. With(s, attr, v).attrs = [s.attrs EXCEPT ![attr] = v] /\ With(s, attr, v).itype = s.itype
  BY <1>2
<1> QED BY <1>1, <1>3

\* A document that parses, is looked into everywhere and refers to nothing asked for.
Irrelevant(doc, goals) ==
  /\ FromValue[doc] # Invalid
  /\ \A n \in Nodes(doc) : Compound(n) => Has(n, "domains")
  /\ ~References(doc, goals)

\* The parts of a document that refers to nothing are looked into and refer to nothing.
LEMMA IrrelevantParts ==
  ASSUME NEW goals, NEW doc \in Documents, Irrelevant(doc, goals),
         NEW k \in DOMAIN Parts(FromValue[doc])
  PROVE  /\ k \in DOMAIN Children(doc) /\ Children(doc)[k] \in Documents
         /\ Parts(FromValue[doc])[k] = FromValue[Children(doc)[k]]
         /\ Irrelevant(Children(doc)[k], goals)
<1>1. FromValue[doc] # Invalid /\ FromValue[doc].kind \in {"and", "or", "not"}
  BY DEF Parts, Irrelevant
<1>2. /\ Type(doc) \in {"and", "or", "not"}
      /\ k \in DOMAIN Children(doc)
      /\ Parts(FromValue[doc])[k] = FromValue[Children(doc)[k]]
      /\ FromValue[Children(doc)[k]] # Invalid
  BY <1>1, ParsedShape
<1>3. Searched(doc)
  BY <1>2, NodesBelow DEF Searched, Compound, Irrelevant
<1>4. ~References(Children(doc)[k], goals)
  BY <1>2, <1>3, ReferencesDefined DEF Irrelevant
<1>5. Nodes(Children(doc)[k]) \subseteq Nodes(doc)
  BY <1>2, NodesBelow
<1> QED BY <1>2, <1>4, <1>5, PartsBelow DEF Irrelevant

\* One level of a verdict is the same with another value of an attribute asked for.
LEMMA SameJudgement ==
  ASSUME NEW goals, NEW attr \in goals, NEW v, NEW s, TypedState(s),
         NEW doc \in Documents, Irrelevant(doc, goals), NEW verdicts
  PROVE  Judge(FromValue[doc], s, verdicts) <=> Judge(FromValue[doc], With(s, attr, v), verdicts)
<1> DEFINE d == FromValue[doc]
           t == With(s, attr, v)
<1>1. CASE d.kind = "atom"
  <2>1. Type(doc) = "atom" /\ d.attribute = Attribute(doc) /\ Attribute(doc) \in Attributes
    BY <1>1, AtomShape
  <2>2. Attribute(doc) \notin goals
    BY <2>1, ReferencesDefined DEF Irrelevant
  <2>3. t.attrs[d.attribute] = s.attrs[d.attribute]
    BY <2>1, <2>2, WithOther
  <2> HIDE DEF d, t
  <2>4. Judge(d, s, verdicts) <=> Judge(d, t, verdicts)
    BY <1>1, <2>3 DEF Judge
  <2> QED BY <2>4 DEF d, t
<1>2. CASE d.kind = "instruction"
  <2>1. t.itype = s.itype
    BY WithOther
  <2> HIDE DEF d, t
  <2>2. Judge(d, s, verdicts) <=> Judge(d, t, verdicts)
    BY <1>2, <2>1 DEF Judge
  <2> QED BY <2>2 DEF d, t
<1>3. CASE d.kind \notin {"atom", "instruction"}
  <2> HIDE DEF d, t
  <2>1. Judge(d, s, verdicts) <=> Judge(d, t, verdicts)
    BY <1>3 DEF Judge
  <2> QED BY <2>1 DEF d, t
<1> QED BY <1>1, <1>2, <1>3

\* A verdict at any depth does not depend on an attribute that is asked for.
LEMMA IrrelevantAt ==
  ASSUME NEW goals, NEW attr \in goals, NEW v, NEW s, TypedState(s), NEW n \in Depths,
         NEW doc \in Documents, Irrelevant(doc, goals)
  PROVE  ContainsInner(s)[<<FromValue[doc], n>>]
           <=> ContainsInner(With(s, attr, v))[<<FromValue[doc], n>>]
<1> DEFINE t == With(s, attr, v)
           C == ContainsInner(s)
           D == ContainsInner(t)
           Right(e, m) == Irrelevant(e, goals) =>
                            (C[<<FromValue[e], m>>] <=> D[<<FromValue[e], m>>])
           Good == {m \in Depths : \A e \in Documents : Right(e, m)}
<1>c. MaxDomainDepth \in Nat
  BY DomainAssumption
<1>1. MaxDomainDepth + 1 \in Good
  <2>1. MaxDomainDepth + 1 \in Depths /\ ~(MaxDomainDepth + 1 <= MaxDomainDepth)
    BY <1>c DEF Depths
  <2>2. ASSUME NEW e \in Documents, Irrelevant(e, goals)
        PROVE  ~C[<<FromValue[e], MaxDomainDepth + 1>>] /\ ~D[<<FromValue[e], MaxDomainDepth + 1>>]
    <3>1. FromValue[e] # Invalid
      BY <2>2 DEF Irrelevant
    <3> HIDE DEF t
    <3> QED BY <2>1, <3>1, ContainsStep
  <2> HIDE DEF C, D
  <2> QED BY <2>1, <2>2
<1>2. ASSUME NEW m \in 0 .. MaxDomainDepth, m + 1 \in Good PROVE m \in Good
  <2>1. ASSUME NEW e \in Documents, Irrelevant(e, goals)
        PROVE  C[<<FromValue[e], m>>] <=> D[<<FromValue[e], m>>]
    <3> DEFINE d == FromValue[e]
               one == [k \in DOMAIN Parts(d) |-> C[<<Parts(d)[k], m + 1>>]]
               two == [k \in DOMAIN Parts(d) |-> D[<<Parts(d)[k], m + 1>>]]
    <3>1. FromValue[e] # Invalid /\ m \in Depths
      BY <2>1, <1>c DEF Irrelevant, Depths
    <3> HIDE DEF t
    <3>2. C[<<d, m>>] <=> m <= MaxDomainDepth /\ Judge(d, s, one)
      BY <3>1, ContainsStep
    <3>3. D[<<d, m>>] <=> m <= MaxDomainDepth /\ Judge(d, t, two)
      BY <3>1, ContainsStep
    <3>4. ASSUME NEW k \in DOMAIN Parts(d) PROVE one[k] <=> two[k]
      <4> DEFINE x == Children(e)[k]
      <4>1. x \in Documents /\ Parts(d)[k] = FromValue[x] /\ Irrelevant(x, goals)
        BY <2>1, IrrelevantParts
      <4>2. Right(x, m + 1)
        BY <1>2, <4>1
      <4>3. one[k] = C[<<FromValue[x], m + 1>>] /\ two[k] = D[<<FromValue[x], m + 1>>]
        BY <4>1
      <4> HIDE DEF x, C, D, one, two
      <4> QED BY <4>1, <4>2, <4>3
    <3>5. DOMAIN one = DOMAIN Parts(d) /\ DOMAIN two = DOMAIN Parts(d)
      OBVIOUS
    <3>6. Judge(d, s, one) <=> Judge(d, s, two)
      <4>1. d \in Domains
        BY <3>1 DEF Domains
      <4>2. d.kind = "not" => 1 \in DOMAIN Parts(d)
        BY <4>1, NotHasPart
      <4> HIDE DEF d, one, two
      <4> QED BY <3>4, <3>5, <4>2 DEF Judge
    <3>7. Judge(d, s, two) <=> Judge(d, t, two)
      <4> HIDE DEF two
      <4> QED BY <2>1, SameJudgement DEF t
    <3> HIDE DEF d, one, two, C, D
    <3> QED BY <3>2, <3>3, <3>6, <3>7 DEF d
  <2>2. m \in Depths
    BY <1>c DEF Depths
  <2> HIDE DEF C, D
  <2> QED BY <2>1, <2>2
<1>3. n \in Good
  <2> HIDE DEF Good
  <2> QED BY <1>1, <1>2, Downwards
<1> HIDE DEF C, D
<1>4. Right(doc, n)
  BY <1>3
<1> QED BY <1>4 DEF C, D

-----------------------------------------------------------------------------
(* The primitives.                                                         *)

\* What the last primitive said is what the operators say of what it was asked.
ContainsAnswer ==
  result.kind = "contains" =>
    /\ result.doc \in Docs
    /\ FromValue[result.doc] # Invalid
    /\ result.holds = Contains(FromValue[result.doc], result.about)

OverlapAnswer ==
  result.kind = "overlap" =>
    /\ result.docs[1] \in PairDocs /\ result.docs[2] \in PairDocs
    /\ result.holds = Overlap(result.docs[1], result.docs[2])

FilterAnswer ==
  result.kind = "filter" =>
    /\ result.rules \in RuleLists
    /\ result.rules # Absent =>
         result.kept = {k \in DOMAIN result.rules : Kept(result.rules[k], result.goals)}

Answers == ContainsAnswer /\ OverlapAnswer /\ FilterAnswer

Answered == TypedState(state) /\ Answers

\* A verdict can be stored in any attribute.
LEMMA SetAttrTyped ==
  ASSUME NEW attr \in Attributes, NEW holds \in BOOLEAN, TypedState(state), SetAttr(attr, holds)
  PROVE  TypedState(state')
<1>1. VBool(holds) \in AttrValues
  BY DomainAssumption
<1>2. state' = [attrs |-> [state.attrs EXCEPT ![attr] = VBool(holds)], itype |-> state.itype]
  BY DEF SetAttr, TypedState
<1>3. [state.attrs EXCEPT ![attr] = VBool(holds)] \in [Attributes -> AttrValues \cup {Absent}]
  BY <1>1 DEF TypedState
<1> QED BY <1>2, <1>3 DEF TypedState

\* The verdicts are Boolean.
LEMMA VerdictBoolean ==
  ASSUME NEW s, NEW doc \in Documents, FromValue[doc] # Invalid
  PROVE  Contains(FromValue[doc], s) \in BOOLEAN
<1> DEFINE p == <<FromValue[doc], 0>>
<1>1. p \in Places
  BY DomainAssumption DEF Places, Domains
<1> HIDE DEF p
<1>2. ContainsInner(s)[p] \in BOOLEAN
  BY <1>1, ContainsDefined
<1> QED BY <1>2 DEF Contains, p

\* Overlap is Boolean.
LEMMA OverlapBoolean ==
  ASSUME NEW doc1 \in Documents, NEW doc2 \in Documents
  PROVE  Overlap(doc1, doc2) \in BOOLEAN
<1> DEFINE u == [k \in DOMAIN Children(doc1) |-> Overlap(Children(doc1)[k], doc2)]
           v == [k \in DOMAIN Children(doc2) |-> Overlap(doc1, Children(doc2)[k])]
<1>1. Overlap(doc1, doc2) = Compare(doc1, doc2, u, v)
  BY OverlapDefined
<1> HIDE DEF u, v
<1> QED BY <1>1, CompareBoolean

\* The inductive invariant: each primitive of domain_ops.rs and rule_ops.rs answers
\* what its operator says, and keeps the state a state.
LEMMA AnsweredHolds == Spec => []Answered
<1>1. Init => Answered
  BY DomainAssumption
     DEF Init, Answered, TypedState, Answers, ContainsAnswer, OverlapAnswer, FilterAnswer
<1>2. Answered /\ [Next]_vars => Answered'
  <2> SUFFICES ASSUME Answered, [Next]_vars PROVE Answered'
    OBVIOUS
  <2>a. TypedState(state) /\ Answers
    BY DEF Answered
  <2>d. Docs \subseteq Documents /\ PairDocs \subseteq Documents
    BY DocumentsAssumption
  <2>r. /\ ResultAttrs \subseteq Attributes
        /\ {"__domain_result__", "__matched__"} \subseteq Attributes
    BY DomainAssumption
  <2>1. ASSUME NEW doc \in Docs, NEW t, NEW f, EvaluateDomain(doc, t, f) PROVE Answered'
    <3> DEFINE holds == Contains(FromValue[doc], state)
    <3>1. /\ FromValue[doc] # Invalid
          /\ SetAttr("__domain_result__", holds)
          /\ result' = Contained(doc, state, holds)
      BY <2>1 DEF EvaluateDomain
    <3>2. holds \in BOOLEAN
      BY <2>d, <3>1, VerdictBoolean
    <3>3. Answers'
      BY <3>1 DEF Answers, ContainsAnswer, OverlapAnswer, FilterAnswer, Contained
    <3> HIDE DEF holds
    <3>4. TypedState(state')
      BY <2>a, <2>r, <3>1, <3>2, SetAttrTyped
    <3> QED BY <3>3, <3>4 DEF Answered
  <2>2. ASSUME NEW doc \in Docs, NEW ref, NEW attr \in ResultAttrs \cup {Absent},
               MatchDomain(doc, ref, attr)
        PROVE  Answered'
    <3> DEFINE holds == Contains(FromValue[doc], Target(ref))
               into == IF attr = Absent THEN "__matched__" ELSE attr
    <3>1. /\ FromValue[doc] # Invalid
          /\ SetAttr(into, holds)
          /\ result' = Contained(doc, Target(ref), holds)
      BY <2>2 DEF MatchDomain
    <3>2. holds \in BOOLEAN /\ into \in Attributes
      BY <2>d, <2>r, <3>1, VerdictBoolean
    <3>3. Answers'
      BY <3>1 DEF Answers, ContainsAnswer, OverlapAnswer, FilterAnswer, Contained
    <3> HIDE DEF holds, into
    <3>4. TypedState(state')
      BY <2>a, <3>1, <3>2, SetAttrTyped
    <3> QED BY <3>3, <3>4 DEF Answered
  <2>3. ASSUME NEW d1 \in PairDocs, NEW d2 \in PairDocs, NEW attr \in ResultAttrs,
               DomainIntersect(d1, d2, attr)
        PROVE  Answered'
    <3> DEFINE holds == Overlap(d1, d2)
    <3>1. /\ SetAttr(attr, holds)
          /\ result' = [kind |-> "overlap", docs |-> <<d1, d2>>, holds |-> holds]
      BY <2>3 DEF DomainIntersect
    <3>2. holds \in BOOLEAN /\ attr \in Attributes
      BY <2>d, <2>r, OverlapBoolean
    <3>3. Answers'
      BY <3>1 DEF Answers, ContainsAnswer, OverlapAnswer, FilterAnswer
    <3> HIDE DEF holds
    <3>4. TypedState(state')
      BY <2>a, <3>1, <3>2, SetAttrTyped
    <3> QED BY <3>3, <3>4 DEF Answered
  <2>4. ASSUME NEW rules \in RuleLists, NEW goals, FilterRules(rules, goals) PROVE Answered'
    BY <2>a, <2>4
       DEF FilterRules, Answered, TypedState, Answers, ContainsAnswer, OverlapAnswer, FilterAnswer
  <2>5. CASE Refused
    BY <2>a, <2>5
       DEF Refused, Answered, TypedState, Answers, ContainsAnswer, OverlapAnswer, FilterAnswer
  <2>6. CASE UNCHANGED vars
    BY <2>a, <2>6
       DEF vars, Answered, TypedState, Answers, ContainsAnswer, OverlapAnswer, FilterAnswer
  <2>7. CASE Next
    BY <2>7, <2>1, <2>2, <2>3, <2>4, <2>5, <2>6
       DEF Next, RefuseEvaluate, RefuseMatch, RefuseIntersect, Done
  <2> QED BY <2>6, <2>7
<1> QED BY <1>1, <1>2, PTL DEF Spec

\* Up to the depth limit, what evaluate_domain and match_domain say is whether
\* the state belongs to the meaning of the domain (contains_inner).
THEOREM VerdictsAreMembership == Spec => []VerdictIsMembership
<1>1. Answered => VerdictIsMembership
  <2> SUFFICES ASSUME Answers, result.kind = "contains", Fits(FromValue[result.doc])
               PROVE  result.holds <=>
                        result.about \in Extension(FromValue[result.doc], {result.about})
    BY DEF Answered, VerdictIsMembership
  <2> DEFINE doc == result.doc
             s == result.about
             p == <<FromValue[doc], 0>>
  <2>1. /\ doc \in Documents /\ FromValue[doc] # Invalid
        /\ result.holds = Contains(FromValue[doc], s)
    BY DocumentsAssumption DEF Answers, ContainsAnswer
  <2>2. p \in Places
    BY <2>1, DomainAssumption DEF Places, Domains
  <2>3. FitsInner[p] /\ p[1] = FromValue[doc]
    BY DEF Fits
  <2>4. Contains(FromValue[doc], s) = ContainsInner(s)[p]
    BY DEF Contains
  <2> HIDE DEF p, s, doc
  <2>5. ContainsInner(s)[p] <=> s \in Extension(FromValue[doc], {s})
    BY <2>2, <2>3, VerdictAt
  <2> QED BY <2>1, <2>4, <2>5 DEF s, doc
<1> QED BY <1>1, AnsweredHolds, PTL

\* A domain without `not` that is too deep can be refused, never let through
\* (contains_inner).
THEOREM DepthRefuses == Spec => []DepthOnlyRefuses
<1>1. Answered => DepthOnlyRefuses
  <2> SUFFICES ASSUME Answers, result.kind = "contains", result.holds,
                      \A n \in Nodes(result.doc) : Type(n) # "not"
               PROVE  result.about \in Extension(FromValue[result.doc], {result.about})
    BY DEF Answered, DepthOnlyRefuses
  <2> DEFINE doc == result.doc
             s == result.about
  <2>1. /\ doc \in Documents /\ FromValue[doc] # Invalid
        /\ result.holds = Contains(FromValue[doc], s)
    BY DocumentsAssumption DEF Answers, ContainsAnswer
  <2>2. 0 \in Depths
    BY DomainAssumption DEF Depths
  <2>3. ContainsInner(s)[<<FromValue[doc], 0>>] /\ \A n \in Nodes(doc) : Type(n) # "not"
    BY <2>1 DEF Contains
  <2> HIDE DEF s, doc
  <2>4. s \in Extension(FromValue[doc], {s})
    BY <2>1, <2>2, <2>3, RefusesAt
  <2> QED BY <2>4 DEF s, doc
<1> QED BY <1>1, AnsweredHolds, PTL

\* What domain_intersect says does not overlap has no state in common, as long
\* as atoms are about one attribute and no `and` is empty (domain_values_overlap).
THEOREM OverlapMissesNothing == Spec => []OverlapSoundOnOneAttribute
<1>1. Answered => OverlapSoundOnOneAttribute
  <2> DEFINE d1 == result.docs[1]
             d2 == result.docs[2]
             nodes == Nodes(d1) \cup Nodes(d2)
  <2>s. SUFFICES ASSUME Answers, result.kind = "overlap",
                        \A n, m \in {x \in nodes : Type(x) = "atom"} : Attribute(n) = Attribute(m),
                        \A n \in nodes : Type(n) = "and" => Children(n) # <<>>,
                        Intersect(d1, d2)
                 PROVE  result.holds
    BY DEF Answered, OverlapSoundOnOneAttribute
  <2>1. d1 \in Documents /\ d2 \in Documents /\ result.holds = Overlap(d1, d2)
    BY <2>s, DocumentsAssumption DEF Answers, OverlapAnswer
  <2> DEFINE attr == CHOOSE a : \A n \in nodes : Type(n) = "atom" => Attribute(n) = a
  <2>2. \A n \in nodes : Type(n) = "atom" => Attribute(n) = attr
    <3> HIDE DEF nodes
    <3> QED BY <2>s
  <2> HIDE DEF attr
  <2>3. FromValue[d1] # Invalid /\ FromValue[d2] # Invalid
    BY <2>s DEF Intersect
  <2>4. Plain(d1, attr) /\ Plain(d2, attr)
    BY <2>s, <2>2, <2>3 DEF Plain
  <2>5. Extension(FromValue[d1], States) \cap Extension(FromValue[d2], States) # {}
    BY <2>s DEF Intersect
  <2> HIDE DEF d1, d2, nodes
  <2>6. Overlap(d1, d2)
    BY <2>1, <2>4, <2>5, RefusedDisjoint
  <2> QED BY <2>1, <2>6
<1> QED BY <1>1, AnsweredHolds, PTL

\* filter_rules drops no rule whose domain depends on an attribute asked for, as
\* long as no `and` or `or` is in the form of left and right
\* (domain_value_references_attrs).
THEOREM RelevantRulesKept == Spec => []FilterKeepsRelevant
<1>1. Answered => FilterKeepsRelevant
  <2> DEFINE rules == result.rules
             goals == result.goals
  <2>s. SUFFICES ASSUME Answers, result.kind = "filter", rules # Absent PROVE FilterKeepsRelevant
    BY DEF Answered, FilterKeepsRelevant
  <2>1. /\ rules \in RuleLists
        /\ result.kept = {k \in DOMAIN rules : Kept(rules[k], goals)}
    BY <2>s DEF Answers, FilterAnswer
  <2>2. goals = {} => result.kept = DOMAIN rules
    BY <2>1 DEF Kept
  <2>3. ASSUME NEW k \in DOMAIN rules \ result.kept, rules[k] # Absent,
               FromValue[rules[k]] # Invalid,
               \A n \in Nodes(rules[k]) : Compound(n) => Has(n, "domains"),
               NEW a \in goals, NEW s \in States, NEW v
        PROVE  Contains(FromValue[rules[k]], s)
                 = Contains(FromValue[rules[k]], [s EXCEPT !.attrs[a] = v])
    <3> DEFINE doc == rules[k]
    <3>1. doc \in Documents
      BY <2>s, <2>1, <2>3, DocumentsAssumption DEF Range
    <3>2. ~Kept(doc, goals)
      BY <2>1, <2>3
    <3>3. Irrelevant(doc, goals)
      BY <2>3, <3>2 DEF Kept, Irrelevant
    <3>4. TypedState(s)
      BY DomainAssumption DEF TypedState
    <3>5. 0 \in Depths
      BY DomainAssumption DEF Depths
    <3>8. FromValue[doc] # Invalid
      BY <2>3
    <3> HIDE DEF doc, goals
    <3>6. ContainsInner(s)[<<FromValue[doc], 0>>]
            <=> ContainsInner(With(s, a, v))[<<FromValue[doc], 0>>]
      BY <2>3, <3>1, <3>3, <3>4, <3>5, IrrelevantAt
    <3>7. /\ Contains(FromValue[doc], s) \in BOOLEAN
          /\ Contains(FromValue[doc], With(s, a, v)) \in BOOLEAN
      BY <3>1, <3>8, VerdictBoolean
    <3>9. Contains(FromValue[doc], s) = Contains(FromValue[doc], With(s, a, v))
      BY <3>6, <3>7 DEF Contains
    <3> QED BY <3>9 DEF doc, With
  <2>4. ASSUME NEW k \in DOMAIN rules \ result.kept, rules[k] # Absent,
               FromValue[rules[k]] # Invalid,
               \A n \in Nodes(rules[k]) : Compound(n) => Has(n, "domains"), NEW a \in goals
        PROVE  ~ \E s \in States : \E v \in {t.attrs[a] : t \in States} :
                 Contains(FromValue[rules[k]], s)
                   # Contains(FromValue[rules[k]], [s EXCEPT !.attrs[a] = v])
    <3> HIDE DEF rules, goals
    <3> QED BY <2>3, <2>4
  <2> QED BY <2>2, <2>4 DEF FilterKeepsRelevant
<1> QED BY <1>1, AnsweredHolds, PTL

\* Whatever number an attribute holds, the operators about it agree, those that
\* compare exactly with those that compare as f64 (RelOp::apply).
THEOREM ComparisonsConsistent == Spec => []ComparisonsAgree
<1>1. Answered => ComparisonsAgree
  <2> SUFFICES ASSUME TypedState(state),
                      NEW a \in Range(state.attrs) \ {Absent}, IsNumber(a),
                      NEW b \in Expected \ {Absent}, IsNumber(b),
                      NEW c \in Expected \ {Absent}, IsNumber(c)
               PROVE  NumbersAgree(a, b, c)
    BY DEF Answered, ComparisonsAgree
  <2>1. a \in AttrValues /\ b \in AttrValues /\ c \in AttrValues
    BY DomainAssumption DEF TypedState, Range
  <2>2. Number(a) /\ Number(b) /\ Number(c)
    BY <2>1, DomainAssumption
  <2> QED BY <2>2, OperatorsAgree
<1> QED BY <1>1, AnsweredHolds, PTL

-----------------------------------------------------------------------------
(* Writing and reading back.                                               *)

\* to_value and to_dict are the functions their definition says.
LEMMA WriteDefined ==
  ASSUME NEW form
  PROVE  Write(form) =
           [d \in Domains |->
              Unparse(d, form, [k \in DOMAIN Parts(d) |-> Write(form)[Parts(d)[k]]])]
<1> DEFINE Body(f, d) == Unparse(d, form, [k \in DOMAIN Parts(d) |-> f[Parts(d)[k]]])
           Upto(f, n) == \A x \in Domains : Rank[x] < n => f[x] = Body(f, x)
           Some == {n \in Nat : \E f : Upto(f, n)}
           Same2(n) == \A f, g : Upto(f, n) /\ Upto(g, n) =>
                         \A x \in Domains : Rank[x] < n => f[x] = g[x]
           One == {n \in Nat : Same2(n)}
<1>r. \A x \in Domains : Rank[x] \in Nat
  BY RankLeast
<1>b. ASSUME NEW f, NEW g, NEW x \in Domains,
             \A y \in Domains : Rank[y] < Rank[x] => f[y] = g[y]
      PROVE  Body(f, x) = Body(g, x)
  <2>1. \A k \in DOMAIN Parts(x) : f[Parts(x)[k]] = g[Parts(x)[k]]
    BY <1>b, PartsAreDomains
  <2>2. [k \in DOMAIN Parts(x) |-> f[Parts(x)[k]]] = [k \in DOMAIN Parts(x) |-> g[Parts(x)[k]]]
    BY <2>1
  <2> QED BY <2>2
<1> HIDE DEF Body
<1>1. Nat \subseteq Some
  <2>1. 0 \in Some
    BY <1>r
  <2>2. ASSUME NEW n \in Nat, n \in Some PROVE n + 1 \in Some
    <3>1. PICK f : Upto(f, n)
      BY <2>2
    <3> DEFINE g == [x \in Domains |-> Body(f, x)]
    <3>2. ASSUME NEW x \in Domains, Rank[x] < n + 1 PROVE g[x] = Body(g, x)
      <4>1. \A y \in Domains : Rank[y] < Rank[x] => Rank[y] < n
        BY <3>2, <1>r
      <4>2. \A y \in Domains : Rank[y] < Rank[x] => f[y] = g[y]
        BY <3>1, <4>1
      <4>3. g[x] = Body(f, x)
        OBVIOUS
      <4> HIDE DEF g
      <4> QED BY <1>b, <4>2, <4>3
    <3> HIDE DEF g
    <3>3. Upto(g, n + 1)
      BY <3>2
    <3> QED BY <3>3
  <2> HIDE DEF Some
  <2> QED BY <2>1, <2>2, Upwards
<1>2. Nat \subseteq One
  <2>1. 0 \in One
    BY <1>r
  <2>2. ASSUME NEW n \in Nat, n \in One PROVE n + 1 \in One
    <3>1. ASSUME NEW f, NEW g, Upto(f, n + 1), Upto(g, n + 1),
                 NEW x \in Domains, Rank[x] < n + 1
          PROVE  f[x] = g[x]
      <4>1. \A y \in Domains : Rank[y] < n => Rank[y] < n + 1
        BY <1>r
      <4>2. Upto(f, n) /\ Upto(g, n)
        BY <3>1, <4>1
      <4>3. \A y \in Domains : Rank[y] < n => f[y] = g[y]
        BY <2>2, <4>2
      <4>4. \A y \in Domains : Rank[y] < Rank[x] => Rank[y] < n
        BY <1>r, <3>1
      <4>5. Body(f, x) = Body(g, x)
        BY <1>b, <4>3, <4>4
      <4> QED BY <3>1, <4>5
    <3> HIDE DEF Upto
    <3>2. Same2(n + 1)
      BY <3>1
    <3> HIDE DEF Same2
    <3> QED BY <3>2
  <2> HIDE DEF One
  <2> QED BY <2>1, <2>2, Upwards
<1> DEFINE h(n) == CHOOSE f : Upto(f, n)
           F == [x \in Domains |-> h(Rank[x] + 1)[x]]
<1>3. ASSUME NEW n \in Nat PROVE Upto(h(n), n)
  BY <1>1
<1>n. \A x \in Domains : Rank[x] + 1 \in Nat /\ Rank[x] < Rank[x] + 1
  BY <1>r
<1>h. \A x \in Domains : Upto(h(Rank[x] + 1), Rank[x] + 1)
  <2> HIDE DEF h, Upto
  <2> QED BY <1>3, <1>n
<1>5. ASSUME NEW x \in Domains PROVE F[x] = Body(F, x)
  <2> DEFINE a == h(Rank[x] + 1)
  <2>1. Upto(a, Rank[x] + 1)
    BY <1>h
  <2>2. ASSUME NEW y \in Domains, Rank[y] < Rank[x] PROVE F[y] = a[y]
    <3> DEFINE b == h(Rank[y] + 1)
    <3>1. Upto(b, Rank[y] + 1)
      BY <1>h
    <3>2. \A z \in Domains : Rank[z] < Rank[y] + 1 => Rank[z] < Rank[x] + 1
      BY <1>r, <2>2
    <3> HIDE DEF h
    <3>3. Upto(a, Rank[y] + 1)
      BY <2>1, <3>2
    <3>4. Same2(Rank[y] + 1)
      BY <1>2, <1>n
    <3>5. a[y] = b[y]
      BY <1>n, <3>1, <3>3, <3>4
    <3> QED BY <3>5
  <2> HIDE DEF h
  <2>3. a[x] = Body(a, x)
    BY <2>1, <1>n
  <2>4. F[x] = a[x]
    OBVIOUS
  <2> HIDE DEF F, a
  <2>5. Body(F, x) = Body(a, x)
    BY <1>b, <2>2
  <2> QED BY <2>3, <2>4, <2>5
<1>6. F = [x \in Domains |-> F[x]]
  OBVIOUS
<1> HIDE DEF F
<1>7. F = [x \in Domains |-> Body(F, x)]
  BY <1>5, <1>6
<1> QED BY <1>7 DEF Write, Body

\* A domain is what its constructors make of its fields.
LEMMA DomainShape ==
  ASSUME NEW d \in Domains
  PROVE  \/ d = DAtom(d.attribute, d.op, d.value) /\ d.op \in Ops
         \/ /\ d = DAnd(Parts(d)) \/ d = DOr(Parts(d))
            /\ Parts(d) = [k \in DOMAIN Parts(d) |-> Parts(d)[k]]
         \/ d = DNot(Parts(d)[1]) /\ DOMAIN Parts(d) = {1}
         \/ d = DInstruction(d.name)
         \/ d = Universal
         \/ d = Empty
<1>1. PICK doc \in Documents : FromValue[doc] = d
  BY DEF Domains
<1>2. d # Invalid
  BY DEF Domains
<1> DEFINE parts == [k \in DOMAIN Children(doc) |-> FromValue[Children(doc)[k]]]
<1>3. d = Parse(doc, parts)
  BY <1>1, FromValueDefined
<1>p. parts = [k \in DOMAIN parts |-> parts[k]]
  OBVIOUS
<1> HIDE DEF parts
<1>4. CASE Has(doc, "str")
  <2>1. d = ParseString(doc.str)
    BY <1>3, <1>4 DEF Parse
  <2> QED BY <2>1 DEF ParseString, DInstruction
<1>5. CASE ~Has(doc, "str")
  <2>1. d = ParseObject(doc, parts)
    BY <1>2, <1>3, <1>5 DEF Parse
  <2>2. CASE d = ParseAtom(doc)
    BY <1>2, <2>2 DEF ParseAtom, DAtom
  <2>3. CASE d = DAnd(parts)
    BY <2>3, <1>p DEF DAnd, Parts
  <2>4. CASE d = DOr(parts)
    BY <2>4, <1>p DEF DOr, Parts
  <2>5. CASE d = DNot(parts[1])
    <3>1. Parts(d) = <<parts[1]>>
      BY <2>5 DEF DNot, Parts
    <3> QED BY <2>5, <3>1
  <2>6. CASE d = ParseInstruction(doc)
    BY <1>2, <2>6 DEF ParseInstruction, DInstruction
  <2>7. CASE d = Universal \/ d = Empty
    BY <2>7
  <2> QED BY <1>2, <2>1, <2>2, <2>3, <2>4, <2>5, <2>6, <2>7 DEF ParseObject
<1> QED BY <1>4, <1>5

\* One level of reading back: what is written of a domain whose parts are read
\* back is read as that domain.
LEMMA ReadStep ==
  ASSUME NEW form, NEW d \in Domains, NEW subs,
         subs = [k \in DOMAIN Parts(d) |-> subs[k]],
         Unparse(d, form, subs) \in Documents,
         \A k \in DOMAIN Parts(d) : FromValue[subs[k]] = Parts(d)[k]
  PROVE  FromValue[Unparse(d, form, subs)] = d
<1> DEFINE w == Unparse(d, form, subs)
           parts == [k \in DOMAIN Children(w) |-> FromValue[Children(w)[k]]]
<1>1. FromValue[w] = Parse(w, parts)
  BY FromValueDefined
<1>2. \A k \in DOMAIN Parts(d) : Parts(d)[k] # Invalid
  BY PartsAreDomains DEF Domains
<1>3. CASE d = DAtom(d.attribute, d.op, d.value) /\ d.op \in Ops
  <2>1. d.kind = "atom"
    BY <1>3 DEF DAtom
  <2>2. w = [type |-> "atom", attribute |-> d.attribute, op |-> d.op, value |-> d.value]
    BY <2>1 DEF Unparse
  <2>3. /\ ~Has(w, "str") /\ Type(w) = "atom"
        /\ Has(w, "attribute") /\ Has(w, "op") /\ Has(w, "value")
        /\ w.attribute = d.attribute /\ w.op = d.op /\ w.value = d.value
    BY <2>2 DEF Has, Type
  <2>4. Children(w) = <<>>
    BY <2>3 DEF Children, Compound
  <2>5. DOMAIN parts = {}
    BY <2>4
  <2>6. ParseOp(d.op) = d.op
    BY <1>3 DEF ParseOp, Ops
  <2> HIDE DEF w, parts
  <2>7. Parse(w, parts) = ParseAtom(w)
    BY <2>3, <2>5 DEF Parse, ParseObject
  <2>8. ParseAtom(w) = DAtom(d.attribute, d.op, d.value)
    BY <1>3, <2>3, <2>6 DEF ParseAtom
  <2> QED BY <1>1, <1>3, <2>7, <2>8 DEF w
<1>4. CASE /\ d = DAnd(Parts(d)) \/ d = DOr(Parts(d))
           /\ Parts(d) = [k \in DOMAIN Parts(d) |-> Parts(d)[k]]
  <2>1. d.kind \in {"and", "or"}
    BY <1>4 DEF DAnd, DOr
  <2>2. w = [type |-> d.kind, domains |-> subs]
    BY <2>1 DEF Unparse
  <2>3. ~Has(w, "str") /\ Type(w) = d.kind /\ Has(w, "domains") /\ w.domains = subs
    <3> DEFINE kind == d.kind
    <3> HIDE DEF w, kind
    <3> QED BY <2>2 DEF Has, Type, kind
  <2>4. Children(w) = subs
    BY <2>1, <2>3 DEF Children, Compound
  <2>5. DOMAIN subs = DOMAIN Parts(d)
    OBVIOUS
  <2>6. parts = Parts(d)
    BY <1>4, <2>4, <2>5
  <2> HIDE DEF w, parts
  <2>7. Parse(w, parts) = ParseObject(w, parts)
    BY <1>2, <2>3, <2>6 DEF Parse
  <2>8. CASE d.kind = "and"
    <3>1. ParseObject(w, parts) = DAnd(parts)
      BY <2>3, <2>8 DEF ParseObject
    <3> QED BY <1>1, <1>4, <2>6, <2>7, <2>8, <3>1 DEF w, DAnd, DOr
  <2>9. CASE d.kind = "or"
    <3>1. ParseObject(w, parts) = DOr(parts)
      BY <2>3, <2>9 DEF ParseObject
    <3> QED BY <1>1, <1>4, <2>6, <2>7, <2>9, <3>1 DEF w, DAnd, DOr
  <2> QED BY <2>1, <2>8, <2>9
<1>5. CASE d = DNot(Parts(d)[1]) /\ DOMAIN Parts(d) = {1}
  <2>1. d.kind = "not"
    BY <1>5 DEF DNot
  <2>2. w = [type |-> "not", inner |-> subs[1]]
    BY <2>1 DEF Unparse
  <2>3. ~Has(w, "str") /\ Type(w) = "not" /\ Has(w, "inner") /\ w.inner = subs[1]
    BY <2>2 DEF Has, Type
  <2>4. Children(w) = <<subs[1]>>
    BY <2>3 DEF Children, Compound
  <2>5. DOMAIN parts = {1} /\ parts[1] = Parts(d)[1]
    BY <1>5, <2>4
  <2> HIDE DEF w, parts
  <2>7. Parse(w, parts) = DNot(parts[1])
    BY <1>2, <1>5, <2>3, <2>5 DEF Parse, ParseObject
  <2> QED BY <1>1, <1>5, <2>5, <2>7 DEF w
<1>6. CASE d = DInstruction(d.name)
  <2>1. d.kind = "instruction"
    BY <1>6 DEF DInstruction
  <2>2. \/ w = [type |-> "instruction", instruction_type |-> d.name, op |-> "eq"]
        \/ w = [type |-> "instruction", value |-> d.name]
    BY <2>1 DEF Unparse
  <2>3. /\ ~Has(w, "str") /\ Type(w) = "instruction"
        /\ ParseInstruction(w) = DInstruction(d.name)
    BY <2>2 DEF Has, Type, ParseInstruction
  <2>4. Children(w) = <<>>
    BY <2>3 DEF Children, Compound
  <2>5. DOMAIN parts = {}
    BY <2>4
  <2> HIDE DEF w, parts
  <2>7. Parse(w, parts) = ParseInstruction(w)
    BY <2>3, <2>5 DEF Parse, ParseObject
  <2> QED BY <1>1, <1>6, <2>3, <2>7 DEF w
<1>7. CASE d = Universal \/ d = Empty
  <2>1. d.kind \in {"universal", "empty"}
    BY <1>7 DEF Universal, Empty
  <2>2. w = [type |-> d.kind]
    BY <2>1 DEF Unparse
  <2>3. ~Has(w, "str") /\ Type(w) = d.kind
    <3> DEFINE kind == d.kind
    <3> HIDE DEF w, kind
    <3> QED BY <2>2 DEF Has, Type, kind
  <2>4. Children(w) = <<>>
    BY <2>1, <2>3 DEF Children, Compound
  <2>5. DOMAIN parts = {}
    BY <2>4
  <2> HIDE DEF w, parts
  <2>7. Parse(w, parts) = d
    BY <1>7, <2>1, <2>3, <2>5 DEF Parse, ParseObject, Universal, Empty
  <2> QED BY <1>1, <2>7 DEF w
<1> QED BY <1>3, <1>4, <1>5, <1>6, <1>7, DomainShape

\* from_value reads back what to_value and to_dict write.
LEMMA ReadsBack ==
  ASSUME NEW form, \A d \in Domains : Write(form)[d] \in Documents,
         NEW d \in Domains
  PROVE  FromValue[Write(form)[d]] = d
<1> DEFINE W == Write(form)
           Good == {m \in Nat : \A e \in Domains : Rank[e] < m => FromValue[W[e]] = e}
<1>r. \A e \in Domains : Rank[e] \in Nat
  BY RankLeast
<1>1. 0 \in Good
  BY <1>r
<1>2. ASSUME NEW m \in Nat, m \in Good PROVE m + 1 \in Good
  <2>1. ASSUME NEW e \in Domains, Rank[e] < m + 1 PROVE FromValue[W[e]] = e
    <3> DEFINE subs == [k \in DOMAIN Parts(e) |-> W[Parts(e)[k]]]
    <3>1. W[e] = Unparse(e, form, subs)
      BY WriteDefined
    <3>2. ASSUME NEW k \in DOMAIN Parts(e) PROVE FromValue[subs[k]] = Parts(e)[k]
      <4> DEFINE x == Parts(e)[k]
      <4>1. x \in Domains /\ Rank[x] < Rank[e]
        BY PartsAreDomains
      <4>2. subs[k] = W[x]
        OBVIOUS
      <4> HIDE DEF x, W, subs
      <4>3. Rank[x] < m
        BY <1>r, <2>1, <4>1
      <4>4. FromValue[W[x]] = x
        BY <1>2, <4>1, <4>3
      <4> QED BY <4>2, <4>4 DEF x
    <3>3. subs = [k \in DOMAIN Parts(e) |-> subs[k]]
      OBVIOUS
    <3>4. W[e] \in Documents
      OBVIOUS
    <3> HIDE DEF subs, W
    <3>5. FromValue[Unparse(e, form, subs)] = e
      BY <3>1, <3>2, <3>3, <3>4, ReadStep
    <3> QED BY <3>1, <3>5
  <2> HIDE DEF W
  <2> QED BY <2>1
<1>3. Nat \subseteq Good
  <2> HIDE DEF Good
  <2> QED BY <1>1, <1>2, Upwards
<1>4. Rank[d] + 1 \in Nat /\ Rank[d] < Rank[d] + 1
  BY <1>r
<1> QED BY <1>3, <1>4

\* from_value reads the same domain back from what to_value and to_dict write
\* of a domain that was asked for (Domain::from_value, to_value, to_dict).
THEOREM DomainsSurviveWriting == Spec => []RoundTrip
<1>1. Answered => RoundTrip
  <2> SUFFICES ASSUME Answers, result.kind = "contains"
               PROVE  /\ FromValue[ToValue(FromValue[result.doc])] = FromValue[result.doc]
                      /\ FromValue[ToDict(FromValue[result.doc])] = FromValue[result.doc]
    BY DEF Answered, RoundTrip
  <2> DEFINE d == FromValue[result.doc]
  <2>1. d \in Domains
    BY DocumentsAssumption DEF Answers, ContainsAnswer, Domains
  <2>2. \A e \in Domains : Write("value")[e] \in Documents /\ Write("dict")[e] \in Documents
    BY WrittenAssumption DEF ToValue, ToDict
  <2> HIDE DEF d
  <2>3. FromValue[Write("value")[d]] = d
    BY <2>1, <2>2, ReadsBack
  <2>4. FromValue[Write("dict")[d]] = d
    BY <2>1, <2>2, ReadsBack
  <2> QED BY <2>3, <2>4 DEF d, ToValue, ToDict
<1> QED BY <1>1, AnsweredHolds, PTL

=============================================================================
