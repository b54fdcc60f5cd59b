--------------------------- MODULE RuleStore_proofs ---------------------------
(***************************************************************************)
(* Proofs about RuleCollection and RuleStore for every value of their      *)
(* constants: the collection keeps its order through every mix of its      *)
(* operations, a rule that is applied by its id is the newest one of that  *)
(* id, a collection that is published is loaded in the same order, and     *)
(* inject_rule accounts for every rule of the list.                        *)
(*                                                                         *)
(* What `filter` keeps is computed along the list; the lemmas about it go  *)
(* by induction on the list, through the shortest counterexample.          *)
(***************************************************************************)
EXTENDS RuleStore, FiniteSetTheorems, WellFoundedInduction, TLAPS

(* Weights.                                                                *)

LEMMA WeightIsInt ==
  ASSUME NEW r, r.priority \in Int, r.order \in Int
  PROVE  Weight(r) \in Int
<1> DEFINE n == r.priority * Scale + r.order + IntLimit
<1>1. n \in Int /\ 2 * IntLimit \in Int /\ 2 * IntLimit > 0
  BY ScaleAssumption, LimitAssumption
<1> HIDE DEF n
<1>2. n % (2 * IntLimit) \in Int
  BY <1>1
<1>3. Weight(r) = (n % (2 * IntLimit)) - IntLimit
  BY DEF Weight, Wrap, n
<1> QED BY <1>2, <1>3, LimitAssumption

\* What i64 can hold is not changed by the arithmetic of i64.
LEMMA WrapIsIdentity ==
  ASSUME NEW n \in 0 .. IntLimit - 1
  PROVE  Wrap(n) = n
<1>1. n + IntLimit \in 0 .. 2 * IntLimit - 1 /\ IntLimit \in Nat \ {0}
  BY LimitAssumption
<1>2. (n + IntLimit) % (2 * IntLimit) = n + IntLimit
  BY <1>1
<1> QED BY <1>1, <1>2 DEF Wrap

\* A product grows with its first factor.
LEMMA ScaledOrder ==
  ASSUME NEW p \in Nat, NEW q \in Nat, p < q
  PROVE  p * Scale + Scale <= q * Scale
<1>1. PICK d \in Nat : q = p + 1 + d
  <2>1. q - p - 1 \in Nat /\ q = p + 1 + (q - p - 1)
    OBVIOUS
  <2> QED BY <2>1
<1>2. q * Scale = p * Scale + Scale + d * Scale
  BY <1>1, ScaleAssumption
<1>3. d * Scale \in Nat /\ p * Scale \in Nat
  BY ScaleAssumption
<1> QED BY <1>2, <1>3, ScaleAssumption

\* The same for two of any size.
LEMMA OrderWithin ==
  ASSUME NEW p \in Nat, NEW q \in Nat, NEW o \in Nat, NEW n \in Nat,
         o < Scale, n < Scale
  PROVE  p * Scale + o >= q * Scale + n <=> p > q \/ (p = q /\ o >= n)
<1>1. p * Scale \in Nat /\ q * Scale \in Nat /\ Scale \in Nat
  BY ScaleAssumption
<1>2. CASE p > q
  <2>1. q * Scale + Scale <= p * Scale
    BY <1>2, ScaledOrder
  <2> QED BY <1>1, <1>2, <2>1
<1>3. CASE p = q
  BY <1>1, <1>3
<1>4. CASE q > p
  <2>1. p * Scale + Scale <= q * Scale
    BY <1>4, ScaledOrder
  <2> QED BY <1>1, <1>4, <2>1
<1> QED BY <1>2, <1>3, <1>4

\* rule.rs:153 for two rules in the documented range: their weights compare
\* like the pairs of priority and order, the priority first.
LEMMA WeightLexicographic ==
  ASSUME NEW r, NEW s, Regular(r), Regular(s)
  PROVE  Weight(r) >= Weight(s) <=>
           \/ r.priority > s.priority
           \/ r.priority = s.priority /\ r.order >= s.order
<1> DEFINE pr == r.priority
<1> DEFINE ps == s.priority
<1>1. /\ pr \in Nat /\ pr <= MaxPriority /\ ps \in Nat /\ ps <= MaxPriority
      /\ r.order \in Nat /\ r.order < Scale /\ s.order \in Nat /\ s.order < Scale
      /\ Scale \in Nat /\ MaxPriority \in Nat /\ IntLimit \in Nat
  BY ScaleAssumption, LimitAssumption DEF Regular
<1> HIDE DEF pr, ps
<1>2. ASSUME NEW p \in Nat, p <= MaxPriority, NEW o \in Nat, o < Scale
      PROVE  Wrap(p * Scale + o) = p * Scale + o
  <2>1. p * Scale <= MaxPriority * Scale
    <3>1. CASE p = MaxPriority
      BY <1>1, <3>1
    <3>2. CASE p < MaxPriority
      BY <1>1, <1>2, <3>2, ScaledOrder
    <3> QED BY <1>1, <1>2, <3>1, <3>2
  <2>2. p * Scale \in Nat /\ MaxPriority * Scale \in Nat
    BY <1>1
  <2>3. p * Scale + o \in 0 .. IntLimit - 1
    BY <1>1, <1>2, <2>1, <2>2, LimitAssumption
  <2> QED BY <2>3, WrapIsIdentity
<1>3. Weight(r) = pr * Scale + r.order /\ Weight(s) = ps * Scale + s.order
  BY <1>1, <1>2 DEF Weight, pr, ps
<1>4. pr * Scale + r.order >= ps * Scale + s.order <=>
        pr > ps \/ (pr = ps /\ r.order >= s.order)
  BY <1>1, OrderWithin
<1> QED BY <1>3, <1>4 DEF pr, ps
-----------------------------------------------------------------------------
(* The invariant, with rules seen as a function on 1 .. Len(rules).        *)

\* What a list of rules must satisfy when n rules have come in.
LEMMA IsRules ==
  ASSUME NEW n \in Nat, NEW q \in [1 .. n -> RuleType]
  PROVE  q \in Seq(RuleType) /\ Len(q) = n /\ DOMAIN q = 1 .. n
OBVIOUS

LEMMA RulesAreTyped ==
  ASSUME CollTypeOK
  PROVE  /\ Len(rules) \in Nat /\ DOMAIN rules = 1 .. Len(rules)
         /\ \A k \in 1 .. Len(rules) : rules[k] \in RuleType /\ Weight(rules[k]) \in Int
<1>1. /\ Len(rules) \in Nat /\ DOMAIN rules = 1 .. Len(rules)
      /\ \A k \in 1 .. Len(rules) : rules[k] \in RuleType
  BY DEF CollTypeOK
<1>2. \A k \in 1 .. Len(rules) : Weight(rules[k]) \in Int
  BY <1>1, WeightIsInt DEF RuleType
<1> QED BY <1>1, <1>2

THEOREM InitInv == CollInit => CollInv
<1> SUFFICES ASSUME CollInit PROVE CollInv
  OBVIOUS
<1>1. CollTypeOK
  <2>1. <<>> \in Seq(RuleType) /\ 0 \in Nat /\ FALSE \in BOOLEAN
    OBVIOUS
  <2> QED BY <2>1 DEF CollInit, CollTypeOK
<1>2. DOMAIN rules = {}
  BY DEF CollInit
<1> QED
  BY <1>1, <1>2 DEF CollInv, NumberedInv, HeaviestFirst, EqualsInArrivalOrder

\* The first lighter rule stands between the rules that are heavier or equal
\* and came before, and those that are lighter.
LEMMA AddInv ==
  ASSUME CollInv, NEW id \in RuleIds, NEW w \in Weights, Add(id, w)
  PROVE  CollInv'
<1> DEFINE r == Rule(id, w, arrivals + 1)
<1> DEFINE n == Len(rules)
<1>1. /\ n \in Nat /\ DOMAIN rules = 1 .. n
      /\ \A k \in 1 .. n : rules[k] \in RuleType /\ Weight(rules[k]) \in Int
  BY RulesAreTyped DEF CollInv
<1>2. arrivals \in Nat /\ arrivals' = arrivals + 1 /\ dirty' = dirty /\ touched' = touched
  BY DEF CollInv, CollTypeOK, Add
<1>3. r \in RuleType /\ r.seq = arrivals + 1 /\ Weight(r) \in Int
  <2>1. r \in RuleType /\ r.seq = arrivals + 1
    BY <1>2, WeightsAssumption DEF Rule, RuleType
  <2> QED BY <2>1, WeightIsInt DEF RuleType
<1>4. PICK p \in 1 .. n + 1 : IsPlaceFor(rules, p, r) /\ rules' = Inserted(rules, p, r)
  BY DEF Add
<1> HIDE DEF r, n
<1>5. rules' = [k \in 1 .. n + 1 |-> IF k < p THEN rules[k] ELSE IF k = p THEN r ELSE rules[k - 1]]
  BY <1>4 DEF Inserted, n
<1>6. rules' \in [1 .. n + 1 -> RuleType]
  <2>1. ASSUME NEW k \in 1 .. n + 1
        PROVE  (IF k < p THEN rules[k] ELSE IF k = p THEN r ELSE rules[k - 1]) \in RuleType
    <3>1. CASE k < p
      BY <1>1, <1>4, <3>1
    <3>2. CASE k = p
      BY <1>3, <3>2
    <3>3. CASE k > p
      <4>1. k - 1 \in 1 .. n
        BY <1>1, <1>4, <3>3
      <4> QED BY <1>1, <1>4, <3>3, <4>1
    <3> QED BY <1>1, <1>4, <3>1, <3>2, <3>3
  <2> QED BY <1>5, <2>1
<1>7. CollTypeOK' /\ DOMAIN rules' = 1 .. n + 1
  <2>1. n + 1 \in Nat
    BY <1>1
  <2>2. rules' \in Seq(RuleType) /\ DOMAIN rules' = 1 .. n + 1
    BY <1>6, <2>1, IsRules
  <2> QED BY <1>2, <2>2 DEF CollInv, CollTypeOK
\* Two rules of the new list: both old, or one of them new.
<1>8. ASSUME NEW j \in 1 .. n + 1, NEW k \in 1 .. n + 1, j < k
      PROVE  \/ \E a, b \in 1 .. n : a < b /\ rules'[j] = rules[a] /\ rules'[k] = rules[b]
             \/ k = p /\ rules'[k] = r /\ \E a \in 1 .. p - 1 : a \in 1 .. n /\ rules'[j] = rules[a]
             \/ j = p /\ rules'[j] = r /\ \E b \in p .. n : rules'[k] = rules[b]
  <2>1. CASE k < p
    <3>1. rules'[j] = rules[j] /\ rules'[k] = rules[k]
      BY <1>1, <1>4, <1>5, <1>8, <2>1
    <3>2. j \in 1 .. n /\ k \in 1 .. n
      BY <1>1, <1>4, <1>8, <2>1
    <3> QED BY <1>8, <3>1, <3>2
  <2>2. CASE k = p
    BY <1>1, <1>4, <1>5, <1>8, <2>2
  <2>3. CASE j < p /\ k > p
    <3>1. rules'[j] = rules[j] /\ rules'[k] = rules[k - 1]
      BY <1>1, <1>4, <1>5, <2>3
    <3>2. j \in 1 .. n /\ k - 1 \in 1 .. n /\ j < k - 1
      BY <1>1, <1>4, <2>3
    <3> QED BY <3>1, <3>2
  <2>4. CASE j = p
    <3>1. rules'[j] = r /\ rules'[k] = rules[k - 1]
      BY <1>1, <1>4, <1>5, <1>8, <2>4
    <3>2. k - 1 \in p .. n
      BY <1>1, <1>4, <1>8, <2>4
    <3> QED BY <2>4, <3>1, <3>2
  <2>5. CASE j > p
    <3>1. rules'[j] = rules[j - 1] /\ rules'[k] = rules[k - 1]
      BY <1>1, <1>4, <1>5, <1>8, <2>5
    <3>2. j - 1 \in 1 .. n /\ k - 1 \in 1 .. n /\ j - 1 < k - 1
      BY <1>1, <1>4, <1>8, <2>5
    <3> QED BY <3>1, <3>2
  <2> QED BY <1>1, <1>4, <1>8, <2>1, <2>2, <2>3, <2>4, <2>5
<1>9. NumberedInv'
  <2>1. ASSUME NEW k \in 1 .. n + 1
        PROVE  rules'[k].seq \in 1 .. arrivals'
    <3>1. CASE k < p
      <4>1. k \in 1 .. n /\ rules'[k] = rules[k]
        BY <1>1, <1>4, <1>5, <3>1
      <4> QED BY <1>1, <1>2, <4>1 DEF CollInv, NumberedInv
    <3>2. CASE k = p
      BY <1>2, <1>3, <1>5, <3>2
    <3>3. CASE k > p
      <4>1. k - 1 \in 1 .. n /\ rules'[k] = rules[k - 1]
        BY <1>1, <1>4, <1>5, <3>3
      <4> QED BY <1>1, <1>2, <4>1 DEF CollInv, NumberedInv
    <3> QED BY <1>1, <1>4, <3>1, <3>2, <3>3
  <2> QED BY <1>7, <2>1 DEF NumberedInv
<1>10. /\ \A a \in 1 .. p - 1 : Weight(rules[a]) >= Weight(r)
       /\ p <= n => Weight(rules[p]) < Weight(r)
  BY <1>4 DEF IsPlaceFor, n
<1>11. HeaviestFirst'
  <2> SUFFICES ASSUME ~dirty, NEW j \in 1 .. n + 1, NEW k \in 1 .. n + 1, j < k
               PROVE  Weight(rules'[j]) >= Weight(rules'[k])
    BY <1>2, <1>7 DEF HeaviestFirst, Weight, Wrap
  <2>1. \A a, b \in 1 .. n : a < b => Weight(rules[a]) >= Weight(rules[b])
    BY <1>1 DEF CollInv, HeaviestFirst
  <2>2. \A b \in p .. n : Weight(rules[b]) <= Weight(r)
    BY <1>1, <1>3, <1>4, <1>10, <2>1
  <2> QED BY <1>8, <1>10, <2>1, <2>2
<1>12. EqualsInArrivalOrder'
  <2> SUFFICES ASSUME ~touched, NEW j \in 1 .. n + 1, NEW k \in 1 .. n + 1, j < k,
                      Weight(rules'[j]) = Weight(rules'[k])
               PROVE  rules'[j].seq < rules'[k].seq
    BY <1>2, <1>7 DEF EqualsInArrivalOrder, Weight, Wrap
  <2>1. ~dirty
    BY DEF CollInv, CollTypeOK
  <2>2. \A a, b \in 1 .. n : a < b => Weight(rules[a]) >= Weight(rules[b])
    BY <1>1, <2>1 DEF CollInv, HeaviestFirst
  <2>3. \A a, b \in 1 .. n : a < b /\ Weight(rules[a]) = Weight(rules[b]) => rules[a].seq < rules[b].seq
    BY <1>1 DEF CollInv, EqualsInArrivalOrder
  <2>4. \A a \in 1 .. n : rules[a].seq < r.seq
    BY <1>1, <1>2, <1>3 DEF CollInv, NumberedInv
  <2>5. \A b \in p .. n : Weight(rules[b]) < Weight(r)
    <3>1. ASSUME NEW b \in p .. n
          PROVE  Weight(rules[b]) < Weight(r)
      <4>1. p \in 1 .. n /\ b \in 1 .. n /\ Weight(rules[p]) < Weight(r)
        BY <1>1, <1>4, <1>10
      <4>2. Weight(rules[p]) >= Weight(rules[b])
        BY <1>1, <2>2, <4>1
      <4> QED BY <1>1, <1>3, <4>1, <4>2
    <3> QED BY <3>1
  <2> QED BY <1>1, <1>3, <1>8, <2>3, <2>4, <2>5
<1> QED BY <1>7, <1>9, <1>11, <1>12 DEF CollInv

\* t holds rules of q, the heavier before the lighter, equals as they were.
Arranged(t, q, n) ==
  /\ t \in Seq(RuleType) /\ DOMAIN t = 1 .. n
  /\ \A k \in 1 .. n : \E m \in 1 .. n : t[k] = q[m]
  /\ \A j, k \in 1 .. n : j < k =>
       \E a, b \in 1 .. n :
         /\ t[j] = q[a] /\ t[k] = q[b]
         /\ \/ Weight(q[a]) > Weight(q[b])
            \/ Weight(q[a]) = Weight(q[b]) /\ a < b

\* What a stable sort leaves is in order, whatever order it was given.
LEMMA SortedInv ==
  ASSUME NEW n \in Nat, NEW q \in [1 .. n -> RuleType], NEW t \in StableSorts(q)
  PROVE  Arranged(t, q, n)
<1>1. DOMAIN q = 1 .. n
  OBVIOUS
<1>2. PICK p \in [1 .. n -> 1 .. n] :
        /\ t = [k \in 1 .. n |-> q[p[k]]]
        /\ \A j, k \in 1 .. n :
             j < k => \/ Weight(q[p[j]]) > Weight(q[p[k]])
                      \/ Weight(q[p[j]]) = Weight(q[p[k]]) /\ p[j] < p[k]
  BY <1>1 DEF StableSorts, IsStableSort
<1>3. t \in [1 .. n -> RuleType]
  BY <1>2
<1>4. t \in Seq(RuleType) /\ DOMAIN t = 1 .. n
  BY <1>3, IsRules
<1>5. \A k \in 1 .. n : p[k] \in 1 .. n /\ t[k] = q[p[k]]
  BY <1>2
<1> QED BY <1>2, <1>4, <1>5 DEF Arranged

\* The invariant holds of a collection that is arranged, whatever was there.
LEMMA ArrangedInv ==
  ASSUME NEW n \in Nat, NEW q, Arranged(rules', q, n),
         \A m \in 1 .. n : /\ q[m].seq \in 1 .. arrivals' /\ Weight(q[m]) \in Int
         , arrivals' \in Nat, dirty' = FALSE, touched' \in BOOLEAN,
         ~touched' => \A a, b \in 1 .. n :
           a < b /\ Weight(q[a]) = Weight(q[b]) => q[a].seq < q[b].seq
  PROVE  CollInv'
<1>1. CollTypeOK' /\ DOMAIN rules' = 1 .. n
  <2>1. rules' \in Seq(RuleType) /\ DOMAIN rules' = 1 .. n
    BY DEF Arranged
  <2>2. dirty' \in BOOLEAN
    OBVIOUS
  <2> QED BY <2>1, <2>2 DEF CollTypeOK
<1>2. NumberedInv'
  <2>1. ASSUME NEW k \in 1 .. n PROVE rules'[k].seq \in 1 .. arrivals'
    <3>1. PICK m \in 1 .. n : rules'[k] = q[m]
      BY DEF Arranged
    <3> QED BY <3>1
  <2> QED BY <1>1, <2>1 DEF NumberedInv
<1>3. ASSUME NEW j \in 1 .. n, NEW k \in 1 .. n, j < k
      PROVE  \E a, b \in 1 .. n :
               /\ rules'[j] = q[a] /\ rules'[k] = q[b]
               /\ \/ Weight(q[a]) > Weight(q[b])
                  \/ Weight(q[a]) = Weight(q[b]) /\ a < b
  <2>1. Arranged(rules', q, n)!3
    BY DEF Arranged
  <2> QED BY <1>3, <2>1
<1>4. HeaviestFirst'
  <2> SUFFICES ASSUME NEW j \in 1 .. n, NEW k \in 1 .. n, j < k
               PROVE  Weight(rules'[j]) >= Weight(rules'[k])
    BY <1>1 DEF HeaviestFirst, Weight, Wrap
  <2> QED BY <1>3
<1>5. EqualsInArrivalOrder'
  <2> SUFFICES ASSUME ~touched', NEW j \in 1 .. n, NEW k \in 1 .. n, j < k,
                      Weight(rules'[j]) = Weight(rules'[k])
               PROVE  rules'[j].seq < rules'[k].seq
    BY <1>1 DEF EqualsInArrivalOrder, Weight, Wrap
  <2>1. PICK a \in 1 .. n, b \in 1 .. n :
          /\ rules'[j] = q[a] /\ rules'[k] = q[b]
          /\ \/ Weight(q[a]) > Weight(q[b])
             \/ Weight(q[a]) = Weight(q[b]) /\ a < b
    BY <1>3
  <2>2. a < b /\ Weight(q[a]) = Weight(q[b])
    BY <2>1
  <2> QED BY <2>1, <2>2
<1> QED BY <1>1, <1>2, <1>4, <1>5 DEF CollInv

LEMMA FromVecInv ==
  ASSUME CollInv, NEW n \in Nat, NEW given \in [1 .. n -> Given], FromVec(given)
  PROVE  CollInv'
<1> DEFINE q == [k \in 1 .. n |-> Rule(given[k].rule_id, given[k], arrivals + k)]
<1>1. DOMAIN given = 1 .. n /\ Len(given) = n
  <2>1. given \in Seq(Given)
    OBVIOUS
  <2> QED BY <2>1
<1>2. /\ arrivals \in Nat /\ arrivals' = arrivals + n
      /\ dirty' = FALSE /\ touched' = FALSE /\ rules' \in StableSorts(q)
  BY <1>1 DEF CollInv, CollTypeOK, FromVec
<1>3. \A k \in 1 .. n : q[k] \in RuleType /\ q[k].seq = arrivals + k /\ Weight(q[k]) \in Int
  <2>1. \A k \in 1 .. n : q[k] \in RuleType /\ q[k].seq = arrivals + k
    BY <1>2 DEF Given, Rule, RuleType
  <2> QED BY <2>1, WeightIsInt DEF RuleType
<1>4. q \in [1 .. n -> RuleType]
  BY <1>3
<1> HIDE DEF q
<1>5. Arranged(rules', q, n)
  BY <1>2, <1>4, SortedInv
<1>6. arrivals' \in Nat /\ touched' \in BOOLEAN
  <2>1. arrivals' \in Nat
    BY <1>2
  <2>2. touched' \in BOOLEAN
    BY <1>2
  <2> QED BY <2>1, <2>2
<1>7. \A m \in 1 .. n : q[m].seq \in 1 .. arrivals' /\ Weight(q[m]) \in Int
  BY <1>2, <1>3
<1>8. \A a, b \in 1 .. n : a < b => q[a].seq < q[b].seq
  BY <1>2, <1>3
<1> QED BY <1>2, <1>5, <1>6, <1>7, <1>8, ArrangedInv

\* After get_mut and sort the order of arrival is lost, the weights are not.
LEMMA SortInv ==
  ASSUME CollInv, Sort
  PROVE  CollInv'
<1> DEFINE n == Len(rules)
<1>1. /\ n \in Nat /\ DOMAIN rules = 1 .. n
      /\ \A k \in 1 .. n : rules[k] \in RuleType /\ Weight(rules[k]) \in Int
  BY RulesAreTyped DEF CollInv
<1>2. /\ arrivals' \in Nat /\ arrivals' = arrivals /\ dirty' = FALSE
      /\ touched' = touched /\ touched' \in BOOLEAN /\ rules' \in StableSorts(rules)
  BY DEF CollInv, CollTypeOK, Sort
<1>3. rules \in [1 .. n -> RuleType]
  BY <1>1 DEF CollInv, CollTypeOK
<1>4. \A m \in 1 .. n : rules[m].seq \in 1 .. arrivals'
  BY <1>1, <1>2 DEF CollInv, NumberedInv
<1>5. ~touched' => \A a, b \in 1 .. n :
        a < b /\ Weight(rules[a]) = Weight(rules[b]) => rules[a].seq < rules[b].seq
  BY <1>1, <1>2 DEF CollInv, EqualsInArrivalOrder
<1> HIDE DEF n
<1>6. Arranged(rules', rules, n)
  BY <1>1, <1>2, <1>3, SortedInv
<1> QED BY <1>1, <1>2, <1>4, <1>5, <1>6, ArrangedInv

\* A rule that is taken out leaves the others in their order.
LEMMA RemoveInv ==
  ASSUME CollInv, NEW id \in RuleIds, RemoveRule(id)
  PROVE  CollInv'
<1> DEFINE n == Len(rules)
<1>1. /\ n \in Nat /\ DOMAIN rules = 1 .. n
      /\ \A k \in 1 .. n : rules[k] \in RuleType /\ Weight(rules[k]) \in Int
  BY RulesAreTyped DEF CollInv
<1>2. PICK p \in 1 .. n : rules' = Without(rules, p)
  BY <1>1 DEF RemoveRule
<1>3. arrivals' = arrivals /\ dirty' = dirty /\ touched' = touched
  BY DEF RemoveRule
<1> HIDE DEF n
<1>4. /\ n - 1 \in Nat
      /\ rules' = [k \in 1 .. n - 1 |-> IF k < p THEN rules[k] ELSE rules[k + 1]]
  BY <1>1, <1>2 DEF Without, n
<1> DEFINE at(k) == IF k < p THEN k ELSE k + 1
<1>5. \A k \in 1 .. n - 1 : at(k) \in 1 .. n /\ rules'[k] = rules[at(k)]
  BY <1>1, <1>2, <1>4
<1>6. \A j, k \in 1 .. n - 1 : j < k => at(j) < at(k)
  BY <1>1, <1>2
<1> HIDE DEF at
<1>7. rules' \in Seq(RuleType) /\ DOMAIN rules' = 1 .. n - 1
  <2>1. rules' \in [1 .. n - 1 -> RuleType]
    <3>1. \A k \in 1 .. n - 1 : rules'[k] \in RuleType
      BY <1>1, <1>5
    <3> QED BY <1>4, <3>1
  <2> QED BY <1>4, <2>1, IsRules
<1>8. CollTypeOK'
  BY <1>3, <1>7 DEF CollInv, CollTypeOK
<1>9. NumberedInv'
  BY <1>1, <1>3, <1>5, <1>7 DEF CollInv, NumberedInv
<1>10. HeaviestFirst'
  <2> SUFFICES ASSUME ~dirty, NEW j \in 1 .. n - 1, NEW k \in 1 .. n - 1, j < k
               PROVE  Weight(rules'[j]) >= Weight(rules'[k])
    BY <1>3, <1>7 DEF HeaviestFirst, Weight, Wrap
  <2>1. at(j) \in 1 .. n /\ at(k) \in 1 .. n /\ at(j) < at(k)
    BY <1>5, <1>6
  <2>2. Weight(rules[at(j)]) >= Weight(rules[at(k)])
    BY <1>1, <2>1 DEF CollInv, HeaviestFirst
  <2> QED BY <1>5, <2>2
<1>11. EqualsInArrivalOrder'
  <2> SUFFICES ASSUME ~touched, NEW j \in 1 .. n - 1, NEW k \in 1 .. n - 1, j < k,
                      Weight(rules'[j]) = Weight(rules'[k])
               PROVE  rules'[j].seq < rules'[k].seq
    BY <1>3, <1>7 DEF EqualsInArrivalOrder, Weight, Wrap
  <2>1. at(j) \in 1 .. n /\ at(k) \in 1 .. n /\ at(j) < at(k)
    BY <1>5, <1>6
  <2>2. rules'[j] = rules[at(j)] /\ rules'[k] = rules[at(k)]
    BY <1>5
  <2> QED BY <1>1, <2>1, <2>2 DEF CollInv, EqualsInArrivalOrder
<1> QED BY <1>8, <1>9, <1>10, <1>11 DEF CollInv

LEMMA GetMutInv ==
  ASSUME CollInv, NEW id \in RuleIds, NEW w \in Weights, GetMut(id, w)
  PROVE  CollInv'
<1> DEFINE n == Len(rules)
<1>1. /\ n \in Nat /\ DOMAIN rules = 1 .. n
      /\ \A k \in 1 .. n : rules[k] \in RuleType /\ Weight(rules[k]) \in Int
  BY RulesAreTyped DEF CollInv
<1>2. PICK p \in 1 .. n : rules' = [rules EXCEPT ![p] = Rule(id, w, rules[p].seq)]
  BY <1>1 DEF GetMut
<1>3. arrivals' = arrivals /\ dirty' = TRUE /\ touched' = TRUE
  BY DEF GetMut
<1> DEFINE r == Rule(id, w, rules[p].seq)
<1>4. r \in RuleType /\ r.seq = rules[p].seq
  BY <1>1, WeightsAssumption DEF Rule, RuleType
<1> HIDE DEF n, r
<1>5. /\ DOMAIN rules' = 1 .. n
      /\ \A k \in 1 .. n : rules'[k] = IF k = p THEN r ELSE rules[k]
  BY <1>1, <1>2 DEF r
<1>6. CollTypeOK'
  <2>1. rules' \in Seq(RuleType)
    <3>1. rules' = [k \in 1 .. n |-> rules'[k]]
      BY <1>1, <1>2
    <3>2. \A k \in 1 .. n : rules'[k] \in RuleType
      BY <1>1, <1>4, <1>5
    <3>3. rules' \in [1 .. n -> RuleType]
      BY <3>1, <3>2
    <3> QED BY <1>1, <3>3, IsRules
  <2>2. arrivals' \in Nat
    BY <1>3 DEF CollInv, CollTypeOK
  <2>3. dirty' \in BOOLEAN /\ touched' \in BOOLEAN /\ (dirty' => touched')
    BY <1>3
  <2> QED BY <2>1, <2>2, <2>3 DEF CollTypeOK
<1>7. NumberedInv'
  BY <1>1, <1>3, <1>4, <1>5 DEF CollInv, NumberedInv
<1> QED
  BY <1>3, <1>6, <1>7 DEF CollInv, HeaviestFirst, EqualsInArrivalOrder
-----------------------------------------------------------------------------
THEOREM NextInv == CollInv /\ [CollNext]_collVars => CollInv'
<1> SUFFICES ASSUME CollInv, [CollNext]_collVars PROVE CollInv'
  OBVIOUS
<1>1. ASSUME NEW id \in RuleIds, NEW w \in Weights, Add(id, w) PROVE CollInv'
  BY <1>1, AddInv
<1>2. ASSUME NEW id \in RuleIds, NEW w \in Weights, GetMut(id, w) PROVE CollInv'
  BY <1>2, GetMutInv
<1>3. ASSUME NEW n \in 0 .. MaxArrivals, NEW ids \in [1 .. n -> RuleIds],
             NEW ws \in [1 .. n -> Weights],
             FromVec([k \in 1 .. n |-> [rule_id |-> ids[k], priority |-> ws[k].priority,
                                        order |-> ws[k].order]])
      PROVE  CollInv'
  <2> DEFINE given == [k \in 1 .. n |-> [rule_id |-> ids[k], priority |-> ws[k].priority,
                                         order |-> ws[k].order]]
  <2>1. n \in Nat
    BY ArrivalsAssumption
  <2>2. given \in [1 .. n -> Given]
    BY WeightsAssumption DEF Given
  <2>3. FromVec(given)
    BY <1>3
  <2> HIDE DEF given
  <2> QED BY <2>1, <2>2, <2>3, FromVecInv
<1>4. CASE Sort
  BY <1>4, SortInv
<1>5. ASSUME NEW id \in RuleIds, RemoveRule(id) PROVE CollInv'
  BY <1>5, RemoveInv
<1>6. CASE Clear
  <2>1. CollTypeOK'
    <3>1. <<>> \in Seq(RuleType)
      OBVIOUS
    <3>2. rules' \in Seq(RuleType) /\ arrivals' \in Nat
      BY <1>6, <3>1 DEF Clear, CollInv, CollTypeOK
    <3>3. dirty' \in BOOLEAN /\ touched' \in BOOLEAN /\ (dirty' => touched')
      BY <1>6 DEF Clear
    <3> QED BY <3>2, <3>3 DEF CollTypeOK
  <2>2. DOMAIN rules' = {}
    BY <1>6 DEF Clear
  <2> QED
    BY <2>1, <2>2 DEF CollInv, NumberedInv, HeaviestFirst, EqualsInArrivalOrder
<1>7. CASE UNCHANGED collVars
  BY <1>7 DEF collVars, CollInv, CollTypeOK, NumberedInv, HeaviestFirst,
              EqualsInArrivalOrder, Weight, Wrap
<1> QED BY <1>1, <1>2, <1>3, <1>4, <1>5, <1>6, <1>7 DEF CollNext

\* In a collection that is in order the priorities of rules in the documented
\* range are in order too.
LEMMA PriorityFollows == CollInv => RulesInOrder
<1> SUFFICES ASSUME CollInv PROVE HigherPriorityFirst
  BY DEF CollInv, RulesInOrder
<1> SUFFICES ASSUME ~dirty, NEW j \in DOMAIN rules, NEW k \in DOMAIN rules, j < k,
                    Regular(rules[j]), Regular(rules[k])
             PROVE  rules[j].priority >= rules[k].priority
  BY DEF HigherPriorityFirst
<1>1. Weight(rules[j]) >= Weight(rules[k])
  BY DEF CollInv, HeaviestFirst
<1>2. rules[j].priority \in Nat /\ rules[k].priority \in Nat
  BY DEF Regular
<1> QED BY <1>1, <1>2, WeightLexicographic

(* Whatever a host does with its collection, it stays in order: by weight, *)
(* by arrival within a weight, by priority within the documented range.    *)
THEOREM CollectionInOrder == CollSpec => []RulesInOrder
<1>1. CollSpec => []CollInv
  BY InitInv, NextInv, PTL DEF CollSpec
<1> QED BY <1>1, PriorityFollows, PTL
-----------------------------------------------------------------------------
(* Induction on a list.                                                    *)

\* A set of numbers has a least one.
LEMMA Least ==
  ASSUME NEW T, T \subseteq Nat, T # {}
  PROVE  \E m \in T : \A k \in T : m <= k
<1> DEFINE R == {ss \in Nat \X Nat : ss[1] < ss[2]}
<1>1. IsWellFoundedOn(R, Nat)
  BY NatLessThanWellFounded DEF OpToRel
<1>2. \A y, x \in Nat : y < x => <<y, x>> \in R
  OBVIOUS
<1> HIDE DEF R
<1>3. PICK m \in T : \A k \in T : ~ (<<k, m>> \in R)
  BY <1>1, WFMin
<1>4. ASSUME NEW k \in T PROVE m <= k
  <2>1. m \in Nat /\ k \in Nat /\ ~(k < m)
    BY <1>2, <1>3
  <2> QED BY <2>1
<1> QED BY <1>4

\* What an empty list has, and keeps when it grows, every list has.
LEMMA ListInduction ==
  ASSUME NEW S, NEW Good, <<>> \in Good,
         \A v \in Seq(S), d \in S : v \in Good => Append(v, d) \in Good
  PROVE  Seq(S) \subseteq Good
<1> DEFINE T == {m \in Nat : \E u \in Seq(S) : Len(u) = m /\ u \notin Good}
<1>1. SUFFICES ASSUME T # {} PROVE FALSE
  <2>1. ASSUME NEW u \in Seq(S) PROVE Len(u) \in Nat
    OBVIOUS
  <2> QED BY <2>1
<1>2. PICK m \in T : \A k \in T : m <= k
  BY <1>1, Least
<1>3. PICK u \in Seq(S) : Len(u) = m /\ u \notin Good
  BY <1>2
<1>4. m \in Nat
  BY <1>2
<1>5. CASE m = 0
  <2>1. u = <<>>
    BY <1>3, <1>5
  <2> QED BY <1>3, <2>1
<1>6. CASE m # 0
  <2> DEFINE v == [k \in 1 .. (m - 1) |-> u[k]]
  <2>1. \A k \in 1 .. m : u[k] \in S
    BY <1>3
  <2>2. m \in 1 .. m /\ m - 1 \in Nat /\ \A k \in 1 .. (m - 1) : k \in 1 .. m
    BY <1>4, <1>6
  <2>3. v \in [1 .. (m - 1) -> S]
    BY <2>1, <2>2
  <2>4. v \in Seq(S) /\ Len(v) = m - 1
    BY <2>2, <2>3
  <2>5. u = Append(v, u[m])
    <3>1. /\ Len(Append(v, u[m])) = m
          /\ \A k \in 1 .. m : Append(v, u[m])[k] = u[k]
          /\ Append(v, u[m]) \in Seq(S)
      BY <1>4, <1>6, <2>1, <2>2, <2>4
    <3> QED BY <1>3, <3>1
  <2> HIDE DEF v
  <2>6. v \in Good
    <3>1. m - 1 \notin T
      BY <1>2, <1>4, <2>2
    <3> QED BY <2>2, <2>4, <3>1
  <2> QED BY <1>3, <2>1, <2>2, <2>4, <2>5, <2>6
<1> QED BY <1>5, <1>6
-----------------------------------------------------------------------------
(* Filters.                                                                *)

\* The function KeptOf describes exists.
LEMMA KeptDefined ==
  ASSUME NEW u, Len(u) \in Nat, NEW ids
  PROVE  KeptOf(u, ids) =
           [n \in 0 .. Len(u) |->
              IF n = 0 THEN <<>>
              ELSE IF u[n].rule_id \in ids THEN KeptOf(u, ids)[n - 1]
              ELSE Append(KeptOf(u, ids)[n - 1], u[n])]
<1> DEFINE Upto(g, m) ==
      g = [n \in 0 .. m |-> IF n = 0 THEN <<>>
                           ELSE IF u[n].rule_id \in ids THEN g[n - 1]
                           ELSE Append(g[n - 1], u[n])]
           T == {m \in Nat : ~ \E g : Upto(g, m)}
<1>1. T = {}
  <2>1. SUFFICES ASSUME T # {} PROVE FALSE
    OBVIOUS
  <2>2. PICK m \in T : \A k \in T : m <= k
    BY <2>1, Least
  <2>3. m \in Nat /\ ~ \E g : Upto(g, m)
    BY <2>2
  <2>4. CASE m = 0
    <3> DEFINE g == [n \in 0 .. 0 |-> <<>>]
    <3>1. Upto(g, 0)
      OBVIOUS
    <3> QED BY <2>3, <2>4, <3>1
  <2>5. CASE m # 0
    <3>1. m - 1 \in Nat /\ m - 1 \notin T
      <4>1. m - 1 \in Nat /\ ~(m <= m - 1)
        BY <2>3, <2>5
      <4> HIDE DEF T
      <4> QED BY <2>2, <4>1
    <3>2. PICK g : Upto(g, m - 1)
      BY <3>1
    <3> DEFINE h == [n \in 0 .. m |->
                       IF n = m THEN IF u[n].rule_id \in ids THEN g[n - 1]
                                     ELSE Append(g[n - 1], u[n])
                       ELSE g[n]]
    <3>3. \A n \in 0 .. m : n # 0 => n - 1 \in 0 .. m /\ n - 1 # m
      BY <2>3
    <3>4. \A n \in 0 .. m : n # 0 => h[n - 1] = g[n - 1]
      BY <3>3
    <3>5. ASSUME NEW n \in 0 .. m
          PROVE  h[n] = IF n = 0 THEN <<>>
                        ELSE IF u[n].rule_id \in ids THEN h[n - 1]
                        ELSE Append(h[n - 1], u[n])
      <4>1. CASE n = m
        <5>1. n # 0
          BY <2>5, <4>1
        <5>2. h[n] = IF u[n].rule_id \in ids THEN g[n - 1] ELSE Append(g[n - 1], u[n])
          BY <4>1
        <5> HIDE DEF h
        <5> QED BY <3>4, <5>1, <5>2
      <4>2. CASE n # m
        <5>1. n \in 0 .. (m - 1)
          BY <2>3, <4>2
        <5>2. h[n] = g[n]
          BY <4>2
        <5> HIDE DEF h
        <5>3. g[n] = IF n = 0 THEN <<>>
                     ELSE IF u[n].rule_id \in ids THEN g[n - 1]
                     ELSE Append(g[n - 1], u[n])
          BY <3>2, <5>1
        <5> QED BY <3>4, <5>2, <5>3
      <4> QED BY <4>1, <4>2
    <3>6. h = [n \in 0 .. m |-> h[n]]
      OBVIOUS
    <3> HIDE DEF h
    <3>7. Upto(h, m)
      BY <3>5, <3>6
    <3> QED BY <2>3, <3>7
  <2> QED BY <2>4, <2>5
<1>2. PICK g : Upto(g, Len(u))
  BY <1>1
<1> QED BY <1>2 DEF KeptOf

\* What is kept of the first n documents depends on those that stay alone.
LEMMA KeptAlike ==
  ASSUME NEW u, NEW v, NEW ids, NEW n \in Nat, Len(u) \in Nat, Len(v) \in Nat,
         n <= Len(u), n <= Len(v),
         \A k \in 1 .. n : u[k] = v[k] \/ (u[k].rule_id \in ids /\ v[k].rule_id \in ids)
  PROVE  KeptOf(u, ids)[n] = KeptOf(v, ids)[n]
<1> DEFINE f == KeptOf(u, ids)
           g == KeptOf(v, ids)
           T == {m \in 0 .. n : f[m] # g[m]}
<1>1. SUFFICES ASSUME T # {} PROVE FALSE
  OBVIOUS
<1>8. T \subseteq Nat
  OBVIOUS
<1>2. PICK m \in T : \A k \in T : m <= k
  <2> HIDE DEF T
  <2> QED BY <1>1, <1>8, Least
<1>3. m \in 0 .. n /\ m \in 0 .. Len(u) /\ m \in 0 .. Len(v)
  BY <1>2
<1>4. /\ f[m] = IF m = 0 THEN <<>>
                ELSE IF u[m].rule_id \in ids THEN f[m - 1] ELSE Append(f[m - 1], u[m])
      /\ g[m] = IF m = 0 THEN <<>>
                ELSE IF v[m].rule_id \in ids THEN g[m - 1] ELSE Append(g[m - 1], v[m])
  <2>1. f = [k \in 0 .. Len(u) |->
               IF k = 0 THEN <<>>
               ELSE IF u[k].rule_id \in ids THEN f[k - 1] ELSE Append(f[k - 1], u[k])]
    BY KeptDefined
  <2>2. g = [k \in 0 .. Len(v) |->
               IF k = 0 THEN <<>>
               ELSE IF v[k].rule_id \in ids THEN g[k - 1] ELSE Append(g[k - 1], v[k])]
    BY KeptDefined
  <2> HIDE DEF f, g
  <2> QED BY <1>3, <2>1, <2>2
<1> HIDE DEF f, g
<1>5. m # 0 => m - 1 \in 0 .. n /\ m - 1 \notin T /\ m \in 1 .. n
  BY <1>2, <1>3
<1>6. m # 0 => /\ f[m - 1] = g[m - 1]
               /\ u[m] = v[m] \/ (u[m].rule_id \in ids /\ v[m].rule_id \in ids)
  BY <1>5
<1>7. f[m] = g[m]
  BY <1>4, <1>6
<1> QED BY <1>2, <1>7

LEMMA KeptLocal ==
  ASSUME NEW u, NEW v, NEW ids, NEW n \in Nat, Len(u) \in Nat, Len(v) \in Nat,
         n <= Len(u), n <= Len(v), \A k \in 1 .. n : u[k] = v[k]
  PROVE  KeptOf(u, ids)[n] = KeptOf(v, ids)[n]
BY KeptAlike

LEMMA DropNone ==
  ASSUME NEW ids
  PROVE  Dropping(<<>>, ids) = <<>>
<1> DEFINE f == KeptOf(<<>>, ids)
<1>1. f = [n \in 0 .. Len(<<>>) |->
             IF n = 0 THEN <<>>
             ELSE IF <<>>[n].rule_id \in ids THEN f[n - 1] ELSE Append(f[n - 1], <<>>[n])]
  BY KeptDefined
<1> HIDE DEF f
<1>2. f[0] = <<>>
  BY <1>1
<1> QED BY <1>2 DEF Dropping, f

\* The filter works document by document.
LEMMA DropAppend ==
  ASSUME NEW S, NEW u \in Seq(S), NEW d \in S, NEW ids
  PROVE  Dropping(Append(u, d), ids) =
           IF d.rule_id \in ids THEN Dropping(u, ids) ELSE Append(Dropping(u, ids), d)
<1> DEFINE v == Append(u, d)
           n == Len(u)
           f == KeptOf(v, ids)
<1>1. /\ n \in Nat /\ Len(v) = n + 1 /\ v[n + 1] = d
      /\ \A k \in 1 .. n : v[k] = u[k]
  OBVIOUS
<1> HIDE DEF v
<1>2. f = [k \in 0 .. Len(v) |->
             IF k = 0 THEN <<>>
             ELSE IF v[k].rule_id \in ids THEN f[k - 1] ELSE Append(f[k - 1], v[k])]
  BY <1>1, KeptDefined
<1>3. f[n] = KeptOf(u, ids)[n]
  BY <1>1, KeptLocal
<1> HIDE DEF f
<1>4. n + 1 \in 0 .. Len(v) /\ n + 1 # 0 /\ n + 1 - 1 = n
  BY <1>1
<1>5. f[n + 1] = IF d.rule_id \in ids THEN f[n] ELSE Append(f[n], d)
  <2> DEFINE m == n + 1
  <2>2. m \in 0 .. Len(v)
    BY <1>4
  <2> HIDE DEF m
  <2>3. f[m] = IF m = 0 THEN <<>>
               ELSE IF v[m].rule_id \in ids THEN f[m - 1] ELSE Append(f[m - 1], v[m])
    BY <1>2, <2>2
  <2>1. f[n + 1] = IF n + 1 = 0 THEN <<>>
                   ELSE IF v[n + 1].rule_id \in ids THEN f[n + 1 - 1]
                   ELSE Append(f[n + 1 - 1], v[n + 1])
    BY <2>3 DEF m
  <2> QED BY <1>1, <1>4, <2>1
<1> QED BY <1>1, <1>3, <1>5 DEF Dropping, f, v

LEMMA DropTyped ==
  ASSUME NEW S, NEW u \in Seq(S), NEW ids
  PROVE  Dropping(u, ids) \in Seq(S)
<1> DEFINE Good == {v \in Seq(S) : Dropping(v, ids) \in Seq(S)}
<1>1. <<>> \in Good
  <2>1. <<>> \in Seq(S)
    OBVIOUS
  <2> QED BY <2>1, DropNone
<1>2. ASSUME NEW v \in Seq(S), NEW d \in S, v \in Good
      PROVE  Append(v, d) \in Good
  <2>1. Append(v, d) \in Seq(S)
    OBVIOUS
  <2> DEFINE w == Dropping(v, ids)
  <2>3. w \in Seq(S)
    BY <1>2
  <2>4. Dropping(Append(v, d), ids) = IF d.rule_id \in ids THEN w ELSE Append(w, d)
    BY DropAppend
  <2> HIDE DEF w
  <2>2. Dropping(Append(v, d), ids) \in Seq(S)
    BY <2>3, <2>4
  <2> QED BY <2>1, <2>2
<1>3. Seq(S) \subseteq Good
  <2> HIDE DEF Good
  <2> QED BY <1>1, <1>2, ListInduction
<1> QED BY <1>3
-----------------------------------------------------------------------------
(* The first document of an id.                                            *)

\* Ids held by a longer list.
LEMMA HoldsAppend ==
  ASSUME NEW S, NEW u \in Seq(S), NEW d \in S, NEW id
  PROVE  Holds(Append(u, d), id) <=> Holds(u, id) \/ d.rule_id = id
<1>1. /\ DOMAIN Append(u, d) = 1 .. Len(u) + 1 /\ DOMAIN u = 1 .. Len(u)
      /\ Append(u, d)[Len(u) + 1] = d /\ Len(u) \in Nat
      /\ \A k \in 1 .. Len(u) : Append(u, d)[k] = u[k]
  OBVIOUS
<1>2. \A k \in 1 .. Len(u) + 1 : k \in 1 .. Len(u) \/ k = Len(u) + 1
  BY <1>1
<1>3. Len(u) + 1 \in 1 .. Len(u) + 1 /\ \A k \in 1 .. Len(u) : k \in 1 .. Len(u) + 1
  BY <1>1
<1> QED BY <1>1, <1>2, <1>3 DEF Holds

\* `find` finds the first one.
LEMMA FindsFirst ==
  ASSUME NEW S, NEW u \in Seq(S), NEW id, Holds(u, id)
  PROVE  /\ Find(u, id) \in 1 .. Len(u) /\ IsFirst(u, Find(u, id), id)
         /\ BodyOf(u, id) = u[Find(u, id)].body
<1> DEFINE T == {p \in 1 .. Len(u) : u[p].rule_id = id}
<1>1. DOMAIN u = 1 .. Len(u) /\ Len(u) \in Nat
  OBVIOUS
<1>2. T # {} /\ T \subseteq Nat
  BY <1>1 DEF Holds
<1>3. PICK p \in T : \A k \in T : p <= k
  <2> HIDE DEF T
  <2> QED BY <1>2, Least
<1>4. IsFirst(u, p, id) /\ p \in DOMAIN u
  <2>1. ASSUME NEW k \in 1 .. p - 1 PROVE u[k].rule_id # id
    <3>1. k \in 1 .. Len(u) /\ ~(p <= k)
      BY <1>1, <1>3
    <3> QED BY <1>3, <3>1
  <2> QED BY <1>1, <1>3, <2>1 DEF IsFirst
<1>5. Find(u, id) \in DOMAIN u /\ IsFirst(u, Find(u, id), id)
  BY <1>4 DEF Find
<1> QED BY <1>1, <1>5 DEF BodyOf

LEMMA FirstIsFound ==
  ASSUME NEW S, NEW u \in Seq(S), NEW id, NEW p, IsFirst(u, p, id)
  PROVE  Holds(u, id) /\ Find(u, id) = p /\ BodyOf(u, id) = u[p].body
<1>1. DOMAIN u = 1 .. Len(u) /\ p \in 1 .. Len(u) /\ u[p].rule_id = id
  BY DEF IsFirst
<1>2. Holds(u, id)
  BY <1>1 DEF Holds
<1> DEFINE q == Find(u, id)
<1>3. q \in 1 .. Len(u) /\ IsFirst(u, q, id) /\ BodyOf(u, id) = u[q].body
  BY <1>2, FindsFirst
<1> HIDE DEF q
<1>4. ~(p < q) /\ ~(q < p)
  BY <1>1, <1>3 DEF IsFirst
<1>5. p = q
  BY <1>1, <1>3, <1>4
<1> QED BY <1>2, <1>3, <1>5 DEF q

\* A document that is put at the end is found if no other one of its id is.
LEMMA BodyAppend ==
  ASSUME NEW S, NEW u \in Seq(S), NEW d \in S, NEW id
  PROVE  BodyOf(Append(u, d), id) = IF Holds(u, id) THEN BodyOf(u, id)
                                    ELSE IF d.rule_id = id THEN d.body ELSE Absent
<1> DEFINE v == Append(u, d)
           n == Len(u)
<1>1. /\ v \in Seq(S) /\ DOMAIN v = 1 .. n + 1 /\ DOMAIN u = 1 .. n
      /\ v[n + 1] = d /\ n \in Nat
      /\ \A k \in 1 .. n : v[k] = u[k]
  OBVIOUS
<1>2. Holds(v, id) <=> Holds(u, id) \/ d.rule_id = id
  BY HoldsAppend
<1> HIDE DEF v, n
<1>3. CASE Holds(u, id)
  <2> DEFINE p == Find(u, id)
  <2>1. p \in 1 .. n /\ IsFirst(u, p, id) /\ BodyOf(u, id) = u[p].body
    BY <1>3, FindsFirst DEF n
  <2> HIDE DEF p
  <2>2. p \in 1 .. n + 1 /\ \A k \in 1 .. p - 1 : k \in 1 .. n
    BY <1>1, <2>1
  <2>3. IsFirst(v, p, id)
    BY <1>1, <2>1, <2>2 DEF IsFirst
  <2>4. BodyOf(v, id) = v[p].body
    BY <1>1, <2>3, FirstIsFound
  <2> QED BY <1>1, <1>3, <2>1, <2>4 DEF v
<1>4. CASE ~Holds(u, id) /\ d.rule_id = id
  <2>1. n + 1 \in 1 .. n + 1 /\ \A k \in 1 .. n + 1 - 1 : k \in 1 .. n
    BY <1>1
  <2>2. \A k \in 1 .. n : u[k].rule_id # id
    BY <1>1, <1>4 DEF Holds
  <2>3. IsFirst(v, n + 1, id)
    BY <1>1, <1>4, <2>1, <2>2 DEF IsFirst
  <2>4. BodyOf(v, id) = v[n + 1].body
    BY <1>1, <2>3, FirstIsFound
  <2> QED BY <1>1, <1>4, <2>4 DEF v
<1>5. CASE ~Holds(u, id) /\ d.rule_id # id
  BY <1>2, <1>5 DEF BodyOf, v
<1> QED BY <1>3, <1>4, <1>5

\* What a filter leaves to find.
LEMMA DropBody ==
  ASSUME NEW S, NEW u \in Seq(S), NEW ids, NEW id
  PROVE  /\ Holds(Dropping(u, ids), id) <=> id \notin ids /\ Holds(u, id)
         /\ BodyOf(Dropping(u, ids), id) = IF id \in ids THEN Absent ELSE BodyOf(u, id)
<1> DEFINE Left(v) ==
      /\ Holds(Dropping(v, ids), id) <=> id \notin ids /\ Holds(v, id)
      /\ BodyOf(Dropping(v, ids), id) = IF id \in ids THEN Absent ELSE BodyOf(v, id)
           Good == {v \in Seq(S) : Left(v)}
<1>1. <<>> \in Good
  <2>1. ~Holds(<<>>, id) /\ BodyOf(<<>>, id) = Absent
    BY DEF Holds, BodyOf
  <2>2. Left(<<>>)
    BY <2>1, DropNone
  <2> HIDE DEF Left
  <2> QED BY <2>2
<1>2. ASSUME NEW v \in Seq(S), NEW d \in S, v \in Good
      PROVE  Append(v, d) \in Good
  <2> DEFINE w == Dropping(v, ids)
  <2>1. Append(v, d) \in Seq(S) /\ w \in Seq(S)
    BY DropTyped
  <2>2. /\ Holds(w, id) <=> id \notin ids /\ Holds(v, id)
        /\ BodyOf(w, id) = IF id \in ids THEN Absent ELSE BodyOf(v, id)
    BY <1>2
  <2>3. /\ Holds(Append(v, d), id) <=> Holds(v, id) \/ d.rule_id = id
        /\ BodyOf(Append(v, d), id) = IF Holds(v, id) THEN BodyOf(v, id)
                                      ELSE IF d.rule_id = id THEN d.body ELSE Absent
    BY HoldsAppend, BodyAppend
  <2>4. ~Holds(v, id) => BodyOf(v, id) = Absent
    BY DEF BodyOf
  <2>5. ~Holds(w, id) => BodyOf(w, id) = Absent
    BY DEF BodyOf
  <2>6. CASE d.rule_id \in ids
    <3>1. Dropping(Append(v, d), ids) = w
      BY <2>6, DropAppend
    <3> HIDE DEF w
    <3>2. Left(Append(v, d))
      BY <2>2, <2>3, <2>4, <2>5, <2>6, <3>1
    <3> HIDE DEF Left
    <3> QED BY <2>1, <3>2
  <2>7. CASE d.rule_id \notin ids
    <3>1. Dropping(Append(v, d), ids) = Append(w, d)
      BY <2>7, DropAppend
    <3> HIDE DEF w
    <3>2. /\ Holds(Append(w, d), id) <=> Holds(w, id) \/ d.rule_id = id
          /\ BodyOf(Append(w, d), id) = IF Holds(w, id) THEN BodyOf(w, id)
                                        ELSE IF d.rule_id = id THEN d.body ELSE Absent
      BY <2>1, HoldsAppend, BodyAppend
    <3>3. Left(Append(v, d))
      BY <2>2, <2>3, <2>4, <2>5, <2>7, <3>1, <3>2
    <3> HIDE DEF Left
    <3> QED BY <2>1, <3>3
  <2> QED BY <2>6, <2>7
<1>3. Seq(S) \subseteq Good
  <2> HIDE DEF Good
  <2> QED BY <1>1, <1>2, ListInduction
<1> QED BY <1>3

\* A put keeps the list a list of documents.
LEMMA PutTyped ==
  ASSUME NEW S, NEW u \in Seq(S), NEW d \in S
  PROVE  Put(u, d) \in Seq(S)
<1>1. CASE Replaces(u, d)
  <2>1. Find(u, d.rule_id) \in 1 .. Len(u)
    BY <1>1, FindsFirst DEF Replaces
  <2> QED BY <1>1, <2>1 DEF Put
<1>2. CASE ~Replaces(u, d)
  BY <1>2 DEF Put
<1> QED BY <1>1, <1>2

\* What inject_rule leaves to find once it has put a document.
LEMMA PutBody ==
  ASSUME NEW S, NEW u \in Seq(S), NEW d \in S, NEW id, id # Absent
  PROVE  /\ Put(u, d) \in Seq(S)
         /\ BodyOf(Put(u, d), id) = IF d.rule_id = id THEN d.body ELSE BodyOf(u, id)
<1>1. CASE Replaces(u, d)
  <2> DEFINE p == Find(u, d.rule_id)
             v == [u EXCEPT ![p] = d]
  <2>1. p \in 1 .. Len(u) /\ IsFirst(u, p, d.rule_id)
    BY <1>1, FindsFirst DEF Replaces
  <2>2. Put(u, d) = v
    BY <1>1 DEF Put
  <2> HIDE DEF p
  <2>3. /\ v \in Seq(S) /\ DOMAIN v = 1 .. Len(u) /\ DOMAIN u = 1 .. Len(u)
        /\ \A k \in 1 .. Len(u) : v[k] = IF k = p THEN d ELSE u[k]
        /\ Len(u) \in Nat
    BY <2>1
  <2> HIDE DEF v
  <2>4. \A k \in 1 .. Len(u) : v[k].rule_id = u[k].rule_id
    BY <2>1, <2>3 DEF IsFirst
  <2>5. CASE Holds(u, id)
    <3> DEFINE q == Find(u, id)
    <3>1. q \in 1 .. Len(u) /\ IsFirst(u, q, id) /\ BodyOf(u, id) = u[q].body
      BY <2>5, FindsFirst
    <3> HIDE DEF q
    <3>2. \A k \in 1 .. q - 1 : k \in 1 .. Len(u)
      BY <2>3, <3>1
    <3>3. IsFirst(v, q, id)
      BY <2>3, <2>4, <3>1, <3>2 DEF IsFirst
    <3>4. BodyOf(v, id) = v[q].body
      BY <2>3, <3>3, FirstIsFound
    <3>5. CASE d.rule_id = id
      <4>1. p = q
        <5>1. ~(p < q) /\ ~(q < p)
          BY <2>1, <3>1, <3>5 DEF IsFirst
        <5> QED BY <2>1, <3>1, <5>1
      <4> QED BY <2>2, <2>3, <3>1, <3>4, <3>5, <4>1
    <3>6. CASE d.rule_id # id
      <4>1. p # q
        BY <2>1, <3>1, <3>6 DEF IsFirst
      <4> QED BY <2>2, <2>3, <3>1, <3>4, <3>6, <4>1
    <3> QED BY <3>5, <3>6
  <2>6. CASE ~Holds(u, id)
    <3>1. ~Holds(v, id)
      BY <2>3, <2>4, <2>6 DEF Holds
    <3>2. d.rule_id # id
      BY <1>1, <2>6 DEF Replaces
    <3> QED BY <2>2, <2>3, <2>6, <3>1, <3>2 DEF BodyOf
  <2> QED BY <2>5, <2>6
<1>2. CASE ~Replaces(u, d)
  <2>1. Put(u, d) = Append(u, d) /\ Append(u, d) \in Seq(S)
    BY <1>2 DEF Put
  <2>2. d.rule_id = id => ~Holds(u, id)
    BY <1>2 DEF Replaces
  <2>3. BodyOf(Append(u, d), id) = IF Holds(u, id) THEN BodyOf(u, id)
                                   ELSE IF d.rule_id = id THEN d.body ELSE Absent
    BY BodyAppend
  <2>4. ~Holds(u, id) => BodyOf(u, id) = Absent
    BY DEF BodyOf
  <2> QED BY <2>1, <2>2, <2>3, <2>4
<1> QED BY <1>1, <1>2
-----------------------------------------------------------------------------
(* The rule set in the state.                                              *)

LEMMA ListTyped ==
  ASSUME StoreTyped
  PROVE  /\ ListOf(universe) \in Seq(Document)
         /\ \A u \in Seq(Document) : ListOf(u) = u
<1>1. <<>> \in Seq(Document)
  OBVIOUS
<1> QED BY <1>1, AbsentAssumption DEF StoreTyped, ListOf

\* What a host publishes is a list of documents.
LEMMA PublishedTyped ==
  ASSUME CollInv
  PROVE  ToValue(rules) \in Seq(Document)
<1>1. /\ Len(rules) \in Nat /\ DOMAIN rules = 1 .. Len(rules)
      /\ \A k \in 1 .. Len(rules) : rules[k] \in RuleType
  BY RulesAreTyped DEF CollInv
<1> DEFINE q == [k \in 1 .. Len(rules) |-> Doc(rules[k].rule_id, rules[k], rules[k].seq)]
<1>2. ToValue(rules) = q
  BY <1>1 DEF ToValue
<1>3. \A k \in 1 .. Len(rules) :
        Doc(rules[k].rule_id, rules[k], rules[k].seq) \in Document
  BY <1>1 DEF Doc, Document, RuleType
<1>4. q \in [1 .. Len(rules) -> Document]
  BY <1>3
<1> HIDE DEF q
<1> QED BY <1>1, <1>2, <1>4

\* Documents that parse make rules.
LEMMA ParsedTyped ==
  ASSUME NEW u \in Seq(Document), \A k \in DOMAIN u : Parses(u[k])
  PROVE  Len(u) \in Nat /\ FromDicts(u) \in [1 .. Len(u) -> Given]
<1>1. Len(u) \in Nat /\ DOMAIN u = 1 .. Len(u) /\ \A k \in 1 .. Len(u) : u[k] \in Document
  OBVIOUS
<1>2. ASSUME NEW k \in 1 .. Len(u)
      PROVE  [rule_id |-> u[k].rule_id, priority |-> ParsePriority(u[k].priority),
              order |-> u[k].order] \in Given
  <2>1. u[k].rule_id \in RuleIds /\ u[k].order \in Int
    BY <1>1 DEF Parses, Document
  <2>2. ParsePriority(u[k].priority) \in Int
    BY ScaleAssumption DEF ParsePriority
  <2> QED BY <2>1, <2>2 DEF Given
<1> QED BY <1>1, <1>2 DEF FromDicts

\* What a program injects is a document, or nothing.
LEMMA InjectedTyped ==
  ASSUME StoreTyped, NEW d \in Injected \cup {Absent}, d # Absent
  PROVE  d \in Document
<1>1. MaxArrivals + injects + 1 \in Int
  BY ArrivalsAssumption DEF StoreTyped
<1> QED BY <1>1 DEF Injected, Document, Doc

\* The invariant of a step that leaves the rule set as it is.
LEMMA SameStore ==
  ASSUME StoreInv, universe' = universe, injects' = injects, newest' = newest,
         CollInv', AppliesNewest'
  PROVE  StoreInv'
<1>1. StoreTyped'
  BY DEF StoreInv, StoreTyped
<1>2. ListOf(universe') = ListOf(universe)
  OBVIOUS
<1>3. \A id \in RuleIds : newest'[id] = BodyOf(ListOf(universe), id)
  BY DEF StoreInv, NewestFirst
<1>4. NewestFirst'
  BY <1>2, <1>3 DEF NewestFirst
<1> QED BY <1>1, <1>4 DEF StoreInv

LEMMA InjectStep ==
  ASSUME StoreInv, NEW id \in RuleIds \cup {Absent}, NEW d \in Injected \cup {Absent},
         InjectRule(id, d)
  PROVE  StoreInv'
<1> DEFINE u == ListOf(universe)
           kept == Removed(u, id)
           w == IF d = Absent THEN kept ELSE Put(kept, d)
<1>1. u \in Seq(Document)
  BY ListTyped DEF StoreInv
<1>2. /\ universe' = w /\ ran' = Absent /\ injects' = injects + 1
      /\ newest' = [i \in RuleIds |-> IF d # Absent /\ d.rule_id = i THEN d.body
                                      ELSE IF id = i THEN Absent ELSE newest[i]]
      /\ UNCHANGED collVars
  BY DEF InjectRule
<1>3. d # Absent => d \in Document
  BY InjectedTyped DEF StoreInv
<1>4. kept \in Seq(Document)
  BY <1>1, DropTyped DEF Removed
<1>5. \A i \in RuleIds : BodyOf(kept, i) = IF id = i THEN Absent ELSE BodyOf(u, i)
  <2>1. \A i \in RuleIds : i \in {id} \ {Absent} <=> id = i
    BY AbsentAssumption
  <2>2. ASSUME NEW i \in RuleIds
        PROVE  BodyOf(Dropping(u, {id} \ {Absent}), i) =
                 IF i \in {id} \ {Absent} THEN Absent ELSE BodyOf(u, i)
    BY <1>1, DropBody
  <2> QED BY <2>1, <2>2 DEF Removed
<1> HIDE DEF u, kept
<1>6. w \in Seq(Document) /\ \A i \in RuleIds :
        BodyOf(w, i) = IF d # Absent /\ d.rule_id = i THEN d.body ELSE BodyOf(kept, i)
  <2>1. CASE d = Absent
    BY <1>4, <2>1
  <2>2. CASE d # Absent
    <3>1. d \in Document
      BY <1>3, <2>2
    <3>2. ASSUME NEW i \in RuleIds
          PROVE  /\ Put(kept, d) \in Seq(Document)
                 /\ BodyOf(Put(kept, d), i) = IF d.rule_id = i THEN d.body ELSE BodyOf(kept, i)
      <4>1. i # Absent
        BY AbsentAssumption
      <4> QED BY <1>4, <3>1, <4>1, PutBody
    <3>3. Put(kept, d) \in Seq(Document)
      BY <1>4, <3>1, PutTyped
    <3> QED BY <2>2, <3>2, <3>3
  <2> QED BY <2>1, <2>2
<1> HIDE DEF w
<1>7. CollInv'
  BY <1>2, NextInv DEF StoreInv
<1>8. StoreTyped'
  BY <1>2, <1>6 DEF StoreInv, StoreTyped
<1>9. ListOf(universe') = w
  BY <1>2, <1>6, ListTyped DEF StoreInv
<1>10. NewestFirst'
  <2>1. \A i \in RuleIds : newest[i] = BodyOf(u, i)
    BY DEF StoreInv, NewestFirst, u
  <2>2. ASSUME NEW i \in RuleIds PROVE newest'[i] = BodyOf(w, i)
    BY <1>2, <1>5, <1>6, <2>1
  <2> QED BY <1>9, <2>2 DEF NewestFirst
<1>11. AppliesNewest'
  BY <1>2 DEF AppliesNewest
<1> QED BY <1>7, <1>8, <1>10, <1>11 DEF StoreInv

LEMMA StoreStep ==
  ASSUME StoreInv, [Next]_vars
  PROVE  StoreInv'
<1>1. CASE HostChanges
  <2>1. CollInv'
    BY <1>1, NextInv DEF StoreInv, HostChanges
  <2>2. AppliesNewest'
    BY <1>1 DEF HostChanges, Silent, AppliesNewest
  <2> QED BY <1>1, <2>1, <2>2, SameStore DEF HostChanges
<1>2. CASE Publish
  <2>1. CollInv'
    BY <1>2, NextInv DEF StoreInv, Publish
  <2>2. universe' = ToValue(rules) /\ ToValue(rules) \in Seq(Document) /\ injects' = injects
    BY <1>2, PublishedTyped DEF Publish, StoreInv
  <2>3. StoreTyped'
    BY <2>2 DEF StoreTyped, StoreInv
  <2>4. ListOf(universe') = ToValue(rules)
    BY <2>2, ListTyped DEF StoreInv
  <2>5. \A id \in RuleIds : newest'[id] = BodyOf(ToValue(rules), id)
    BY <1>2 DEF Publish
  <2>6. NewestFirst'
    BY <2>4, <2>5 DEF NewestFirst
  <2> QED BY <1>2, <2>1, <2>3, <2>6 DEF Publish, Silent, StoreInv, AppliesNewest
<1>3. CASE Load
  <2>1. universe \in Seq(Document) /\ \A k \in DOMAIN universe : Parses(universe[k])
    BY <1>3 DEF Load, StoreInv, StoreTyped
  <2>2. CollInv'
    BY <1>3, <2>1, ParsedTyped, FromVecInv DEF Load, StoreInv
  <2>3. AppliesNewest'
    BY <1>3 DEF Load, Silent, AppliesNewest
  <2> QED BY <1>3, <2>2, <2>3, SameStore DEF Load
<1>4. ASSUME NEW id \in RuleIds \cup {Absent}, NEW d \in Injected \cup {Absent},
             InjectRule(id, d)
      PROVE  StoreInv'
  BY <1>4, InjectStep
<1>5. ASSUME NEW id \in RuleIds, ApplyRule(id)
      PROVE  StoreInv'
  <2>1. universe # Absent
    BY <1>5 DEF ApplyRule, ListOf, Holds
  <2>2. ran' = [body |-> BodyOf(universe, id), newest |-> newest[id]]
    BY <1>5 DEF ApplyRule
  <2>3. newest[id] = BodyOf(universe, id)
    BY <2>1 DEF StoreInv, NewestFirst, ListOf
  <2>4. AppliesNewest'
    BY <2>2, <2>3 DEF AppliesNewest
  <2>5. CollInv'
    BY <1>5, NextInv DEF StoreInv, ApplyRule
  <2> QED BY <1>5, <2>4, <2>5, SameStore DEF ApplyRule
<1>6. CASE UNCHANGED vars
  <2>1. CollInv'
    BY <1>6, NextInv DEF StoreInv, vars
  <2>2. AppliesNewest'
    BY <1>6 DEF vars, storeVars, StoreInv, AppliesNewest
  <2> QED BY <1>6, <2>1, <2>2, SameStore DEF vars, storeVars
<1> QED BY <1>1, <1>2, <1>3, <1>4, <1>5, <1>6 DEF Next

LEMMA StoreInit ==
  Init => StoreInv
<1> SUFFICES ASSUME Init PROVE StoreInv
  OBVIOUS
<1>1. CollInv
  BY InitInv DEF Init
<1>2. \A id \in RuleIds : ~Holds(<<>>, id) /\ BodyOf(<<>>, id) = Absent
  BY DEF Holds, BodyOf
<1> QED BY <1>1, <1>2 DEF Init, StoreInv, StoreTyped, NewestFirst, AppliesNewest, ListOf

THEOREM StoreInvariant == Spec => []StoreInv
BY StoreInit, StoreStep, PTL DEF Spec

(* A host that also publishes and loads its collection, beside programs    *)
(* that change the rule set in the state, has it in order all the time.    *)
THEOREM StoreInOrder == Spec => []RulesInOrder
<1>1. StoreInv => RulesInOrder
  BY PriorityFollows DEF StoreInv
<1> QED BY <1>1, StoreInvariant, PTL

(* apply_rule by rule_id runs what the host or a program gave that id      *)
(* last, through every mix of publishing, injecting, replacing and         *)
(* removing, and with any number of rules of one id in the list.           *)
THEOREM NewestRuns == Spec => []AppliesNewest
<1>1. StoreInv => AppliesNewest
  BY DEF StoreInv
<1> QED BY <1>1, StoreInvariant, PTL
-----------------------------------------------------------------------------
(* Publishing and loading.                                                 *)

\* Only the identity keeps the order of 1 .. n.
LEMMA IncreasingIsIdentity ==
  ASSUME NEW n \in Nat, NEW p \in [1 .. n -> 1 .. n],
         \A j, k \in 1 .. n : j < k => p[j] < p[k]
  PROVE  \A k \in 1 .. n : p[k] = k
<1>1. \A k \in 1 .. n : p[k] \in 1 .. n
  OBVIOUS
<1>2. \A k \in 1 .. n : p[k] >= k
  <2> DEFINE T == {k \in 1 .. n : p[k] < k}
  <2>1. SUFFICES ASSUME T # {} PROVE FALSE
    BY <1>1
  <2>2. T \subseteq Nat
    OBVIOUS
  <2>3. PICK m \in T : \A k \in T : m <= k
    <3> HIDE DEF T
    <3> QED BY <2>1, <2>2, Least
  <2>4. m \in 1 .. n /\ p[m] < m
    BY <2>3
  <2>5. m - 1 \in 1 .. n
    BY <1>1, <2>4
  <2>6. m - 1 \notin T
    <3>1. ~(m <= m - 1)
      BY <2>4
    <3> HIDE DEF T
    <3> QED BY <2>3, <3>1
  <2>7. p[m - 1] < p[m] /\ p[m - 1] \in 1 .. n /\ p[m] \in 1 .. n
    BY <1>1, <2>4, <2>5
  <2>8. ~(p[m - 1] < m - 1)
    BY <2>5, <2>6
  <2> QED BY <2>4, <2>7, <2>8
<1>3. \A k \in 1 .. n : p[k] <= k
  <2> DEFINE T == {j \in 0 .. n - 1 : p[n - j] > n - j}
  <2>1. SUFFICES ASSUME NEW i \in 1 .. n, p[i] > i PROVE FALSE
    BY <1>1
  <2>2. n - i \in T /\ T \subseteq Nat
    <3>1. n - i \in 0 .. n - 1 /\ n - (n - i) = i
      OBVIOUS
    <3> QED BY <2>1, <3>1
  <2>3. PICK m \in T : \A j \in T : m <= j
    <3> HIDE DEF T
    <3> QED BY <2>2, Least
  <2>4. m \in 0 .. n - 1 /\ p[n - m] > n - m /\ n - m \in 1 .. n
    BY <2>3
  <2>5. m # 0
    <3>1. m = 0 => n - m = n
      OBVIOUS
    <3> QED BY <1>1, <2>4, <3>1
  <2>6. m - 1 \in 0 .. n - 1 /\ n - (m - 1) \in 1 .. n /\ n - m < n - (m - 1)
    BY <2>4, <2>5
  <2>7. m - 1 \notin T
    <3>1. ~(m <= m - 1)
      BY <2>4
    <3> HIDE DEF T
    <3> QED BY <2>3, <3>1
  <2>8. ~(p[n - (m - 1)] > n - (m - 1))
    BY <2>6, <2>7
  <2>9. /\ p[n - m] < p[n - (m - 1)]
        /\ p[n - m] \in 1 .. n /\ p[n - (m - 1)] \in 1 .. n
    BY <1>1, <2>4, <2>6
  <2> QED BY <2>4, <2>8, <2>9
<1> QED BY <1>1, <1>2, <1>3

\* Sorting a list that is in order changes nothing.
LEMMA SortOfSorted ==
  ASSUME NEW n \in Nat, NEW s, DOMAIN s = 1 .. n,
         \A k \in 1 .. n : Weight(s[k]) \in Int,
         \A j, k \in 1 .. n : j < k => Weight(s[j]) >= Weight(s[k]),
         NEW t \in StableSorts(s)
  PROVE  DOMAIN t = 1 .. n /\ \A k \in 1 .. n : t[k] = s[k]
<1>1. IsStableSort(t, s)
  BY DEF StableSorts
<1>2. PICK p \in [1 .. n -> 1 .. n] :
        /\ t = [k \in 1 .. n |-> s[p[k]]]
        /\ \A j, k \in 1 .. n :
             j < k => \/ Weight(s[p[j]]) > Weight(s[p[k]])
                      \/ Weight(s[p[j]]) = Weight(s[p[k]]) /\ p[j] < p[k]
  BY <1>1 DEF IsStableSort
<1>3. ASSUME NEW j \in 1 .. n, NEW k \in 1 .. n, j < k
      PROVE  p[j] < p[k]
  <2> DEFINE a == p[j]
             b == p[k]
  <2>1. a \in 1 .. n /\ b \in 1 .. n
    OBVIOUS
  <2>2. \/ Weight(s[a]) > Weight(s[b])
        \/ Weight(s[a]) = Weight(s[b]) /\ a < b
    BY <1>2, <1>3
  <2> HIDE DEF a, b
  <2>3. Weight(s[a]) \in Int /\ Weight(s[b]) \in Int
    BY <2>1
  <2>4. ~(b < a) /\ a # b
    BY <2>1, <2>2, <2>3
  <2>5. a < b
    BY <2>1, <2>4
  <2> QED BY <2>5 DEF a, b
<1>4. \A k \in 1 .. n : p[k] = k
  BY <1>3, IncreasingIsIdentity
<1> QED BY <1>2, <1>4

LEMMA LoadsInOrder ==
  ASSUME StoreInv
  PROVE  LoadKeepsOrder
<1> SUFFICES ASSUME universe = ToValue(rules), ~dirty,
                    \A k \in DOMAIN rules : rules[k].priority \in 0 .. MaxPriority
             PROVE  LET given == FromDicts(universe)
                    IN  \A t \in StableSorts([k \in DOMAIN given |->
                                                Rule(given[k].rule_id, given[k], k)]) :
                          \A k \in DOMAIN t : t[k].rule_id = rules[k].rule_id /\ t[k].seq = k
  BY DEF LoadKeepsOrder
<1> DEFINE n == Len(rules)
           given == FromDicts(universe)
           s == [k \in DOMAIN given |-> Rule(given[k].rule_id, given[k], k)]
<1>1. /\ n \in Nat /\ DOMAIN rules = 1 .. n
      /\ \A k \in 1 .. n : rules[k] \in RuleType /\ Weight(rules[k]) \in Int
  BY RulesAreTyped DEF StoreInv, CollInv
<1>2. \A j, k \in 1 .. n : j < k => Weight(rules[j]) >= Weight(rules[k])
  BY <1>1 DEF StoreInv, CollInv, HeaviestFirst
<1> HIDE DEF n
<1>3. DOMAIN given = 1 .. n
  BY <1>1 DEF FromDicts, ToValue
<1>4. \A k \in 1 .. n : /\ given[k].rule_id = rules[k].rule_id
                        /\ given[k].priority = rules[k].priority
                        /\ given[k].order = rules[k].order
  BY <1>1, <1>3 DEF FromDicts, ToValue, Doc, ParsePriority
<1> HIDE DEF given
<1>5. DOMAIN s = 1 .. n
  BY <1>3
<1>6. \A k \in 1 .. n : /\ s[k].rule_id = rules[k].rule_id
                        /\ s[k].seq = k
                        /\ Weight(s[k]) = Weight(rules[k])
  BY <1>3, <1>4 DEF Rule, Weight
<1> HIDE DEF s
<1>7. ASSUME NEW t \in StableSorts(s)
      PROVE  \A k \in DOMAIN t : t[k].rule_id = rules[k].rule_id /\ t[k].seq = k
  <2>1. \A k \in 1 .. n : Weight(s[k]) \in Int
    BY <1>1, <1>6
  <2>2. \A j, k \in 1 .. n : j < k => Weight(s[j]) >= Weight(s[k])
    BY <1>2, <1>6
  <2>3. DOMAIN t = 1 .. n /\ \A k \in 1 .. n : t[k] = s[k]
    BY <1>1, <1>5, <2>1, <2>2, SortOfSorted
  <2> QED BY <1>6, <2>3
<1> QED BY <1>7 DEF s, given

(* A host that loads the rules it published gets them back in the order it *)
(* had them in, whatever from_vec sorts with: among all arrangements a     *)
(* stable sort may return there is one only.                               *)
THEOREM LoadRestoresOrder == Spec => []LoadKeepsOrder
<1>1. StoreInv => LoadKeepsOrder
  BY LoadsInOrder
<1> QED BY <1>1, StoreInvariant, PTL
-----------------------------------------------------------------------------
(* What inject_rule reports.                                               *)

\* A filter by no ids keeps everything.
LEMMA DropNothing ==
  ASSUME NEW S, NEW u \in Seq(S)
  PROVE  Dropping(u, {}) = u
<1> DEFINE Good == {v \in Seq(S) : Dropping(v, {}) = v}
<1>1. <<>> \in Good
  <2>1. <<>> \in Seq(S)
    OBVIOUS
  <2> QED BY <2>1, DropNone
<1>2. ASSUME NEW v \in Seq(S), NEW d \in S, v \in Good
      PROVE  Append(v, d) \in Good
  <2>1. Append(v, d) \in Seq(S)
    OBVIOUS
  <2>2. Dropping(Append(v, d), {}) = Append(Dropping(v, {}), d)
    BY DropAppend
  <2> QED BY <1>2, <2>1, <2>2
<1>3. Seq(S) \subseteq Good
  <2> HIDE DEF Good
  <2> QED BY <1>1, <1>2, ListInduction
<1> QED BY <1>3

\* Of two filters the wider one decides.
LEMMA DropTwice ==
  ASSUME NEW S, NEW u \in Seq(S), NEW few, NEW ids, few \subseteq ids
  PROVE  Dropping(Dropping(u, few), ids) = Dropping(u, ids)
<1> DEFINE Good == {v \in Seq(S) : Dropping(Dropping(v, few), ids) = Dropping(v, ids)}
<1>1. <<>> \in Good
  <2>1. <<>> \in Seq(S)
    OBVIOUS
  <2> QED BY <2>1, DropNone
<1>2. ASSUME NEW v \in Seq(S), NEW d \in S, v \in Good
      PROVE  Append(v, d) \in Good
  <2> DEFINE w == Dropping(v, few)
             x == Dropping(v, ids)
  <2>1. Append(v, d) \in Seq(S) /\ w \in Seq(S)
    BY DropTyped
  <2>2. Dropping(w, ids) = x
    BY <1>2
  <2>3. Dropping(Append(v, d), few) = IF d.rule_id \in few THEN w ELSE Append(w, d)
    BY DropAppend
  <2>4. Dropping(Append(v, d), ids) = IF d.rule_id \in ids THEN x ELSE Append(x, d)
    BY DropAppend
  <2> HIDE DEF w
  <2>5. Dropping(Append(w, d), ids) = IF d.rule_id \in ids THEN Dropping(w, ids)
                                      ELSE Append(Dropping(w, ids), d)
    BY <2>1, DropAppend
  <2> HIDE DEF x
  <2>6. Dropping(Dropping(Append(v, d), few), ids) = Dropping(Append(v, d), ids)
    BY <2>2, <2>3, <2>4, <2>5
  <2> QED BY <2>1, <2>6
<1>3. Seq(S) \subseteq Good
  <2> HIDE DEF Good
  <2> QED BY <1>1, <1>2, ListInduction
<1> QED BY <1>3

\* How many documents there are of an id.
LEMMA CountNone ==
  ASSUME NEW id
  PROVE  Count(<<>>, id) = 0
<1>1. {k \in DOMAIN <<>> : <<>>[k].rule_id = id} = {}
  OBVIOUS
<1> QED BY <1>1, FS_EmptySet DEF Count

LEMMA CountFinite ==
  ASSUME NEW S, NEW u \in Seq(S), NEW id
  PROVE  /\ IsFiniteSet({k \in DOMAIN u : u[k].rule_id = id})
         /\ Count(u, id) \in Nat
         /\ Count(u, id) = 0 <=> ~Holds(u, id)
<1> DEFINE T == {k \in DOMAIN u : u[k].rule_id = id}
<1>1. DOMAIN u = 1 .. Len(u) /\ Len(u) \in Int /\ 1 \in Int
  OBVIOUS
<1>2. IsFiniteSet(1 .. Len(u))
  BY <1>1, FS_Interval
<1>3. IsFiniteSet(T)
  BY <1>1, <1>2, FS_Subset
<1>4. T = {} <=> ~Holds(u, id)
  BY DEF Holds
<1>5. Count(u, id) = Cardinality(T)
  BY DEF Count
<1> HIDE DEF T
<1>6. Cardinality(T) \in Nat /\ (Cardinality(T) = 0 <=> T = {})
  BY <1>3, FS_CardinalityType, FS_EmptySet
<1> QED BY <1>3, <1>4, <1>5, <1>6 DEF T

LEMMA CountAppend ==
  ASSUME NEW S, NEW u \in Seq(S), NEW d \in S, NEW id
  PROVE  Count(Append(u, d), id) = IF d.rule_id = id THEN Count(u, id) + 1
                                   ELSE Count(u, id)
<1> DEFINE n == Len(u)
           v == Append(u, d)
           T == {k \in DOMAIN u : u[k].rule_id = id}
           V == {k \in DOMAIN v : v[k].rule_id = id}
<1>1. /\ n \in Nat /\ DOMAIN u = 1 .. n /\ DOMAIN v = 1 .. n + 1
      /\ v[n + 1] = d /\ \A k \in 1 .. n : v[k] = u[k]
  OBVIOUS
<1>2. \A k : k \in 1 .. n + 1 <=> k \in 1 .. n \/ k = n + 1
  BY <1>1
<1>3. IsFiniteSet(T) /\ Count(u, id) = Cardinality(T) /\ Count(v, id) = Cardinality(V)
  BY CountFinite DEF Count
<1>4. n + 1 \notin T
  BY <1>1
<1> HIDE DEF v, n
<1>5. CASE d.rule_id = id
  <2>1. V = T \cup {n + 1}
    BY <1>1, <1>2, <1>5
  <2> HIDE DEF T, V
  <2>2. Cardinality(V) = Cardinality(T) + 1
    BY <1>3, <1>4, <2>1, FS_AddElement
  <2> QED BY <1>3, <1>5, <2>2 DEF v
<1>6. CASE d.rule_id # id
  <2>1. V = T
    BY <1>1, <1>2, <1>6
  <2> HIDE DEF T, V
  <2> QED BY <1>3, <1>6, <2>1 DEF v
<1> QED BY <1>5, <1>6

\* What a filter takes away: all documents of its ids and no others.
LEMMA DropCounts ==
  ASSUME NEW S, NEW u \in Seq(S), NEW id, NEW ids
  PROVE  /\ Count(Dropping(u, ids), id) = IF id \in ids THEN 0 ELSE Count(u, id)
         /\ ids = {id} => Len(u) - Len(Dropping(u, ids)) = Count(u, id)
<1> DEFINE Counted(v) ==
             /\ Count(Dropping(v, ids), id) = IF id \in ids THEN 0 ELSE Count(v, id)
             /\ ids = {id} => Len(v) - Len(Dropping(v, ids)) = Count(v, id)
           Good == {v \in Seq(S) : Counted(v)}
<1>1. <<>> \in Good
  <2>1. <<>> \in Seq(S) /\ Len(<<>>) = 0
    OBVIOUS
  <2>2. Counted(<<>>)
    BY <2>1, DropNone, CountNone
  <2> HIDE DEF Counted
  <2> QED BY <2>1, <2>2
<1>2. ASSUME NEW v \in Seq(S), NEW d \in S, v \in Good
      PROVE  Append(v, d) \in Good
  <2> DEFINE w == Dropping(v, ids)
  <2>1. Append(v, d) \in Seq(S) /\ w \in Seq(S)
    BY DropTyped
  <2>2. /\ Count(w, id) = IF id \in ids THEN 0 ELSE Count(v, id)
        /\ ids = {id} => Len(v) - Len(w) = Count(v, id)
    BY <1>2
  <2>3. Dropping(Append(v, d), ids) = IF d.rule_id \in ids THEN w ELSE Append(w, d)
    BY DropAppend
  <2> HIDE DEF w
  <2>4. Count(Append(v, d), id) = IF d.rule_id = id THEN Count(v, id) + 1 ELSE Count(v, id)
    BY CountAppend
  <2>5. Count(Append(w, d), id) = IF d.rule_id = id THEN Count(w, id) + 1 ELSE Count(w, id)
    BY <2>1, CountAppend
  <2>6. Count(v, id) \in Nat /\ Count(w, id) \in Nat
    BY <2>1, CountFinite
  <2>7. /\ Len(v) \in Nat /\ Len(w) \in Nat
        /\ Len(Append(v, d)) = Len(v) + 1 /\ Len(Append(w, d)) = Len(w) + 1
    BY <2>1
  <2>8. Counted(Append(v, d))
    <3>1. CASE d.rule_id \in ids
      <4>1. Dropping(Append(v, d), ids) = w
        BY <2>3, <3>1
      <4>2. ids = {id} => d.rule_id = id
        BY <3>1
      <4>3. id \notin ids => d.rule_id # id
        BY <3>1
      <4> QED BY <2>2, <2>4, <2>6, <2>7, <4>1, <4>2, <4>3
    <3>2. CASE d.rule_id \notin ids
      <4>1. Dropping(Append(v, d), ids) = Append(w, d)
        BY <2>3, <3>2
      <4>2. id \in ids => d.rule_id # id
        BY <3>2
      <4> QED BY <2>2, <2>4, <2>5, <2>6, <2>7, <4>1, <4>2
    <3> QED BY <3>1, <3>2
  <2> HIDE DEF Counted
  <2> QED BY <2>1, <2>8
<1>3. Seq(S) \subseteq Good
  <2> HIDE DEF Good
  <2> QED BY <1>1, <1>2, ListInduction
<1> QED BY <1>3

\* What a document that is put takes the place of: at most the first of its
\* own id, so the others stay, and the ids stay where they are.
LEMMA PutKeepsOthers ==
  ASSUME NEW S, NEW u \in Seq(S), NEW d \in S
  PROVE  /\ Len(Put(u, d)) = IF Replaces(u, d) THEN Len(u) ELSE Len(u) + 1
         /\ \A ids : d.rule_id \in ids => Dropping(Put(u, d), ids) = Dropping(u, ids)
         /\ Replaces(u, d) =>
              \A id : /\ Holds(Put(u, d), id) <=> Holds(u, id)
                      /\ Count(Put(u, d), id) = Count(u, id)
<1>1. CASE Replaces(u, d)
  <2> DEFINE p == Find(u, d.rule_id)
             v == [u EXCEPT ![p] = d]
  <2>1. p \in 1 .. Len(u) /\ u[p].rule_id = d.rule_id
    BY <1>1, FindsFirst DEF Replaces, IsFirst
  <2>2. Put(u, d) = v
    BY <1>1 DEF Put
  <2> HIDE DEF p
  <2>3. /\ v \in Seq(S) /\ Len(v) = Len(u) /\ Len(u) \in Nat
        /\ DOMAIN v = 1 .. Len(u) /\ DOMAIN u = 1 .. Len(u)
        /\ \A k \in 1 .. Len(u) : v[k] = IF k = p THEN d ELSE u[k]
    BY <2>1
  <2> HIDE DEF v
  <2>4. \A k \in 1 .. Len(u) : v[k].rule_id = u[k].rule_id
    BY <2>1, <2>3
  <2>5. ASSUME NEW ids, d.rule_id \in ids
        PROVE  Dropping(v, ids) = Dropping(u, ids)
    <3>1. \A k \in 1 .. Len(u) :
            v[k] = u[k] \/ (v[k].rule_id \in ids /\ u[k].rule_id \in ids)
      BY <2>1, <2>3, <2>5
    <3>2. KeptOf(v, ids)[Len(u)] = KeptOf(u, ids)[Len(u)]
      <4> DEFINE n == Len(u)
      <4>1. n \in Nat /\ Len(v) \in Nat /\ n <= Len(v) /\ n <= Len(u)
        BY <2>3
      <4>2. \A k \in 1 .. n :
              v[k] = u[k] \/ (v[k].rule_id \in ids /\ u[k].rule_id \in ids)
        BY <3>1
      <4>3. Len(u) \in Nat
        BY <2>3
      <4> HIDE DEF n
      <4>4. KeptOf(v, ids)[n] = KeptOf(u, ids)[n]
        BY ONLY <4>1, <4>2, <4>3, KeptAlike
      <4> QED BY <4>4 DEF n
    <3> QED BY <2>3, <3>2 DEF Dropping
  <2>6. ASSUME NEW id
        PROVE  (Holds(v, id) <=> Holds(u, id)) /\ Count(v, id) = Count(u, id)
    <3>1. {k \in DOMAIN v : v[k].rule_id = id} = {k \in DOMAIN u : u[k].rule_id = id}
      BY <2>3, <2>4
    <3>2. Holds(v, id) <=> Holds(u, id)
      BY <2>3, <2>4 DEF Holds
    <3> QED BY <3>1, <3>2 DEF Count
  <2> QED BY <1>1, <2>2, <2>3, <2>5, <2>6
<1>2. CASE ~Replaces(u, d)
  <2>1. Put(u, d) = Append(u, d) /\ Len(Append(u, d)) = Len(u) + 1
    BY <1>2 DEF Put
  <2>2. ASSUME NEW ids, d.rule_id \in ids
        PROVE  Dropping(Append(u, d), ids) = Dropping(u, ids)
    BY <2>2, DropAppend
  <2> QED BY <1>2, <2>1, <2>2
<1> QED BY <1>1, <1>2

\* Uniqueness, id by id.
LEMMA UniqueMeans ==
  ASSUME NEW u
  PROVE  Unique(u) <=> \A id : id # Absent /\ Holds(u, id) => Count(u, id) = 1
BY DEF Unique, IdsOf, Holds

\* A list without duplicates has none after a filter and none after a put.
LEMMA UniqueKept ==
  ASSUME NEW S, NEW u \in Seq(S), NEW ids, Unique(u)
  PROVE  Unique(Dropping(u, ids))
<1>1. ASSUME NEW id, id # Absent, Holds(Dropping(u, ids), id)
      PROVE  Count(Dropping(u, ids), id) = 1
  <2>1. id \notin ids /\ Holds(u, id)
    BY <1>1, DropBody
  <2>2. Count(u, id) = 1
    BY <1>1, <2>1, UniqueMeans
  <2>3. Count(Dropping(u, ids), id) = IF id \in ids THEN 0 ELSE Count(u, id)
    BY DropCounts
  <2> QED BY <2>1, <2>2, <2>3
<1> QED BY <1>1, UniqueMeans

LEMMA UniquePut ==
  ASSUME NEW S, NEW u \in Seq(S), NEW d \in S, Unique(u)
  PROVE  Unique(Put(u, d))
<1>1. ASSUME NEW id, id # Absent, Holds(Put(u, d), id)
      PROVE  Count(Put(u, d), id) = 1
  <2>1. CASE Replaces(u, d)
    <3>1. Holds(u, id) /\ Count(Put(u, d), id) = Count(u, id)
      BY <1>1, <2>1, PutKeepsOthers
    <3> QED BY <1>1, <3>1, UniqueMeans
  <2>2. CASE ~Replaces(u, d)
    <3>1. Put(u, d) = Append(u, d)
      BY <2>2 DEF Put
    <3>2. Count(Append(u, d), id) = IF d.rule_id = id THEN Count(u, id) + 1 ELSE Count(u, id)
      BY CountAppend
    <3>3. Holds(u, id) \/ d.rule_id = id
      BY <1>1, <3>1, HoldsAppend
    <3>4. Holds(u, id) => Count(u, id) = 1
      BY <1>1, UniqueMeans
    <3>5. ~Holds(u, id) => Count(u, id) = 0
      BY CountFinite
    <3>6. d.rule_id = id => ~Holds(u, id)
      BY <1>1, <2>2 DEF Replaces
    <3> QED BY <3>1, <3>2, <3>3, <3>4, <3>5, <3>6
  <2> QED BY <2>1, <2>2
<1> QED BY <1>1, UniqueMeans

\* What a change of the rule set must account for.
Accounts(u, w, r) ==
  LET asked == {r.remove, r.add}
  IN  /\ r.total_rules = Len(w)
      /\ Len(w) = Len(u) - r.removed_count + r.added_count
      /\ r.removed_count = IF r.remove = Absent THEN 0 ELSE Count(u, r.remove)
      /\ Unique(u) => Unique(w)
      /\ Dropping(w, asked) = Dropping(u, asked)

LEMMA InjectCounts ==
  ASSUME NEW S, NEW u \in Seq(S), NEW id, NEW d \in S \cup {Absent}
  PROVE  LET kept == Removed(u, id)
             w == IF d = Absent THEN kept ELSE Put(kept, d)
         IN  Accounts(u, w, InjectResult(u, id, d))
<1> DEFINE few == {id} \ {Absent}
           kept == Removed(u, id)
           w == IF d = Absent THEN kept ELSE Put(kept, d)
           r == InjectResult(u, id, d)
           asked == {r.remove, r.add}
<1>1. kept = Dropping(u, few) /\ kept \in Seq(S)
  BY DropTyped DEF Removed
<1>2. /\ r.removed_count = Len(u) - Len(kept)
      /\ r.added_count = IF d = Absent THEN 0 ELSE IF Replaces(kept, d) THEN 0 ELSE 1
      /\ r.total_rules = Len(w)
      /\ r.remove = id
      /\ r.add = IF d = Absent THEN Absent ELSE d.rule_id
  BY DEF InjectResult
<1> HIDE DEF kept, r
<1>3. Len(u) \in Nat /\ Len(kept) \in Nat
  BY <1>1
<1>4. Len(w) = Len(u) - r.removed_count + r.added_count
  <2>1. CASE d = Absent
    BY <1>2, <1>3, <2>1
  <2>2. CASE d # Absent
    <3>1. Len(Put(kept, d)) = IF Replaces(kept, d) THEN Len(kept) ELSE Len(kept) + 1
      BY <1>1, <2>2, PutKeepsOthers
    <3> QED BY <1>2, <1>3, <2>2, <3>1
  <2> QED BY <2>1, <2>2
<1>5. r.removed_count = IF r.remove = Absent THEN 0 ELSE Count(u, r.remove)
  <2>1. CASE id = Absent
    <3>1. few = {}
      BY <2>1
    <3>2. kept = u
      BY <1>1, <3>1, DropNothing
    <3> QED BY <1>2, <1>3, <2>1, <3>2
  <2>2. CASE id # Absent
    <3>1. few = {id}
      BY <2>2
    <3> HIDE DEF few
    <3>2. Len(u) - Len(Dropping(u, few)) = Count(u, id)
      BY <3>1, DropCounts
    <3> QED BY <1>1, <1>2, <2>2, <3>2
  <2> QED BY <2>1, <2>2
<1>6. ASSUME Unique(u) PROVE Unique(w)
  <2>1. Unique(kept)
    BY <1>1, <1>6, UniqueKept
  <2>2. CASE d = Absent
    BY <2>1, <2>2
  <2>3. CASE d # Absent
    <3>1. Unique(Put(kept, d))
      BY <1>1, <2>1, <2>3, UniquePut
    <3> QED BY <2>3, <3>1
  <2> QED BY <2>2, <2>3
<1>7. Dropping(w, asked) = Dropping(u, asked)
  <2>1. few \subseteq asked
    BY <1>2
  <2>2. d # Absent => d.rule_id \in asked
    BY <1>2
  <2> HIDE DEF few, asked
  <2>3. Dropping(kept, asked) = Dropping(u, asked)
    BY <1>1, <2>1, DropTwice
  <2>4. CASE d = Absent
    BY <2>3, <2>4
  <2>5. CASE d # Absent
    <3>1. Dropping(Put(kept, d), asked) = Dropping(kept, asked)
      BY <1>1, <2>2, <2>5, PutKeepsOthers
    <3> QED BY <2>3, <2>5, <3>1
  <2> QED BY <2>4, <2>5
<1> QED BY <1>2, <1>4, <1>5, <1>6, <1>7 DEF Accounts, kept, r

LEMMA InjectAccountsStep ==
  ASSUME StoreInv, [Next]_vars, injects' # injects
  PROVE  Accounts(ListOf(universe), universe', result')
<1>1. PICK id \in RuleIds \cup {Absent}, d \in Injected \cup {Absent} : InjectRule(id, d)
  BY DEF Next, vars, storeVars, HostChanges, Publish, Load, ApplyRule
<1> DEFINE u == ListOf(universe)
           kept == Removed(u, id)
           w == IF d = Absent THEN kept ELSE Put(kept, d)
<1>2. u \in Seq(Document)
  BY ListTyped DEF StoreInv
<1>3. d \in Document \cup {Absent}
  BY InjectedTyped DEF StoreInv
<1>4. universe' = w /\ result' = InjectResult(u, id, d)
  BY <1>1 DEF InjectRule
<1> HIDE DEF u
<1>5. Accounts(u, w, InjectResult(u, id, d))
  BY <1>2, <1>3, InjectCounts
<1> HIDE DEF w
<1> QED BY <1>4, <1>5 DEF u

(* inject_rule reports what it did, keeps a rule set without duplicates    *)
(* free of them, and leaves the rules it was not asked about alone, in a   *)
(* list of any length and with any number of rules of one id.              *)
THEOREM InjectReports == Spec => InjectAccounts
<1>1. StoreInv /\ [Next]_vars =>
        [injects' # injects =>
           LET u == ListOf(universe)
               r == result'
               asked == {r.remove, r.add}
           IN  /\ r.total_rules = Len(universe')
               /\ Len(universe') = Len(u) - r.removed_count + r.added_count
               /\ r.removed_count = IF r.remove = Absent THEN 0 ELSE Count(u, r.remove)
               /\ Unique(u) => Unique(universe')
               /\ Dropping(universe', asked) = Dropping(u, asked)]_vars
  BY InjectAccountsStep DEF Accounts
<1> QED BY <1>1, StoreInvariant, PTL DEF Spec, InjectAccounts
=============================================================================
