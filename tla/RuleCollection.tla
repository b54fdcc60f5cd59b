---------------------------- MODULE RuleCollection ----------------------------
(***************************************************************************)
(* RuleCollection and Rule::weight of rule.rs: the container a host keeps  *)
(* its rules in, ordered by weight, heaviest first.                        *)
(*                                                                         *)
(* A rule keeps what decides its place: its rule_id, priority and order,   *)
(* which the host may set to any i64 (the fields are public; only          *)
(* Rule::from_dict looks at the range).  `seq` is a history field: the     *)
(* number under which the rule came in.  The slice's sort_by_key is the    *)
(* standard library's and modelled by its contract, a stable sort.         *)
(***************************************************************************)
EXTENDS Integers, Sequences

CONSTANTS
  RuleIds,       \* rule ids in use
  Weights,       \* pairs of priority and order the host gives to rules
  Scale,         \* 10000 in the code: what a priority counts in orders
  MaxPriority,   \* MAX_PRIORITY, 10000 in the code
  IntLimit,      \* 2^63 in the code: integers are in -IntLimit .. IntLimit - 1
  MaxArrivals    \* bound: how many rules come in

ASSUME ScaleAssumption == Scale \in Nat \ {0} /\ MaxPriority \in Nat
ASSUME LimitAssumption ==
  IntLimit \in Nat \ {0} /\ MaxPriority * Scale + Scale <= IntLimit
ASSUME WeightsAssumption == Weights \subseteq [priority : Int, order : Int]
ASSUME ArrivalsAssumption == MaxArrivals \in Nat

VARIABLES
  rules,      \* RuleCollection.rules
  arrivals,   \* history: how many rules came in
  dirty,      \* history: a weight was changed through get_mut, no sort since
  touched     \* history: the same, since the collection was last rebuilt

collVars == <<rules, arrivals, dirty, touched>>

-----------------------------------------------------------------------------
Rule(id, w, n) == [rule_id |-> id, priority |-> w.priority, order |-> w.order, seq |-> n]

RuleType == [rule_id : RuleIds, priority : Int, order : Int, seq : Int]

\* i64 arithmetic of a release build.
Wrap(n) == ((n + IntLimit) % (2 * IntLimit)) - IntLimit

\* Rule::weight
Weight(r) == Wrap(r.priority * Scale + r.order)

\* s with r put in at position p.
Inserted(s, p, r) ==
  [k \in 1 .. Len(s) + 1 |-> IF k < p THEN s[k] ELSE IF k = p THEN r ELSE s[k - 1]]

\* s without what stands at position p.
Without(s, p) == [k \in 1 .. Len(s) - 1 |-> IF k < p THEN s[k] ELSE s[k + 1]]

\* Where `position` finds the first lighter rule, or the end.
IsPlaceFor(s, p, r) ==
  /\ p \in 1 .. Len(s) + 1
  /\ \A k \in 1 .. p - 1 : Weight(s[k]) >= Weight(r)
  /\ p <= Len(s) => Weight(s[p]) < Weight(r)

\* Where `position` finds the first rule of that id.
IsFirst(s, p, id) ==
  /\ p \in DOMAIN s
  /\ s[p].rule_id = id
  /\ \A k \in 1 .. p - 1 : s[k].rule_id # id

Holds(s, id) == \E p \in DOMAIN s : s[p].rule_id = id

\* t is s sorted by descending weight; rules of one weight keep their order.
IsStableSort(t, s) ==
  \E p \in [DOMAIN s -> DOMAIN s] :
    /\ t = [k \in DOMAIN s |-> s[p[k]]]
    /\ \A j, k \in DOMAIN s :
         j < k => \/ Weight(s[p[j]]) > Weight(s[p[k]])
                  \/ Weight(s[p[j]]) = Weight(s[p[k]]) /\ p[j] < p[k]

StableSorts(s) ==
  {t \in {[k \in DOMAIN s |-> s[p[k]]] : p \in [DOMAIN s -> DOMAIN s]} : IsStableSort(t, s)}
-----------------------------------------------------------------------------
CollInit ==
  /\ rules = <<>>
  /\ arrivals = 0
  /\ dirty = FALSE
  /\ touched = FALSE

\* Mutant of Add: the new rule goes before the first that is not heavier.
AddBeforeEqual(id, w) ==
  /\ arrivals < MaxArrivals
  /\ LET r == Rule(id, w, arrivals + 1)
     IN  \E p \in 1 .. Len(rules) + 1 :
           /\ \A k \in 1 .. p - 1 : Weight(rules[k]) > Weight(r)
           /\ p <= Len(rules) => Weight(rules[p]) <= Weight(r)
           /\ rules' = Inserted(rules, p, r)
  /\ arrivals' = arrivals + 1
  /\ UNCHANGED <<dirty, touched>>

\* RuleCollection::add
Add(id, w) ==
  /\ arrivals < MaxArrivals
  /\ LET r == Rule(id, w, arrivals + 1)
     IN  \E p \in 1 .. Len(rules) + 1 :
           IsPlaceFor(rules, p, r) /\ rules' = Inserted(rules, p, r)
  /\ arrivals' = arrivals + 1
  /\ UNCHANGED <<dirty, touched>>

\* RuleCollection::from_vec takes the place of the collection.
FromVec(given) ==
  /\ arrivals + Len(given) <= MaxArrivals
  /\ rules' \in StableSorts([k \in DOMAIN given |->
                               Rule(given[k].rule_id, given[k], arrivals + k)])
  /\ arrivals' = arrivals + Len(given)
  /\ dirty' = FALSE
  /\ touched' = FALSE

\* RuleCollection::get_mut, and a new priority and order for the rule found.
GetMut(id, w) ==
  /\ \E p \in DOMAIN rules :
       /\ IsFirst(rules, p, id)
       /\ rules' = [rules EXCEPT ![p] = Rule(id, w, rules[p].seq)]
  /\ dirty' = TRUE
  /\ touched' = TRUE
  /\ UNCHANGED arrivals

\* RuleCollection::sort
Sort ==
  /\ rules' \in StableSorts(rules)
  /\ dirty' = FALSE
  /\ UNCHANGED <<arrivals, touched>>

\* RuleCollection::remove: the first rule of that id.
RemoveRule(id) ==
  /\ \E p \in DOMAIN rules : IsFirst(rules, p, id) /\ rules' = Without(rules, p)
  /\ UNCHANGED <<arrivals, dirty, touched>>

\* RuleCollection::clear
Clear ==
  /\ rules' = <<>>
  /\ dirty' = FALSE
  /\ touched' = FALSE
  /\ UNCHANGED arrivals

Given == [rule_id : RuleIds, priority : Int, order : Int]

CollNext ==
  \/ \E id \in RuleIds, w \in Weights : Add(id, w) \/ GetMut(id, w)
  \/ \E n \in 0 .. MaxArrivals : \E ids \in [1 .. n -> RuleIds], ws \in [1 .. n -> Weights] :
       FromVec([k \in 1 .. n |-> [rule_id |-> ids[k], priority |-> ws[k].priority,
                                  order |-> ws[k].order]])
  \/ Sort
  \/ \E id \in RuleIds : RemoveRule(id)
  \/ Clear

CollSpec == CollInit /\ [][CollNext]_collVars
-----------------------------------------------------------------------------
(* Type invariant of the collection.                                       *)
CollTypeOK ==
  /\ rules \in Seq(RuleType)
  /\ arrivals \in Nat
  /\ dirty \in BOOLEAN /\ touched \in BOOLEAN
  /\ dirty => touched

(* add, from_vec and sort keep the heaviest rule first, through every mix  *)
(* of them with remove; only a change through get_mut may break the order, *)
(* until the next sort.                                                    *)
HeaviestFirst ==
  ~dirty => \A j, k \in DOMAIN rules : j < k => Weight(rules[j]) >= Weight(rules[k])

(* A collection no get_mut has touched holds rules of one weight in the    *)
(* order they came in, whether they came through add or from_vec: which of *)
(* two equal rules runs first does not depend on how it was loaded.        *)
EqualsInArrivalOrder ==
  ~touched => \A j, k \in DOMAIN rules :
    j < k /\ Weight(rules[j]) = Weight(rules[k]) => rules[j].seq < rules[k].seq

\* The range in which an order cannot outweigh a priority.
Regular(r) == r.priority \in 0 .. MaxPriority /\ r.order \in 0 .. Scale - 1

(* "higher priority rules execute first" (rule.rs:153): it holds between   *)
(* rules whose priority is in the documented range and whose order is      *)
(* below 10000, and whatever stands between them.                          *)
HigherPriorityFirst ==
  ~dirty => \A j, k \in DOMAIN rules :
    j < k /\ Regular(rules[j]) /\ Regular(rules[k])
      => rules[j].priority >= rules[k].priority

(* The collection is in order, whatever mix of operations made it: by      *)
(* weight, by arrival within a weight, and so by priority (rule.rs:153).   *)
RulesInOrder == HeaviestFirst /\ EqualsInArrivalOrder /\ HigherPriorityFirst

\* Every rule came in under its number.
NumberedInv == \A k \in DOMAIN rules : rules[k].seq \in 1 .. arrivals

CollInv == CollTypeOK /\ NumberedInv /\ HeaviestFirst /\ EqualsInArrivalOrder
=============================================================================
