------------------------------ MODULE RuleStore ------------------------------
(***************************************************************************)
(* The rule set inside the state, __universe_rules__, and the primitives   *)
(* that work on it (primitive/rule_ops.rs): inject_rule and apply_rule,    *)
(* beside the RuleCollection of a host that publishes its rules into the   *)
(* state (RuleCollection::to_value) and loads them back (Rule::from_dict,  *)
(* RuleCollection::from_vec).                                              *)
(*                                                                         *)
(* A rule in the state is a document.  Its transform is a number, `body`,  *)
(* given anew to every document a program or a host writes, or Absent.     *)
(* The rule set and the result are kept under two different attributes.    *)
(* `result` and `ran` keep what the last step reported and ran.            *)
(***************************************************************************)
EXTENDS RuleCollection, FiniteSets

CONSTANTS
  Absent,        \* a parameter, a field or a rule set that is not there
  MaxInjects     \* bound: how often a program changes the rule set

Document == [rule_id : RuleIds \cup {Absent}, priority : Int, order : Int,
             body : Int \cup {Absent}]

ASSUME AbsentAssumption == Absent \notin RuleIds /\ Absent \notin Seq(Document)
ASSUME InjectsAssumption == MaxInjects \in Nat

VARIABLES
  universe,   \* __universe_rules__: a list of documents, or Absent
  result,     \* what this step wrote to __inject_result__, and was asked for
  injects,    \* history: how many changes inject_rule has made
  newest,     \* history: per id, the body last given to it, or Absent
  ran         \* history: what this step ran by rule_id, and the newest then

storeVars == <<universe, result, injects, newest, ran>>
vars == <<collVars, storeVars>>

-----------------------------------------------------------------------------
Doc(id, w, body) ==
  [rule_id |-> id, priority |-> w.priority, order |-> w.order, body |-> body]

\* `Some(Value::List(v)) => v.clone(), _ => im::Vector::new()`
ListOf(u) == IF u = Absent THEN <<>> ELSE u

\* `iter().find`: the position of the first rule of that id.
Find(u, id) == CHOOSE p \in DOMAIN u : IsFirst(u, p, id)

BodyOf(u, id) == IF Holds(u, id) THEN u[Find(u, id)].body ELSE Absent

\* RuleCollection::to_value; the transform of a rule is known by its seq.
ToValue(c) == [k \in DOMAIN c |-> Doc(c[k].rule_id, c[k], c[k].seq)]

\* Rule::from_dict: a priority out of range becomes DEFAULT_PRIORITY.
ParsePriority(n) == IF n \in 0 .. MaxPriority THEN n ELSE 0

Parses(d) == d.rule_id # Absent /\ d.body # Absent

\* Mutant of FromDicts: the order is not read.
FromDictsNoOrder(u) == [k \in DOMAIN u |-> [rule_id |-> u[k].rule_id,
                                            priority |-> ParsePriority(u[k].priority),
                                            order |-> 0]]

FromDicts(u) == [k \in DOMAIN u |-> [rule_id |-> u[k].rule_id,
                                     priority |-> ParsePriority(u[k].priority),
                                     order |-> u[k].order]]
-----------------------------------------------------------------------------
Init ==
  /\ CollInit
  /\ universe = Absent
  /\ result = Absent
  /\ injects = 0
  /\ newest = [id \in RuleIds |-> Absent]
  /\ ran = Absent

\* A step that neither reports nor runs a rule.
Silent == result' = Absent /\ ran' = Absent

\* The operations of the collection.
HostChanges == CollNext /\ Silent /\ UNCHANGED <<universe, injects, newest>>

\* The host writes its collection into the state.
Publish ==
  /\ universe' = ToValue(rules)
  /\ newest' = [id \in RuleIds |-> BodyOf(ToValue(rules), id)]
  /\ Silent
  /\ UNCHANGED <<collVars, injects>>

\* The host reads the collection back; one document that does not parse
\* makes it give up.
Load ==
  /\ universe # Absent
  /\ \A k \in DOMAIN universe : Parses(universe[k])
  /\ FromVec(FromDicts(universe))
  /\ Silent
  /\ UNCHANGED <<universe, injects, newest>>

\* What `filter` keeps of the first n documents: those of none of the ids.
KeptOf(u, ids) ==
  LET Kept[n \in 0 .. Len(u)] ==
        IF n = 0 THEN <<>>
        ELSE IF u[n].rule_id \in ids THEN Kept[n - 1] ELSE Append(Kept[n - 1], u[n])
  IN  Kept

Dropping(u, ids) == KeptOf(u, ids)[Len(u)]

\* inject_rule, first half: every rule of that id goes.
Removed(u, id) == Dropping(u, {id} \ {Absent})

Replaces(u, d) == d.rule_id # Absent /\ Holds(u, d.rule_id)

\* Mutant of Put: a rule of the same id is replaced at the end of the list.
PutAtEnd(u, d) ==
  IF Replaces(u, d) THEN Append(Without(u, Find(u, d.rule_id)), d) ELSE Append(u, d)

\* inject_rule, second half: the first rule of that id is replaced where it
\* stands, any other document goes to the end.
Put(u, d) ==
  IF Replaces(u, d) THEN [u EXCEPT ![Find(u, d.rule_id)] = d] ELSE Append(u, d)

\* Mutant of InjectResult: what was asked for is taken for what was done.
InjectResultAsAsked(u, id, d) ==
  LET kept == Removed(u, id)
      replaced == IF d # Absent /\ Replaces(u, d) THEN 1 ELSE 0
  IN  [removed_count |-> IF id # Absent THEN 1 ELSE 0,
       replaced_count |-> replaced,
       added_count |-> IF d # Absent THEN 1 - replaced ELSE 0,
       total_rules |-> Len(IF d = Absent THEN kept ELSE Put(kept, d)),
       remove |-> id, add |-> IF d = Absent THEN Absent ELSE d.rule_id]

\* The numbers inject_rule writes to result_attr.
InjectResult(u, id, d) ==
  LET kept == Removed(u, id)
      replaced == IF d # Absent /\ Replaces(kept, d) THEN 1 ELSE 0
  IN  [removed_count |-> Len(u) - Len(kept),
       replaced_count |-> replaced,
       added_count |-> IF d # Absent THEN 1 - replaced ELSE 0,
       total_rules |-> Len(IF d = Absent THEN kept ELSE Put(kept, d)),
       remove |-> id, add |-> IF d = Absent THEN Absent ELSE d.rule_id]

\* exec_inject_rule
InjectRule(id, d) ==
  /\ injects < MaxInjects
  /\ LET u == ListOf(universe)
         kept == Removed(u, id)
     IN  /\ universe' = IF d = Absent THEN kept ELSE Put(kept, d)
         /\ result' = InjectResult(u, id, d)
         /\ ran' = Absent
  /\ injects' = injects + 1
  /\ newest' = [i \in RuleIds |-> IF d # Absent /\ d.rule_id = i THEN d.body
                                  ELSE IF id = i THEN Absent
                                  ELSE newest[i]]
  /\ UNCHANGED collVars

\* exec_apply_rule with a rule_id: `rule_not_found` and a rule without
\* transform leave through Err.
ApplyRule(id) ==
  /\ Holds(ListOf(universe), id)
  /\ BodyOf(universe, id) # Absent
  /\ ran' = [body |-> BodyOf(universe, id), newest |-> newest[id]]
  /\ result' = Absent
  /\ UNCHANGED <<collVars, universe, injects, newest>>

\* Documents a program injects: without a weight, with or without an id and
\* a transform.
Injected ==
  {Doc(id, [priority |-> 0, order |-> 0], b) :
     id \in RuleIds \cup {Absent}, b \in {Absent, MaxArrivals + injects + 1}}

Next ==
  \/ HostChanges
  \/ Publish
  \/ Load
  \/ \E id \in RuleIds \cup {Absent}, d \in Injected \cup {Absent} : InjectRule(id, d)
  \/ \E id \in RuleIds : ApplyRule(id)

Spec == Init /\ [][Next]_vars
-----------------------------------------------------------------------------
(* apply_rule by rule_id runs the transform that was given to that id      *)
(* last, by the host or by inject_rule, and never one that was removed     *)
(* since, although the list may hold several rules of one id: add does not *)
(* look for duplicates.                                                    *)
AppliesNewest == ran # Absent => ran.body = ran.newest

IdsOf(u) == {u[k].rule_id : k \in DOMAIN u} \ {Absent}
Count(u, id) == Cardinality({k \in DOMAIN u : u[k].rule_id = id})
Unique(u) == \A id \in IdsOf(u) : Count(u, id) = 1

(* The counts inject_rule reports are what it did (the comment BUG-06 at   *)
(* rule_ops.rs:1194), a rule set without duplicates stays without, and the *)
(* rules it was not asked about stay, in their order.                      *)
InjectAccounts ==
  [][injects' # injects =>
       LET u == ListOf(universe)
           r == result'
           asked == {r.remove, r.add}
       IN  /\ r.total_rules = Len(universe')
           /\ Len(universe') = Len(u) - r.removed_count + r.added_count
           /\ r.removed_count = IF r.remove = Absent THEN 0 ELSE Count(u, r.remove)
           /\ Unique(u) => Unique(universe')
           /\ Dropping(universe', asked) = Dropping(u, asked)]_vars

(* A host that loads the rules it published gets them back in the same     *)
(* order, provided every priority is in the documented range.  A priority  *)
(* outside it comes back as 0 and the rule behind all others.              *)
LoadKeepsOrder ==
  /\ universe = ToValue(rules)
  /\ ~dirty
  /\ \A k \in DOMAIN rules : rules[k].priority \in 0 .. MaxPriority
  => LET given == FromDicts(universe)
     IN  \A t \in StableSorts([k \in DOMAIN given |-> Rule(given[k].rule_id, given[k], k)]) :
           \A k \in DOMAIN t : t[k].rule_id = rules[k].rule_id /\ t[k].seq = k
-----------------------------------------------------------------------------
(* The inductive invariant: the collection is in order, what is found      *)
(* first under an id is the newest document of it, and so is what runs.    *)
NewestFirst == \A id \in RuleIds : newest[id] = BodyOf(ListOf(universe), id)

StoreTyped == universe \in Seq(Document) \cup {Absent} /\ injects \in Nat

StoreInv == CollInv /\ StoreTyped /\ NewestFirst /\ AppliesNewest
=============================================================================
