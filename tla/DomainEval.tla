----------------------------- MODULE DomainEval -----------------------------
(***************************************************************************)
(* Domains, the conditions of rules (domain.rs), and the primitives that   *)
(* work on them: evaluate_domain, match_domain and domain_intersect        *)
(* (primitive/domain_ops.rs) and filter_rules (primitive/rule_ops.rs).     *)
(*                                                                         *)
(* A domain has two forms.  A document is the JSON value a rule carries:   *)
(* a record with the fields of the object, or [str |-> s] for a string.    *)
(* A domain proper is what Domain::from_value makes of it.  contains works *)
(* on the second, domain_values_overlap and filter_rules on the first.     *)
(***************************************************************************)
EXTENDS RelOps, Functions

CONSTANTS
  Documents,       \* documents there are, with the parts of each of them
  Levels,          \* levels of parts below each document, or more than that
  Docs,            \* documents given as `domain`
  PairDocs,        \* documents given as `domain1` and `domain2`
  RuleLists,       \* the domains of the rules in a list, Absent for a rule without
  AttrValues,      \* values of attributes
  States,          \* states: attributes and the type of __exec__.instruction
  OtherState,      \* the object a state_ref names
  Expected,        \* values to compare with
  Attributes,      \* attributes a state may have
  ResultAttrs,     \* values of result_attr
  Known,           \* types of instructions that can be dispatched
  Unknown,         \* a type that cannot
  Absent,          \* no such field, parameter or attribute
  MaxDomainDepth,  \* MAX_DOMAIN_DEPTH, 128 in the code
  MaxRuns          \* bound: how many primitives run

ASSUME DomainAssumption ==
  /\ MaxDomainDepth \in Nat /\ MaxRuns \in Nat
  /\ ResultAttrs \subseteq Attributes
  /\ {"__domain_result__", "__matched__"} \subseteq Attributes
  /\ \A v \in AttrValues : IsNumber(v) => Number(v)
  /\ \A b \in BOOLEAN : VBool(b) \in AttrValues
  /\ Expected \subseteq AttrValues
  /\ \A s \in States \cup {OtherState} :
       /\ s = [attrs |-> s.attrs, itype |-> s.itype]
       /\ s.attrs \in [Attributes -> AttrValues \cup {Absent}]

VARIABLES
  state,   \* the current state, a member of States at first
  cases,   \* whether __exec__.dispatch_cases is there
  queue,   \* __exec__.queue
  trace,   \* __exec__.__trace_branch
  runs,    \* history: how many primitives have run
  result   \* history: what the last one was asked and what it said

vars == <<state, cases, queue, trace, runs, result>>

-----------------------------------------------------------------------------
(* Documents.  A field `domains` holds a list.                             *)

Has(doc, field) == field \in DOMAIN doc

Type(doc) == IF Has(doc, "type") THEN doc.type ELSE ""
Attribute(doc) == IF Has(doc, "attribute") THEN doc.attribute ELSE ""
Compound(doc) == Type(doc) \in {"and", "or"}
Binary(doc) == Has(doc, "left") /\ Has(doc, "right")

\* The parts of a document: a list `domains` is preferred to left and right.
Children(doc) ==
  CASE Compound(doc) /\ Has(doc, "domains")                  -> doc.domains
    [] Compound(doc) /\ ~Has(doc, "domains") /\ Binary(doc) -> <<doc.left, doc.right>>
    [] Type(doc) = "not" /\ Has(doc, "inner")               -> <<doc.inner>>
    [] OTHER                                                -> <<>>

\* Documents are finite: a part has fewer levels than the whole.
ASSUME DocumentsAssumption ==
  /\ Docs \cup PairDocs \subseteq Documents
  /\ \A rules \in RuleLists \ {Absent} : Range(rules) \subseteq Documents \cup {Absent}
  /\ Levels \in [Documents -> Nat]
  /\ \A doc \in Documents :
       /\ Has(doc, "str") => ~Has(doc, "type")
       /\ Has(doc, "attribute") => doc.attribute \in Attributes
       /\ Children(doc) \in Seq(Documents)
       /\ \A k \in DOMAIN Children(doc) : Levels[Children(doc)[k]] < Levels[doc]

-----------------------------------------------------------------------------
(* Domains.                                                                *)

DAtom(attribute, op, value) ==
  [kind |-> "atom", attribute |-> attribute, op |-> op, value |-> value]
DAnd(parts) == [kind |-> "and", parts |-> parts]
DOr(parts) == [kind |-> "or", parts |-> parts]
DNot(inner) == [kind |-> "not", parts |-> <<inner>>]
DInstruction(name) == [kind |-> "instruction", name |-> name]
Universal == [kind |-> "universal"]
Empty == [kind |-> "empty"]
Invalid == [kind |-> "invalid"]  \* Err of from_value

Parts(d) == IF d.kind \in {"and", "or", "not"} THEN d.parts ELSE <<>>

\* RelOp::parse: two operators have a second name.
ParseOp(name) ==
  CASE name = "has"   -> "contains"
    [] name = "lacks" -> "not_contains"
    [] OTHER          -> name

ParseAtom(doc) ==
  IF /\ Has(doc, "attribute") /\ Has(doc, "op")
     /\ ParseOp(doc.op) \in Ops
     /\ Has(doc, "value") \/ doc.op \in {"exists", "not_exists"}
    THEN DAtom(doc.attribute, ParseOp(doc.op),
               IF Has(doc, "value") THEN doc.value ELSE VNull)
    ELSE Invalid

\* Mutant of ParseInstruction: the older name is forgotten.
ParseInstructionStrict(doc) ==
  IF Has(doc, "instruction_type") THEN DInstruction(doc.instruction_type) ELSE Invalid

\* instruction_type, or the older name value.
ParseInstruction(doc) ==
  IF Has(doc, "instruction_type") THEN DInstruction(doc.instruction_type)
  ELSE IF Has(doc, "value") THEN DInstruction(doc.value)
  ELSE Invalid

ParseString(s) ==
  CASE s = "universal" -> Universal
    [] s = "empty"     -> Empty
    [] OTHER           -> DInstruction(s)

\* What from_dict makes of an object whose parts have been parsed.
ParseObject(doc, parts) ==
  CASE Type(doc) = "atom"                                        -> ParseAtom(doc)
    [] Type(doc) = "and" /\ (Has(doc, "domains") \/ Binary(doc)) -> DAnd(parts)
    [] Type(doc) = "or" /\ (Has(doc, "domains") \/ Binary(doc))  -> DOr(parts)
    [] Type(doc) = "not" /\ Has(doc, "inner")                    -> DNot(parts[1])
    [] Type(doc) = "instruction"                                 -> ParseInstruction(doc)
    [] Type(doc) = "universal"                                   -> Universal
    [] Type(doc) \in {"empty", "never"}                          -> Empty
    [] OTHER                                                     -> Invalid

Parse(doc, parts) ==
  IF Has(doc, "str") THEN ParseString(doc.str)
  ELSE IF \E k \in DOMAIN parts : parts[k] = Invalid THEN Invalid
  ELSE ParseObject(doc, parts)

\* domain_from_value and Domain::from_dict.
FromValue[doc \in Documents] ==
  Parse(doc, [k \in DOMAIN Children(doc) |-> FromValue[Children(doc)[k]]])

Domains == {FromValue[doc] : doc \in Documents} \ {Invalid}

\* A domain whose parts have been written; `form` tells to_value from to_dict.
Unparse(d, form, parts) ==
  CASE d.kind = "atom" ->
         [type |-> "atom", attribute |-> d.attribute, op |-> d.op, value |-> d.value]
    [] d.kind \in {"and", "or"} -> [type |-> d.kind, domains |-> parts]
    [] d.kind = "not" -> [type |-> "not", inner |-> parts[1]]
    [] d.kind = "instruction" ->
         IF form = "value" THEN [type |-> "instruction", instruction_type |-> d.name, op |-> "eq"]
                           ELSE [type |-> "instruction", value |-> d.name]
    [] OTHER -> [type |-> d.kind]

Write(form) ==
  LET F[d \in Domains] == Unparse(d, form, [k \in DOMAIN Parts(d) |-> F[Parts(d)[k]]])
  IN F

ToValue(d) == Write("value")[d]
ToDict(d) == Write("dict")[d]

\* What is written can be read.
ASSUME WrittenAssumption ==
  \A d \in Domains : ToValue(d) \in Documents /\ ToDict(d) \in Documents

-----------------------------------------------------------------------------
(* contains                                                                *)

\* Mutant of AtomHolds: every negated operator holds of a missing attribute.
AtomHoldsNegated(d, actual) ==
  IF actual = Absent
    THEN d.op \in {"ne", "not_exists", "not_in", "not_contains", "not_between"}
    ELSE d.op = "exists" \/ Apply(d.op, actual, d.value)

\* An attribute that is not there differs from every value.
AtomHolds(d, actual) ==
  IF actual = Absent
    THEN d.op \in {"ne", "not_exists"}
    ELSE d.op = "exists" \/ Apply(d.op, actual, d.value)

\* A domain from the verdicts on its parts.
Judge(d, s, verdicts) ==
  CASE d.kind = "atom"        -> AtomHolds(d, s.attrs[d.attribute])
    [] d.kind = "and"         -> \A k \in DOMAIN verdicts : verdicts[k]
    [] d.kind = "or"          -> \E k \in DOMAIN verdicts : verdicts[k]
    [] d.kind = "not"         -> ~verdicts[1]
    [] d.kind = "instruction" -> s.itype = d.name
    [] OTHER                  -> d = Universal

\* Domains with the depth they are found at.
Places == Domains \X (0 .. MaxDomainDepth + 1)

ContainsInner(s) ==
  LET F[p \in Places] ==
        /\ p[2] <= MaxDomainDepth
        /\ Judge(p[1], s, [k \in DOMAIN Parts(p[1]) |-> F[<<Parts(p[1])[k], p[2] + 1>>]])
  IN F

\* Whether nothing at a place or below it is too deep.
FitsInner[p \in Places] ==
  /\ p[2] <= MaxDomainDepth
  /\ \A k \in DOMAIN Parts(p[1]) : FitsInner[<<Parts(p[1])[k], p[2] + 1>>]

Fits(d) == FitsInner[<<d, 0>>]

\* Mutant of Contains: what is too deep to evaluate is let through.
ContainsOpen(d, s) == ~Fits(d) \/ ContainsInner(s)[<<d, 0>>]

Contains(d, s) == ContainsInner(s)[<<d, 0>>]

-----------------------------------------------------------------------------
(* domain_values_overlap                                                   *)

\* Mutant of Combine: an `or` needs all of its parts as well.
CombineStrict(doc, verdicts) == FALSE \notin Range(verdicts)

\* The verdict on a compound from those on its parts: one is enough in a list,
\* `and` in binary form needs both, and no parts at all mean yes.
Combine(doc, verdicts) ==
  IF ~Has(doc, "domains") /\ (Type(doc) = "and" \/ ~Binary(doc))
    THEN FALSE \notin Range(verdicts)
    ELSE TRUE \in Range(verdicts)

\* Two documents from the verdicts on the parts of each against the other.
Compare(doc1, doc2, verdicts1, verdicts2) ==
  LET types == {Type(doc1), Type(doc2)}
  IN IF "universal" \in types THEN TRUE
     ELSE IF "empty" \in types THEN FALSE
     ELSE IF types = {"atom"} THEN Attribute(doc1) = Attribute(doc2)
     ELSE IF Compound(doc1) THEN Combine(doc1, verdicts1)
     ELSE IF Compound(doc2) THEN Combine(doc2, verdicts2)
     ELSE TRUE

Overlap(doc1, doc2) ==
  LET F[p \in Documents \X Documents] ==
        Compare(p[1], p[2],
                [k \in DOMAIN Children(p[1]) |-> F[<<Children(p[1])[k], p[2]>>]],
                [k \in DOMAIN Children(p[2]) |-> F[<<p[1], Children(p[2])[k]>>]])
  IN F[<<doc1, doc2>>]

-----------------------------------------------------------------------------
(* domain_value_references_attrs                                           *)

\* Mutant of Searched: a negation is not looked into.
SearchedPositive(doc) == Compound(doc) /\ Has(doc, "domains")

\* Whether the parts are looked into: of `and` and `or` those in list form only.
Searched(doc) == Type(doc) = "not" \/ (Compound(doc) /\ Has(doc, "domains"))

References(doc, goals) ==
  LET F[e \in Documents] ==
        \/ Type(e) = "atom" /\ Attribute(e) \in goals
        \/ Type(e) = "universal"
        \/ Searched(e) /\ \E k \in DOMAIN Children(e) : F[Children(e)[k]]
  IN F[doc]

\* No goals means every rule, and a rule without a domain refers to nothing.
Kept(doc, goals) == goals = {} \/ (doc # Absent /\ References(doc, goals))

-----------------------------------------------------------------------------
(* The primitives.                                                         *)

Branches == Known \cup {Unknown, Absent}

EmptyState == [attrs |-> [a \in Attributes |-> Absent], itype |-> Absent]

SetAttr(attr, holds) == state' = [state EXCEPT !.attrs[attr] = VBool(holds)]

Contained(doc, about, holds) ==
  [kind |-> "contains", doc |-> doc, about |-> about, holds |-> holds]

Runs == runs < MaxRuns /\ runs' = runs + 1

\* validate_instruction_type, which tests nothing without dispatch_cases.
Dispatchable(branch) == cases => branch # Unknown

\* A branch that is not given leaves the queue alone.
WithBranch(branch) == IF branch = Absent THEN queue ELSE <<branch>> \o queue

Init ==
  /\ state \in States
  /\ cases \in BOOLEAN
  /\ queue = <<>>
  /\ trace = Absent
  /\ runs = 0
  /\ result = [kind |-> "none"]

\* Both branches must be dispatchable, the chosen one goes to the front.
EvaluateDomain(doc, onTrue, onFalse) ==
  LET d == FromValue[doc]
      holds == Contains(d, state)
      chosen == IF holds THEN onTrue ELSE onFalse
  IN /\ Runs
     /\ d # Invalid
     /\ Dispatchable(onTrue) /\ Dispatchable(onFalse)
     /\ trace' = [domain_result |-> holds,
                  chosen_branch |-> IF chosen = Absent THEN "none"
                                    ELSE IF holds THEN "then" ELSE "else"]
     /\ queue' = WithBranch(chosen)
     /\ SetAttr("__domain_result__", holds)
     /\ result' = Contained(doc, state, holds)
     /\ UNCHANGED cases

\* state_ref: not given, or names nothing or Null, an object, another value.
Target(ref) ==
  CASE ref = "object" -> OtherState
    [] ref = "scalar" -> EmptyState
    [] OTHER          -> state

MatchDomain(doc, ref, attr) ==
  LET d == FromValue[doc]
      holds == Contains(d, Target(ref))
  IN /\ Runs
     /\ d # Invalid
     /\ SetAttr(IF attr = Absent THEN "__matched__" ELSE attr, holds)
     /\ result' = Contained(doc, Target(ref), holds)
     /\ UNCHANGED <<cases, queue, trace>>

\* The documents are compared as they are: from_value is not called.
DomainIntersect(doc1, doc2, attr) ==
  LET holds == Overlap(doc1, doc2)
  IN /\ Runs
     /\ SetAttr(attr, holds)
     /\ result' = [kind |-> "overlap", docs |-> <<doc1, doc2>>, holds |-> holds]
     /\ UNCHANGED <<cases, queue, trace>>

\* The positions of the rules that filtered_rules gets, in their order.  What
\* rules_ref names need not be a list (Absent), and no domain asks for
\* filtered_rules.
FilterRules(rules, goals) ==
  /\ Runs
  /\ result' = [kind |-> "filter", rules |-> rules, goals |-> goals,
                kept |-> IF rules = Absent THEN {}
                         ELSE {k \in DOMAIN rules : Kept(rules[k], goals)}]
  /\ UNCHANGED <<state, cases, queue, trace>>

\* Err: the state is the caller's.  A missing parameter and a reference to
\* nothing are VNull, which no domain parses from.
Refused ==
  /\ Runs
  /\ result' = [kind |-> "error"]
  /\ UNCHANGED <<state, cases, queue, trace>>

RefuseEvaluate(doc, onTrue, onFalse) ==
  /\ Refused
  /\ \/ FromValue[doc] = Invalid
     \/ ~Dispatchable(onTrue) \/ ~Dispatchable(onFalse)

RefuseMatch(doc) == Refused /\ FromValue[doc] = Invalid

\* One of the three parameters is missing.
RefuseIntersect == Refused

\* Nothing more is asked.
Done == runs = MaxRuns /\ UNCHANGED vars

Next ==
  \/ \E doc \in Docs, t, f \in Branches : EvaluateDomain(doc, t, f) \/ RefuseEvaluate(doc, t, f)
  \/ \E doc \in Docs, ref \in {"none", "object", "scalar"}, attr \in ResultAttrs \cup {Absent} :
       MatchDomain(doc, ref, attr)
  \/ \E doc \in Docs : RefuseMatch(doc)
  \/ \E d1, d2 \in PairDocs, attr \in ResultAttrs : DomainIntersect(d1, d2, attr)
  \/ \E rules \in RuleLists, goals \in SUBSET {"x", "y"} : FilterRules(rules, goals)
  \/ RefuseIntersect
  \/ Done

Spec == Init /\ [][Next]_vars

-----------------------------------------------------------------------------
(* What a domain means: the set of the states it holds of, by the algebra  *)
(* of sets and without a limit on depth.                                   *)

Positive(op) ==
  CASE op = "not_contains" -> "contains"
    [] op = "not_in"       -> "in"
    [] op = "not_between"  -> "between"
    [] OTHER               -> op

AtomExtension(d, S) ==
  LET there == {s \in S : s.attrs[d.attribute] # Absent}
      Matching(op) == {s \in there : Apply(op, s.attrs[d.attribute], d.value)}
  IN CASE d.op = "exists"     -> there
       [] d.op = "not_exists" -> S \ there
       [] d.op = "ne"         -> S \ Matching("eq")
       [] d.op \in {"not_contains", "not_in", "not_between"} -> there \ Matching(Positive(d.op))
       [] OTHER               -> Matching(d.op)

\* A domain from the meanings of its parts.
Meaning(d, S, parts) ==
  CASE d.kind = "atom"        -> AtomExtension(d, S)
    [] d.kind = "and"         -> {s \in S : \A k \in DOMAIN parts : s \in parts[k]}
    [] d.kind = "or"          -> UNION Range(parts)
    [] d.kind = "not"         -> S \ parts[1]
    [] d.kind = "instruction" -> {s \in S : s.itype = d.name}
    [] OTHER                  -> IF d = Universal THEN S ELSE {}

Extension(d, S) ==
  LET F[e \in Domains] == Meaning(e, S, [k \in DOMAIN Parts(e) |-> F[Parts(e)[k]]])
  IN F[d]

\* A document and everything below it.
Nodes(doc) ==
  LET F[e \in Documents] == {e} \cup UNION {F[Children(e)[k]] : k \in DOMAIN Children(e)}
  IN F[doc]

\* Some state satisfies both documents.
Intersect(doc1, doc2) ==
  /\ FromValue[doc1] # Invalid /\ FromValue[doc2] # Invalid
  /\ Extension(FromValue[doc1], States) \cap Extension(FromValue[doc2], States) # {}

-----------------------------------------------------------------------------
(* Properties.                                                             *)

(* Up to the depth limit, a verdict of evaluate_domain or match_domain is  *)
(* membership in the meaning of the domain: the recursion, the limit, and  *)
(* the treatment of missing attributes under each operator agree with it.  *)
VerdictIsMembership ==
  result.kind = "contains" =>
    LET d == FromValue[result.doc]
    IN Fits(d) =>
         (result.holds <=> result.about \in Extension(d, {result.about}))

(* The depth limit of contains_inner can only refuse: a domain that        *)
(* contains no `not` never holds because a part of it is too deep.  With a *)
(* `not` around the part it may.                                           *)
DepthOnlyRefuses ==
  /\ result.kind = "contains"
  /\ \A n \in Nodes(result.doc) : Type(n) # "not"
  /\ result.holds
  => result.about \in Extension(FromValue[result.doc], {result.about})

(* to_value and to_dict write different documents, and from_value reads    *)
(* the same domain back from both.                                         *)
RoundTrip ==
  result.kind = "contains" =>
    LET d == FromValue[result.doc]
    IN FromValue[ToValue(d)] = d /\ FromValue[ToDict(d)] = d

(* Whatever number an attribute holds, the operators of atoms about it     *)
(* agree with each other (NumbersAgree), at the limit of f64 too.          *)
ComparisonsAgree ==
  LET Numbers(S) == {v \in S \ {Absent} : IsNumber(v)}
  IN \A a \in Numbers(Range(state.attrs)), b, c \in Numbers(Expected) : NumbersAgree(a, b, c)

(* domain_values_overlap misses nothing as long as all atoms are about one *)
(* attribute and no list `and` is empty.                                   *)
OverlapSoundOnOneAttribute ==
  result.kind = "overlap" =>
    LET nodes == Nodes(result.docs[1]) \cup Nodes(result.docs[2])
        atoms == {n \in nodes : Type(n) = "atom"}
    IN /\ \A n, m \in atoms : Attribute(n) = Attribute(m)
       /\ \A n \in nodes : Type(n) = "and" => Children(n) # <<>>
       /\ Intersect(result.docs[1], result.docs[2])
       => result.holds

(* filter_rules drops no rule that matters to the goals: if its domain     *)
(* judges differently two states that differ in one attribute asked for    *)
(* only, it is kept, and so is every rule when nothing is asked for.  This *)
(* is so as long as no `and` or `or` is in the form of left and right.     *)
FilterKeepsRelevant ==
  result.kind = "filter" /\ result.rules # Absent =>
    /\ result.goals = {} => result.kept = DOMAIN result.rules
    /\ \A k \in DOMAIN result.rules \ result.kept :
         LET doc == result.rules[k]
             d == FromValue[doc]
             Depends(a) == \E s \in States : \E v \in {t.attrs[a] : t \in States} :
               Contains(d, s) # Contains(d, [s EXCEPT !.attrs[a] = v])
         IN /\ doc # Absent
            /\ d # Invalid
            /\ \A n \in Nodes(doc) : Compound(n) => Has(n, "domains")
            => \A a \in result.goals : ~Depends(a)

=============================================================================
