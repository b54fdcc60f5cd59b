---------------------------- MODULE MCDomainEval ----------------------------
(* Instances of DomainEval for TLC: the values of its constants. *)
EXTENDS DomainEval, FiniteSetsExt

MCAttributes == {"x", "y", "__domain_result__", "__matched__"}

\* 5 is the first integer that is not exact with a limit of 4.
MCExpected == {VInt(1), VInt(4), VInt(5), VFloat(4), VStr(1), VList(<<VInt(1), VInt(5)>>)}

MCValues == MCExpected \cup {VBool(TRUE), VBool(FALSE)}

MCState(x, y, itype) ==
  [attrs |-> [a \in MCAttributes |-> CASE a = "x" -> x [] a = "y" -> y [] OTHER -> Absent],
   itype |-> itype]

MCStates ==
  {MCState(x, Absent, "go") : x \in {Absent, VInt(1), VInt(5), VFloat(4)}}
    \cup {MCState(x, VInt(1), "stop") : x \in {Absent, VInt(5)}}

MCOther == MCState(VStr(1), VList(<<VInt(1), VInt(5)>>), Absent)

Atom(a, op, v) == [type |-> "atom", attribute |-> a, op |-> op, value |-> v]

MCAtoms ==
  {Atom("x", op, VInt(4)) : op \in {"eq", "ne", "gt", "le"}}
    \cup {Atom("x", op, VList(<<VInt(1), VInt(5)>>)) : op \in {"in", "not_in", "between", "not_between"}}
    \cup {Atom("y", op, VInt(5)) : op \in {"has", "lacks"}}
    \cup {[type |-> "atom", attribute |-> "y", op |-> op] : op \in {"exists", "not_exists"}}

MCBasic == {[type |-> "universal"], [type |-> "empty"], [str |-> "universal"],
            [type |-> "instruction", value |-> "go"], [str |-> "stop"]}

\* Documents that do not parse.
MCBroken == {VNull, [type |-> "atom", attribute |-> "y", op |-> "like", value |-> VInt(1)],
             [type |-> "atom", attribute |-> "y", op |-> "eq"], [type |-> "or"],
             [type |-> "not"], [type |-> "instruction"]}

Lists(parts) == {<<>>} \cup {<<p>> : p \in parts} \cup {<<p, q>> : p \in parts, q \in parts}

Over(parts) ==
  {[type |-> t, domains |-> l] : t \in {"and", "or"}, l \in Lists(parts)}
    \cup {[type |-> t, left |-> p, right |-> q] : t \in {"and", "or"}, p \in parts, q \in parts}
    \cup {[type |-> "not", inner |-> p] : p \in parts}

MCParts == {Atom("x", "gt", VInt(4)), Atom("x", "ne", VInt(1)), [type |-> "atom", attribute |-> "y", op |-> "exists"],
            [type |-> "never"], [str |-> "go"]}

\* Deeper than the limit of one.
MCDeep == Over({[type |-> "not", inner |-> Atom("x", "gt", VInt(4))],
                [type |-> "or", domains |-> <<Atom("x", "gt", VInt(4)), [type |-> "empty"]>>]})

MCDocs == MCAtoms \cup MCBasic \cup MCBroken \cup Over(MCParts) \cup MCDeep

MCPairDocs ==
  LET parts == {Atom("x", "gt", VInt(4)), [type |-> "atom", attribute |-> "y", op |-> "exists"],
                [type |-> "empty"]}
  IN parts \cup MCBasic \cup Over(parts)

\* Each document beside a rule without a domain; no rules; not a list.
MCRuleLists == {<<doc, Absent>> : doc \in MCDocs} \cup {<<>>, Absent}

(* All documents: those above, their parts, and what is written. *)

MCGiven ==
  LET Down[n \in 0 .. 3] ==
        IF n = 0 THEN MCDocs \cup MCPairDocs
        ELSE Down[n - 1] \cup UNION {Range(Children(doc)) : doc \in Down[n - 1]}
  IN Down[3]

MCParsed ==
  LET Parsed[doc \in MCGiven] == Parse(doc, [k \in DOMAIN Children(doc) |-> Parsed[Children(doc)[k]]])
  IN Range(Parsed) \ {Invalid}

MCWritten(form) ==
  LET Written[d \in MCParsed] == Unparse(d, form, [k \in DOMAIN Parts(d) |-> Written[Parts(d)[k]]])
  IN Range(Written)

AllDocuments == MCGiven \cup MCWritten("value") \cup MCWritten("dict")

AllLevels ==
  LET Rank[doc \in AllDocuments] ==
        Max({0} \cup {1 + Rank[part] : part \in Range(Children(doc))})
  IN Rank

\* TLC keeps the value of a definition, and evaluates what stands for a
\* constant at each use.
MCDocuments == AllDocuments
MCLevels == AllLevels
=============================================================================
