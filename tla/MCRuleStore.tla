----------------------------- MODULE MCRuleStore -----------------------------
(* Instance of RuleStore for TLC: the values of its constants. *)
EXTENDS RuleStore, TLC

Weigh(p, o) == [priority |-> p, order |-> o]

\* With a scale of 10 and 8 bits: an order that outweighs a priority, and a
\* priority beyond the range that overflows.
MCWeights == {Weigh(1, 0), Weigh(0, 3), Weigh(0, 12), Weigh(15, 0)}

\* Rule ids are only compared.
MCSymmetry == Permutations(RuleIds)
=============================================================================
