---------------------------- MODULE MCCallStack ----------------------------
(* Instances of CallStack for TLC: the values of its constants. *)
EXTENDS CallStack, TLC

CONSTANTS exec, data, a, b, c

MCFields == {exec, data}
MCSystemFields == {exec}
MCAliases == {a, b, c}

\* a stands for b, b for a primitive, c for dispatch.
MCExpansion == a :> b @@ b :> "registered" @@ c :> "dispatch"

\* a and b stand for each other.
MCCyclicExpansion == a :> b @@ b :> a @@ c :> "dispatch"
=============================================================================
