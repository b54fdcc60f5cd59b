------------------------------ MODULE ValueJson ------------------------------
(***************************************************************************)
(* Values as JSON and back (value.rs), as a host stores them: an infinity  *)
(* becomes null, bytes their hexadecimal digits, and what nests too deep   *)
(* null as well.                                                           *)
(***************************************************************************)
EXTENDS Values

CONSTANTS
  NonFinite,     \* the bit patterns of floats that are infinite
  MaxJsonDepth   \* MAX_JSON_DEPTH, 128 in the code

ASSUME JsonAssumption == MaxJsonDepth \in Nat

\* Mutant of TooDeepForJson: one level less.
TooDeepForJsonEarly(depth) == depth >= MaxJsonDepth

TooDeepForJson(depth) == depth > MaxJsonDepth

\* value_to_serde_json_inner, from what the parts become.
JsonOf(v, depth, parts) ==
  IF TooDeepForJson(depth) \/ (v.type = "float" /\ v.bits \in NonFinite)
    THEN VNull
    ELSE IF v.type = "bytes" THEN VStr(v.digits) ELSE Rebuilt(v, parts)

ToJson(v) == BottomUp(Layers(v, MaxJsonDepth + 1), MaxJsonDepth + 1, JsonOf)[v]

\* serde_json_to_value_inner
ValueOf(json, depth, parts) ==
  IF TooDeepForJson(depth) THEN VNull ELSE Rebuilt(json, parts)

FromJson(json) == BottomUp(Layers(json, MaxJsonDepth + 1), MaxJsonDepth + 1, ValueOf)[json]
=============================================================================
