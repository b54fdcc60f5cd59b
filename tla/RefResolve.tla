----------------------------- MODULE RefResolve -----------------------------
(***************************************************************************)
(* References into the state (control/dispatch.rs): resolve_path, which    *)
(* primitives use for their parameters, and resolve_refs, with which       *)
(* dispatch fills the entry of its table and the loop its condition.       *)
(***************************************************************************)
EXTENDS StatePath

CONSTANT MaxRefDepth   \* MAX_REF_DEPTH, 64 in the code

ASSUME RefAssumption == MaxRefDepth \in Nat

RefKey == <<"$", "ref">>
PassKey == <<"$", "pass">>
Ref(path) == VObj(Put(NoFields, RefKey, path))
Pass(name) == VObj(Put(NoFields, PassKey, name))

\* resolve_ref_path; the empty path is a key of its own, or the whole state.
ResolveRefPath(data, path) ==
  IF path = <<>> THEN VObj(data) ELSE OrElse(GetPath(data, path), VNull)

\* resolve_path: one hop, whatever else the object holds.
ResolvePath(data, v) ==
  LET path == FieldOf(v, RefKey)
  IN  IF path.type = "str" THEN ResolveRefPath(data, path.text) ELSE v

\* resolve_pass: the parameters of the current instruction, or one of them.
ResolvePass(data, v) ==
  LET name == FieldOf(v, PassKey)
      params == FieldOf(FieldOf(Field(data, <<"exec">>), <<"instruction">>), <<"params">>)
  IN  IF name.type = "str" /\ name.text # <<>>
        THEN OrElse(FieldOf(params, name.text), VNull)
        ELSE OrElse(params, VObj(NoFields))

Alone(v, key) == v.type = "obj" /\ DOMAIN v.fields = {key}

\* Where one level of resolve_refs_inner leads: one hop further, or into the
\* parts; what a parameter of the instruction holds is not followed.
LeadsTo(data, v) ==
  CASE Alone(v, RefKey)  -> {ResolvePath(data, v)}
    [] Alone(v, PassKey) -> {}
    [] OTHER             -> PartsOf(v)

\* The values it meets n levels below v, for n up to `depth`.
Led(data, v, depth) ==
  LET At[n \in 0 .. depth] == IF n = 0 THEN {v} ELSE UNION {LeadsTo(data, w) : w \in At[n - 1]}
  IN  At

\* resolve_refs_inner with `fuel` levels: below them everything is Null.
ResolveUpTo(data, v, fuel) ==
  LET Resolve(w, depth, resolved) ==
        CASE depth > fuel -> VNull
          [] depth <= fuel /\ Alone(w, RefKey)  -> resolved[ResolvePath(data, w)]
          [] depth <= fuel /\ Alone(w, PassKey) -> ResolvePass(data, w)
          [] OTHER -> Rebuilt(w, resolved)
  IN  BottomUp(Led(data, v, fuel + 1), fuel + 1, Resolve)[v]

\* Mutant of ResolveRefs: one hop only.
ResolveRefsOnce(data, v) == ResolvePath(data, v)

\* resolve_refs
ResolveRefs(data, v) == ResolveUpTo(data, v, MaxRefDepth)

-----------------------------------------------------------------------------
(* What resolution promises.                                               *)

\* A reference that dispatch would have followed, down to a depth.
Live(v, depth) == \E w \in Inside(v, depth) : Alone(w, RefKey)

\* Resolving v comes to no parameter of the instruction, within the limit.
PassFree(data, v) ==
  \A n \in 0 .. MaxRefDepth : \A w \in Led(data, v, MaxRefDepth)[n] : ~Alone(w, PassKey)

\* No way from v through parts and references is longer than the limit; so
\* none of them leads round in a cycle.
WithinLimit(data, v) == Led(data, v, MaxRefDepth + 1)[MaxRefDepth + 1] = {}
=============================================================================
