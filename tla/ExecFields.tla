----------------------------- MODULE ExecFields -----------------------------
(***************************************************************************)
(* __exec__, the object in the state that drives the engine, and its two   *)
(* faces: the raw map, which most readers look fields up in and two        *)
(* writers insert into, and ExecContext (exec_context.rs), the typed       *)
(* record State::update_exec_field (state.rs) converts it to and from for  *)
(* every other write.                                                      *)
(*                                                                         *)
(* A raw map is a function from the names of the fields it has; a missing  *)
(* __exec__, or one that is not an object, reads like the empty map.  Only *)
(* the fields the program looks into hold more than an opaque value.  An   *)
(* instruction stands for its type, and a value without one is an opaque   *)
(* value too.                                                              *)
(***************************************************************************)
EXTENDS Naturals, Sequences

CONSTANTS
  Null,         \* Value::Null
  EmptyObject,  \* {}
  EmptyText,    \* the empty string
  Misfit        \* a value whose type is not the one the field should have

(* The fields ExecContext knows.                                           *)
Flags == {"__running", "audit_on", "drain_meta_trace", "__terminated_by_max_steps"}
Typed == Flags \cup
  {"instruction", "queue", "metadata", "default_instruction",
   "termination_domain", "meta_instruction_types", "dispatch_cases",
   "dispatch_default", "dispatch_table_version", "last_dispatch_hashes",
   "__trace_source"}

\* Mutant of DefaultOf: __running is off by default.
DefaultOfStopped(f) ==
  CASE f \in {"instruction", "metadata", "dispatch_cases", "dispatch_default"} -> EmptyObject
    [] f \in {"queue", "meta_instruction_types"} -> <<>>
    [] f \in Flags -> f = "audit_on"
    [] f = "dispatch_table_version" -> EmptyText
    [] OTHER -> Null

\* ExecContext::new, and what from_value puts for a missing field.
DefaultOf(f) ==
  CASE f \in {"instruction", "metadata", "dispatch_cases", "dispatch_default"} -> EmptyObject
    [] f \in {"queue", "meta_instruction_types"} -> <<>>
    [] f \in {"__running", "audit_on"} -> TRUE
    [] f \in {"drain_meta_trace", "__terminated_by_max_steps"} -> FALSE
    [] f = "dispatch_table_version" -> EmptyText
    [] OTHER -> Null

Has(exec, f) == f \in DOMAIN exec

\* Mutant of FromValue: dispatch_default and dispatch_table_version are not
\* read back, as they were not before ExecContext had these fields.
FromValueNoDefault(exec) ==
  [f \in Typed |->
     IF /\ Has(exec, f) /\ f \notin {"dispatch_default", "dispatch_table_version"}
        /\ f \in Flags => exec[f] \in BOOLEAN
       THEN exec[f]
       ELSE DefaultOf(f)]

\* A flag that is not a boolean reads like a missing one.
FromValue(exec) ==
  [f \in Typed |->
     IF Has(exec, f) /\ (f \in Flags => exec[f] \in BOOLEAN)
       THEN exec[f]
       ELSE DefaultOf(f)]

\* to_value writes every field, and nothing else.
ToValue(ctx) == [f \in Typed |-> ctx[f]]

\* with_field: what is stored for a value of the wrong type differs from what
\* from_value makes of it; a field that is not known is ignored.
Accepted(f, v) ==
  CASE f \in Flags -> IF v \in BOOLEAN THEN v ELSE f = "audit_on"
    [] f = "__trace_source" -> IF v = Misfit THEN EmptyText ELSE v
    [] OTHER -> v

WithField(ctx, f, v) ==
  IF f \in Typed THEN [ctx EXCEPT ![f] = Accepted(f, v)] ELSE ctx

UpdateExecField(exec, f, v) == ToValue(WithField(FromValue(exec), f, v))

\* What update_exec_instruction and exec_evaluate_domain do instead.
InsertField(exec, f, v) ==
  [g \in DOMAIN exec \cup {f} |-> IF g = f THEN v ELSE exec[g]]

-----------------------------------------------------------------------------
(* The readers; each has its own idea of a missing or ill-typed field.     *)

ReadFlag(exec, f, otherwise) ==
  IF Has(exec, f) /\ exec[f] \in BOOLEAN THEN exec[f] ELSE otherwise

\* is_running, in the loop and in dispatch
IsRunning(exec) == ReadFlag(exec, "__running", TRUE)

LoadAuditOn(exec) == ReadFlag(exec, "audit_on", TRUE)
LoadDrainMetaTrace(exec) == ReadFlag(exec, "drain_meta_trace", FALSE)

ReadList(exec, f) == IF Has(exec, f) /\ exec[f] # Misfit THEN exec[f] ELSE <<>>

GetQueue(exec) == ReadList(exec, "queue")
LoadMetaTypes(exec) == ReadList(exec, "meta_instruction_types")

\* the table dispatch looks its key up in
ReadCases(exec) ==
  IF Has(exec, "dispatch_cases") THEN exec["dispatch_cases"] ELSE EmptyObject

\* exec_advance_instruction parses it; Null and other values are no domain.
ReadTermination(exec) ==
  IF Has(exec, "termination_domain") THEN exec["termination_domain"] ELSE Null

\* exec_advance_instruction: only what is missing is a noop.
ReadDefaultInstruction(exec) ==
  IF Has(exec, "default_instruction") THEN exec["default_instruction"] ELSE "noop"

\* dispatch: what is missing is no default, {} is one that fails.
ReadDispatchDefault(exec) ==
  IF Has(exec, "dispatch_default") THEN {exec["dispatch_default"]} ELSE {}

\* trace_step notes @ and the version for every text, the empty one included.
ReadTableVersion(exec) ==
  IF Has(exec, "dispatch_table_version") /\ exec["dispatch_table_version"] # Misfit
    THEN {exec["dispatch_table_version"]} ELSE {}

-----------------------------------------------------------------------------
(* What the governance layer configures: the fields exec_context.rs calls  *)
(* read-only for the TCB, each as its own reader sees it.                  *)

ReadOnly ==
  {"default_instruction", "termination_domain", "meta_instruction_types", "audit_on",
   "drain_meta_trace", "dispatch_cases", "dispatch_default", "dispatch_table_version"}

\* Those whose readers tell a missing field from its default value.
FilledIn == {"default_instruction", "dispatch_default", "dispatch_table_version"}

Reading(exec, f) ==
  CASE f = "audit_on" -> LoadAuditOn(exec)
    [] f = "drain_meta_trace" -> LoadDrainMetaTrace(exec)
    [] f = "meta_instruction_types" -> LoadMetaTypes(exec)
    [] f = "dispatch_cases" -> ReadCases(exec)
    [] f = "termination_domain" -> ReadTermination(exec)
    [] f = "default_instruction" -> ReadDefaultInstruction(exec)
    [] f = "dispatch_default" -> ReadDispatchDefault(exec)
    [] OTHER -> ReadTableVersion(exec)
=============================================================================
