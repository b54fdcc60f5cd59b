----------------------------- MODULE EngineCalls -----------------------------
(***************************************************************************)
(* The primitives that read and write __exec__, called in any order on     *)
(* one registry: registry.execute with its dispatch_cases fallback,        *)
(* dispatch on both kinds of table, the queue primitives, evaluate_domain, *)
(* the primitives that write where a rule tells them, and the writes of    *)
(* drain_queue and exec_while_loop; and, between the calls, what a host    *)
(* does to the registry.  The loop of ExecLoop is one such order; here the *)
(* fields of __exec__ are what matters: which are there, of which type,    *)
(* who still reads them right after a write, and whether a rule asked for  *)
(* that write or the engine made it on its own.                            *)
(*                                                                         *)
(* The primitives that run others (instruction_sequence, apply_rule,       *)
(* execute_try_catch, execute_parallel, while_loop) are none of the types  *)
(* here: they touch __exec__ by calls like these.                          *)
(***************************************************************************)
EXTENDS ExecFields, Registry

CONSTANTS
  Types,       \* types that are called
  Pushed,      \* types that are handed to the queue
  Table,       \* the object in dispatch_cases
  CaseOf,      \* that object: the type of the instruction of each case
  NoopDomain,  \* a termination_domain: the current instruction is a noop
  Contexts,    \* the maps a host may start with
  Configs,     \* the configurations a host may build the registry from
  HostTypes,   \* types a host may register itself
  OwnWrites,   \* what a rule may write into __exec__: values of some fields
  Replacements,  \* what a rule may write in place of __exec__
  Metadata,    \* a value of last_dispatch_hashes, of metadata
  None,        \* nothing injected yet
  MaxCalls,    \* bound: calls
  MaxQueue     \* bound: length of the queue

ASSUME CallConstants ==
  /\ MaxCalls \in Nat /\ MaxQueue \in Nat
  /\ Table # EmptyObject /\ Table # Misfit

VARIABLES
  reg,       \* the registry
  exec,      \* __exec__ of the state
  calls,     \* how many calls were made
  config,    \* history: what the registry was built from
  named,     \* history: the fields that the host or a rule gave a value
  wrote,     \* history: the fields that the rule of the last call wrote itself
  accepted,  \* history: types validation let through, with a table to look in
  injected   \* history: what the last advance on an empty queue made current

vars == <<reg, exec, calls, config, named, wrote, accepted, injected>>

-----------------------------------------------------------------------------
(* validate_instruction_type.                                              *)

\* `if let Value::Object`
CasesIsObject(e) == ReadCases(e) \in {Table, EmptyObject}
CaseTypes(e) == IF ReadCases(e) = Table THEN DOMAIN CaseOf ELSE {}
TypeKnown(t, e) == Knows(reg, t) \/ t \in CaseTypes(e)

\* without dispatch_cases nothing is validated, nor is what has no type
Validates(e) == Has(e, "dispatch_cases") /\ CasesIsObject(e)
Passes(t, e) == Validates(e) => t = EmptyObject \/ TypeKnown(t, e)

(* What a call returns: the state's __exec__, and what the histories note. *)
Result(e) == [ok |-> TRUE, exec |-> e, wrote |-> {}, told |-> {}, injected |-> None]
Failure == [ok |-> FALSE, exec |-> exec, wrote |-> {}, told |-> {}, injected |-> None]
Told(types, e) == IF Validates(e) THEN types \ {EmptyObject} ELSE {}

-----------------------------------------------------------------------------
(* The primitives, as the set of what they may return.                     *)

\* exec_advance_instruction
AdvanceInstruction(e) ==
  LET default == ReadDefaultInstruction(e)
      current == UpdateExecField(e, "instruction", default)
      stop    == ReadTermination(e) = NoopDomain /\ default = "noop"
      popped  == UpdateExecField(e, "queue", Tail(GetQueue(e)))
  IN  IF GetQueue(e) = <<>>
        THEN {[Result(IF stop THEN UpdateExecField(current, "__running", FALSE) ELSE current)
                 EXCEPT !.injected = default]}
        ELSE {Result(UpdateExecField(popped, "instruction", Head(GetQueue(e))))}

Batches(e) ==
  {b \in {<<t>> : t \in Pushed} \cup {<<t, u>> : t, u \in Pushed} :
     Len(GetQueue(e)) + Len(b) <= MaxQueue}

\* Mutant of PushInstructions: enqueued first, validated never.
PushInstructionsUnchecked(e) ==
  {[Result(UpdateExecField(e, "queue", GetQueue(e) \o batch))
      EXCEPT !.told = Told({batch[k] : k \in DOMAIN batch}, e)]  : batch \in Batches(e)}

\* exec_push_instruction, exec_push_instruction_sequence: all validated first
PushInstructions(e) ==
  {IF \A k \in DOMAIN batch : Passes(batch[k], e)
     THEN [Result(UpdateExecField(e, "queue", GetQueue(e) \o batch))
             EXCEPT !.told = Told({batch[k] : k \in DOMAIN batch}, e)]
     ELSE Failure  : batch \in Batches(e)}

\* exec_evaluate_domain: both branches are validated, the chosen one is put in
\* front; it inserts into the raw map.
Branched(chosen, other, e) ==
  LET marked == InsertField(e, "__trace_branch", Metadata)
  IN  IF Passes(chosen, e) /\ Passes(other, e)
        THEN [Result(InsertField(marked, "queue", <<chosen>> \o GetQueue(e)))
                EXCEPT !.told = Told({chosen, other}, e)]
        ELSE Failure

EvaluateDomain(e) ==
  {Result(InsertField(e, "__trace_branch", Metadata))} \cup
  {Branched(branch[1], branch[2], e) :
     branch \in IF Len(GetQueue(e)) < MaxQueue THEN Pushed \X Pushed ELSE {}}

\* The primitives that end in State::set_path, with a path from the rule.
PathWriters ==
  {"state_set", "state_compute", "set_context", "match_domain", "domain_intersect",
   "observe_rules", "filter_rules", "inject_rule", "content_hash", "get_index",
   "object_keys", "set_intersection", "set_diff", "set_union"}

Overwritten(e, w) ==
  [f \in DOMAIN e \cup DOMAIN w |-> IF f \in DOMAIN w THEN w[f] ELSE e[f]]

\* The path may lead elsewhere, to a field of __exec__ or below it, or to
\* __exec__ as a whole; inject_rule writes along two.  Nothing is converted.
SetPath(e) ==
  {Result(e), Failure}
  \cup {[Result(Overwritten(e, w)) EXCEPT !.wrote = DOMAIN w] : w \in OwnWrites}
  \cup {[Result(m) EXCEPT !.wrote = Typed] : m \in Replacements}

\* A registered primitive; noop and trace_step leave __exec__ alone.
Primitive(t, e) ==
  CASE t = "advance_instruction" -> AdvanceInstruction(e)
    [] t \in {"push_instruction", "push_instruction_sequence"} -> PushInstructions(e)
    [] t = "evaluate_domain" -> EvaluateDomain(e)
    [] t \in PathWriters -> SetPath(e)
    [] OTHER -> {Result(e)}

\* The fallback of execute_inner: the case is looked up in the same way, and
\* metadata of the alias goes to a field update_exec_field does not know.
Expanded(t, e) ==
  LET current == InsertField(e, "instruction", t)
  IN  {current, UpdateExecField(current, "__original_metadata", Metadata)}

Execute(t, e) ==
  IF Knows(reg, t) THEN Primitive(t, e)
  ELSE IF t \in CaseTypes(e) /\ Knows(reg, CaseOf[t]) /\ CaseOf[t] # "dispatch"
    THEN UNION {Primitive(CaseOf[t], e2) : e2 \in Expanded(t, e)}
    ELSE {Failure}

-----------------------------------------------------------------------------
(* dispatch on the system table, or on one of its own.                     *)

\* record_dispatch_hashes, and the advance_instruction behind it
Recorded(r) ==
  LET e2 == UpdateExecField(r.exec, "last_dispatch_hashes", Metadata)
  IN  IF ~r.ok THEN r
      ELSE [r EXCEPT !.exec =
              IF IsRunning(e2)
                THEN UpdateExecField(e2, "queue", Append(GetQueue(e2), "advance_instruction"))
                ELSE e2]

\* An instruction without a type is looked up as "null", which no case has.
Dispatch(e) ==
  LET t == IF Has(e, "instruction") THEN e["instruction"] ELSE Null
  IN  IF ~CasesIsObject(e) THEN {Result(e)}
      ELSE IF t \in CaseTypes(e) THEN {Recorded(r) : r \in Execute(CaseOf[t], e)}
      ELSE IF ~Has(e, "dispatch_default") THEN {Result(e)}
      ELSE IF e["dispatch_default"] = EmptyObject THEN {Failure}
      ELSE {Recorded(r) : r \in Execute(e["dispatch_default"], e)}

\* With `cases` among its parameters, an empty table included, dispatch looks
\* into no other: what it finds there, or its own default, is of any type, no
\* instruction, or missing.  Without a key nothing is found.
SubDispatch(e) ==
  {Result(e), Failure} \cup {Recorded(r) : r \in UNION {Execute(t, e) : t \in Types}}

-----------------------------------------------------------------------------
Init ==
  /\ config \in Configs
  /\ reg = CreateFromConfig(config)
  /\ exec \in Contexts
  /\ calls = 0
  /\ named = DOMAIN exec
  /\ wrote = {}
  /\ accepted = {}
  /\ injected = None

\* What rested on a table that the rule has since written over is no longer
\* promised.
Promised(r) ==
  IF "dispatch_cases" \in r.wrote THEN {t \in accepted : Knows(reg, t)} ELSE accepted

Return(r) ==
  /\ exec' = IF r.ok THEN r.exec ELSE exec
  /\ wrote' = IF r.ok THEN r.wrote ELSE {}
  /\ named' = IF r.ok THEN named \cup r.wrote ELSE named
  /\ accepted' = IF r.ok THEN Promised(r) \cup r.told ELSE accepted
  /\ injected' = r.injected
  /\ UNCHANGED <<reg, config>>

MayCall == calls < MaxCalls /\ calls' = calls + 1

CallPrimitive == MayCall /\ \E t \in Types : \E r \in Execute(t, exec) : Return(r)

CallDispatch ==
  /\ MayCall
  /\ Len(GetQueue(exec)) < MaxQueue
  /\ \E r \in Dispatch(exec) \cup SubDispatch(exec) : Return(r)

\* drain_queue hands the front of the queue to the next dispatch.
DrainBusiness ==
  LET q == GetQueue(exec)
      e2 == UpdateExecField(exec, "queue", Tail(q))
      e3 == UpdateExecField(e2, "instruction", Head(q))
  IN  /\ MayCall
      /\ q # <<>>
      /\ IsRunning(exec)
      /\ Return(Result(UpdateExecField(e3, "__trace_source", "queue_pop")))

\* exec_while_loop notes whether it was cut short.
MarkTruncation ==
  /\ MayCall
  /\ \E b \in BOOLEAN :
       Return(Result(UpdateExecField(exec, "__terminated_by_max_steps", b)))

\* A host may register, freeze and unfreeze at any time.
HostChanges ==
  /\ \/ \E t \in HostTypes : reg' = RegisterWithMetadata(reg, t, 1, FALSE)
     \/ reg' = Freeze(reg)
     \/ reg' = Unfreeze(reg)
  /\ UNCHANGED <<exec, calls, config, named, wrote, accepted, injected>>

Next == \/ CallPrimitive \/ CallDispatch \/ DrainBusiness \/ MarkTruncation
        \/ HostChanges

Spec == Init /\ [][Next]_vars
-----------------------------------------------------------------------------
(* No call changes what the governance layer configured, as the readers    *)
(* see it, but for the fields the rule itself told a primitive to write:   *)
(* each field exec_context.rs calls read-only for the TCB survives every   *)
(* conversion to ExecContext and back, missing or of the wrong type as it  *)
(* may be.  Only where the field is missing and its reader would notice    *)
(* does the first conversion give it another meaning, that of its default. *)
ConfigurationKept ==
  [][\A f \in ReadOnly \ wrote' :
       \/ Reading(exec', f) = Reading(exec, f)
       \/ f \in FilledIn /\ ~Has(exec, f) /\ Has(exec', f) /\ exec'[f] = DefaultOf(f)]_vars

(* __running, in whatever form the host or a rule left it, changes for no  *)
(* reader on the engine's own account except when advance_instruction      *)
(* finds the queue empty and the termination domain matching, and then it  *)
(* goes off; it comes back on only if the rule itself writes it.           *)
RunningKept ==
  [][IsRunning(exec') # IsRunning(exec) =>
       \/ "__running" \in wrote'
       \/ IsRunning(exec) /\ GetQueue(exec) = <<>> /\ ReadTermination(exec) = NoopDomain]_vars

(* What push_instruction, push_instruction_sequence and evaluate_domain    *)
(* validated stays valid: a type they accepted while there was a table is  *)
(* found by every later lookup, whatever the engine writes to __exec__,    *)
(* rules write to its other fields or the host does to the registry before *)
(* the instruction comes up; and if a rule writes over the table itself,   *)
(* what was registered stays known all the same.                           *)
AcceptedStaysKnown == \A t \in accepted : TypeKnown(t, exec)

(* create_full_registry_from_config gives the declared primitives or, if   *)
(* anything in the configuration is wrong, all of them: an error half way  *)
(* never leaves an engine with part of its primitives.                     *)
DeclaredOrAll ==
  \A n \in Implemented \ HostTypes :
    Knows(reg, n) <=>
      \/ config \in {NoConfig, NotObject}
      \/ n \in Declared(config)
      \/ ~(Declared(config) \subseteq Implemented)

(* What the documentation of exec_advance_instruction says: when the queue *)
(* is empty and nobody configured a default_instruction, noop is injected. *)
DefaultIsNoop == "default_instruction" \notin named => injected \in {None, "noop"}
=============================================================================
