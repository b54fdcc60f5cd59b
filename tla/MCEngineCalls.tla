---------------------------- MODULE MCEngineCalls ----------------------------
(* Missing, well-typed and ill-typed fields that some reader treats        *)
(* differently, on every way to build the registry.                        *)
EXTENDS EngineCalls

MCTypes == {"advance_instruction", "push_instruction", "evaluate_domain", "alias", "state_set"}
MCPushed == {"alias", "host", EmptyObject}
MCCaseOf == [t \in {"alias", "advance_instruction"} |->
               IF t = "alias" THEN "push_instruction" ELSE "advance_instruction"]
MCImplemented ==
  {"advance_instruction", "push_instruction", "evaluate_domain", "state_set", "noop"}

\* A rule stops the engine or restarts it, empties the table and its default,
\* or clears __exec__.
MCOwnWrites ==
  {[f \in {"__running"} |-> v] : v \in BOOLEAN}
  \cup {[f \in {"dispatch_cases", "dispatch_default"} |-> EmptyObject]}
MCReplacements == {[f \in {} |-> Null]}

\* The choices for each field; the empty one leaves the field out.  Where
\* __running is missing or ill-typed, the first write makes it TRUE.
Choices(running, audit, default, version) ==
  [instruction : {{"alias"}}, __running : running, audit_on : audit,
   default_instruction : default, termination_domain : {{NoopDomain}},
   dispatch_cases : {{}, {Table}}, dispatch_default : {{}, {"advance_instruction"}},
   dispatch_table_version : version, queue : {{Misfit}}]

MCContexts ==
  {[f \in {g \in DOMAIN c : c[g] # {}} |-> CHOOSE v \in c[f] : TRUE] :
     c \in Choices({{}, {Misfit}}, {{}, {Misfit}}, {{}, {"noop"}}, {{}})
           \cup Choices({{TRUE}}, {{FALSE}}, {{"noop"}}, {{"v1"}})}

MCConfigs ==
  {NoConfig, NotObject,
   <<[n \in {"advance_instruction", "push_instruction", "state_set"} |-> 2],
     [n \in {"evaluate_domain"} |-> 3]>>,
   <<[n \in {"advance_instruction", "elsewhere"} |-> 2]>>}
=============================================================================
