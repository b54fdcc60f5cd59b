------------------------------ MODULE Registry ------------------------------
(***************************************************************************)
(* InstructionRegistry (instruction/registry.rs) as a value: which         *)
(* instruction types it knows, in which layer, with an explainer or not,   *)
(* and whether it is frozen; the two ways to fill it, register_all and     *)
(* register_from_config, and create_full_registry_from_config, which       *)
(* chooses between them.  Names refused after freeze() are dropped in      *)
(* silence, as in a release build; a debug build panics there.             *)
(***************************************************************************)
EXTENDS Naturals

CONSTANTS
  Implemented,  \* the names of exec_fn_map, those with a Rust function
  NoConfig,     \* no configuration is given
  NotObject     \* the configuration given is not an object

NewRegistry == [defs |-> [n \in {} |-> 0], frozen |-> FALSE]

Knows(reg, name) == name \in DOMAIN reg.defs

Define(defs, name, def) ==
  [n \in DOMAIN defs \cup {name} |-> IF n = name THEN def ELSE defs[n]]

RegisterWithMetadata(reg, name, layer, explained) ==
  IF reg.frozen
    THEN reg
    ELSE [reg EXCEPT !.defs = Define(@, name, [layer |-> layer, explained |-> explained])]

Freeze(reg) == [defs |-> reg.defs, frozen |-> TRUE]
Unfreeze(reg) == [defs |-> reg.defs, frozen |-> FALSE]

\* inject_explainers: existing definitions only, and frozen ones too.
InjectExplainers(reg, names) ==
  [reg EXCEPT !.defs =
     [n \in DOMAIN @ |-> [@[n] EXCEPT !.explained = @ \/ n \in names]]]

\* create_full_registry: register puts everything in layer 0.
FullRegistry ==
  InjectExplainers(
    [defs |-> [n \in Implemented |-> [layer |-> 0, explained |-> FALSE]], frozen |-> FALSE],
    Implemented)

-----------------------------------------------------------------------------
(* A configuration is a sequence, in the order of their names, of the      *)
(* categories that are objects; a category maps the names it declares to   *)
(* layers (names that begin with _ are skipped, a layer that is missing    *)
(* or unknown is 0).                                                       *)

Declared(config) ==
  IF config = NotObject THEN {} ELSE UNION {DOMAIN config[k] : k \in DOMAIN config}

\* The last category that declares a name gives its layer.
LayerOf(config, name) ==
  LET last == CHOOSE k \in DOMAIN config :
                /\ name \in DOMAIN config[k]
                /\ \A j \in DOMAIN config : name \in DOMAIN config[j] => j <= k
  IN  config[last][name]

\* register_from_config: what is implemented is registered, even if a name
\* that is not makes the call fail in the end.
RegisterFromConfig(reg, config) ==
  [reg |-> IF reg.frozen
             THEN reg
             ELSE [reg EXCEPT !.defs =
                     [n \in DOMAIN @ \cup (Declared(config) \cap Implemented) |->
                        IF n \in Declared(config) \cap Implemented
                          THEN [layer |-> LayerOf(config, n), explained |-> TRUE]
                          ELSE @[n]]],
   ok  |-> config # NotObject /\ Declared(config) \subseteq Implemented]

\* Mutant: what a failing configuration has registered is kept.
CreateFromConfigPartly(config) ==
  IF config = NoConfig THEN FullRegistry ELSE RegisterFromConfig(NewRegistry, config).reg

CreateFromConfig(config) ==
  IF config = NoConfig
    THEN FullRegistry
    ELSE LET r == RegisterFromConfig(NewRegistry, config)
         IN  IF r.ok THEN r.reg ELSE FullRegistry
=============================================================================
