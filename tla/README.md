# A TLA+ model of evorule-tcb

This directory holds TLA+ specifications of the trusted computing base of
EvoRule (`crates/tcb`), the TLC configurations that check them on small
instances, and proofs about them checked by TLAPS. Line references are to
`src/crates/tcb/src/` unless they name another path.

The program is a library that executes rules: JSON-like instructions are run
against an immutable `State`, and everything that controls the run lives in the
state too, under `__exec__`. It is single-threaded and persists nothing, so the
hard behaviour is not in threads or crashes but in the *protocol* between the
parts: who may put what on the queue, when the current instruction may be
overwritten, what a failed try leaves behind, which limits really bound a run.

## 1. Inventory

| component | source | state it keeps | operations |
|---|---|---|---|
| self-driving loop | `control/while_loop.rs`, `control/dispatch.rs`, `primitive/queue_ops.rs`, `primitive/domain_ops.rs` (`evaluate_domain`) | `__exec__.{instruction, queue, __running, __terminated_by_max_steps}`, the loop's locals | check the condition, dispatch, drain, advance, push, truncate |
| instruction execution | `instruction/registry.rs`, `exec_ctl_ctx.rs` | `ExecCtlCtx {depth, tick, instruction_count}` and the native stack | `enter`, `exit`, `execute`, `execute_inner` with the `dispatch_cases` fallback |
| error handling | `primitive/error_ops.rs` | none of its own | `execute_try_catch`, `execute_parallel` |
| audit chain | `audit.rs`, `primitive/audit_ops.rs`, `record_dispatch_expand` in `registry.rs` | `__audit_chain {records, latest_hash, root_hash, logical_tick}`, `ctx.tick` | `trace_step`, `dispatch_expand`, sign, `verify`, write and read back as a value |
| execution context | `exec_context.rs`, `state.rs` (`update_exec_field`) | `__exec__`, a map, or for a moment a typed record of 15 fields | `from_value`, `with_field`, `to_value`, the readers of each field |
| state paths | `state.rs` | the state's nested map, its version | `get_path`, `set_path` |
| domains | `domain.rs`, `primitive/domain_ops.rs` | none | `contains`, `domain_intersect`, `match_domain` |
| rules | `rule.rs`, `primitive/rule_ops.rs` | `__universe_rules__`, and a `RuleCollection` of the host | add, remove, change in place, sort, publish, load; inject, filter, apply |
| state and compute primitives | `primitive/state_ops.rs`, `primitive/compute_ops.rs`, context operations in `registry.rs` | fields of the state | set, compute, set operations |
| references | `control/dispatch.rs` (`resolve_refs`) | none | resolve, with a depth limit |
| registry configuration | `registry.rs`, `primitive/mod.rs`, `control/mod.rs` | the table of primitives, `frozen` | register, freeze, `register_from_config`, validation of types |
| clock and generator | `deterministic.rs` | counter, seed | tick, randint |
| values, errors | `value.rs`, `error.rs`, `content_hash` in `deterministic.rs` | none | ordering, truth, conversion to JSON, hashing, wording |

How they interact: the caller (the governance engine, outside this repository)
injects `__exec__` with the first instruction, an empty queue, the dispatch
table and the list of meta types, and executes `while_loop` with the body
`[dispatch, trace_step]`. `while_loop` calls `registry.execute`, which enters the
context and calls a primitive; primitives like `dispatch`,
`instruction_sequence`, `execute_try_catch` and `execute_parallel` call
`registry.execute` again. Instructions put instructions on `__exec__.queue`;
`dispatch` appends an `advance_instruction` after each one; `drain_queue` turns
the queue into the next current instruction. `trace_step` and the fallback
expansion append audit records.

What makes each part correct:

* *Loop*: every instruction handed to the queue is run once, in order, before
  the loop stops by itself; the loop returns; the truncation flag means that work
  is left; a cleared `__running` stops everything.
* *Execution*: the context is balanced on every path; a run is bounded by its
  limits.
* *Error handling*: a failed try or branch leaves nothing behind; branches are
  isolated.
* *Audit*: the chain is linked, its numbers increase, its records tell the whole
  history of the data; a stored chain is read back as it was and goes on without a
  gap; no record of it can be altered unnoticed.
* *Context*: writing one field of `__exec__` changes only that field, for every
  reader, although each reader has its own idea of a missing or ill-typed one.
* *Registry*: it has the primitives its configuration declares or all of them; a
  type accepted when it is pushed is still known when it comes up.
* *Paths, state*: what is written along a path is read back and nothing else
  moves; every change is counted; counters do not wrap around.
* *References*: they are followed to their end, and cycles come to one.
* *Rules*: the collection stays in order of weight and arrival; the rule that runs
  under an id is the newest; `inject_rule` reports what it did; a filter drops no
  rule that matters.
* *Hash*: different states have different hashes; a state that is stored and read back
  still has the hash its last record tells.
* *Domains*: a verdict is what the logic says, up to the depth limit; the
  operators agree with each other; overlap misses no common state.

The hazards behind these, each at its line, are in `PROJECT.json`.

## 2. Plan

Done, from the centre outwards:

1. the loop: `ExecLoop`, its abstract specification `InstructionStream` and the
   refinement `ExecLoopStream`;
2. what the loop calls: `CallStack`, `AuditTrail`;
3. what rules say: `RelOps`, `DomainEval`, with `filter_rules`;
4. what drives the loop: `ExecFields` (`__exec__`) and `Registry`, composed in
   `EngineCalls`, where primitives are called in any order on one registry;
5. what rules work on: `Values`, `StatePath`, `RefResolve`, each extending the one
   before, and `StateOps`, the primitives that use them;
6. where rules are kept: `RuleCollection`, and `RuleStore`, which composes the
   collection of the host with the list in the state;
7. what makes the audit chain evidence: `AuditRecord`, what a record signs, and
   `StateRecords`, which composes it with `StateOps`: chains inside of states, stored
   as JSON and read back.

The theorems are in modules of their own, one for each component that has any.

8. proofs: the loop (once only, done when it ends, final stop, honest truncation), its
   refinement of the stream, rollback and isolation, what the audit records tell, the
   rule set in the state, every property of domains, and every property of `StateOps`:
   arithmetic, paths, references, operations on lists, and the hash; both properties of
   `StateRecords`.

Left, in this order: a composition of `ExecLoop` with the instruction budget of
`CallStack`; `deterministic.rs`.

## 3. The modules

### ExecLoop

The state is that of `exec_while_loop`: the locals `max_steps`, `last_step`,
`condition_holds_at_exit` and the fields `__running`, `instruction`, `queue` and
`__terminated_by_max_steps` of `__exec__`. `phase` says where the function is.

| action | code |
|---|---|
| `Init` | `while_loop.rs:55-74`, `ParseMaxSteps` being lines 56-61 with the width of `usize` |
| `CheckCondition` | 77-87 |
| `DispatchRule`, `DispatchNoop`, `DispatchAdvance`, `DispatchMiss` | the body: `dispatch.rs:133-239` for an entry of the table, the default instruction, `advance_instruction`, and no entry at all; `trace_step` touches none of these variables |
| `DrainStopped`, `DrainMetaAdvance`, `DrainMetaRule`, `DrainBusiness`, `DrainIdle`, `DrainAdvance` | one turn of the loop of `drain_queue`, 196-324 |
| `EndIteration`, `Finish` | 129-141 and 143-172 |
| `Fail` | the `?` operators |

`ExecuteRule` is what the body of an instruction may do to these variables:
nothing (`RunPlain`), put a branch in front (`PushFront`, `evaluate_domain`),
append (`PushBack`, `push_instruction` and `push_instruction_sequence`), or clear
`__running` (`Halt`, `state_set` on the path). `ExecAdvance` is
`exec_advance_instruction`. Which of these an instruction does is free, so one
behaviour of the model stands for every rule program with these effects. Every
instruction that enters the queue gets a number; `executed`, `refused`, `behind`
and `halted` are history.

Instruction types are abstracted to four: `biz` (not a meta type), `op` (a
listed meta type other than the two below, assumed to be a registered
primitive), `adv` and `noop`. A custom condition is over business data and may
change whenever an instruction ran.

### InstructionStream, ExecLoopStream

`InstructionStream` is what a rule author is promised: a work list whose head
runs once and whose new instructions go to the front or the back. It has no
advances and no drain. `ExecLoopStream` maps the loop to it: the list is the
current instruction, if it has not run, followed by the numbered instructions of
the queue (`Numbers`: in a disciplined program these stand before every advance, so
they are the first ones). The implementation holds for *disciplined* programs, those that
never append while an `advance_instruction` is queued (`behind` stays as it is). `Outcome`
is what became of the loop: complete, stopped by an instruction, or aborted by an error or
by the limit of steps.

### CallStack

`registry.execute` and the primitives that call it. `frames` is the native
stack, one frame for each primitive that waits; `depth` and `count` are the
fields of `ExecCtlCtx`; `st` is the state handed to the next call or returned
by the last one. A state maps each field to the number of the call that wrote
it last, which is enough to say where every value comes from. `undone` is
history: the calls made under a try, a catch or a branch that failed.

`Enter` and `Refuse` are `ctx.enter`; `LeafWrites`, `LeafFails`, `Expand`,
`ExpandRefused` and the four `Start...` actions are `execute_inner`; the actions
under "What a waiting primitive does" are the code after a nested
`reg.execute`; `NoResult`, `LastWins` and `ForceMerge` end `execute_parallel`.
What runs is free at each call, so all programs within the bounds are covered.

### AuditTrail

The chain of `audit.rs` and everything that decides what is written to it. `st`
is the state, reduced to the business data (a member of `Contents`, which stands
for its own hash), `__audit_chain`, and the fields `last_dispatch_hashes` and
`audit_on` of `__exec__`; `tick` is `ctx.tick`; `frames`
holds the dispatches, tries and parallels that are open, each with the state it
would fall back to. The chain is part of `st` and is rolled back with it; `tick`
is not. `drifted` and `gaps` are history: whether a meta instruction of the drain has
changed the data since the last dispatch, and where in the chain and with which data a
dispatch began after such a change, which no record tells.

| definition | code |
|---|---|
| `TraceStep`, `TickAfter` | `exec_trace_step`, `audit_ops.rs:115-263`, and `ctx.next_tick` |
| `RecordExpand` | `record_dispatch_expand`, `registry.rs:852-917` |
| `Touch` | `update_exec_field`, which turns missing hashes into Null |
| `BeginDispatch`, `EndDispatch`, `MissDispatch`, `BeginInnerDispatch` | `dispatch_by_cases` with `record_dispatch_hashes`; inside a case body too |
| `ChangeData`, `TouchExec`, `Expand`, `RuleTrace` | what a case body may do, a step at a time and in any order |
| `BeginScope`, `EndTry`, `EndBranch`, `Fail`, `FailOut` | `execute_try_catch`, `execute_parallel` with both merges, and an error that unwinds to the frame that handles it |
| `BodyTrace`, `DrainMeta`, `DrainSets`, `DrainIdle`, `DrainStopped` | the `trace_step` calls of the loop body and of `drain_queue`, and what is written before each |

### AuditRecord, StateRecords

`AuditTrail` reduces a record to what its order and links are about. `AuditRecord` has
the whole record, as `audit.rs` has it. `ComputeHash` is the message that `compute_hash`
feeds to the HMAC: every text with its length (`Sized`), every optional one with its tag
(`Optional`), numbers at a fixed width. HMAC keeps its key and message as they are, so
that it tells different inputs apart, which is all that is asked of it. `NewRecord`,
`DeriveId`, `DeriveNonce` and `AppendRecord` are the end of both writers of the chain;
`Sound` says when a chain verifies. A text is a sequence of bytes of any length.

`StateRecords` extends `StateOps` with the audit chain that is kept in a state.

| definition | code |
|---|---|
| `RecordToValue`, `RecordFromValue` | `AuditRecord::to_value`, `from_value`, `audit.rs:298-403`; None is a missing field, a version is cut to 32 bits (`VersionLimit`) |
| `ChainToValue`, `ChainFromValue` | `AuditChainState::to_value`, `from_value`, 451-506, with the casts between `i64` and `u64`; one unreadable record makes the chain unreadable |
| `BusinessSnapshot`, `StateHash` | `state.rs:178`, `compute_dispatch_state_hash` |
| `RecordDispatchHashes` | `dispatch.rs:285`; its effect on the other fields of `__exec__` is in `ExecFields` |
| `TracedHashes`, `ChainIn`, `TraceStep` | `exec_trace_step`, `audit_ops.rs:115-263`: the hashes of the last dispatch or of a snapshot of its own, the chain or an empty one, the new record |
| `Round` | the end of a turn of `exec_while_loop`, `while_loop.rs:101-117`: dispatch leaves its hashes, and `trace_step` |

These operators are functions of a state, and the properties about them are checked in
every state `StateOps` reaches. The strings of a record are of a variant of their own
(`VText`), because they are bytes, and those of the data symbols. `RecordAssumption` says
what the constants have to be: rules have no name for `__audit_chain` nor for `audit_on`
(`StateOps` has the writes of rules, and the chain is not theirs), and JSON is cut off no
higher than the hash (both at 128 in the code) and below a stored chain.

### RelOps, DomainEval

`RelOps` has the values domains compare and the operators of `RelOp`. A value is a
record tagged with its variant; `AsF64` is the conversion `as f64`, which rounds
integers beyond `ExactLimit`. `DomainEval` has domains in both of their forms, the
JSON *document* a rule carries and the parsed `Domain`: `FromValue` and `Write` go
from one to the other, `Contains` evaluates the second with the depth limit, and
`Overlap` compares two documents. The code recurses over documents and domains; the model
has each recursion as a function on `Documents` or on the `Domains` parsed from them, and
beside it the operator that is one level of it: `Parse`, `Unparse`, `Judge` (a domain from
the verdicts on its parts), `Compare`. `Levels` says that documents are finite: a part has
fewer levels than the whole. The actions are `evaluate_domain`
(`EvaluateDomain`, both branches, `__trace_branch`, `__domain_result__`),
`match_domain` (`MatchDomain`, with all kinds of `state_ref`), `domain_intersect`
(`DomainIntersect`) and their errors (`Refuse...`).

What a domain means is stated independently: `Extension` is a set of states, built
by intersection, union and complement, with no limit on depth.

The filter of `filter_rules` (`FilterRules`) takes the list of rules and the
attributes of the context and looks into each domain by itself, without
`from_value`: `References` is the walk it makes. What it must not drop is stated from
the meaning of the domain: a rule whose verdict changes with an attribute asked for.

### ExecFields, Registry, EngineCalls

`ExecFields` has `__exec__` as a partial function from field names to values, and
beside it the typed `ExecContext`: `FromValue`, `WithField`, `ToValue` and
`UpdateExecField`, the two writers that insert into the raw map (`InsertField`), and
the readers (`IsRunning`, `GetQueue`, `ReadCases` and the others), which differ in what
they make of a missing or ill-typed field (`Misfit`). `Registry` is the table of
primitives with its layers and `frozen`: `RegisterWithMetadata`, `Freeze`,
`RegisterFromConfig` and `CreateFromConfig` with its fallback to the full table.

| action of `EngineCalls` | code |
|---|---|
| `Init` | `create_full_registry_from_config` on one of `Configs`, and one of the maps in `Contexts` as `__exec__` |
| `CallPrimitive` | `registry.execute` with the fallback of `execute_inner`: advance, push, `evaluate_domain`, a primitive that ends in `State::set_path` and so may write anything into `__exec__` or in its place (`SetPath`: `state_set`, `state_compute`, `set_context` and the others of `PathWriters`), or one that leaves it alone |
| `CallDispatch` | `dispatch_by_cases` on the system table (`Dispatch`) or on `cases` of its own parameters (`SubDispatch`), with `record_dispatch_hashes`, the advance behind it, and the default |
| `DrainBusiness`, `MarkTruncation` | the writes of `drain_queue` and `exec_while_loop` themselves |
| `HostChanges` | register, freeze and unfreeze by the host, between calls |

`ReadOnly` are the eight fields `exec_context.rs:75-100` calls read-only for the TCB, and
`Reading` is what the reader of each makes of it. Three of them (`FilledIn`) have a reader
that tells a missing field from its default: the first conversion makes a missing
`default_instruction` Null, a missing `dispatch_default` the object `{}`, on which a
dispatch that finds nothing fails, and a missing `dispatch_table_version` the empty text,
with which `trace_step` ends its summaries in a bare `@`. `ConfigurationKept` names this as
the only change the engine makes on its own account. What a rule writes into `__exec__`
itself (`TCB_Governance_Contract.md:63` says that this is the way to change it) is history
in `wrote`, for the last call, and in `named`, for all of them with the fields the host set;
the properties say what holds of the other fields in the same call, and of all of them in
every other call.

### Values, StatePath, RefResolve, StateOps, ValueJson

Values are records tagged with their variant; keys and strings are sequences of
symbols, and `Code` gives the byte of each. `Values` has what `content_hash` feeds
to the digest (`ContentHash`, the digest itself being injective), and the depth at which
it cuts off. `StatePath` is `split_path`,
`GetPath` and `SetPath` with lists, indexes, missing places, and `Counted`, which
says when the version goes up; `IsPlace` says which paths name a place of the state.
`RefResolve` is `resolve_path`, `resolve_ref_path` and `resolve_refs` with
`MAX_REF_DEPTH`.

The code recurses over values with a limit on the depth. The model has the values that
are met at each depth, layer by layer (`Layers`, and `Led` where references are followed
as well), and what the recursion makes of them from the lowest layer upwards (`BottomUp`);
beside it is the operator that is one level of the code: `Bytes`, `Kept`, and `Resolve` in
`ResolveUpTo`. Both are functions of the depth, which the proofs can take apart. The
conversion to JSON and back (`ValueJson`) has the same form, with `JsonOf` and `ValueOf` as
one level; only `StateRecords` uses it.

The actions of `StateOps` are the primitives: `StateSet`, `StateCompute`,
`SetContext`, `GetIndex`, `ObjectKeys`, `SetOperation`, each with any parameters from
the small sets of the instance, missing ones and references among them, and each
ending in `Write`. A parameter that makes the primitive fail disables the action,
because the caller keeps its state.

### RuleCollection, RuleStore

`RuleCollection` is the container of `rule.rs`: `Add`, `RemoveRule`, `GetMut` (a host
changes a weight in place), `Sort`, `FromVec`, `Clear`. A rule is its id,
priority, order and `seq`, the number under which it came. `Weight` is computed in
`i64`, with the width `IntLimit`. The sort of the standard library is modelled by its
contract, a stable sort (`StableSorts`). `dirty` and `touched` remember changes in
place since the last sort and since the last rebuild.

`RuleStore` adds the list in the state: `Publish` and `Load` between it and the
collection, `InjectRule` (`exec_inject_rule`, both halves and the numbers it
reports) and `ApplyRule` (the choice `exec_apply_rule` makes). Documents of the list
may lack an id or a transform, and ids may repeat. What a `filter` keeps is computed
document by document (`KeptOf`, `Dropping`), a recursive function that TLC evaluates and
the proofs can take apart. `newest` is history: what was last given to each id.

## 4. What the runs show

| run | bounds | result |
|---|---|---|
| `loop_contract` | 7 instructions, batches of 2, `max_steps` absent, 0, 1, 3 and above the cap (8) | the documented configuration keeps the queue discipline, runs nothing twice, hands only business instructions to dispatch, stops only when done, and truncates only with work left |
| `loop_degraded` | 6 instructions, no meta types, a condition of the rule's own, a table that misses | the loop still returns (without meta types the drain ends after one turn; that its own, uncounted loop ends where there are some is not checked) |
| `loop_stream` | 7 instructions, a `termination_domain` that depends on data | refinement of `InstructionStream` by disciplined programs |
| `call_stack` | depth 3, 5 calls, lists of 2, three aliases, a business and a system field | balance, rollback, isolation and termination |
| `audit_trail` | 2 contents, 3 ticks, 1 expansion, 2 open frames, with `drain_meta_trace`, meta instructions that change the data | every chain in use verifies; both kinds of record are numbered in order; nothing inside a try or branch alters the records made before; the records of the loop tell the history of the data, but for what meta instructions of the drain change |
| `domain_eval` | about 160 documents with up to three levels, 2900 pairs, six states, lists of two rules, a depth limit of 1, `ExactLimit` 4, one primitive | verdicts are what the domain means; the depth limit only refuses, without `not`; both written forms read back the same; numeric operators agree; overlap is sound on one attribute; `filter_rules` drops no rule whose verdict depends on an attribute asked for |
| `rule_store` | 2 ids, 2 rules of the host, 2 changes by `inject_rule`, `Scale` 10, integers of 8 bits | the collection is in order however it was made; `apply_rule` runs the newest rule of an id; publishing and loading keep the order; `inject_rule` accounts for every rule |
| `state_ops` | 7 initial states, 2 writes, 12 paths, 17 values, integers of 5 bits, depth limits 3 (paths), 4 (hash, JSON) and 6 (references), a context at tick 17, versions of 3 bits, 4 values to store | no counter wraps; writes along paths are read back and disturb nothing else; no change goes uncounted; the set operations are set operations; references are followed to their end; the hash tells values apart; a stored state goes on with its chain; an altered chain does not verify |
| `engine_calls` | 3 calls, a queue of 2, 36 maps of the host, 4 configurations of the registry, rules that stop and restart the engine, empty the table or clear `__exec__` | no call changes what was configured, but for the fields its rule writes and those that are filled in; `__running` goes off only where the termination domain or a rule says so; accepted types stay known; the registry has the declared primitives or all |
| `loop_lost`, `call_cycle`, `exec_default` | smallest that show the case | disagreements between code and documentation, below |

The bounds are small but reach the cases that matter. Seven numbered instructions allow
chains of pushes that leave several advances in the queue, a branch in front of them, and
a drain over a mix of meta and business instructions; the cap of 8 rounds and the values
of `max_steps` reach truncation, normal exit and the empty range. In `call_stack` both
limits are hit, a try contains a parallel that contains a sequence, and the refusal by a
limit is itself caught by a try. In `audit_trail` two frames let a try or a parallel run
inside the dispatch of the loop, and three ticks let a record follow two others, one of
which may have been given up; the contents are interchangeable and declared symmetric. The
documents of `domain_eval` are all operators, all kinds of domain, every list of at most
two parts and every binary form over five parts, and deeper ones that the limit cuts; the
primitives are functions of their input, so one at a time is enough. `Documents` are the
given ones, their parts and what is written of their domains, and `Levels` is computed from
them. In `rule_store` two
rules and two ids give a duplicate id, a replacement, a removal of several and a reload of
a list that was changed; the weights contain an order that outweighs a priority and a
priority that overflows. The values of `state_ops` are chosen at each boundary: an integer
two below the largest and one above the smallest, lists and values one level deeper than a
limit, a cycle of references, a path one segment too long, symbols whose bytes are also
tags and lengths of the encoding; two writes are what it takes for one primitive to read
what another wrote. Tick 17 is one that a signed integer of 5 bits cannot hold, so its
record is stored under a negative number; the values to store include one that is as deep
as JSON and hash permit. Chains of one and two records are altered in every field, with
every byte at the edge of a field moved to the next one, and by leaving out, repeating and
exchanging records; what longer chains could add is in the theorems. In `engine_calls` a
first call fills in the missing fields, a second reads them, a third reads what the second
made of them, with a write of a rule before, between or after; the maps combine missing, well-typed and ill-typed fields that readers treat
differently.

`MaxIssued`, `MaxBatch`, `MaxChildren`, `MaxTicks`, `MaxExpansions`, `MaxFrames`,
`MaxRuns`, `MaxArrivals`, `MaxInjects`, `MaxVersion`, `MaxNesting`, `MaxCalls` and
`MaxQueue` are bounds of the model; the other numbers are constants of the code made
smaller. `MaxNesting` (12) says how far into the state its integers are looked for; no
value of `state_ops` nests that deep.

*Fairness.* The specifications of `ExecLoop` and `CallStack` assume weak fairness of the one step relation
of a sequential program: if it can take a step, it does. Nothing is assumed about
which branch is taken. `Returns` and `Terminates` use it. `Returns` depends on
programs that enqueue finitely many instructions, `Terminates` on acyclic
`dispatch_cases`. The other modules
have safety properties only and assume no fairness: which primitive a program
calls next, and whether it calls one at all, is up to the program.

*Deadlock* is checked in every run. A run of `ExecLoop`, `CallStack`, `AuditTrail`,
`DomainEval` or `StateOps` that is over stutters in `Returned`, `Finished`, `Ended` or
`Done`; in `RuleStore` and `EngineCalls` the host always can do something.

### Disagreements found

* `loop_lost`: A pushes B, B pushes C. C stands behind the advance queued by the
  dispatch of A; two advances in a row then drop it. The design document says
  each instruction enters from the queue and is processed by dispatch.
* `call_cycle`: aliases that stand for each other recurse without a limit; the
  recursion tests state that every recursive call has one.
* `exec_default`: a `default_instruction` that is not configured is noop only until
  the first write to `__exec__`, which writes Null; from then on an empty queue makes
  Null current. The documentation of `exec_advance_instruction` says it defaults to
  noop. `ExecLoop` takes it as configured, as the governance layer does.

Differences between comments, documents and code that the models follow, without a
run of their own.

*The loop and error handling.* A negative `max_steps` becomes a huge number of rounds
(`while_loop.rs:61`; `docs/LLM_CONTEXT.md:399` gives an upper limit of 100000). The
truncation flag is set from `__running`, not from the condition of the loop
(`while_loop.rs:140`, comment at 144). A meta instruction that is current when the
queue is empty is replaced by the drain, not left to dispatch (`while_loop.rs:309`,
comment at 180). A catch that does not parse propagates (`error_ops.rs:120`, comment
at 85). Under `fail_fast` an error that follows a success is not returned
(`error_ops.rs:209`, comment at 146).

*Audit.* `trace_step` takes its tick from the context, not from the chain
(`audit_ops.rs:231`, comment at 101). Hashes of the last dispatch that are missing
become Null with any write to `__exec__`, and `trace_step` records empty ones, not the
hash of the current state (`state.rs:233`, contract in
`docs/spec/en-US/TCB_Governance_Contract.md:113`). Where no dispatch has left hashes,
`trace_step` hashes a snapshot of its own that contains `__audit_trace`
(`audit_ops.rs:218`); `state.rs:173` says that every caller uses
`business_state_snapshot`, which leaves it out, so such a record has another hash than
the dispatch next to it. A chain that cannot be read, because of a single record, is
begun anew without an error (`audit_ops.rs:190`). A meta instruction may change data
(`while_loop.rs:243`), and no record covers that: `AuditComplete` has it as the one place
where the story of the records breaks.

*`__exec__` and the registry.* `__trace_branch` and `__original_metadata` are dropped by
the next `update_exec_field` (`TCB_Governance_Contract.md:54` and 55 list them as fields
to read). A missing `dispatch_default` becomes `{}` with the first write, so that a
dispatch that finds nothing then fails (`dispatch.rs:207`), and a missing
`dispatch_table_version` becomes an empty one (`audit_ops.rs:180`). `register` on a frozen
registry returns nothing, and panics in a debug build; its comment promises an error.
`register_from_config` on a frozen registry returns `Ok` with nothing registered.
`register_context_op` and `inject_explainers` change a frozen registry (the header of
`registry.rs` calls it immutable). `create_full_registry` puts every primitive in layer
0. An empty configuration gives an empty registry.

*Rules and domains.* Conditions on different attributes are said not to overlap
(`domain_ops.rs:378`; the comment at 345 forbids false negatives);
`OverlapSoundOnOneAttribute` says where the answer can be relied on. `filter_rules`
takes `and` and `or` in their left and right form, and domains written as a string, to
refer to nothing (`rule_ops.rs:1077`); `FilterKeepsRelevant` leaves the first of these
out. An order of 10000 or more outweighs a priority, weights wrap around, and a priority
out of range is read as 0 without an error. `enabled` is consulted by no code of this
crate, and `constitutional` keeps no rule from being removed. `apply_rule` on an unknown
id fails, where its comment says the state is returned unchanged; `removed_count` may
exceed 1 when ids repeat.

*State and values.* `state_set` and `set_context` fail on an `attr` that is not a string,
where their comments say the state is returned unchanged; an operation given as a
reference silently becomes the default one. `remove` removes every occurrence, not the
first. `get_index` takes a reference to a list for no list. `set_intersection` keeps the
repetitions of its second operand, so it is not commutative. `set_path` replaces a scalar
that is on its way (`state.rs:44`). `-0.0` equals `0.0` and hashes differently.
`to_dispatch_key` writes an object in the order of its hash map (`value.rs:340`, called
deterministic at 45).

## 5. What is proved

The proofs hold for every value of the constants, under the named assumptions
of the modules, which only say what kind of value each constant is.

`ExecLoop_proofs`:

* `TypeCorrect`: `Spec => []TypeOK`.
* `QueueDiscipline`: `Spec => []NoSafeLoss`. `NoSafeLoss` is not inductive: it says
  nothing about *where* an instruction is when an advance overwrites the current
  one. The inductive invariant `LossInv` adds that whatever stands behind an
  advance in the queue is in `behind` (`Sorted`), that during the drain the
  current instruction may be lost (`CurrentExpendable`), and what is in the queue
  when an advance is itself current (`CurrentAdvance`, the case without meta
  types). The lemmas on sequences show that concatenation and popping keep
  `Sorted`; `ExecuteRuleGrows` and `ExecAdvanceDrops` say once what running an
  instruction and advancing do to the queue; then there is one lemma for each
  action that disturbs the invariant.
* `DisciplinedNothingLost`: as long as nothing was appended behind an advance,
  nothing at all is lost: the exact limit of the loss shown by `loop_lost`.
* `EachRunsAtMostOnce`, `DrainLeavesBusiness`, `ExitComplete`, `StopIsFinal`:
  `RunsAtMostOnce`, `DispatchSeesBusiness`, `NormalExitComplete` and the action property
  `StoppedStaysStopped`, all from `LoopInv`. What is hard about "once" is that an
  instruction stays in `__exec__.instruction` after its body ran: it is not run again only
  because `dispatch` put an advance behind it, and the drain meets that advance, or a
  business instruction, before it ends. `OnceInv` says so: an instruction that ran and is
  still current goes with an advance in the queue, as long as the loop runs. `IdleInv` says
  when the default instruction can be current (the queue is empty, but for the advance of
  its own dispatch), and `BusinessInv` what the drain leaves.
* `TruncationIsHonest`: `TruncationMeansWorkLeft`, from `LoopInv` and `CountInv`, which
  counts: as many instructions have run as rounds are over. It needs the meta types to be
  configured, and `"miss" \notin Effects`: with a table that misses, rounds pass without
  running anything. Both hold for the governance layer's configuration.

In the same module, `LoopImplementsStream` (`DisciplinedSpec => ImplementsStream`), again
without misses, since a refused instruction leaves the stream without having run.
`StreamInv` adds to `LoopInv` that nothing stands behind an advance. One lemma per action
says which step of the stream it is, or that it is none: the queue is split into its
numbered front and the advances behind (`FrontNumbered`), so that `Numbers` of what is
left, pushed or put in front can be computed.

`CallStack_proofs`: `CallTypeCorrect` and `ContextBalanced`
(`Spec => []DepthMatchesStack`), from the inductive `StackInv`. The lemmas say what
starting, replacing and leaving a frame do; each action is an instance of one of
them. `FailuresLeaveNothing` (`Spec => []Rollback`) and `BranchesIsolated`
(`Spec => []Isolation`) need to know of every state that is *kept*, because any of them may
be the current one later: `StateInv` says that the base and the results of each frame
were written by no call since the frame began (`Within`), hold nothing undone (`Clean`),
and differ from the base of each frame further out only by calls made since that one began
(`Nested`). A failing scope undoes the calls since it began; what is then handed on was
written before.

`AuditTrail_proofs`: `ChainVerifies` (`Spec => []ChainLinked`) and `TicksInOrder`
(`Spec => []TicksIncrease`), from the inductive `AuditInv`. Both properties are about all
chains in use, and even so are not inductive: a tick below `tick` today must stay below
it for a state that is fallen back to later, and a record of one kind must not disturb
the order of the other.
`AuditInv` says that the current state and every state in `frames` is sound with
respect to the current tick, and that the outermost frame is a dispatch, so that
what ends a try or a branch is never the bottom of the stack. `AppendTraced` and
`AppendExpanded` do the work on chains; `WritesKeepSound`, `TraceSound` and
`ExpandSound` lift them to states, `PushFrame`, `DropFrames` and `BranchStep` to
frames. Nothing is assumed of `HashOf`, so linkage does not depend on the hash.

`RecordsArePermanent` (`Spec => []ChainOnlyGrows`) rests on `GrowthInv`: the chains of the
states that open scopes began with are nested as the scopes are, and the current chain
extends them all. `AuditTellsHistory` (`Spec => []AuditComplete`) rests on `StoryInv`, which
follows the round of the loop: during a case body every state in use, kept or current, has
records of steps that end in the data the outermost dispatch began with (`Tells`); after
it the noted hashes go from there to the current data (`Pending`); once `trace_step` has
recorded them, and while the drain repeats them, the last record tells the current data
(`Settled`). If a meta instruction of the drain changes the data, the last record no longer
tells it; then the records end in the data that the next dispatch finds and notes (`Left`),
and the story goes on from there. So `AuditComplete` says exactly where the records fall
short of the data, and the theorem has no assumption on what meta instructions do.
Both theorems take `AbsentIsApart`: the marker of a missing chain
or of missing hashes is neither a chain nor a pair of hashes.

`StateRecords_proofs`: `AlteredRecordNoticed` and `LatestHashPinsChain`, about records
and chains of any length. The first goes through the message from its front: a text with
its length in front can be split off in one way only (`SizedPrefix`), so the fields are
equal one after the other, and with them all that follows; without the lengths this fails,
as the mutant of `AlteredChainFails` shows. For chains, suppose that two of them differ,
and take the least distance from the end at which they do, or at which one of them has
begun already (`LeastNumber`, in place of an induction): there the hashes are equal,
because the records behind it are and each names the hash of the one before, or because
both chains end in the same hash; then the records are equal by the first theorem. That one
of the chains is shorter is excluded because `Genesis` is not the hash of a record. Nothing
is assumed but that HMAC tells its inputs apart, which is how `HmacSha256` is defined.

The two properties of `StateRecords` follow in every state, with `DataInv` of `StateOps` as
the inductive invariant; what there is to prove is about the operators.

* `AlterationsFail` (`Spec => []AlteredChainFails`): whatever alters a stored record leaves
  texts where there are texts (`Readable`, `ItemsReadable`), so what is still read is a
  record (`ReadTyped`) and the chain it is in has a type. The chains of the property verify
  (`ChainsAboutGood`, from `AppendGood`), and `LatestHashPinsChain` says that a chain that
  verifies under the same latest hash is the same (`AlteredChainSame`).
* `StoredChainGoesOn` (`Spec => []StoredStateVerifies`): a record and a chain are read back
  as they were written (`RecordSurvives`, `ChainSurvives`; for the tick that goes through
  `i64`, whatever its width), and JSON leaves both alone (`ChainKept`), since it changes
  nothing but the parts of what is no infinity and no bytes, down to its limit
  (`JsonRebuilds`, `ValueRebuilds`). The rest of the state may be deeper than JSON goes.
  `EncodingKept` compares the two recursions, level by level upwards: at the first level
  that the hash cuts off there is nothing to compare, and above it parts with the same bytes
  make wholes with the same bytes (`BytesAlike`). It needs that the hash cuts off first,
  which the mutant of `StoredStateVerifies` breaks. Then a round writes what the property
  says (`RoundMakes`, `RoundGood`), and touches neither what the hash looks at nor the
  switch of the audit (`RoundLeaves`); `TwoRounds` puts two of them together.

`DomainEval_proofs`: all six properties of `domain_eval`. `VerdictsAreMembership`,
`DepthRefuses`, `DomainsSurviveWriting`, `OverlapMissesNothing`, `RelevantRulesKept` and
`ComparisonsConsistent` hold for every set of documents, of any depth and width, every
limit of depth, all values and all states. They follow from one small inductive invariant,
`Answered`: the last primitive answered what the operators say of what it was asked, and
the state is a state. The work is in what the operators say:

* A recursive function in TLA+ has the values its definition says only if it exists.
  `Recursion` proves that for every definition that looks at lower ranks only, and it is
  used for each of them: levels of a document (`NodesDefined`, `ReferencesDefined`), the sum
  of those of two documents (`OverlapDefined`), the depth that is left under the limit
  (`ContainsDefined`, `FitsDefined`), and for domains, which carry no levels, the least level
  of a document they are parsed from (`Rank`, `ExtensionDefined`). `FromValueDefined` and
  `WriteDefined` make the same argument for functions without a known range.
* One level of each recursion is a lemma about code: `JudgeMeaning` (a verdict is membership
  if those on the parts are), `JudgeMonotone` (the same in one direction, without `not`),
  `ReadStep` (a domain is read back if its parts are), `RefusedApart` (what is refused has no
  common state if its refused parts have none), `SameJudgement` (an attribute not referred to
  makes no difference).
* `Upwards` and `Downwards`, from the least counterexample (`Least`), carry a level to all:
  `VerdictAt`, `RefusesAt`, `ReadsBack`, `RefusedDisjoint`, `IrrelevantAt`. They are about a
  domain at any depth, which the properties are not: a part is judged one level nearer to the
  limit than the whole.

`OperatorsAgree` (`NumbersAgree`, the body of `ComparisonsAgree`, for all numbers and every
limit of exactness) and `IntegerOrderKept` are about the operators of atoms. They come from
the lemma that the conversion to f64 is monotone, proved by cases on the distance of the two
integers. That the limit is a multiple of 4 is used: it keeps the first rounded number from
jumping below it.

Three assumptions are behind these theorems. `DocumentsAssumption`: documents are finite,
the parts of a document are documents, a string is not an object. `DomainAssumption`: states
have values of `AttrValues` in attributes, and a number is an integer. `WrittenAssumption`:
what is written of a domain is a document. TLC evaluates all three in `domain_eval`, and
`Answered` was checked there before it was proved.

`RuleStore_proofs`: `CollectionInOrder` (`CollSpec => []RulesInOrder`). Order
alone is not inductive: that a new rule goes behind all equal ones keeps the order of
arrival only if no rule has a number that is still to come (`NumberedInv`). `CollInv`
adds that and the type. There is one lemma for each operation, on what it does to
positions (`Inserted`, `Without`, a permutation for the sort), and
`WeightLexicographic` shows that within the documented range no weight overflows and
weights compare like the pairs of priority and order, from which `HigherPriorityFirst` follows.

For the list in the state, `StoreInv` adds that what stands first under an id is the
newest document of that id (`NewestFirst`); it gives `StoreInOrder`, `NewestRuns`
(`Spec => []AppliesNewest`) and, since both need only the current state or one step,
`LoadRestoresOrder` (`Spec => []LoadKeepsOrder`) and `InjectReports`
(`Spec => InjectAccounts`). They hold for lists of any length with any number of rules of
one id. What a filter keeps is defined along the list, so its lemmas go by induction on the
list: `ListInduction` gets it from the least length of a counterexample (`Least`), and
`KeptDefined` shows first that the recursive function exists. On top of these are
`DropBody` and `PutBody` (what is found first afterwards), `DropCounts` and
`PutKeepsOthers` (how many are left of each id, and that the others stay), and
`IncreasingIsIdentity`: a stable sort of a list in order can only return that list.

`EngineCalls_proofs`: `ConfigurationIsKept`, `RunningIsKept` (action properties, no
invariant needed), `AcceptedIsKnown` and `DeclaredOrAllHolds`. The first two rest on
`FieldKept`: a field is the same, or it was missing and has its default. Lemmas about one
write (`UpdateUnseen`, `InsertUnseen`, `SetPathKeeps`) show it for every field that is not
written, for every map, however ill-typed, and everything a rule may write; each primitive
is a composition of writes (`KeptTwice`), and `KeptIsRead` says what it means for each
reader. `AcceptedIsKnown` is inductive because the table the readers see stays the same,
unless a rule writes over it, after which only registered types are promised, and no
registration takes a type away; `DeclaredOrAllHolds` because only the constructor decides
about a type that is not the host's own.

`StateOps_proofs`: all six properties of `StateOps`, for every state, every parameter,
values of any depth and width, and all limits. They rest on one inductive invariant,
`DataInv` (`StateHoldsValues`): the data are a value. "A value" cannot be defined by
recursion on its depth here, so `Proper(v)` says that some set holds v, and with each of
its members the parts of that member, all of them well formed (`Closed`). The union of two
such sets is one, so what primitives put together is a value again; `SoundProper` links
this to what the constants are assumed to be. `VersionTells` needs no invariant.

* `NothingWraps`: the bounds of every operation are arithmetic; that they hold for the
  integers of every state is the invariant, down to any depth (`InsideClosed`).
* `SetLawsHold`: a set in a strict total order is listed by `Arranged` at increasing places
  (`RankGrows`, `ArrangedLists`), for positions and for texts (`TextsOrdered`); taking
  and sorting then move positions without losing one, which counts occurrences
  (`SortedOccurrences`, `MeetAndRest`).
* `WritesAreRead`: `PlaceFollows` goes along the written path from its end: what stands
  after k segments of the new data is what `set_path_recursive` made of the old, and every
  way that leaves the path there finds what it found before, or the Null of a filled-up list.
  `FollowsFrame` makes this into the statement about paths.
* `RefsAreResolved`: one level up, the result of a value that meets no parameter of the
  instruction holds no reference that stands alone, because the results of its parts do
  not (`ResolvedClean`). `LimitSuffices` compares two limits: where the layers are empty
  before the smaller one, both recursions agree, layer by layer upwards.
* `HashesTellApart`: an encoding can be split off the front of a sequence in one way only,
  which is proved level by level upwards (`EncodingsApart`). At one level, the tag decides
  the variant (`TagsApart`), the length how much of a text follows (`TextsCancel`), the
  number of parts how many follow (`ListsApart`, `ObjectsApart`), and the order of keys that
  the same entries are the same object. That lists are hashed without a count does no harm,
  because no encoding is empty (`FlattenCancels`, `SameHash`).

Each recursive function is first shown to have the values its definition says
(`LayersDefined`, `LedDefined`, `AfterWriteDefined`, `EncodeDefined` and others). The
assumptions are those of `StateOps`: `ValuesAssumption` and `IntLimitAssumption`, that the
bytes of tokens are different (`CodeAssumption`), and that limits are natural numbers. TLC
evaluates all of them in `state_ops`.

Only model-checked: the liveness properties `Returns` and `Terminates`, which need
fairness and `ENABLED` and are beyond the prover. Every safety property of a passing run is
a theorem.
That `loop_contract` excludes misses is a hypothesis of the theorems named above, not of
the others, which hold with them.

## 6. What is not modelled

`ExecLoop` leaves out a loop body other than `[dispatch, trace_step]`, loops inside
loops, the resolution of parameters (which is in `RefResolve`), and queue entries that
are not instructions. It assumes that an instruction leaves `__exec__.instruction` and
the configuration to the loop, reaches the queue only through the primitives made for it
and may clear `__running` but not set it, although `state_set` can write all of these; the fallback expansion, which overwrites it with an instruction that is
being executed, is in `CallStack` and `EngineCalls`. `CallStack` leaves out what
primitives compute, `__parallel_provenance__`, and the tick. `AuditTrail` leaves out a
chain that does not parse and what a record signs, which are in `StateRecords` and
`AuditRecord`, and meta instructions that themselves dispatch, trace or expand an alias during
the drain; a record keeps only its kind, tick, hashes and link. It also leaves out rules that use
`state_set` on `__audit_chain`, `audit_on` or `last_dispatch_hashes`: what the chain says
then is up to them. It is about one context: a new `ExecCtlCtx` on a state with a chain
counts its ticks from 0 again.
`DomainEval` leaves out paths of more than one segment, objects and bytes as values,
spacing of f64 beyond twice the limit, and lists under `left`.

`EngineCalls` leaves out how a key becomes text (`to_dispatch_key`) and the primitives that
run others (`instruction_sequence`, `apply_rule`, `execute_try_catch`,
`execute_parallel`, `while_loop`), called directly, through the table or as a default: they
touch `__exec__` by calls like those it has, may fall back to an earlier state, and what
that leaves is in `CallStack`. It takes `__exec__` for a map, missing or not: written over
with a list, further paths into it fail, or write nothing. It leaves out eval branches of the registry, and context
operations registered by the host. `StateRecords` leaves out the wording of labels and
summaries, and `__exec__` fields other than the hashes and `audit_on`. `StateOps` leaves
out the arithmetic of floats and the primitive `content_hash`, which writes what `Values`
computes; `StatePath` leaves out `State::remove`, `set_all`, `to_std_map` and snapshots;
`RefResolve` leaves out `set_path_value` and `build_nested_state`, which the engine does
not call. `Values` leaves out truth, `Display` and `to_dispatch_key`. `RuleStore` leaves
out what a transform does (it is an instruction like any other, and in `CallStack`),
`observe_rules`, which copies the list, and the fields no code consults.

The logical clock and the seeded generator of `deterministic.rs` are called by no
primitive. Errors are constructors and wording. Benchmarks, examples and shell gates
are no logic of the engine.

More than half of the lines under `crates/tcb/src` are unit tests inside the files they
test; the map covers about half of the others.
