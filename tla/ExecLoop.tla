------------------------------ MODULE ExecLoop ------------------------------
(***************************************************************************)
(* The self-driving loop of the TCB: exec_while_loop and drain_queue       *)
(* (control/while_loop.rs), the dispatch primitive (control/dispatch.rs),  *)
(* and the primitives that feed the instruction queue                      *)
(* (primitive/queue_ops.rs, primitive/domain_ops.rs), run with the body    *)
(* the engine gives the loop: [dispatch, trace_step].                      *)
(*                                                                         *)
(* Everything runs on one thread, so an action is one stretch of code      *)
(* between two points at which the program looks at its state again: the   *)
(* condition check, the body, one turn of the drain's `loop`, the end of   *)
(* an iteration, the code after the loop.                                  *)
(*                                                                         *)
(* What an instruction computes on business data is not modelled here:     *)
(* which effect it has on the queue and on __running is chosen freely, so  *)
(* every rule program whose instructions have these effects is covered.    *)
(* Every instruction handed to the queue is numbered, which lets the       *)
(* properties say what became of it.                                       *)
(***************************************************************************)
EXTENDS Integers, Sequences, FiniteSets

CONSTANTS
  Effects,             \* what a rule's instruction may do, a subset of AllEffects
  Kinds,               \* types a rule may enqueue, a subset of {"biz", "op"}
  MetaConfigured,      \* FALSE: __exec__.meta_instruction_types is missing
  TerminationOutcomes, \* values termination_domain may take on an empty queue
  CustomCondition,     \* TRUE: the loop's condition is a domain of its own
  RequestedSteps,      \* values of the max_steps parameter, or Absent
  Absent,              \* max_steps not given, or not an integer
  DefaultSteps,        \* 10000 in the code
  StepCap,             \* 100000 in the code
  WordSize,            \* 2^64 in the code: the range of usize
  MaxIssued,           \* bound: how many instructions a program enqueues
  MaxBatch             \* bound: length of one push_instruction_sequence

AllEffects == {"plain", "front", "push", "halt", "miss", "fail"}

ASSUME EffectsAssumption == Effects \subseteq AllEffects
ASSUME KindsAssumption == Kinds \subseteq {"biz", "op"}
ASSUME SwitchAssumption ==
  /\ MetaConfigured \in BOOLEAN
  /\ CustomCondition \in BOOLEAN
  /\ TerminationOutcomes \in SUBSET BOOLEAN
  /\ TerminationOutcomes # {}
ASSUME StepsAssumption ==
  /\ WordSize \in Nat \ {0}
  /\ DefaultSteps \in Nat
  /\ StepCap \in 0 .. (WordSize - 1)
  /\ Absent \notin Int
  /\ RequestedSteps \subseteq Int \cup {Absent}
ASSUME BoundsAssumption == MaxIssued \in Nat \ {0} /\ MaxBatch \in Nat \ {0}

VARIABLES
  phase,        \* where exec_while_loop is
  maxSteps,     \* max_steps, parsed once
  step,         \* last_step
  holds,        \* condition_holds_at_exit
  truncated,    \* __exec__.__terminated_by_max_steps
  running,      \* __exec__.__running
  instruction,  \* __exec__.instruction
  queue,        \* __exec__.queue
  cond,         \* what a custom condition evaluates to on the current state
  issued,       \* history: how many instructions have been numbered
  executed,     \* history: numbers of the instructions whose body ran
  refused,      \* history: numbers handed to dispatch, not in its table
  behind,       \* history: numbers appended behind an advance_instruction
  halted        \* history: an instruction cleared __running

loopVars == <<maxSteps, step, holds, truncated>>
execVars == <<running, instruction, queue>>
history == <<issued, executed, refused, behind, halted>>
vars == <<phase, loopVars, execVars, cond, history>>

Phases == {"check", "body", "drain", "next", "finish", "done", "failed"}

-----------------------------------------------------------------------------
(* Instructions.  "biz" stands for every type outside the meta types, "op" *)
(* for every listed meta type other than advance_instruction.              *)

Instr(type, id) == [type |-> type, id |-> id]
Advance == Instr("adv", 0)
Noop == Instr("noop", 0)

Instruction == [type : {"biz", "op", "adv", "noop"}, id : Nat]

\* meta_types.contains(type); without the configuration the list is empty.
IsMeta(i) == MetaConfigured /\ i.type # "biz"

Ids(q) == {q[k].id : k \in DOMAIN q}
HasAdvance(q) == \E k \in DOMAIN q : q[k].type = "adv"

\* as_integer().unwrap_or(DEFAULT).min(CAP) as usize
ParseMaxSteps(requested) ==
  LET n == IF requested = Absent THEN DefaultSteps ELSE requested
  IN  (IF n < StepCap THEN n ELSE StepCap) % WordSize

-----------------------------------------------------------------------------
(* What the body of one instruction does to the queue q.  `tail` is what   *)
(* dispatch appends afterwards if __running still holds: the              *)
(* advance_instruction, or nothing when the drain executes it directly.    *)

\* A primitive that touches neither the queue nor __running.
RunPlain(q, tail) ==
  /\ "plain" \in Effects
  /\ queue' = q \o tail
  /\ UNCHANGED <<issued, behind, running, halted>>

\* Mutant of PushFront: the branch is appended, as push_instruction would.
PushFrontAtBack(q, tail) ==
  /\ "front" \in Effects
  /\ issued < MaxIssued
  /\ \E t \in Kinds : queue' = q \o <<Instr(t, issued + 1)>> \o tail
  /\ issued' = issued + 1
  /\ UNCHANGED <<behind, running, halted>>

\* evaluate_domain: the chosen branch becomes the front of the queue.
PushFront(q, tail) ==
  /\ "front" \in Effects
  /\ issued < MaxIssued
  /\ \E t \in Kinds : queue' = <<Instr(t, issued + 1)>> \o q \o tail
  /\ issued' = issued + 1
  /\ UNCHANGED <<behind, running, halted>>

\* push_instruction and push_instruction_sequence: append all, in order.
PushBack(q, tail) ==
  /\ "push" \in Effects
  /\ \E n \in 1 .. MaxBatch : \E types \in [1 .. n -> Kinds] :
       /\ issued + n <= MaxIssued
       /\ queue' = q \o [k \in 1 .. n |-> Instr(types[k], issued + k)] \o tail
       /\ issued' = issued + n
       /\ behind' = IF HasAdvance(q)
                      THEN behind \cup ((issued + 1) .. (issued + n))
                      ELSE behind
  /\ UNCHANGED <<running, halted>>

\* An instruction that clears __exec__.__running: dispatch appends nothing.
Halt(q) ==
  /\ "halt" \in Effects
  /\ running' = FALSE
  /\ halted' = TRUE
  /\ queue' = q
  /\ UNCHANGED <<issued, behind>>

\* reg.execute of instruction i, which leaves queue q \o tail when it is done.
ExecuteRule(i, q, tail) ==
  /\ \/ RunPlain(q, tail)
     \/ PushFront(q, tail)
     \/ PushBack(q, tail)
     \/ Halt(q)
  /\ executed' = executed \cup {i.id}
  /\ cond' \in (IF CustomCondition THEN BOOLEAN ELSE {cond})
  /\ UNCHANGED refused

\* Mutant of ExecAdvance: termination is tested whatever the queue holds.
ExecAdvanceAlwaysTests(q, tail) ==
  /\ instruction' = IF q = <<>> THEN Noop ELSE Head(q)
  /\ \E stop \in TerminationOutcomes : running' = (running /\ ~stop)
  /\ queue' = (IF q = <<>> THEN <<>> ELSE Tail(q)) \o (IF running' THEN tail ELSE <<>>)
  /\ UNCHANGED <<cond, history>>

\* exec_advance_instruction: pop, or inject the default and test termination.
ExecAdvance(q, tail) ==
  /\ \/ /\ q = <<>>
        /\ instruction' = Noop
        /\ \E stop \in TerminationOutcomes : running' = (running /\ ~stop)
        /\ queue' = IF running' THEN tail ELSE <<>>
     \/ /\ q # <<>>
        /\ instruction' = Head(q)
        /\ running' = running
        /\ queue' = Tail(q) \o (IF running THEN tail ELSE <<>>)
  /\ UNCHANGED <<cond, history>>

-----------------------------------------------------------------------------
Init ==
  /\ \E r \in RequestedSteps : maxSteps = ParseMaxSteps(r)
  /\ phase = IF maxSteps = 0 THEN "finish" ELSE "check"
  /\ step = 0
  /\ holds = FALSE
  /\ truncated = FALSE
  /\ running = TRUE
  /\ \E t \in Kinds : instruction = Instr(t, 1)
  /\ queue = <<>>
  /\ cond = TRUE
  /\ issued = 1
  /\ executed = {}
  /\ refused = {}
  /\ behind = {}
  /\ halted = FALSE

\* check_condition, at the head of an iteration.
CheckCondition ==
  /\ phase = "check"
  /\ LET continue == IF CustomCondition THEN cond ELSE running
     IN  /\ phase' = IF continue THEN "body" ELSE "finish"
         /\ holds' = (holds /\ continue)
  /\ UNCHANGED <<maxSteps, step, truncated, execVars, cond, history>>

(* The body, [dispatch, trace_step], for each way dispatch may go.         *)

\* Mutant of DispatchRule: dispatch does not append advance_instruction.
DispatchRuleNoAdvance ==
  /\ phase = "body"
  /\ instruction.type \in {"biz", "op"}
  /\ ExecuteRule(instruction, queue, <<>>)
  /\ phase' = "drain"
  /\ UNCHANGED <<loopVars, instruction>>

\* An entry of the table runs, and dispatch appends advance_instruction.
DispatchRule ==
  /\ phase = "body"
  /\ instruction.type \in {"biz", "op"}
  /\ ExecuteRule(instruction, queue, <<Advance>>)
  /\ phase' = "drain"
  /\ UNCHANGED <<loopVars, instruction>>

\* The default instruction, when the termination domain did not match it.
DispatchNoop ==
  /\ phase = "body"
  /\ instruction.type = "noop"
  /\ queue' = Append(queue, Advance)
  /\ phase' = "drain"
  /\ UNCHANGED <<loopVars, running, instruction, cond, history>>

\* advance_instruction reaches dispatch only if it is not a meta type.
DispatchAdvance ==
  /\ phase = "body"
  /\ instruction.type = "adv"
  /\ ExecAdvance(queue, <<Advance>>)
  /\ phase' = "drain"
  /\ UNCHANGED loopVars

\* No entry and no default: dispatch returns the state as it was.
DispatchMiss ==
  /\ phase = "body"
  /\ "miss" \in Effects
  /\ instruction.type = "biz"
  /\ refused' = refused \cup {instruction.id}
  /\ phase' = "drain"
  /\ UNCHANGED <<loopVars, execVars, cond, issued, executed, behind, halted>>

(* One turn of the loop in drain_queue.                                    *)

\* Mutant of Popping: the drain does not look at __running.
PoppingUnchecked == phase = "drain" /\ queue # <<>>

Popping == phase = "drain" /\ queue # <<>> /\ running

\* Queue not empty, __running cleared: the drain stops.
DrainStopped ==
  /\ phase = "drain"
  /\ queue # <<>>
  /\ ~running
  /\ phase' = "next"
  /\ UNCHANGED <<loopVars, execVars, cond, history>>

\* A popped meta instruction is executed at once; the drain goes on.
DrainMetaAdvance ==
  /\ Popping
  /\ IsMeta(Head(queue))
  /\ Head(queue).type = "adv"
  /\ ExecAdvance(Tail(queue), <<>>)
  /\ UNCHANGED <<phase, loopVars>>

DrainMetaRule ==
  /\ Popping
  /\ IsMeta(Head(queue))
  /\ Head(queue).type # "adv"
  /\ ExecuteRule(Head(queue), Tail(queue), <<>>)
  /\ UNCHANGED <<phase, loopVars, instruction>>

\* A popped business instruction becomes the current one.
DrainBusiness ==
  /\ Popping
  /\ ~IsMeta(Head(queue))
  /\ instruction' = Head(queue)
  /\ queue' = Tail(queue)
  /\ phase' = "next"
  /\ UNCHANGED <<loopVars, running, cond, history>>

\* Queue empty, current instruction is business: left to the next dispatch.
DrainIdle ==
  /\ phase = "drain"
  /\ queue = <<>>
  /\ ~IsMeta(instruction)
  /\ phase' = "next"
  /\ UNCHANGED <<loopVars, execVars, cond, history>>

\* Mutant of DrainAdvance: a meta instruction is left to the next dispatch.
DrainAdvanceBreaks ==
  /\ phase = "drain"
  /\ queue = <<>>
  /\ IsMeta(instruction)
  /\ phase' = "next"
  /\ UNCHANGED <<loopVars, execVars, cond, history>>

\* Queue empty, current instruction is meta: advance, whatever __running is.
DrainAdvance ==
  /\ phase = "drain"
  /\ queue = <<>>
  /\ IsMeta(instruction)
  /\ ExecAdvance(queue, <<>>)
  /\ phase' = "next"
  /\ UNCHANGED loopVars

\* An error in the condition, the body or the drain leaves through `?`.
Fail ==
  /\ phase \in {"check", "body", "drain"}
  /\ "fail" \in Effects
  /\ phase' = "failed"
  /\ UNCHANGED <<loopVars, execVars, cond, history>>

\* Mutants of EndIteration: one iteration too many, an iteration that is not
\* counted.
EndIterationOneMore ==
  /\ phase = "next"
  /\ holds' = running
  /\ IF running /\ step + 1 <= maxSteps
       THEN step' = step + 1 /\ phase' = "check"
       ELSE step' = step /\ phase' = "finish"
  /\ UNCHANGED <<maxSteps, truncated, execVars, cond, history>>

EndIterationUncounted ==
  /\ phase = "next"
  /\ holds' = running
  /\ IF running /\ step + 1 < maxSteps
       THEN step' = step /\ phase' = "check"
       ELSE step' = step /\ phase' = "finish"
  /\ UNCHANGED <<maxSteps, truncated, execVars, cond, history>>

\* The end of an iteration, and the range 0..max_steps.
EndIteration ==
  /\ phase = "next"
  /\ holds' = running
  /\ IF running /\ step + 1 < maxSteps
       THEN step' = step + 1 /\ phase' = "check"
       ELSE step' = step /\ phase' = "finish"
  /\ UNCHANGED <<maxSteps, truncated, execVars, cond, history>>

\* Mutant of Finish: the flag looks at the step alone.
FinishByStepAlone ==
  /\ phase = "finish"
  /\ truncated' = (step = (maxSteps - 1) % WordSize)
  /\ phase' = "done"
  /\ UNCHANGED <<maxSteps, step, holds, execVars, cond, history>>

\* The truncation flag; max_steps - 1 wraps when max_steps is 0.
Finish ==
  /\ phase = "finish"
  /\ truncated' = (step = (maxSteps - 1) % WordSize /\ holds /\ running)
  /\ phase' = "done"
  /\ UNCHANGED <<maxSteps, step, holds, execVars, cond, history>>

\* The primitive has returned.
Returned == phase \in {"done", "failed"} /\ UNCHANGED vars

Dispatch == DispatchRule \/ DispatchNoop \/ DispatchAdvance \/ DispatchMiss
Drain == \/ DrainStopped \/ DrainMetaAdvance \/ DrainMetaRule
         \/ DrainBusiness \/ DrainIdle \/ DrainAdvance
LoopStep == CheckCondition \/ Dispatch \/ Drain \/ Fail \/ EndIteration \/ Finish

Next == LoopStep \/ Returned

\* The loop is a sequential program: as long as it can take a step it does.
Spec == Init /\ [][Next]_vars /\ WF_vars(LoopStep)
-----------------------------------------------------------------------------
(* Type invariant: the values each field of the loop may hold.             *)
TypeOK ==
  /\ phase \in Phases
  /\ maxSteps \in 0 .. (WordSize - 1)
  /\ step \in Nat /\ (maxSteps > 0 => step < maxSteps)
  /\ holds \in BOOLEAN /\ truncated \in BOOLEAN
  /\ running \in BOOLEAN /\ cond \in BOOLEAN /\ halted \in BOOLEAN
  /\ instruction \in Instruction
  /\ queue \in Seq(Instruction)
  /\ issued \in Nat
  /\ executed \subseteq 1 .. issued
  /\ refused \subseteq 1 .. issued
  /\ behind \subseteq 1 .. issued

(* Where instruction i still is: waiting in the queue, or current.         *)
Waiting(i) == i \in Ids(queue) \/ instruction.id = i

(* The queue discipline of drain_queue and evaluate_domain: an instruction *)
(* is never overwritten by the drain before its body ran, unless it was    *)
(* appended behind an advance_instruction that dispatch had left in the    *)
(* queue.  In particular a branch chosen by evaluate_domain always runs,   *)
(* or is still waiting.                                                    *)
NoSafeLoss ==
  \A i \in (1 .. issued) \ behind : i \in executed \cup refused \/ Waiting(i)

(* What the documentation of drain_queue promises without that exception:  *)
(* every instruction put on the queue reaches its turn.                    *)
NothingLost ==
  \A i \in 1 .. issued : i \in executed \cup refused \/ Waiting(i)

(* Dispatch and the drain never run an instruction twice: what is waiting  *)
(* in the queue, and what the next dispatch will read, has not run yet,    *)
(* and it waits in one place only.                                         *)
RunsAtMostOnce ==
  /\ \A i \in Ids(queue) \ {0} : i \notin executed
  /\ phase = "body" => instruction.id \notin executed
  /\ \A j, k \in DOMAIN queue : j # k /\ queue[j].id = queue[k].id => queue[j].id = 0
  /\ phase = "body" /\ instruction.id # 0 => instruction.id \notin Ids(queue)

(* From the second round on dispatch sees business instructions (or the    *)
(* default instruction): the drain consumes every other meta instruction.  *)
DispatchSeesBusiness ==
  MetaConfigured /\ phase = "body" /\ step > 0 => instruction.type \in {"biz", "noop"}

(* __terminated_by_max_steps under the engine's own condition: it is set   *)
(* only if every one of the max_steps rounds ran an instruction of its own *)
(* and one more business instruction was about to be dispatched, or if the *)
(* loop was going round with the default instruction because the           *)
(* termination_domain never matched, with nothing left that could run.     *)
TruncationMeansWorkLeft ==
  truncated =>
    \/ /\ instruction.type = "biz"
       /\ instruction.id \notin executed
       /\ Cardinality(executed) >= maxSteps
    \/ /\ instruction.type = "noop"
       /\ queue = <<>>
       /\ (1 .. issued) \ behind \subseteq executed \cup refused

(* The loop that stops by itself has done its work: the queue is empty and *)
(* every instruction that was not appended behind an advance has run.  The *)
(* same holds whenever it goes round with the default instruction, which   *)
(* exec_advance_instruction injects when the queue is empty: no numbered   *)
(* instruction was dropped to make room for it.                            *)
NormalExitComplete ==
  \/ phase = "done" /\ ~running /\ ~halted
  \/ phase = "body" /\ instruction.type = "noop"
  => /\ queue = <<>>
     /\ (1 .. issued) \ behind \subseteq executed \cup refused

(* Once __running is cleared no instruction body runs any more and nothing *)
(* sets the flag again, whatever is left in the queue.                     *)
StoppedStaysStopped ==
  [][~running => ~running' /\ executed' = executed /\ issued' = issued]_vars

(* A program that enqueues finitely many instructions always makes the     *)
(* primitive return, even if dispatch keeps missing its table.             *)
Returns == <>(phase \in {"done", "failed"})

-----------------------------------------------------------------------------
(* The inductive strengthening of TypeOK and NoSafeLoss.                   *)

\* The numbered instructions are those with a type of the rule program.
NumberedUpTo(i, n) == IF i.type \in {"biz", "op"} THEN i.id \in 1 .. n ELSE i.id = 0

\* The default instruction is never in the queue.
AllNumbered(q, n) == \A k \in DOMAIN q : q[k].type # "noop" /\ NumberedUpTo(q[k], n)

\* No number of q escapes b.
AllBehind(q, b) == Ids(q) \subseteq b \cup {0}

\* In q, whatever stands after an advance_instruction is in b.
Sorted(q, b) ==
  \A j, k \in DOMAIN q : j < k /\ q[j].type = "adv" => q[k].id \in b \cup {0}

TypeInv ==
  /\ TypeOK
  /\ AllNumbered(queue, issued)
  /\ NumberedUpTo(instruction, issued)

\* While the drain runs, the current instruction may be overwritten.
CurrentExpendable ==
  phase = "drain" => instruction.id \in executed \cup refused \cup behind \cup {0}

\* advance_instruction is current at the next dispatch only if it is not a
\* meta type, and then everything in the queue once stood behind it.
CurrentAdvance ==
  instruction.type = "adv" =>
    IF MetaConfigured
      THEN phase \notin {"check", "body"} /\ (phase = "next" => ~running)
      ELSE AllBehind(queue, behind)

LossInv ==
  /\ TypeInv
  /\ Sorted(queue, behind)
  /\ CurrentExpendable
  /\ CurrentAdvance
  /\ NoSafeLoss

-----------------------------------------------------------------------------
(* The inductive strengthening, beside LossInv, of the other properties.   *)

\* No number stands twice in q.
Distinct(q) == \A j, k \in DOMAIN q : j # k /\ q[j].id = q[k].id => q[j].id = 0

\* An instruction that ran leaves __exec__.instruction before the next
\* dispatch because of the advance_instruction that dispatch appended.
OnceInv ==
  /\ Distinct(queue)
  /\ instruction.id \notin Ids(queue) \ {0}
  /\ Ids(queue) \cap executed = {}
  /\ phase \in {"check", "body"} => running
  /\ running /\ instruction.id \in executed =>
       phase \in {"drain", "failed"} /\ HasAdvance(queue)

\* The default instruction comes in only when the queue is empty, and then
\* only the advance_instruction of its own dispatch joins it there.
IdleInv ==
  /\ ~running /\ ~halted => queue = <<>> /\ instruction = Noop
  /\ instruction.type = "noop" =>
       \/ queue = <<>>
       \/ phase \in {"drain", "failed"} /\ running /\ queue = <<Advance>>

\* The drain has chosen the instruction of the next round.
RoundEnded == phase = "next" \/ (phase \in {"finish", "done"} /\ holds)

BusinessInv ==
  /\ MetaConfigured /\ running
  /\ RoundEnded \/ (phase \in {"check", "body"} /\ step > 0)
  => instruction.type \in {"biz", "noop"}

LoopInv == LossInv /\ OnceInv /\ IdleInv /\ BusinessInv

\* Rounds whose dispatch is behind.
Rounds ==
  CASE phase = "drain" \/ RoundEnded -> step + 1
    [] phase \in {"check", "body"} -> step
    [] OTHER -> 0

\* Where every dispatch runs an instruction: as many have run as rounds.
CountInv ==
  /\ truncated => /\ phase = "done" /\ holds /\ running
                  /\ step = (maxSteps - 1) % WordSize
  /\ maxSteps = 0 => phase \in {"finish", "done"} /\ ~holds
  /\ instruction.type # "noop" => Cardinality(executed) >= Rounds
=============================================================================
