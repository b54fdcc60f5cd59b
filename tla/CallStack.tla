----------------------------- MODULE CallStack -----------------------------
(***************************************************************************)
(* How one instruction runs: InstructionRegistry::execute and its          *)
(* dispatch_cases fallback (instruction/registry.rs), the limits kept in   *)
(* ExecCtlCtx (exec_ctl_ctx.rs), and the primitives that run other         *)
(* instructions: instruction_sequence (primitive/queue_ops.rs),            *)
(* execute_try_catch and execute_parallel (primitive/error_ops.rs).        *)
(*                                                                         *)
(* The native call stack is explicit: a frame for every primitive that is  *)
(* waiting for an instruction it runs.  Which instruction comes next is    *)
(* chosen freely, so every rule program is covered.  A state maps each     *)
(* field to the number of the call that last wrote it (negated when a try  *)
(* stored the message of an error there, 0 initially).                     *)
(***************************************************************************)
EXTENDS Integers, Sequences, FiniteSets

CONSTANTS
  Fields,          \* the fields of the state
  SystemFields,    \* those a forced merge of branches leaves out
  Exec,            \* __exec__, one of them
  Aliases,         \* types that are in dispatch_cases only
  Expansion,       \* dispatch_cases: what each alias stands for
  MaxDepth,        \* 256 in the code
  MaxInstructions, \* 1000000 in the code
  MaxChildren      \* bound: length of a sequence or of a list of branches

ASSUME FieldsAssumption ==
  Fields # {} /\ SystemFields \subseteq Fields /\ Exec \in SystemFields
ASSUME ExpansionAssumption ==
  /\ Aliases \cap {"registered", "unknown", "dispatch"} = {}
  /\ Expansion \in [Aliases -> Aliases \cup {"registered", "unknown", "dispatch"}]
ASSUME LimitsAssumption ==
  MaxDepth \in Nat /\ MaxInstructions \in Nat /\ MaxChildren \in Nat \ {0}

VARIABLES
  mode,     \* what the interpreter does next
  target,   \* type of the instruction execute_inner looks up
  depth,    \* ctx.depth
  count,    \* ctx.instruction_count
  st,       \* the state passed to the next call, or returned by the last one
  res,      \* what the last call returned
  frames,   \* the primitives that wait for a call, innermost last
  undone    \* history: numbers of the calls under a try or branch that failed

ctx == <<depth, count>>
vars == <<mode, target, ctx, st, res, frames, undone>>

Modes == {"call", "lookup", "merge", "back", "done"}
Targets == Aliases \cup {"registered", "unknown", "dispatch"}
States == [Fields -> Int]

\* base: the state a try, a catch or the next branch starts from; since: the
\* number of calls when it started; left: children still to run.
Frame ==
  [kind : {"sequence", "dispatch", "try", "catch", "parallel"},
   base : States, since : Nat,
   left : Nat, results : Seq(States), failFast : BOOLEAN, failed : BOOLEAN]

Top == frames[Len(frames)]
Below == SubSeq(frames, 1, Len(frames) - 1)
Replace(frame) == Append(Below, frame)

NewFrame(kind, n, failFast) ==
  [kind |-> kind, base |-> st, since |-> count, left |-> n - 1,
   results |-> <<>>, failFast |-> failFast, failed |-> FALSE]

Write(s, f, v) == [s EXCEPT ![f] = v]

-----------------------------------------------------------------------------
Init ==
  /\ mode = "call"
  /\ target = "registered"
  /\ depth = 0
  /\ count = 0
  /\ st = [f \in Fields |-> 0]
  /\ res = "ok"
  /\ frames = <<>>
  /\ undone = {}

\* ctx.enter returns DepthLimitExceeded or InstructionLimitExceeded.
Refuse ==
  /\ mode = "call"
  /\ depth >= MaxDepth \/ count >= MaxInstructions
  /\ mode' = "back"
  /\ res' = "err"
  /\ UNCHANGED <<target, ctx, st, frames, undone>>

\* Mutant of Enter: the budget admits one instruction more.
EnterOneMore ==
  /\ mode = "call"
  /\ depth < MaxDepth
  /\ count <= MaxInstructions
  /\ depth' = depth + 1
  /\ count' = count + 1
  /\ target' \in Targets
  /\ mode' = "lookup"
  /\ UNCHANGED <<st, res, frames, undone>>

\* ctx.enter; execute_inner is about to look up any instruction at all.
Enter ==
  /\ mode = "call"
  /\ depth < MaxDepth
  /\ count < MaxInstructions
  /\ depth' = depth + 1
  /\ count' = count + 1
  /\ target' \in Targets
  /\ mode' = "lookup"
  /\ UNCHANGED <<st, res, frames, undone>>

\* A primitive that runs no other instruction returns: ctx.exit.
Exit(result) ==
  /\ depth' = depth - 1
  /\ mode' = "back"
  /\ res' = result
  /\ UNCHANGED <<target, count, frames>>

\* The innermost waiting primitive returns: its frame goes, ctx.exit.
Leave(result) ==
  /\ frames' = Below
  /\ depth' = depth - 1
  /\ mode' = "back"
  /\ res' = result
  /\ UNCHANGED <<target, count>>

-----------------------------------------------------------------------------
(* execute_inner.                                                          *)

\* A primitive that writes one field.
LeafWrites ==
  /\ mode = "lookup" /\ target = "registered"
  /\ \E f \in Fields : st' = Write(st, f, count)
  /\ Exit("ok")
  /\ UNCHANGED undone

\* A primitive that fails, and a type that is nowhere.
LeafFails ==
  /\ mode = "lookup" /\ target \in {"registered", "unknown"}
  /\ Exit("err")
  /\ UNCHANGED <<st, undone>>

\* Mutant of Expand: the case is looked up under the original type again.
ExpandOriginal ==
  /\ mode = "lookup" /\ target \in Aliases
  /\ Expansion[target] # "dispatch"
  /\ st' = Write(st, Exec, count)
  /\ UNCHANGED <<mode, target, ctx, res, frames, undone>>

\* dispatch_cases fallback: the instruction and the audit event are recorded,
\* and execute_inner calls itself, without ctx.enter.
Expand ==
  /\ mode = "lookup" /\ target \in Aliases
  /\ Expansion[target] # "dispatch"
  /\ st' = Write(st, Exec, count)
  /\ target' = Expansion[target]
  /\ UNCHANGED <<mode, ctx, res, frames, undone>>

\* Mutant of ExpandRefused: the error leaves without ctx.exit.
ExpandRefusedUnbalanced ==
  /\ mode = "lookup" /\ target \in Aliases
  /\ Expansion[target] = "dispatch"
  /\ mode' = "back"
  /\ res' = "err"
  /\ UNCHANGED <<target, ctx, frames, st, undone>>

\* An alias for dispatch is refused.
ExpandRefused ==
  /\ mode = "lookup" /\ target \in Aliases
  /\ Expansion[target] = "dispatch"
  /\ Exit("err")
  /\ UNCHANGED <<st, undone>>

\* instruction_sequence of n instructions.
StartSequence ==
  /\ mode = "lookup" /\ target = "registered"
  /\ \/ Exit("ok")
     \/ /\ \E n \in 1 .. MaxChildren :
             frames' = Append(frames, NewFrame("sequence", n, FALSE))
        /\ mode' = "call"
        /\ UNCHANGED <<target, ctx, res>>
  /\ UNCHANGED <<st, undone>>

\* dispatch runs the entry of its table, if there is one.
StartDispatch ==
  /\ mode = "lookup" /\ target = "dispatch"
  /\ \/ Exit("ok")
     \/ /\ frames' = Append(frames, NewFrame("dispatch", 1, FALSE))
        /\ mode' = "call"
        /\ UNCHANGED <<target, ctx, res>>
  /\ UNCHANGED <<st, undone>>

StartTry ==
  /\ mode = "lookup" /\ target = "registered"
  /\ frames' = Append(frames, NewFrame("try", 1, FALSE))
  /\ mode' = "call"
  /\ UNCHANGED <<target, ctx, st, res, undone>>

StartParallel ==
  /\ mode = "lookup" /\ target = "registered"
  /\ \E n \in 1 .. MaxChildren, failFast \in BOOLEAN :
       frames' = Append(frames, NewFrame("parallel", n, failFast))
  /\ mode' = "call"
  /\ UNCHANGED <<target, ctx, st, res, undone>>

-----------------------------------------------------------------------------
(* What a waiting primitive does before it runs a child.                   *)

Waiting(m, kinds) == mode = m /\ frames # <<>> /\ Top.kind \in kinds

\* A sequence skips an instruction without a type; one that does not parse
\* ends it like one that fails.  A branch that does not parse fails.
ChildUnfit ==
  /\ \/ Waiting("call", {"sequence"}) /\ res' \in {"ok", "err"}
     \/ Waiting("call", {"dispatch", "parallel"}) /\ res' = "err"
  /\ mode' = "back"
  /\ UNCHANGED <<target, ctx, st, frames, undone>>

\* A try or catch that does not parse is returned to the caller.
TryUnfit ==
  /\ Waiting("call", {"try", "catch"})
  /\ Leave("err")
  /\ UNCHANGED <<st, undone>>

(* What a waiting primitive does with the answer.                          *)

SequenceGoesOn ==
  /\ Waiting("back", {"sequence"})
  /\ res = "ok" /\ Top.left > 0
  /\ frames' = Replace([Top EXCEPT !.left = @ - 1])
  /\ mode' = "call"
  /\ UNCHANGED <<target, ctx, st, res, undone>>

\* The last instruction returned, or any of them failed.
SequenceEnds ==
  /\ Waiting("back", {"sequence"})
  /\ res = "err" \/ Top.left = 0
  /\ Leave(res)
  /\ UNCHANGED <<st, undone>>

\* The hashes are recorded and advance_instruction is appended.
DispatchEnds ==
  /\ Waiting("back", {"dispatch"})
  /\ st' = IF res = "ok" THEN Write(st, Exec, Top.since) ELSE st
  /\ Leave(res)
  /\ UNCHANGED undone

TrySucceeds ==
  /\ Waiting("back", {"try", "catch"})
  /\ res = "ok"
  /\ Leave("ok")
  /\ UNCHANGED <<st, undone>>

\* Mutant of TryFails: the error is written into the state the try left.
TryFailsInPlace ==
  /\ Waiting("back", {"try"})
  /\ res = "err"
  /\ \E f \in Fields :
       LET caught == Write(st, f, 0 - Top.since)
       IN  /\ st' = caught
           /\ \/ Leave("ok")
              \/ /\ frames' = Replace([Top EXCEPT !.kind = "catch",
                                              !.base = caught, !.since = count])
                 /\ mode' = "call"
                 /\ UNCHANGED <<target, ctx, res>>
  /\ undone' = undone \cup ((Top.since + 1) .. count)

\* The error is written into the state the try started from; then the catch
\* runs on it, if there is one.
TryFails ==
  /\ Waiting("back", {"try"})
  /\ res = "err"
  /\ \E f \in Fields :
       LET caught == Write(Top.base, f, 0 - Top.since)
       IN  /\ st' = caught
           /\ \/ Leave("ok")
              \/ /\ frames' = Replace([Top EXCEPT !.kind = "catch",
                                              !.base = caught, !.since = count])
                 /\ mode' = "call"
                 /\ UNCHANGED <<target, ctx, res>>
  /\ undone' = undone \cup ((Top.since + 1) .. count)

\* set_path refuses error_attr.
TryUnwritable ==
  /\ Waiting("back", {"try"})
  /\ res = "err"
  /\ Leave("err")
  /\ UNCHANGED <<st, undone>>

\* A catch that fails: the state with the error is the answer.
CatchFails ==
  /\ Waiting("back", {"catch"})
  /\ res = "err"
  /\ st' = Top.base
  /\ Leave("ok")
  /\ undone' = undone \cup ((Top.since + 1) .. count)

\* Mutant of BranchReturns: the next branch starts where the last one ended.
BranchReturnsChained ==
  /\ Waiting("back", {"parallel"})
  /\ LET stop == res = "err" /\ Top.failFast
         after == [Top EXCEPT !.results = IF res = "ok" THEN Append(@, st) ELSE @,
                              !.failed = @ \/ res = "err", !.since = count]
     IN  IF Top.left = 0 \/ stop
           THEN frames' = Replace(after) /\ mode' = "merge" /\ UNCHANGED st
           ELSE /\ frames' = Replace([after EXCEPT !.left = @ - 1])
                /\ mode' = "call"
                /\ st' = st
  /\ undone' = IF res = "err" THEN undone \cup ((Top.since + 1) .. count) ELSE undone
  /\ UNCHANGED <<target, ctx, res>>

\* A result is kept, a failure ends the loop under fail_fast; every branch
\* starts from the same state.
BranchReturns ==
  /\ Waiting("back", {"parallel"})
  /\ LET stop == res = "err" /\ Top.failFast
         after == [Top EXCEPT !.results = IF res = "ok" THEN Append(@, st) ELSE @,
                              !.failed = @ \/ res = "err", !.since = count]
     IN  IF Top.left = 0 \/ stop
           THEN frames' = Replace(after) /\ mode' = "merge" /\ UNCHANGED st
           ELSE /\ frames' = Replace([after EXCEPT !.left = @ - 1])
                /\ mode' = "call"
                /\ st' = Top.base
  /\ undone' = IF res = "err" THEN undone \cup ((Top.since + 1) .. count) ELSE undone
  /\ UNCHANGED <<target, ctx, res>>

(* The end of execute_parallel.                                            *)

\* No branch succeeded.
NoResult ==
  /\ mode = "merge" /\ Top.results = <<>>
  /\ Leave("err")
  /\ UNCHANGED <<st, undone>>

\* merge = last_wins: the state of the last branch that succeeded.
LastWins ==
  /\ mode = "merge" /\ Top.results # <<>>
  /\ st' = Top.results[Len(Top.results)]
  /\ Leave("ok")
  /\ UNCHANGED undone

\* Branch k is the last one that changed field f; 0 when none counts.
Changed(k, f) == f \notin SystemFields /\ Top.results[k][f] # Top.base[f]
LastChange(k, f) ==
  /\ k # 0 => Changed(k, f)
  /\ \A j \in DOMAIN Top.results : j > k => ~Changed(j, f)

\* merge = force: every field from the last branch that changed it.
ForceMerge ==
  /\ mode = "merge" /\ Top.results # <<>>
  /\ \E last \in [Fields -> 0 .. Len(Top.results)] :
       /\ \A f \in Fields : LastChange(last[f], f)
       /\ st' = [f \in Fields |-> IF last[f] = 0 THEN Top.base[f]
                                               ELSE Top.results[last[f]][f]]
  /\ Leave("ok")
  /\ UNCHANGED undone

\* The outermost execute has returned.
Finish ==
  /\ mode = "back" /\ frames = <<>>
  /\ mode' = "done"
  /\ UNCHANGED <<target, ctx, st, res, frames, undone>>

Finished == mode = "done" /\ UNCHANGED vars

Lookup == \/ LeafWrites \/ LeafFails \/ Expand \/ ExpandRefused
          \/ StartSequence \/ StartDispatch \/ StartTry \/ StartParallel
Answer == \/ SequenceGoesOn \/ SequenceEnds \/ DispatchEnds \/ TrySucceeds
          \/ TryFails \/ TryUnwritable \/ CatchFails \/ BranchReturns
Merge == NoResult \/ LastWins \/ ForceMerge
Step == \/ Refuse \/ Enter \/ Lookup \/ ChildUnfit \/ TryUnfit
        \/ Answer \/ Merge \/ Finish

Next == Step \/ Finished

\* One thread: the interpreter goes on as long as it can.
Spec == Init /\ [][Next]_vars /\ WF_vars(Step)
-----------------------------------------------------------------------------
TypeOK ==
  /\ mode \in Modes /\ target \in Targets
  /\ depth \in 0 .. MaxDepth
  /\ count \in 0 .. MaxInstructions
  /\ st \in States
  /\ res \in {"ok", "err"}
  /\ frames \in Seq(Frame)
  /\ undone \subseteq 1 .. count

(* ctx.depth is the number of execute calls that are open, whatever path   *)
(* an error takes out of them: at the end the context is balanced and can  *)
(* be used for the next instruction.                                       *)
DepthMatchesStack == depth = Len(frames) + (IF mode = "lookup" THEN 1 ELSE 0)

\* No call of u has left anything in s.
Clean(s, u) == \A f \in Fields : s[f] \notin u /\ 0 - s[f] \notin u

(* Rollback: nothing that ran under a try, a catch or a branch that failed *)
(* is left in any state that is still in use: the one handed on, those a   *)
(* frame may fall back to, and the results of the branches.                *)
Rollback ==
  /\ res = "ok" \/ mode \in {"call", "lookup"} => Clean(st, undone)
  /\ \A k \in DOMAIN frames :
       /\ Clean(frames[k].base, undone)
       /\ \A j \in DOMAIN frames[k].results : Clean(frames[k].results[j], undone)

\* s differs from base only by writes of calls after number n.
ChangedSince(s, base, n) ==
  \A f \in Fields : s[f] # base[f] => s[f] > n \/ 0 - s[f] > n

(* Isolation: a try, a catch and each branch see the state their primitive *)
(* was given, changed only by the calls they made themselves; a branch     *)
(* sees nothing of the branches before it.                                 *)
Isolation ==
  mode \in {"call", "lookup"} \/ (mode = "back" /\ res = "ok") =>
    \A k \in DOMAIN frames : ChangedSince(st, frames[k].base, frames[k].since)

\* Strengthening: only a parallel primitive merges.
MergeHasFrame == mode = "merge" => frames # <<>>

StackInv == TypeOK /\ DepthMatchesStack /\ MergeHasFrame

(* Strengthening: what holds of a waiting frame after c calls, when u are  *)
(* undone, and of two frames one of which waits inside the other.          *)

\* Nobody after call number n has written s.
Within(s, n) == \A f \in Fields : 0 - n <= s[f] /\ s[f] <= n

FrameSound(fr, c, u) ==
  /\ fr.since <= c
  /\ Within(fr.base, fr.since) /\ Clean(fr.base, u)
  /\ \A j \in DOMAIN fr.results :
       Within(fr.results[j], fr.since) /\ Clean(fr.results[j], u)
  /\ fr.kind \in {"try", "dispatch"} => fr.since \notin u

Nested(outer, inner) ==
  /\ outer.since < inner.since
  /\ ChangedSince(inner.base, outer.base, outer.since)
  /\ \A j \in DOMAIN inner.results :
       ChangedSince(inner.results[j], outer.base, outer.since)

FramesSound(F, c, u) ==
  /\ \A k \in DOMAIN F : FrameSound(F[k], c, u)
  /\ \A j, k \in DOMAIN F : j < k => Nested(F[j], F[k])

StateInv ==
  /\ FramesSound(frames, count, undone)
  /\ Within(st, count)
  /\ res = "ok" \/ mode \in {"call", "lookup"} => Clean(st, undone)
  /\ Isolation
  /\ mode = "lookup" =>
       /\ count \notin undone
       /\ \A k \in DOMAIN frames : frames[k].since < count

(* Every execute returns, whatever the rule program does: the depth, the   *)
(* budget and the finite lists bound it (with acyclic dispatch_cases).     *)
Terminates == <>(mode = "done")
=============================================================================
