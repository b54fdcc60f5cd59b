----------------------------- MODULE AuditTrail -----------------------------
(***************************************************************************)
(* The audit chain: AuditChainState (audit.rs), the two writers of it,     *)
(* trace_step (primitive/audit_ops.rs) and record_dispatch_expand          *)
(* (instruction/registry.rs), and the code that decides what they record:  *)
(* dispatch with last_dispatch_hashes (control/dispatch.rs), the           *)
(* trace_step calls of the loop body and of drain_queue                    *)
(* (control/while_loop.rs), and the primitives that give up a state, and   *)
(* with it the records made in it (primitive/error_ops.rs).                *)
(*                                                                         *)
(* The chain lives in the state, so it is rolled back with it; the tick    *)
(* that numbers the records of trace_step lives in ExecCtlCtx and is not.  *)
(* Business data is one of a few contents, which stand for their own hash; *)
(* HashOf is the HMAC of a record.  What the case body of a dispatch does  *)
(* is chosen freely, step by step; but it is taken to leave __audit_chain, *)
(* audit_on and last_dispatch_hashes to the primitives made for them.      *)
(***************************************************************************)
EXTENDS Naturals, Sequences

CONSTANTS
  Contents,       \* contents of the business data
  Absent,         \* a missing field
  Blank,          \* the empty string trace_step puts for a hash it cannot read
  Genesis,        \* the hash of an empty chain, all zeros
  HashOf(_),      \* AuditRecord::compute_hash
  DrainMetaTrace, \* __exec__.drain_meta_trace
  MaxTicks,       \* bound: ticks of the context
  MaxExpansions,  \* bound: dispatch_expand records
  MaxFrames       \* bound: nesting of dispatch, try and parallel

ASSUME AuditConstants ==
  /\ Absent \notin Contents /\ Blank \notin Contents
  /\ Contents # {}
  /\ DrainMetaTrace \in BOOLEAN
  /\ MaxTicks \in Nat /\ MaxExpansions \in Nat /\ MaxFrames \in Nat \ {0}

VARIABLES
  phase,   \* where the loop is
  st,      \* the state
  tick,    \* ctx.tick
  frames,  \* what is open inside the body of the current dispatch
  drifted, \* history: the drain changed the data since the last dispatch
  gaps     \* history: where a dispatch began with data so changed

history == <<drifted, gaps>>
vars == <<phase, st, tick, frames, history>>

Phases == {"dispatch", "run", "trace", "drain", "done", "failed"}

-----------------------------------------------------------------------------
(* The chain.                                                              *)

EmptyChain ==
  [records |-> <<>>, root |-> Genesis, latest |-> Genesis,
   created |-> 0, updated |-> 0, clock |-> 0]

\* Mutant of AppendRecord: latest_hash is not carried forward.
AppendRecordStale(chain, r) ==
  LET new == chain.records = <<>>
  IN  [records |-> Append(chain.records, r),
       root    |-> IF new THEN HashOf(r) ELSE chain.root,
       latest  |-> chain.latest,
       created |-> IF new THEN r.tick ELSE chain.created,
       updated |-> r.tick,
       clock   |-> chain.clock]

\* Both writers end like this.
AppendRecord(chain, r) ==
  LET new == chain.records = <<>>
  IN  [records |-> Append(chain.records, r),
       root    |-> IF new THEN HashOf(r) ELSE chain.root,
       latest  |-> HashOf(r),
       created |-> IF new THEN r.tick ELSE chain.created,
       updated |-> r.tick,
       clock   |-> chain.clock]

ChainOf(s) == IF s.chain = Absent THEN EmptyChain ELSE s.chain

(* __exec__.last_dispatch_hashes: missing, Null, or what dispatch wrote.   *)
NullHashes == [before |-> Blank, after |-> Blank]

\* update_exec_field rebuilds __exec__, and a missing field becomes Null.
Touch(s) == [s EXCEPT !.hashes = IF @ = Absent THEN NullHashes ELSE @]

\* Mutant of TraceStep: the chain in the state is never read back.
TraceStepFresh(s, kind) ==
  LET r == [kind |-> kind, tick |-> tick,
            before |-> IF s.hashes = Absent THEN s.biz ELSE s.hashes.before,
            after  |-> IF s.hashes = Absent THEN s.biz ELSE s.hashes.after,
            prev   |-> EmptyChain.latest]
  IN  IF s.auditOn THEN [s EXCEPT !.chain = AppendRecord(EmptyChain, r)] ELSE s

\* trace_step; kind tells the calls of the loop ("step") from a rule's own.
TraceStep(s, kind) ==
  LET r == [kind |-> kind, tick |-> tick,
            before |-> IF s.hashes = Absent THEN s.biz ELSE s.hashes.before,
            after  |-> IF s.hashes = Absent THEN s.biz ELSE s.hashes.after,
            prev   |-> ChainOf(s).latest]
  IN  IF s.auditOn THEN [s EXCEPT !.chain = AppendRecord(ChainOf(s), r)] ELSE s

\* Mutant of TickAfter: ctx.peek_next_tick instead of ctx.next_tick.
TickAfterPeek == tick

TickAfter == IF st.auditOn THEN tick + 1 ELSE tick

MayTrace == tick < MaxTicks \/ ~st.auditOn

\* Mutant of RecordExpand: the tick is read, but the clock not advanced.
RecordExpandNoClock(s) ==
  LET r == [kind |-> "expand", tick |-> s.chain.clock,
            before |-> s.biz, after |-> s.biz, prev |-> s.chain.latest]
  IN  IF s.chain = Absent \/ ~s.auditOn
        THEN s
        ELSE [s EXCEPT !.chain = AppendRecord(@, r)]

\* record_dispatch_expand, numbered by the clock of the chain itself.
RecordExpand(s) ==
  LET r == [kind |-> "expand", tick |-> s.chain.clock,
            before |-> s.biz, after |-> s.biz, prev |-> s.chain.latest]
      ticked == [s.chain EXCEPT !.clock = @ + 1]
  IN  IF s.chain = Absent \/ ~s.auditOn
        THEN s
        ELSE [s EXCEPT !.chain = AppendRecord(ticked, r)]

-----------------------------------------------------------------------------
(* A dispatch keeps the hash of the state before; base is the state a try, *)
(* catch or branch started from; last, the last result of a parallel, if   *)
(* any branch has succeeded.                                               *)
DispatchFrame(s) ==
  [kind |-> "dispatch", before |-> s.biz, base |-> Absent, last |-> Absent]
ScopeFrame(kind, s) ==
  [kind |-> kind, before |-> Blank, base |-> s, last |-> Absent]

Top == frames[Len(frames)]
Below(k) == SubSeq(frames, 1, k - 1)

Init ==
  /\ phase = "dispatch"
  /\ \E b \in Contents, on \in BOOLEAN, c \in {Absent, EmptyChain} :
       st = [biz |-> b, chain |-> c, hashes |-> Absent, auditOn |-> on]
  /\ tick = 0
  /\ frames = <<>>
  /\ drifted = FALSE
  /\ gaps = {}

(* The loop body: dispatch ...                                             *)

\* A case is found; the hash of the state before it is taken.
BeginDispatch ==
  /\ phase = "dispatch"
  /\ frames' = <<DispatchFrame(st)>>
  /\ phase' = "run"
  /\ gaps' = IF drifted
                THEN gaps \cup {[at |-> Len(ChainOf(st).records), data |-> st.biz]}
                ELSE gaps
  /\ drifted' = FALSE
  /\ UNCHANGED <<st, tick>>

\* Neither a case nor a default.
MissDispatch ==
  /\ phase = "dispatch"
  /\ phase' = "trace"
  /\ UNCHANGED <<st, tick, frames, history>>

Running == phase = "run"
MayNest == Running /\ Len(frames) < MaxFrames

\* A dispatch inside a case body.
BeginInnerDispatch ==
  /\ MayNest
  /\ frames' = Append(frames, DispatchFrame(st))
  /\ UNCHANGED <<phase, st, tick, history>>

\* Mutant of EndDispatch: the hash before the case is taken after it.
EndDispatchLateHash ==
  /\ Running /\ Top.kind = "dispatch"
  /\ st' = [st EXCEPT !.hashes = [before |-> st.biz, after |-> st.biz]]
  /\ frames' = Below(Len(frames))
  /\ phase' = IF Len(frames) = 1 THEN "trace" ELSE "run"
  /\ UNCHANGED <<tick, history>>

\* record_dispatch_hashes, and the queue is written if __running holds.
EndDispatch ==
  /\ Running /\ Top.kind = "dispatch"
  /\ st' = [st EXCEPT !.hashes = [before |-> Top.before, after |-> st.biz]]
  /\ frames' = Below(Len(frames))
  /\ phase' = IF Len(frames) = 1 THEN "trace" ELSE "run"
  /\ UNCHANGED <<tick, history>>

(* What a case body does, a step at a time.                                *)

ChangeData ==
  /\ Running
  /\ \E b \in Contents \ {st.biz} : st' = [st EXCEPT !.biz = b]
  /\ UNCHANGED <<phase, tick, frames, history>>

\* A primitive that writes another field of __exec__.
TouchExec ==
  /\ Running
  /\ st' = Touch(st)
  /\ UNCHANGED <<phase, tick, frames, history>>

\* The dispatch_cases fallback; metadata goes through update_exec_field.
Expand ==
  /\ Running
  /\ ChainOf(st).clock < MaxExpansions
  /\ \E s \in {st, Touch(st)} : st' = RecordExpand(s)
  /\ UNCHANGED <<phase, tick, frames, history>>

RuleTrace ==
  /\ Running /\ MayTrace
  /\ st' = TraceStep(st, "rule")
  /\ tick' = TickAfter
  /\ UNCHANGED <<phase, frames, history>>

BeginScope ==
  /\ MayNest
  /\ \E kind \in {"try", "parallel"} :
       frames' = Append(frames, ScopeFrame(kind, st))
  /\ UNCHANGED <<phase, st, tick, history>>

EndTry ==
  /\ Running /\ Top.kind \in {"try", "catch"}
  /\ frames' = Below(Len(frames))
  /\ UNCHANGED <<phase, st, tick, history>>

\* Frame k, a parallel whose last result is `last`, goes on with a branch or
\* merges what it has: last_wins, or force, which keeps the system fields.
NextBranch(k, last) ==
  \/ /\ frames' = Append(Below(k), [frames[k] EXCEPT !.last = last])
     /\ st' = frames[k].base
  \/ /\ last # Absent
     /\ frames' = Below(k)
     /\ \/ st' = last
        \/ \E b \in Contents : st' = [frames[k].base EXCEPT !.biz = b]

EndBranch ==
  /\ Running /\ Top.kind = "parallel"
  /\ NextBranch(Len(frames), st)
  /\ UNCHANGED <<phase, tick, history>>

(* Errors.  They pass through a dispatch, through a try whose error_attr   *)
(* or catch is unfit, and through a parallel without a result.             *)

Passes(f) ==
  \/ f.kind \in {"dispatch", "try"}
  \/ f.kind = "parallel" /\ f.last = Absent

\* An error reaches frame k, which handles it.
Fail ==
  /\ Running
  /\ \E k \in DOMAIN frames :
       /\ \A j \in (k + 1) .. Len(frames) : Passes(frames[j])
       /\ \/ /\ frames[k].kind = "try"
             /\ \E b \in Contents :
                  LET caught == [frames[k].base EXCEPT !.biz = b]
                  IN  /\ st' = caught
                      /\ \/ frames' = Below(k)
                         \/ frames' = Append(Below(k), ScopeFrame("catch", caught))
          \/ /\ frames[k].kind = "catch"
             /\ st' = frames[k].base
             /\ frames' = Below(k)
          \/ /\ frames[k].kind = "parallel"
             /\ NextBranch(k, frames[k].last)
  /\ UNCHANGED <<phase, tick, history>>

\* No frame handles it: the loop returns the error.
FailOut ==
  /\ Running
  /\ \A j \in DOMAIN frames : Passes(frames[j])
  /\ phase' = "failed"
  /\ frames' = <<>>
  /\ UNCHANGED <<st, tick, history>>

(* ... and trace_step.                                                     *)

BodyTrace ==
  /\ phase = "trace" /\ MayTrace
  /\ st' = TraceStep(st, "step")
  /\ tick' = TickAfter
  /\ phase' = "drain"
  /\ UNCHANGED <<frames, history>>

(* The drain.                                                              *)

\* A meta instruction is popped and run: advance_instruction leaves the data
\* alone, set_context or evaluate_domain may change it.
DrainMeta ==
  /\ phase = "drain"
  /\ DrainMetaTrace => MayTrace
  /\ \E b \in Contents :
       LET s == [Touch(st) EXCEPT !.biz = b]
       IN  /\ st' = IF DrainMetaTrace THEN TraceStep(s, "step") ELSE s
           /\ drifted' = (drifted \/ b # st.biz)
  /\ tick' = IF DrainMetaTrace THEN TickAfter ELSE tick
  /\ UNCHANGED <<phase, frames, gaps>>

AfterDrain == phase' \in {"dispatch", "done"} /\ UNCHANGED <<frames, history>>

\* A business instruction is popped, or the loop advances.
DrainSets ==
  /\ phase = "drain" /\ MayTrace
  /\ st' = TraceStep(Touch(st), "step")
  /\ tick' = TickAfter
  /\ AfterDrain

\* The queue is empty and the current instruction is business.
DrainIdle ==
  /\ phase = "drain" /\ MayTrace
  /\ st' = TraceStep(st, "step")
  /\ tick' = TickAfter
  /\ AfterDrain

\* __running was cleared and the queue is not empty.
DrainStopped ==
  /\ phase = "drain"
  /\ AfterDrain
  /\ UNCHANGED <<st, tick, history>>

\* The loop has returned, or the bound on ticks is reached.
Ended ==
  /\ \/ phase \in {"done", "failed"}
     \/ phase = "trace" /\ ~MayTrace
  /\ UNCHANGED vars

CaseStep == ChangeData \/ TouchExec \/ Expand \/ RuleTrace
Scope == \/ BeginInnerDispatch \/ EndDispatch \/ BeginScope \/ EndTry
         \/ EndBranch \/ Fail \/ FailOut
Drain == DrainMeta \/ DrainSets \/ DrainIdle \/ DrainStopped

Next == \/ BeginDispatch \/ MissDispatch \/ CaseStep \/ Scope \/ BodyTrace
        \/ Drain \/ Ended

Spec == Init /\ [][Next]_vars
-----------------------------------------------------------------------------
\* The states in use: the current one, and those a frame may fall back to.
Fallbacks ==
  (UNION {{frames[k].base, frames[k].last} : k \in DOMAIN frames}) \ {Absent}
Chains == {ChainOf(s) : s \in {st} \cup Fallbacks}

\* Every record names the hash of its predecessor, and the chain its ends.
Linked(c) ==
  LET n == Len(c.records)
  IN  /\ \A k \in 1 .. n :
           c.records[k].prev = IF k = 1 THEN Genesis ELSE HashOf(c.records[k - 1])
      /\ c.latest = IF n = 0 THEN Genesis ELSE HashOf(c.records[n])
      /\ c.root = IF n = 0 THEN Genesis ELSE HashOf(c.records[1])

(* Integrity: whatever was rolled back, dropped with a branch or merged,   *)
(* the chain that is left verifies from end to end.                        *)
ChainLinked == \A c \in Chains : Linked(c)

Traced(c) == {k \in 1 .. Len(c.records) : c.records[k].kind # "expand"}
Expanded(c) == {k \in 1 .. Len(c.records) : c.records[k].kind = "expand"}

\* The records at positions P have increasing ticks, all below `next`.
Ordered(c, P, next) ==
  /\ \A j, k \in P : j < k => c.records[j].tick < c.records[k].tick
  /\ \A k \in P : c.records[k].tick < next

(* The records of trace_step in one chain carry increasing ticks: the      *)
(* context keeps counting when a try or branch gives its records up, so no *)
(* tick of a record in use is used again.  The records of dispatch_expand  *)
(* do too, although their clock is part of the state: it is rolled back    *)
(* with them.                                                              *)
TicksIncrease ==
  \A c \in Chains : Ordered(c, Traced(c), tick) /\ Ordered(c, Expanded(c), c.clock)

Extends(c, b) ==
  /\ Len(b.records) <= Len(c.records)
  /\ \A k \in 1 .. Len(b.records) : c.records[k] = b.records[k]

(* Nothing that runs inside a try or branch removes or alters a record     *)
(* that was there when it began, at any level of nesting.                  *)
ChainOnlyGrows ==
  \A k \in DOMAIN frames : frames[k].base # Absent =>
    \A s \in {st, frames[k].last} \ {Absent} :
      Extends(ChainOf(s), ChainOf(frames[k].base))

IsStep(r) == r.kind = "step" /\ r.before # Blank

\* Record k tells of a step of the loop, and is the next one to do so after j.
NextStep(c, j, k) ==
  /\ IsStep(c.records[j]) /\ IsStep(c.records[k]) /\ j < k
  /\ \A i \in 1 .. Len(c.records) : j < i /\ i < k => ~IsStep(c.records[i])

LastStep(c, k) ==
  /\ IsStep(c.records[k])
  /\ \A i \in 1 .. Len(c.records) : k < i => ~IsStep(c.records[i])

\* Where the data may stand once record k was made: where the record says,
\* or where a dispatch found it that began before another n - k records.
Left(c, k, n, G) ==
  {c.records[k].after} \cup {g.data : g \in {h \in G : h.at \in k .. n}}

\* A record of a step repeats the change of its predecessor, or begins where
\* that one left the data.
Continues(c, G) ==
  \A j, k \in 1 .. Len(c.records) : NextStep(c, j, k) =>
    \/ /\ c.records[k].before = c.records[j].before
       /\ c.records[k].after = c.records[j].after
    \/ c.records[k].before \in Left(c, j, k - 1, G)

\* A dispatch that begins with e goes on from the last record of a step.
EndsIn(c, e, G) ==
  \A k \in 1 .. Len(c.records) : LastStep(c, k) => e \in Left(c, k, Len(c.records), G)

(* What the records of the loop tell is the history of the business data,  *)
(* but for what meta instructions do to it in the drain, whose records     *)
(* repeat the hashes of the dispatch before them: each record goes on from *)
(* its predecessor or, where the drain has changed the data in between,    *)
(* from the data the next dispatch found; and where it has not, the last   *)
(* record ends in the data the next dispatch finds.                        *)
AuditComplete ==
  /\ Continues(ChainOf(st), gaps)
  /\ phase = "dispatch" /\ ~drifted => EndsIn(ChainOf(st), st.biz, {})
-----------------------------------------------------------------------------
(* The inductive invariant behind ChainLinked and the order of the ticks:  *)
(* every state in use is a state whose chain is sound.                     *)

IsSeq(q) == Len(q) \in Nat /\ q = [k \in 1 .. Len(q) |-> q[k]]

IsChain(c) ==
  /\ c = [records |-> c.records, root |-> c.root, latest |-> c.latest,
          created |-> c.created, updated |-> c.updated, clock |-> c.clock]
  /\ IsSeq(c.records)
  /\ c.clock \in Nat
  /\ \A k \in 1 .. Len(c.records) : c.records[k].tick \in Nat

SoundChain(c, t) ==
  /\ IsChain(c)
  /\ Linked(c)
  /\ Ordered(c, Traced(c), t)
  /\ Ordered(c, Expanded(c), c.clock)

SoundState(s, t) ==
  /\ s = [biz |-> s.biz, chain |-> s.chain, hashes |-> s.hashes,
          auditOn |-> s.auditOn]
  /\ SoundChain(ChainOf(s), t)

SoundFrame(f, t) ==
  /\ f = [kind |-> f.kind, before |-> f.before, base |-> f.base, last |-> f.last]
  /\ f.kind = "dispatch" => f.base = Absent
  /\ f.kind # "dispatch" => SoundState(f.base, t)
  /\ f.last = Absent \/ SoundState(f.last, t)

SoundFrames(fs, t) ==
  IsSeq(fs) /\ \A k \in 1 .. Len(fs) : SoundFrame(fs[k], t)

\* The outermost frame is the dispatch of the loop body.
Nested ==
  /\ phase = "run" => Len(frames) > 0
  /\ Len(frames) > 0 => frames[1].kind = "dispatch"

AuditInv ==
  /\ tick \in Nat
  /\ SoundState(st, tick)
  /\ SoundFrames(frames, tick)
  /\ Nested

\* The marker of what is missing is not taken for a chain, or for hashes.
AbsentIsApart ==
  /\ \A c, r : AppendRecord(c, r) # Absent
  /\ \A b, a : [before |-> b, after |-> a] # Absent

(* Behind ChainOnlyGrows: the states the open scopes began with are nested *)
(* in one another as the scopes are, the current state in all of them.     *)
Growing(fs, s) ==
  \A k \in 1 .. Len(fs) : fs[k].kind # "dispatch" =>
    /\ Extends(ChainOf(s), ChainOf(fs[k].base))
    /\ fs[k].last # Absent => Extends(ChainOf(fs[k].last), ChainOf(fs[k].base))
    /\ \A j \in 1 .. (k - 1) : fs[j].kind # "dispatch" =>
         Extends(ChainOf(fs[k].base), ChainOf(fs[j].base))

GrowthInv == AuditInv /\ Growing(frames, st)

(* Behind AuditComplete.  While a case body runs, the records of every     *)
(* state in use end in the data the dispatch of the loop began with; then  *)
(* dispatch notes the change from there, and the next record tells it.     *)
NoSteps(c) == \A k \in 1 .. Len(c.records) : ~IsStep(c.records[k])

\* Only an audited state has records of steps.
Audited(s) == s.biz \in Contents /\ (s.auditOn \/ NoSteps(ChainOf(s)))

\* ... and a dispatch that begins with e goes on from them.
Tells(s, e, G) ==
  Audited(s) /\ Continues(ChainOf(s), G) /\ EndsIn(ChainOf(s), e, G)

\* What dispatch noted is the change the last record of a step tells.
Recorded(s) ==
  /\ s.hashes.before \in Contents /\ s.hashes.after \in Contents
  /\ s.auditOn => \E k \in 1 .. Len(ChainOf(s).records) :
       LET r == ChainOf(s).records[k]
       IN  /\ LastStep(ChainOf(s), k)
           /\ r.before = s.hashes.before /\ r.after = s.hashes.after

\* Between two dispatches; d, if the drain has changed the data since.
Settled(s, d, G) ==
  /\ Audited(s) /\ Continues(ChainOf(s), G)
  /\ d \/ EndsIn(ChainOf(s), s.biz, {})
  /\ \/ ~d /\ s.hashes = Absent
     \/ s.hashes # Absent /\ s.hashes.before = Blank
     \/ s.hashes # Absent /\ Recorded(s)

\* Dispatch noted a change that begins where the records end.
Pending(s, G) ==
  /\ Tells(s, s.hashes.before, G)
  /\ s.hashes # Absent
  /\ s.hashes.before \in Contents /\ s.hashes.after = s.biz

TellsFrame(f, e, G) ==
  /\ f.kind # "dispatch" => Tells(f.base, e, G)
  /\ f.last # Absent => Tells(f.last, e, G)

TellsFrames(fs, e, G) == \A k \in 1 .. Len(fs) : TellsFrame(fs[k], e, G)

StoryInv ==
  /\ AuditInv
  /\ phase \in Phases /\ drifted \in BOOLEAN
  /\ phase = "run" => LET e == frames[1].before
                     IN  /\ e \in Contents /\ ~drifted
                         /\ Tells(st, e, gaps) /\ TellsFrames(frames, e, gaps)
  /\ phase = "trace" => Settled(st, drifted, gaps) \/ (~drifted /\ Pending(st, gaps))
  /\ phase \in {"dispatch", "drain", "done"} => Settled(st, drifted, gaps)
  /\ phase = "failed" => Continues(ChainOf(st), gaps)
=============================================================================
