------------------------- MODULE EngineCalls_proofs -------------------------
(***************************************************************************)
(* What the configuration of the governance layer, __running and the types *)
(* a push validated go through, for every set of types, table, host map,   *)
(* configuration and number of calls.                                      *)
(***************************************************************************)
EXTENDS EngineCalls, TLAPS

\* The fields the properties are about.
Guarded == ReadOnly \cup {"__running"}

\* A field of e2 means what it meant in e: it is the same, or filled in.
FieldKept(f, e2, e) ==
  IF f \in Flags
    THEN ReadFlag(e2, f, DefaultOf(f)) = ReadFlag(e, f, DefaultOf(f))
    ELSE IF Has(e, f) THEN Has(e2, f) /\ e2[f] = e[f]
                      ELSE Has(e2, f) => e2[f] = DefaultOf(f)

\* e2 reads like e wherever the configuration or __running is read.
ReadsLike(e2, e) == \A f \in Guarded : FieldKept(f, e2, e)

LEMMA GuardedFields ==
  /\ Guarded \subseteq Typed
  /\ {"dispatch_cases", "termination_domain"} \subseteq ReadOnly \ Flags
  /\ "__running" \in Guarded \cap Flags
  /\ DefaultOf("dispatch_cases") = EmptyObject
  /\ DefaultOf("termination_domain") = Null
  /\ DefaultOf("__running") = TRUE
  BY DEF Guarded, ReadOnly, Typed, Flags, DefaultOf

LEMMA KeptSame == ASSUME NEW f, NEW e PROVE FieldKept(f, e, e)
  BY DEF FieldKept

LEMMA KeptTwice ==
  ASSUME NEW f, NEW e, NEW e2, NEW e3, FieldKept(f, e3, e2), FieldKept(f, e2, e)
  PROVE  FieldKept(f, e3, e)
  BY DEF FieldKept

LEMMA LikeTwice ==
  ASSUME NEW e, NEW e2, NEW e3, ReadsLike(e3, e2), ReadsLike(e2, e)
  PROVE  ReadsLike(e3, e)
  BY KeptTwice DEF ReadsLike

(* What is read of the three fields the engine decides by.                 *)
LEMMA KeptReads ==
  ASSUME NEW e, NEW e2
  PROVE  /\ FieldKept("__running", e2, e) <=> IsRunning(e2) = IsRunning(e)
         /\ FieldKept("dispatch_cases", e2, e) => ReadCases(e2) = ReadCases(e)
         /\ FieldKept("termination_domain", e2, e) => ReadTermination(e2) = ReadTermination(e)
<1>1. FieldKept("__running", e2, e) <=> IsRunning(e2) = IsRunning(e)
  BY GuardedFields DEF FieldKept, IsRunning
<1>2. FieldKept("dispatch_cases", e2, e) => ReadCases(e2) = ReadCases(e)
  BY GuardedFields DEF FieldKept, ReadCases
<1>3. FieldKept("termination_domain", e2, e) => ReadTermination(e2) = ReadTermination(e)
  BY GuardedFields DEF FieldKept, ReadTermination
<1> QED
  BY <1>1, <1>2, <1>3

(* The conversion to ExecContext and back, with a write in between: what   *)
(* is found under a name of a typed field.                                 *)
LEMMA Updated ==
  ASSUME NEW e, NEW f, NEW v, NEW g \in Typed, f # g
  PROVE  /\ Has(UpdateExecField(e, f, v), g)
         /\ UpdateExecField(e, f, v)[g] = FromValue(e)[g]
  BY DEF UpdateExecField, ToValue, WithField, FromValue, Has

(* A typed write is seen by no reader of another typed field.              *)
LEMMA UpdateUnseen ==
  ASSUME NEW e, NEW f, NEW v, NEW g \in Typed, f # g
  PROVE  FieldKept(g, UpdateExecField(e, f, v), e)
<1>1. CASE g \in Flags
  <2>1. DefaultOf(g) \in BOOLEAN
    BY <1>1 DEF DefaultOf, Flags
  <2>2. FromValue(e)[g] = ReadFlag(e, g, DefaultOf(g))
    BY <1>1 DEF FromValue, ReadFlag
  <2>3. FromValue(e)[g] \in BOOLEAN
    BY <1>1, <2>1 DEF FromValue
  <2> QED
    BY <1>1, <2>2, <2>3, Updated DEF FieldKept, ReadFlag
<1>2. CASE g \notin Flags
  BY <1>2, Updated DEF FieldKept, FromValue
<1> QED
  BY <1>1, <1>2

(* An insertion into the raw map, by no reader of another field at all.    *)
LEMMA InsertUnseen ==
  ASSUME NEW e, NEW f, NEW v, NEW g, f # g
  PROVE  FieldKept(g, InsertField(e, f, v), e)
<1>1. /\ Has(InsertField(e, f, v), g) <=> Has(e, g)
      /\ Has(e, g) => InsertField(e, f, v)[g] = e[g]
  BY DEF InsertField, Has
<1> QED
  BY <1>1 DEF FieldKept, ReadFlag

(* Neither kind of write changes how a queue it does not name is read.     *)
LEMMA QueueUnseen ==
  ASSUME NEW e, NEW f, NEW v, f # "queue"
  PROVE  /\ GetQueue(UpdateExecField(e, f, v)) = GetQueue(e)
         /\ GetQueue(InsertField(e, f, v)) = GetQueue(e)
<1>1. "queue" \in Typed \ Flags
  BY DEF Typed, Flags
<1>2. DefaultOf("queue") = <<>>
  BY DEF DefaultOf
<1>3. /\ Has(UpdateExecField(e, f, v), "queue")
      /\ UpdateExecField(e, f, v)["queue"] = IF Has(e, "queue") THEN e["queue"] ELSE <<>>
  BY <1>1, <1>2, Updated DEF FromValue
<1>4. GetQueue(UpdateExecField(e, f, v)) = GetQueue(e)
  BY <1>3 DEF GetQueue, ReadList
<1>5. GetQueue(InsertField(e, f, v)) = GetQueue(e)
  BY DEF GetQueue, ReadList, InsertField, Has
<1> QED
  BY <1>4, <1>5

-----------------------------------------------------------------------------
(* What every primitive keeps.                                             *)

\* advance_instruction may clear __running.
Stopping(e) ==
  IsRunning(e) /\ GetQueue(e) = <<>> /\ ReadTermination(e) = NoopDomain

Keeps(r, e) ==
  r.ok => /\ \A f \in ReadOnly \ r.wrote : FieldKept(f, r.exec, e)
          /\ "__running" \in r.wrote \/ FieldKept("__running", r.exec, e) \/ Stopping(e)
          /\ \A t \in r.told : TypeKnown(t, e)
          /\ r.wrote = {} \/ r.told = {}

(* A call that reads like what it found and writes nothing for a rule.     *)
LEMMA LikeKeeps ==
  ASSUME NEW r, NEW e, ReadsLike(r.exec, e), r.wrote = {},
         \A t \in r.told : TypeKnown(t, e)
  PROVE  Keeps(r, e)
  BY DEF Keeps, ReadsLike, Guarded

LEMMA ResultKeeps ==
  ASSUME NEW e, NEW e2, ReadsLike(e2, e)
  PROVE  Keeps(Result(e2), e)
  BY LikeKeeps DEF Result

LEMMA ReadsFlag == ASSUME NEW e PROVE IsRunning(e) \in BOOLEAN
  BY DEF IsRunning, ReadFlag

LEMMA SameLike == ASSUME NEW e PROVE ReadsLike(e, e)
  BY KeptSame DEF ReadsLike

\* The fields of __exec__ that are neither configuration nor __running.
Open == {"instruction", "queue", "last_dispatch_hashes", "__trace_source",
         "__trace_branch", "__original_metadata", "__terminated_by_max_steps"}

LEMMA OpenWrite ==
  ASSUME NEW e, NEW f \in Open, NEW v
  PROVE  ReadsLike(UpdateExecField(e, f, v), e) /\ ReadsLike(InsertField(e, f, v), e)
<1>1. ASSUME NEW g \in Guarded
      PROVE  f # g /\ g \in Typed
  BY <1>1, GuardedFields DEF Open, Guarded, ReadOnly
<1> QED
  BY <1>1, UpdateUnseen, InsertUnseen DEF ReadsLike

LEMMA AdvanceKeeps ==
  ASSUME NEW e, NEW r \in AdvanceInstruction(e)
  PROVE  Keeps(r, e)
<1> DEFINE default == ReadDefaultInstruction(e)
           current == UpdateExecField(e, "instruction", default)
           stopped == UpdateExecField(current, "__running", FALSE)
           popped  == UpdateExecField(e, "queue", Tail(GetQueue(e)))
           next    == UpdateExecField(popped, "instruction", Head(GetQueue(e)))
<1>1. ReadsLike(current, e) /\ ReadsLike(popped, e) /\ ReadsLike(next, popped)
  BY OpenWrite DEF Open
<1>2. ASSUME NEW f \in ReadOnly
      PROVE  FieldKept(f, stopped, e)
  <2>1. FieldKept(f, stopped, current)
    <3>1. f \in Typed /\ f # "__running"
      BY GuardedFields DEF Guarded, ReadOnly
    <3> QED
      BY <3>1, UpdateUnseen
  <2> QED
    BY <1>1, <2>1, KeptTwice DEF ReadsLike, Guarded
<1>3. IsRunning(stopped) = FALSE
  BY DEF IsRunning, ReadFlag, UpdateExecField, ToValue, WithField, FromValue,
         Accepted, Typed, Flags, Has
<1> HIDE DEF default, current, stopped, popped, next
<1>4. CASE GetQueue(e) = <<>>
  <2>1. r = [Result(IF ReadTermination(e) = NoopDomain /\ default = "noop"
                      THEN stopped ELSE current) EXCEPT !.injected = default]
    BY <1>4 DEF AdvanceInstruction, default, current, stopped
  <2>2. r.wrote = {} /\ r.told = {}
    BY <2>1 DEF Result
  <2>3. CASE r.exec = current
    BY <1>1, <2>2, <2>3, LikeKeeps
  <2>4. CASE r.exec = stopped /\ ReadTermination(e) = NoopDomain
    <3>1. FieldKept("__running", stopped, e) \/ Stopping(e)
      BY <1>3, <1>4, <2>4, ReadsFlag, KeptReads DEF Stopping
    <3> QED
      BY <1>2, <2>2, <2>4, <3>1 DEF Keeps
  <2>5. \/ r.exec = current
        \/ r.exec = stopped /\ ReadTermination(e) = NoopDomain
    BY <2>1 DEF Result
  <2> QED
    BY <2>3, <2>4, <2>5
<1>5. CASE GetQueue(e) # <<>>
  <2>1. r = Result(next)
    BY <1>5 DEF AdvanceInstruction, popped, next
  <2> QED
    BY <1>1, <2>1, LikeTwice, ResultKeeps
<1> QED
  BY <1>4, <1>5

\* What passed a validation that took place is known.
LEMMA ToldKnown ==
  ASSUME NEW e, NEW types, \A t \in types : Passes(t, e), NEW t \in Told(types, e)
  PROVE  TypeKnown(t, e)
  BY DEF Told, Passes

LEMMA PushKeeps ==
  ASSUME NEW e, NEW r \in PushInstructions(e)
  PROVE  Keeps(r, e)
<1>1. PICK batch \in Batches(e) :
        r = IF \A k \in DOMAIN batch : Passes(batch[k], e)
              THEN [Result(UpdateExecField(e, "queue", GetQueue(e) \o batch))
                      EXCEPT !.told = Told({batch[k] : k \in DOMAIN batch}, e)]
              ELSE Failure
  BY DEF PushInstructions
<1>2. CASE \A k \in DOMAIN batch : Passes(batch[k], e)
  <2>1. /\ r.exec = UpdateExecField(e, "queue", GetQueue(e) \o batch)
        /\ r.told = Told({batch[k] : k \in DOMAIN batch}, e)
        /\ r.wrote = {}
    BY <1>1, <1>2 DEF Result
  <2>2. \A t \in r.told : TypeKnown(t, e)
    BY <1>2, <2>1, ToldKnown
  <2>3. ReadsLike(r.exec, e)
    BY <2>1, OpenWrite DEF Open
  <2> QED
    BY <2>1, <2>2, <2>3, LikeKeeps
<1>3. CASE ~ \A k \in DOMAIN batch : Passes(batch[k], e)
  BY <1>1, <1>3 DEF Failure, Keeps
<1> QED
  BY <1>2, <1>3

LEMMA EvaluateKeeps ==
  ASSUME NEW e, NEW r \in EvaluateDomain(e)
  PROVE  Keeps(r, e)
<1> DEFINE marked == InsertField(e, "__trace_branch", Metadata)
           chosen(t) == InsertField(marked, "queue", <<t>> \o GetQueue(e))
<1>1. ReadsLike(marked, e) /\ \A t : ReadsLike(chosen(t), marked)
  BY OpenWrite DEF Open
<1>2. CASE r = Result(marked)
  BY <1>1, <1>2, ResultKeeps
<1>3. CASE r # Result(marked)
  <2>1. PICK t \in Pushed, u \in Pushed :
          r = IF Passes(t, e) /\ Passes(u, e)
                THEN [Result(chosen(t)) EXCEPT !.told = Told({t, u}, e)]
                ELSE Failure
    <3>1. PICK branch \in Pushed \X Pushed : r = Branched(branch[1], branch[2], e)
      BY <1>3 DEF EvaluateDomain
    <3>2. branch[1] \in Pushed /\ branch[2] \in Pushed
      BY <3>1
    <3> QED
      BY <3>1, <3>2 DEF Branched
  <2>2. CASE Passes(t, e) /\ Passes(u, e)
    <3>1. r.exec = chosen(t) /\ r.told = Told({t, u}, e) /\ r.wrote = {}
      BY <2>1, <2>2 DEF Result
    <3>2. \A x \in {t, u} : Passes(x, e)
      BY <2>2
    <3>3. \A x \in r.told : TypeKnown(x, e)
      BY <3>1, <3>2, ToldKnown
    <3> QED
      BY <1>1, <3>1, <3>3, LikeTwice, LikeKeeps
  <2>3. CASE ~(Passes(t, e) /\ Passes(u, e))
    BY <2>1, <2>3 DEF Failure, Keeps
  <2> QED
    BY <2>2, <2>3
<1> QED
  BY <1>2, <1>3

\* A write of the rule's own touches no field but those it is told to.
LEMMA SetPathKeeps ==
  ASSUME NEW e, NEW r \in SetPath(e)
  PROVE  Keeps(r, e)
<1>1. CASE r = Result(e)
  BY <1>1, SameLike, ResultKeeps
<1>2. CASE r = Failure
  BY <1>2 DEF Failure, Keeps
<1>3. ASSUME NEW w \in OwnWrites,
             r = [Result(Overwritten(e, w)) EXCEPT !.wrote = DOMAIN w]
      PROVE  Keeps(r, e)
  <2>1. r.exec = Overwritten(e, w) /\ r.wrote = DOMAIN w /\ r.told = {}
    BY <1>3 DEF Result
  <2>2. ASSUME NEW f, f \notin DOMAIN w
        PROVE  FieldKept(f, Overwritten(e, w), e)
    <3>1. /\ Has(Overwritten(e, w), f) <=> Has(e, f)
          /\ Has(e, f) => Overwritten(e, w)[f] = e[f]
      BY <2>2 DEF Overwritten, Has
    <3> QED
      BY <3>1 DEF FieldKept, ReadFlag
  <2> QED
    BY <2>1, <2>2 DEF Keeps
<1>4. ASSUME NEW m \in Replacements, r = [Result(m) EXCEPT !.wrote = Typed]
      PROVE  Keeps(r, e)
  <2>1. r.wrote = Typed /\ r.told = {}
    BY <1>4 DEF Result
  <2>2. ReadOnly \ r.wrote = {} /\ "__running" \in r.wrote
    BY <2>1, GuardedFields DEF Guarded
  <2> QED
    BY <2>1, <2>2 DEF Keeps
<1> QED
  BY <1>1, <1>2, <1>3, <1>4 DEF SetPath

LEMMA PrimitiveKeeps ==
  ASSUME NEW t, NEW e, NEW r \in Primitive(t, e)
  PROVE  Keeps(r, e)
<1>1. \/ r \in AdvanceInstruction(e)
      \/ r \in PushInstructions(e)
      \/ r \in EvaluateDomain(e)
      \/ r \in SetPath(e)
      \/ r = Result(e)
  BY DEF Primitive
<1>2. Keeps(Result(e), e)
  BY SameLike, ResultKeeps
<1> QED
  BY <1>1, <1>2, AdvanceKeeps, PushKeeps, EvaluateKeeps, SetPathKeeps

\* Keeps does not tell two maps apart that read alike.
LEMMA KeepsThrough ==
  ASSUME NEW r, NEW e, NEW e2, ReadsLike(e2, e), GetQueue(e2) = GetQueue(e), Keeps(r, e2)
  PROVE  Keeps(r, e)
<1> SUFFICES ASSUME r.ok
             PROVE  /\ \A f \in ReadOnly \ r.wrote : FieldKept(f, r.exec, e)
                    /\ \/ "__running" \in r.wrote
                       \/ FieldKept("__running", r.exec, e)
                       \/ Stopping(e)
                    /\ \A t \in r.told : TypeKnown(t, e)
                    /\ r.wrote = {} \/ r.told = {}
  BY DEF Keeps
<1>1. \A f \in ReadOnly \cup {"__running"} : FieldKept(f, e2, e)
  BY DEF ReadsLike, Guarded
<1>2. /\ ReadCases(e2) = ReadCases(e) /\ ReadTermination(e2) = ReadTermination(e)
      /\ IsRunning(e2) = IsRunning(e)
  BY <1>1, KeptReads, GuardedFields
<1>3. \A f \in ReadOnly \ r.wrote : FieldKept(f, r.exec, e)
  BY <1>1, KeptTwice DEF Keeps
<1>4. \A t \in r.told : TypeKnown(t, e)
  BY <1>2 DEF Keeps, TypeKnown, CaseTypes
<1>5. \/ "__running" \in r.wrote
      \/ FieldKept("__running", r.exec, e)
      \/ Stopping(e)
  <2>1. FieldKept("__running", r.exec, e2) => FieldKept("__running", r.exec, e)
    BY <1>1, KeptTwice
  <2>2. Stopping(e2) => Stopping(e)
    BY <1>2 DEF Stopping
  <2> QED
    BY <2>1, <2>2 DEF Keeps
<1> QED
  BY <1>3, <1>4, <1>5 DEF Keeps

LEMMA ExecuteKeeps ==
  ASSUME NEW t, NEW e, NEW r \in Execute(t, e)
  PROVE  Keeps(r, e)
<1>1. CASE Knows(reg, t)
  BY <1>1, PrimitiveKeeps DEF Execute
<1>2. CASE r = Failure
  BY <1>2 DEF Failure, Keeps
<1>3. CASE ~Knows(reg, t) /\ r # Failure
  <2>1. PICK e2 \in Expanded(t, e) : r \in Primitive(CaseOf[t], e2)
    BY <1>3 DEF Execute
  <2> DEFINE current == InsertField(e, "instruction", t)
             noted   == UpdateExecField(current, "__original_metadata", Metadata)
  <2>2. ReadsLike(current, e) /\ ReadsLike(noted, current)
    BY OpenWrite DEF Open
  <2>3. GetQueue(current) = GetQueue(e) /\ GetQueue(noted) = GetQueue(current)
    BY QueueUnseen
  <2>4. e2 = current \/ e2 = noted
    BY <2>1 DEF Expanded
  <2>5. ReadsLike(e2, e) /\ GetQueue(e2) = GetQueue(e)
    BY <2>2, <2>3, <2>4, LikeTwice
  <2> QED
    BY <2>1, <2>5, PrimitiveKeeps, KeepsThrough
<1> QED
  BY <1>1, <1>2, <1>3

LEMMA RecordedKeeps ==
  ASSUME NEW r, NEW e, Keeps(r, e)
  PROVE  Keeps(Recorded(r), e)
<1> DEFINE hashed  == UpdateExecField(r.exec, "last_dispatch_hashes", Metadata)
           awaited == UpdateExecField(hashed, "queue", Append(GetQueue(hashed), "advance_instruction"))
<1>1. ReadsLike(hashed, r.exec) /\ ReadsLike(awaited, hashed)
  BY OpenWrite DEF Open
<1>2. CASE ~r.ok
  BY <1>2 DEF Recorded, Keeps
<1>3. CASE r.ok
  <2>1. Recorded(r) = [r EXCEPT !.exec = IF IsRunning(hashed) THEN awaited ELSE hashed]
    BY <1>3 DEF Recorded
  <2> DEFINE last == IF IsRunning(hashed) THEN awaited ELSE hashed
  <2>2. ReadsLike(last, r.exec)
    BY <1>1, LikeTwice
  <2> HIDE DEF last
  <2>3. /\ Recorded(r).exec = last /\ Recorded(r).wrote = r.wrote
        /\ Recorded(r).told = r.told
    BY <1>3, <2>1 DEF Keeps, last
  <2> QED
    BY <1>3, <2>2, <2>3, KeptTwice DEF Keeps, ReadsLike, Guarded
<1> QED
  BY <1>2, <1>3

LEMMA DispatchKeeps ==
  ASSUME NEW e, NEW r \in Dispatch(e) \cup SubDispatch(e)
  PROVE  Keeps(r, e)
<1>1. CASE r = Result(e) \/ r = Failure
  BY <1>1, SameLike, ResultKeeps DEF Failure, Keeps
<1>2. CASE ~(r = Result(e) \/ r = Failure)
  <2>1. PICK t : \E s \in Execute(t, e) : r = Recorded(s)
    BY <1>2 DEF Dispatch, SubDispatch
  <2>2. PICK s \in Execute(t, e) : r = Recorded(s)
    BY <2>1
  <2> QED
    BY <2>2, ExecuteKeeps, RecordedKeeps
<1> QED
  BY <1>1, <1>2

-----------------------------------------------------------------------------
(* Every step of the engine is the return of a call that keeps what Keeps  *)
(* says, or a change of the registry.                                      *)
LEMMA CallReturns ==
  ASSUME CallPrimitive \/ CallDispatch \/ DrainBusiness \/ MarkTruncation
  PROVE  \E r : Keeps(r, exec) /\ Return(r)
<1>1. CASE CallPrimitive
  BY <1>1, ExecuteKeeps DEF CallPrimitive
<1>2. CASE CallDispatch
  BY <1>2, DispatchKeeps DEF CallDispatch
<1>3. CASE DrainBusiness
  <2> DEFINE e2 == UpdateExecField(exec, "queue", Tail(GetQueue(exec)))
             e3 == UpdateExecField(e2, "instruction", Head(GetQueue(exec)))
             e4 == UpdateExecField(e3, "__trace_source", "queue_pop")
  <2>1. ReadsLike(e2, exec) /\ ReadsLike(e3, e2) /\ ReadsLike(e4, e3)
    BY OpenWrite DEF Open
  <2>2. Keeps(Result(e4), exec)
    BY <2>1, LikeTwice, ResultKeeps
  <2> QED
    BY <1>3, <2>2 DEF DrainBusiness
<1>4. CASE MarkTruncation
  <2>1. PICK b \in BOOLEAN :
          Return(Result(UpdateExecField(exec, "__terminated_by_max_steps", b)))
    BY <1>4 DEF MarkTruncation
  <2>2. ReadsLike(UpdateExecField(exec, "__terminated_by_max_steps", b), exec)
    BY OpenWrite DEF Open
  <2> QED
    BY <2>1, <2>2, ResultKeeps
<1> QED
  BY <1>1, <1>2, <1>3, <1>4

LEMMA StepKeeps ==
  ASSUME [Next]_vars
  PROVE  /\ \A f \in ReadOnly \ wrote' : FieldKept(f, exec', exec)
         /\ "__running" \in wrote' \/ IsRunning(exec') = IsRunning(exec) \/ Stopping(exec)
<1>1. CASE CallPrimitive \/ CallDispatch \/ DrainBusiness \/ MarkTruncation
  <2>1. PICK r : Keeps(r, exec) /\ Return(r)
    BY <1>1, CallReturns
  <2>2. CASE r.ok
    <3>1. exec' = r.exec /\ wrote' = r.wrote
      BY <2>1, <2>2 DEF Return
    <3> QED
      BY <2>1, <2>2, <3>1, KeptReads DEF Keeps
  <2>3. CASE ~r.ok
    <3>1. exec' = exec
      BY <2>1, <2>3 DEF Return
    <3> QED
      BY <3>1, KeptSame
  <2> QED
    BY <2>2, <2>3
<1>2. CASE exec' = exec
  BY <1>2, KeptSame
<1> QED
  BY <1>1, <1>2 DEF Next, HostChanges, vars

(* A field that is kept is read as before, or was missing and is filled in *)
(* where its reader tells.                                                 *)
LEMMA KeptIsRead ==
  ASSUME NEW f \in ReadOnly, NEW e, NEW e2, FieldKept(f, e2, e)
  PROVE  \/ Reading(e2, f) = Reading(e, f)
         \/ f \in FilledIn /\ ~Has(e, f) /\ Has(e2, f) /\ e2[f] = DefaultOf(f)
<1>1. CASE f \in Flags
  <2>1. f = "audit_on" \/ f = "drain_meta_trace"
    BY <1>1 DEF ReadOnly, Flags
  <2>2. DefaultOf("audit_on") = TRUE /\ DefaultOf("drain_meta_trace") = FALSE
    BY DEF DefaultOf
  <2> QED
    BY <1>1, <2>1, <2>2 DEF FieldKept, Reading, LoadAuditOn, LoadDrainMetaTrace
<1>2. CASE f \notin Flags
  <2>1. CASE Has(e, f)
    <3>1. Has(e2, f) /\ e2[f] = e[f]
      BY <1>2, <2>1 DEF FieldKept
    <3> QED
      BY <1>2, <2>1, <3>1
      DEF ReadOnly, Flags, Reading, LoadMetaTypes, ReadList, ReadCases, ReadTermination,
          ReadDefaultInstruction, ReadDispatchDefault, ReadTableVersion
  <2>2. CASE ~Has(e, f) /\ ~Has(e2, f)
    BY <1>2, <2>2
    DEF ReadOnly, Flags, Reading, LoadMetaTypes, ReadList, ReadCases, ReadTermination,
        ReadDefaultInstruction, ReadDispatchDefault, ReadTableVersion
  <2>3. CASE ~Has(e, f) /\ Has(e2, f)
    <3>1. e2[f] = DefaultOf(f)
      BY <1>2, <2>3 DEF FieldKept
    <3>2. CASE f \in FilledIn
      BY <2>3, <3>1, <3>2
    <3>3. CASE f = "meta_instruction_types"
      BY <2>3, <3>1, <3>3 DEF DefaultOf, Reading, LoadMetaTypes, ReadList
    <3>4. CASE f \in {"dispatch_cases", "termination_domain"}
      BY <2>3, <3>1, <3>4, GuardedFields DEF Reading, ReadCases, ReadTermination
    <3> QED
      BY <1>2, <3>2, <3>3, <3>4 DEF ReadOnly, Flags, FilledIn
  <2> QED
    BY <2>1, <2>2, <2>3
<1> QED
  BY <1>1, <1>2

(* No call changes what the governance layer configured, for every reader, *)
(* but for what the rule writes itself and what was missing.               *)
THEOREM ConfigurationIsKept == Spec => ConfigurationKept
<1>1. [Next]_vars =>
        [\A f \in ReadOnly \ wrote' :
           \/ Reading(exec', f) = Reading(exec, f)
           \/ f \in FilledIn /\ ~Has(exec, f) /\ Has(exec', f) /\ exec'[f] = DefaultOf(f)]_vars
  BY StepKeeps, KeptIsRead
<1> QED
  BY <1>1, PTL DEF Spec, ConfigurationKept

(* Unless the rule writes __running itself, only advance_instruction on an *)
(* empty queue, with a matching domain, stops the engine, and nothing      *)
(* starts it again.                                                        *)
THEOREM RunningIsKept == Spec => RunningKept
<1>1. [Next]_vars =>
        [IsRunning(exec') # IsRunning(exec) =>
           \/ "__running" \in wrote'
           \/ IsRunning(exec) /\ GetQueue(exec) = <<>> /\ ReadTermination(exec) = NoopDomain]_vars
  BY StepKeeps DEF Stopping
<1> QED
  BY <1>1, PTL DEF Spec, RunningKept

\* The registry forgets no type.
LEMMA RegistryGrows ==
  ASSUME HostChanges, NEW t, Knows(reg, t)
  PROVE  Knows(reg', t)
<1>1. ASSUME NEW u, reg' = RegisterWithMetadata(reg, u, 1, FALSE)
      PROVE  Knows(reg', t)
  BY <1>1 DEF RegisterWithMetadata, Define, Knows
<1>2. CASE reg' = Freeze(reg) \/ reg' = Unfreeze(reg)
  BY <1>2 DEF Freeze, Unfreeze, Knows
<1> QED
  BY <1>1, <1>2 DEF HostChanges

(* A type a push or evaluate_domain validated is found ever after, in the  *)
(* table only as long as no rule writes over it.                           *)
THEOREM AcceptedIsKnown == Spec => []AcceptedStaysKnown
<1>1. Init => AcceptedStaysKnown
  BY DEF Init, AcceptedStaysKnown
<1>2. AcceptedStaysKnown /\ [Next]_vars => AcceptedStaysKnown'
  <2> SUFFICES ASSUME AcceptedStaysKnown, [Next]_vars, NEW t \in accepted'
               PROVE  TypeKnown(t, exec)'
    BY DEF AcceptedStaysKnown
  <2>1. ASSUME ReadCases(exec') = ReadCases(exec), Knows(reg, t) => Knows(reg', t),
               TypeKnown(t, exec)
        PROVE  TypeKnown(t, exec)'
    BY <2>1 DEF TypeKnown, CaseTypes
  <2>2. CASE CallPrimitive \/ CallDispatch \/ DrainBusiness \/ MarkTruncation
    <3>1. PICK r : Keeps(r, exec) /\ Return(r)
      BY <2>2, CallReturns
    <3>2. reg' = reg
      BY <3>1 DEF Return
    <3>3. CASE ~r.ok
      <4>1. exec' = exec /\ t \in accepted
        BY <3>1, <3>3 DEF Return
      <4> QED
        BY <2>1, <3>2, <4>1 DEF AcceptedStaysKnown
    <3>4. CASE r.ok /\ "dispatch_cases" \notin r.wrote
      <4>1. exec' = r.exec /\ (t \in accepted \/ t \in r.told)
        BY <3>1, <3>4 DEF Return, Promised
      <4>2. ReadCases(exec') = ReadCases(exec)
        BY <3>1, <3>4, <4>1, KeptReads, GuardedFields DEF Keeps
      <4>3. TypeKnown(t, exec)
        BY <3>1, <3>4, <4>1 DEF Keeps, AcceptedStaysKnown
      <4> QED
        BY <2>1, <3>2, <4>2, <4>3
    <3>5. CASE r.ok /\ "dispatch_cases" \in r.wrote
      <4>1. r.told = {}
        BY <3>1, <3>5 DEF Keeps
      <4>2. Knows(reg, t)
        BY <3>1, <3>5, <4>1 DEF Return, Promised
      <4> QED
        BY <3>2, <4>2 DEF TypeKnown
    <3> QED
      BY <3>3, <3>4, <3>5
  <2>3. CASE HostChanges
    <3>1. exec' = exec /\ t \in accepted
      BY <2>3 DEF HostChanges
    <3> QED
      BY <2>1, <2>3, <3>1, RegistryGrows DEF AcceptedStaysKnown
  <2>4. CASE UNCHANGED vars
    <3>1. exec' = exec /\ accepted' = accepted /\ reg' = reg
      BY <2>4 DEF vars
    <3> QED
      BY <2>1, <3>1 DEF AcceptedStaysKnown
  <2> QED
    BY <2>2, <2>3, <2>4 DEF Next
<1> QED
  BY <1>1, <1>2, PTL DEF Spec

\* What create_full_registry_from_config registers.
LEMMA Created ==
  ASSUME NEW c, NEW n \in Implemented
  PROVE  Knows(CreateFromConfig(c), n) <=>
           \/ c \in {NoConfig, NotObject}
           \/ n \in Declared(c)
           \/ ~(Declared(c) \subseteq Implemented)
<1>1. Knows(FullRegistry, n)
  BY DEF Knows, FullRegistry, InjectExplainers
<1>2. CASE c = NoConfig
  BY <1>1, <1>2 DEF CreateFromConfig
<1>3. CASE c # NoConfig /\ RegisterFromConfig(NewRegistry, c).ok
  <2>1. c # NotObject /\ Declared(c) \subseteq Implemented
    BY <1>3 DEF RegisterFromConfig
  <2>2. RegisterFromConfig(NewRegistry, c).reg.defs =
          [m \in {} \cup (Declared(c) \cap Implemented) |->
             IF m \in Declared(c) \cap Implemented
               THEN [layer |-> LayerOf(c, m), explained |-> TRUE]
               ELSE NewRegistry.defs[m]]
    BY DEF RegisterFromConfig, NewRegistry
  <2>3. Knows(RegisterFromConfig(NewRegistry, c).reg, n) <=> n \in Declared(c)
    BY <2>2 DEF Knows
  <2> QED
    BY <1>3, <2>1, <2>3 DEF CreateFromConfig
<1>4. CASE c # NoConfig /\ ~RegisterFromConfig(NewRegistry, c).ok
  <2>1. c = NotObject \/ ~(Declared(c) \subseteq Implemented)
    BY <1>4 DEF RegisterFromConfig
  <2> QED
    BY <1>1, <1>4, <2>1 DEF CreateFromConfig
<1> QED
  BY <1>2, <1>3, <1>4

(* An engine has the primitives its configuration declares, or all of      *)
(* them, whatever the host registers, freezes and runs afterwards.         *)
THEOREM DeclaredOrAllHolds == Spec => []DeclaredOrAll
<1>1. Init => DeclaredOrAll
  BY Created DEF Init, DeclaredOrAll
<1>2. DeclaredOrAll /\ [Next]_vars => DeclaredOrAll'
  <2> SUFFICES ASSUME DeclaredOrAll, [Next]_vars, NEW n \in Implemented \ HostTypes
               PROVE  config' = config /\ (Knows(reg', n) <=> Knows(reg, n))
    BY DEF DeclaredOrAll
  <2>1. CASE CallPrimitive \/ CallDispatch \/ DrainBusiness \/ MarkTruncation
    <3>1. PICK r : Return(r)
      BY <2>1, CallReturns
    <3> QED
      BY <3>1 DEF Return
  <2>2. CASE HostChanges
    <3>1. ASSUME NEW t \in HostTypes, reg' = RegisterWithMetadata(reg, t, 1, FALSE)
          PROVE  Knows(reg', n) <=> Knows(reg, n)
      BY <3>1 DEF RegisterWithMetadata, Define, Knows
    <3>2. ASSUME reg' = Freeze(reg) \/ reg' = Unfreeze(reg)
          PROVE  Knows(reg', n) <=> Knows(reg, n)
      BY <3>2 DEF Freeze, Unfreeze, Knows
    <3> QED
      BY <2>2, <3>1, <3>2 DEF HostChanges
  <2>3. CASE UNCHANGED vars
    BY <2>3 DEF vars
  <2> QED
    BY <2>1, <2>2, <2>3 DEF Next
<1> QED
  BY <1>1, <1>2, PTL DEF Spec
=============================================================================
