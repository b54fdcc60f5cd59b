-------------------------- MODULE AuditTrail_proofs --------------------------
(***************************************************************************)
(* Proofs about AuditTrail for every value of its constants: whatever is   *)
(* rolled back, dropped with a branch or merged, the audit chain verifies, *)
(* the two clocks number its records in increasing order (AuditInv), no    *)
(* record that a scope began with is lost (GrowthInv), and the records     *)
(* tell the history of the business data (StoryInv).                       *)
(***************************************************************************)
EXTENDS AuditTrail, SequenceTheorems, TLAPS

(* Sequences of anything.                                                  *)

\* A sequence is a sequence over its own elements.
LEMMA OwnElements ==
  ASSUME NEW q, IsSeq(q), NEW T, \A k \in 1 .. Len(q) : q[k] \in T
  PROVE  q \in Seq(T)
<1>1. q \in [1 .. Len(q) -> T]
  BY DEF IsSeq
<1> QED BY <1>1, SeqDef DEF IsSeq

LEMMA SeqIsSeq ==
  ASSUME NEW T, NEW q \in Seq(T)
  PROVE  IsSeq(q)
BY LenProperties DEF IsSeq

\* Appending keeps what is there and puts the new element behind it.
LEMMA AppendSeq ==
  ASSUME NEW q, IsSeq(q), NEW e
  PROVE  /\ IsSeq(Append(q, e))
         /\ Len(Append(q, e)) = Len(q) + 1
         /\ \A k \in 1 .. Len(q) : Append(q, e)[k] = q[k]
         /\ Append(q, e)[Len(q) + 1] = e
         /\ Len(q) \in Nat
<1> DEFINE T == {q[k] : k \in 1 .. Len(q)} \cup {e}
<1>1. q \in Seq(T)
  BY OwnElements
<1>2. e \in T
  OBVIOUS
<1> HIDE DEF T
<1>3. Append(q, e) \in Seq(T)
  BY <1>1, <1>2, AppendProperties
<1>4. IsSeq(Append(q, e))
  BY <1>3, SeqIsSeq
<1>5. Len(q) \in Nat
  BY DEF IsSeq
<1>6. /\ Len(Append(q, e)) = Len(q) + 1
      /\ \A k \in 1 .. Len(q) : Append(q, e)[k] = q[k]
      /\ Append(q, e)[Len(q) + 1] = e
  BY <1>1, <1>2, AppendProperties
<1> QED BY <1>4, <1>5, <1>6

\* The frames below frame k.
LEMMA BelowSeq ==
  ASSUME NEW q, IsSeq(q), NEW k \in 1 .. Len(q)
  PROVE  /\ IsSeq(SubSeq(q, 1, k - 1))
         /\ Len(SubSeq(q, 1, k - 1)) = k - 1
         /\ \A j \in 1 .. (k - 1) : SubSeq(q, 1, k - 1)[j] = q[j]
<1> DEFINE T == {q[j] : j \in 1 .. Len(q)}
<1>1. Len(q) \in Nat
  BY DEF IsSeq
<1>2. \A j \in 1 .. (k - 1) : q[j] \in T
  BY <1>1
<1> HIDE DEF T
<1>3. k - 1 \in Int /\ 1 \in Int
  OBVIOUS
<1>4. /\ SubSeq(q, 1, k - 1) \in Seq(T)
      /\ Len(SubSeq(q, 1, k - 1)) = IF 1 <= k - 1 THEN k - 1 - 1 + 1 ELSE 0
      /\ \A j \in 1 .. (k - 1 - 1 + 1) : SubSeq(q, 1, k - 1)[j] = q[1 + j - 1]
  BY <1>2, <1>3, SubSeqProperties
<1>5. IsSeq(SubSeq(q, 1, k - 1))
  BY <1>4, SeqIsSeq
<1>6. Len(SubSeq(q, 1, k - 1)) = k - 1
  BY <1>4, <1>1
<1>7. \A j \in 1 .. (k - 1) : j \in 1 .. (k - 1 - 1 + 1) /\ 1 + j - 1 = j
  BY <1>1
<1> QED BY <1>4, <1>5, <1>6, <1>7
-----------------------------------------------------------------------------
(* Chains.                                                                 *)

LEMMA EmptySound ==
  ASSUME NEW t \in Nat
  PROVE  SoundChain(EmptyChain, t)
<1>1. IsChain(EmptyChain)
  <2>1. IsSeq(<<>>)
    BY DEF IsSeq
  <2> QED BY <2>1 DEF EmptyChain, IsChain
<1>2. Linked(EmptyChain)
  BY DEF EmptyChain, Linked
<1>3. Ordered(EmptyChain, Traced(EmptyChain), t)
  BY DEF EmptyChain, Ordered, Traced
<1>4. Ordered(EmptyChain, Expanded(EmptyChain), EmptyChain.clock)
  BY DEF EmptyChain, Ordered, Expanded
<1> QED BY <1>1, <1>2, <1>3, <1>4 DEF SoundChain

\* A record that names the last hash keeps the chain linked.
LEMMA AppendLinked ==
  ASSUME NEW c, IsChain(c), Linked(c), NEW r, r.prev = c.latest, r.tick \in Nat
  PROVE  IsChain(AppendRecord(c, r)) /\ Linked(AppendRecord(c, r))
<1> DEFINE d == AppendRecord(c, r)
<1>1. /\ d.records = Append(c.records, r)
      /\ d.latest = HashOf(r)
      /\ d.root = IF c.records = <<>> THEN HashOf(r) ELSE c.root
      /\ d.clock = c.clock
      /\ d = [records |-> d.records, root |-> d.root, latest |-> d.latest,
              created |-> d.created, updated |-> d.updated, clock |-> d.clock]
  BY DEF AppendRecord
<1> HIDE DEF d
<1>2. /\ IsSeq(d.records)
      /\ Len(d.records) = Len(c.records) + 1
      /\ \A k \in 1 .. Len(c.records) : d.records[k] = c.records[k]
      /\ d.records[Len(c.records) + 1] = r
      /\ Len(c.records) \in Nat
  BY <1>1, AppendSeq DEF IsChain
<1>3. IsChain(d)
  <2>1. \A k \in 1 .. Len(d.records) : d.records[k].tick \in Nat
    BY <1>2 DEF IsChain
  <2> QED BY <1>1, <1>2, <2>1 DEF IsChain
<1>4. c.records = <<>> => Len(c.records) = 0
  OBVIOUS
<1>5. Len(c.records) = 0 => c.records = <<>>
  BY DEF IsChain, IsSeq
<1>6. Linked(d)
  <2>1. \A k \in 1 .. Len(d.records) :
           d.records[k].prev = IF k = 1 THEN Genesis ELSE HashOf(d.records[k - 1])
    <3> SUFFICES ASSUME NEW k \in 1 .. Len(d.records)
                 PROVE  d.records[k].prev = IF k = 1 THEN Genesis ELSE HashOf(d.records[k - 1])
      OBVIOUS
    <3>1. CASE k \in 1 .. Len(c.records)
      <4>1. k # 1 => k - 1 \in 1 .. Len(c.records)
        BY <3>1, <1>2
      <4>2. c.records[k].prev = IF k = 1 THEN Genesis ELSE HashOf(c.records[k - 1])
        BY <3>1 DEF Linked
      <4> QED BY <3>1, <4>1, <4>2, <1>2
    <3>2. CASE k = Len(c.records) + 1
      <4>1. k # 1 => k - 1 = Len(c.records) /\ k - 1 \in 1 .. Len(c.records)
        BY <3>2, <1>2
      <4>2. c.latest = IF Len(c.records) = 0 THEN Genesis ELSE HashOf(c.records[Len(c.records)])
        BY DEF Linked
      <4>3. d.records[k].prev = c.latest
        BY <3>2, <1>2
      <4>4. k = 1 <=> Len(c.records) = 0
        BY <3>2, <1>2
      <4> QED BY <4>1, <4>2, <4>3, <4>4, <1>2
    <3> QED BY <3>1, <3>2, <1>2
  <2>2. d.latest = HashOf(d.records[Len(d.records)]) /\ Len(d.records) # 0
    BY <1>1, <1>2
  <2>3. d.root = HashOf(d.records[1])
    <3>1. CASE c.records = <<>>
      BY <3>1, <1>1, <1>2, <1>4
    <3>2. CASE c.records # <<>>
      <4>1. Len(c.records) # 0 /\ 1 \in 1 .. Len(c.records)
        BY <3>2, <1>2, <1>5
      <4>2. c.root = HashOf(c.records[1])
        BY <4>1 DEF Linked
      <4> QED BY <3>2, <4>1, <4>2, <1>1, <1>2
    <3> QED BY <3>1, <3>2
  <2> QED BY <2>1, <2>2, <2>3 DEF Linked
<1> QED BY <1>3, <1>6 DEF d

\* A record with tick `next` behind records whose ticks are below it.
LEMMA OrderedNext ==
  ASSUME NEW c, NEW d, NEW m \in Nat, NEW P \in SUBSET (1 .. m), NEW next \in Nat,
         \A k \in P : c.records[k].tick \in Nat /\ d.records[k] = c.records[k],
         Ordered(c, P, next), d.records[m + 1].tick = next
  PROVE  Ordered(d, P \cup {m + 1}, next + 1)
<1>1. ASSUME NEW j \in P \cup {m + 1}, NEW k \in P \cup {m + 1}, j < k
      PROVE  d.records[j].tick < d.records[k].tick
  <2>1. j \in P
    BY <1>1
  <2>2. CASE k \in P
    BY <2>1, <2>2, <1>1 DEF Ordered
  <2>3. CASE k = m + 1
    BY <2>1, <2>3 DEF Ordered
  <2> QED BY <2>2, <2>3
<1>2. ASSUME NEW k \in P \cup {m + 1}
      PROVE  d.records[k].tick < next + 1
  <2>1. CASE k \in P
    <3> DEFINE x == c.records[k].tick
    <3>1. x \in Nat /\ x < next /\ d.records[k].tick = x
      BY <2>1 DEF Ordered
    <3> HIDE DEF x
    <3> QED BY <3>1
  <2>2. CASE k = m + 1
    BY <2>2
  <2> QED BY <2>1, <2>2
<1> QED BY <1>1, <1>2 DEF Ordered

\* Later ticks of the context leave a chain sound.
LEMMA SoundLater ==
  ASSUME NEW c, NEW t \in Nat, NEW u \in Nat, t <= u, SoundChain(c, t)
  PROVE  SoundChain(c, u)
<1>1. ASSUME NEW k \in Traced(c)
      PROVE  c.records[k].tick < u
  <2>1. c.records[k].tick \in Nat /\ c.records[k].tick < t
    BY DEF SoundChain, IsChain, Ordered, Traced
  <2> QED BY <2>1
<1> QED BY <1>1 DEF SoundChain, Ordered

\* What AppendRecord does to the records of either kind.
LEMMA AppendKinds ==
  ASSUME NEW c, IsChain(c), NEW r
  PROVE  LET d == AppendRecord(c, r)
             n == Len(c.records)
         IN  /\ n \in Nat
             /\ \A k \in 1 .. n : d.records[k] = c.records[k]
             /\ d.records[n + 1] = r
             /\ d.clock = c.clock
             /\ Traced(c) \in SUBSET (1 .. n) /\ Expanded(c) \in SUBSET (1 .. n)
             /\ r.kind # "expand" =>
                  Traced(d) = Traced(c) \cup {n + 1} /\ Expanded(d) = Expanded(c)
             /\ r.kind = "expand" =>
                  Traced(d) = Traced(c) /\ Expanded(d) = Expanded(c) \cup {n + 1}
<1> DEFINE d == AppendRecord(c, r)
           n == Len(c.records)
<1>1. d.records = Append(c.records, r) /\ d.clock = c.clock
  BY DEF AppendRecord
<1> HIDE DEF d
<1>2. /\ n \in Nat
      /\ Len(d.records) = n + 1
      /\ \A k \in 1 .. n : d.records[k] = c.records[k]
      /\ d.records[n + 1] = r
  BY <1>1, AppendSeq DEF IsChain
<1>3. 1 .. Len(d.records) = (1 .. n) \cup {n + 1}
  BY <1>2
<1>4. /\ Traced(d) = {k \in (1 .. n) \cup {n + 1} : d.records[k].kind # "expand"}
      /\ Expanded(d) = {k \in (1 .. n) \cup {n + 1} : d.records[k].kind = "expand"}
  BY <1>3 DEF Traced, Expanded
<1>5. /\ Traced(c) = {k \in 1 .. n : d.records[k].kind # "expand"}
      /\ Expanded(c) = {k \in 1 .. n : d.records[k].kind = "expand"}
  BY <1>2 DEF Traced, Expanded
<1>6. /\ Traced(c) \in SUBSET (1 .. n) /\ Expanded(c) \in SUBSET (1 .. n)
  BY <1>5
<1>7. r.kind # "expand" =>
        Traced(d) = Traced(c) \cup {n + 1} /\ Expanded(d) = Expanded(c)
  BY <1>2, <1>4, <1>5
<1>8. r.kind = "expand" =>
        Traced(d) = Traced(c) /\ Expanded(d) = Expanded(c) \cup {n + 1}
  BY <1>2, <1>4, <1>5
<1> QED BY <1>1, <1>2, <1>6, <1>7, <1>8 DEF d

\* A record of trace_step, numbered by the context.
LEMMA AppendTraced ==
  ASSUME NEW c, NEW t \in Nat, SoundChain(c, t),
         NEW r, r.prev = c.latest, r.tick = t, r.kind # "expand"
  PROVE  SoundChain(AppendRecord(c, r), t + 1)
<1> DEFINE d == AppendRecord(c, r)
           n == Len(c.records)
<1>1. IsChain(d) /\ Linked(d)
  BY AppendLinked DEF SoundChain
<1>2. /\ n \in Nat
      /\ \A k \in 1 .. n : d.records[k] = c.records[k]
      /\ d.records[n + 1] = r
      /\ d.clock = c.clock
      /\ Traced(c) \in SUBSET (1 .. n) /\ Expanded(c) \in SUBSET (1 .. n)
      /\ Traced(d) = Traced(c) \cup {n + 1} /\ Expanded(d) = Expanded(c)
  BY AppendKinds DEF SoundChain
<1>3. /\ \A k \in 1 .. n : c.records[k].tick \in Nat
      /\ Ordered(c, Traced(c), t) /\ Ordered(c, Expanded(c), c.clock)
  BY DEF SoundChain, IsChain
<1> HIDE DEF d, n
<1>4. Ordered(d, Traced(d), t + 1)
  <2>1. \A k \in Traced(c) : c.records[k].tick \in Nat /\ d.records[k] = c.records[k]
    BY <1>2, <1>3
  <2>2. d.records[n + 1].tick = t
    BY <1>2
  <2> QED BY <1>2, <1>3, <2>1, <2>2, OrderedNext
<1>5. Ordered(d, Expanded(d), d.clock)
  BY <1>2, <1>3 DEF Ordered
<1> QED BY <1>1, <1>4, <1>5 DEF SoundChain, d

\* A record of dispatch_expand, numbered by the clock of the chain.
LEMMA AppendExpanded ==
  ASSUME NEW c, NEW t \in Nat, SoundChain(c, t),
         NEW r, r.prev = c.latest, r.tick = c.clock, r.kind = "expand"
  PROVE  SoundChain(AppendRecord([c EXCEPT !.clock = @ + 1], r), t)
<1> DEFINE b == [c EXCEPT !.clock = @ + 1]
           d == AppendRecord(b, r)
           n == Len(c.records)
<1>1. b = [records |-> c.records, root |-> c.root, latest |-> c.latest,
           created |-> c.created, updated |-> c.updated, clock |-> c.clock + 1]
  BY DEF SoundChain, IsChain
<1> HIDE DEF b
<1>2. /\ b.records = c.records /\ b.root = c.root /\ b.latest = c.latest
      /\ b.clock = c.clock + 1 /\ c.clock \in Nat
      /\ b = [records |-> b.records, root |-> b.root, latest |-> b.latest,
              created |-> b.created, updated |-> b.updated, clock |-> b.clock]
  BY <1>1 DEF SoundChain, IsChain
<1>3. IsChain(b) /\ Linked(b) /\ Traced(b) = Traced(c) /\ Expanded(b) = Expanded(c)
  BY <1>2 DEF SoundChain, IsChain, Linked, Traced, Expanded
<1>4. IsChain(d) /\ Linked(d)
  BY <1>2, <1>3, AppendLinked
<1>5. /\ n \in Nat
      /\ \A k \in 1 .. n : d.records[k] = c.records[k]
      /\ d.records[n + 1] = r
      /\ d.clock = c.clock + 1
      /\ Traced(c) \in SUBSET (1 .. n) /\ Expanded(c) \in SUBSET (1 .. n)
      /\ Traced(d) = Traced(c) /\ Expanded(d) = Expanded(c) \cup {n + 1}
  BY <1>2, <1>3, AppendKinds
<1>6. /\ \A k \in 1 .. n : c.records[k].tick \in Nat
      /\ Ordered(c, Traced(c), t) /\ Ordered(c, Expanded(c), c.clock)
  BY DEF SoundChain, IsChain
<1> HIDE DEF d, n
<1>7. Ordered(d, Traced(d), t)
  BY <1>5, <1>6 DEF Ordered
<1>8. Ordered(d, Expanded(d), d.clock)
  <2>1. \A k \in Expanded(c) : c.records[k].tick \in Nat /\ d.records[k] = c.records[k]
    BY <1>5, <1>6
  <2>2. d.records[n + 1].tick = c.clock
    BY <1>5
  <2>3. Ordered(d, Expanded(c) \cup {n + 1}, c.clock + 1)
    BY <1>2, <1>5, <1>6, <2>1, <2>2, OrderedNext
  <2> QED BY <1>5, <2>3
<1> QED BY <1>4, <1>7, <1>8 DEF SoundChain, d, b
-----------------------------------------------------------------------------
(* States.                                                                 *)

\* A state is sound by its shape and its chain.
LEMMA StateFrom ==
  ASSUME NEW t, NEW biz, NEW chain, NEW hashes, NEW auditOn,
         SoundChain(IF chain = Absent THEN EmptyChain ELSE chain, t)
  PROVE  SoundState([biz |-> biz, chain |-> chain, hashes |-> hashes,
                     auditOn |-> auditOn], t)
BY DEF SoundState, ChainOf

\* The writes that leave the chain alone.
LEMMA WritesKeepSound ==
  ASSUME NEW t, NEW s, SoundState(s, t), NEW x
  PROVE  /\ SoundState([s EXCEPT !.biz = x], t)
         /\ SoundState([s EXCEPT !.hashes = x], t)
         /\ SoundState(Touch(s), t)
         /\ [s EXCEPT !.biz = x].auditOn = s.auditOn
         /\ Touch(s).auditOn = s.auditOn
<1>1. /\ s = [biz |-> s.biz, chain |-> s.chain, hashes |-> s.hashes,
              auditOn |-> s.auditOn]
      /\ SoundChain(IF s.chain = Absent THEN EmptyChain ELSE s.chain, t)
  BY DEF SoundState, ChainOf
<1>2. /\ [s EXCEPT !.biz = x] = [biz |-> x, chain |-> s.chain, hashes |-> s.hashes,
                                 auditOn |-> s.auditOn]
      /\ [s EXCEPT !.hashes = x] = [biz |-> s.biz, chain |-> s.chain, hashes |-> x,
                                    auditOn |-> s.auditOn]
  BY <1>1
<1> DEFINE h == IF s.hashes = Absent THEN NullHashes ELSE s.hashes
<1>3. Touch(s) = [biz |-> s.biz, chain |-> s.chain, hashes |-> h,
                  auditOn |-> s.auditOn]
  BY <1>1 DEF Touch
<1> HIDE DEF h
<1> QED BY <1>1, <1>2, <1>3, StateFrom

LEMMA LaterState ==
  ASSUME NEW t \in Nat, NEW u \in Nat, t <= u, NEW s, SoundState(s, t)
  PROVE  SoundState(s, u)
BY SoundLater DEF SoundState

\* trace_step writes a record or nothing; the context counts with it.
LEMMA TraceSound ==
  ASSUME tick \in Nat, NEW s, SoundState(s, tick), s.auditOn = st.auditOn,
         NEW kind \in {"step", "rule"}
  PROVE  SoundState(TraceStep(s, kind), TickAfter)
<1>1. CASE ~s.auditOn
  BY <1>1 DEF TraceStep, TickAfter
<1>2. CASE s.auditOn
  <2> DEFINE r == [kind |-> kind, tick |-> tick,
                   before |-> IF s.hashes = Absent THEN s.biz ELSE s.hashes.before,
                   after  |-> IF s.hashes = Absent THEN s.biz ELSE s.hashes.after,
                   prev   |-> ChainOf(s).latest]
             d == AppendRecord(ChainOf(s), r)
  <2>1. r.prev = ChainOf(s).latest /\ r.tick = tick /\ r.kind # "expand"
    OBVIOUS
  <2>2. TraceStep(s, kind) = [s EXCEPT !.chain = d]
    BY <1>2 DEF TraceStep
  <2> HIDE DEF r
  <2>3. SoundChain(d, tick + 1)
    BY <2>1, AppendTraced DEF SoundState
  <2> HIDE DEF d
  <2>4. [s EXCEPT !.chain = d] = [biz |-> s.biz, chain |-> d, hashes |-> s.hashes,
                                  auditOn |-> s.auditOn]
    BY DEF SoundState
  <2>5. SoundChain(IF d = Absent THEN EmptyChain ELSE d, tick + 1)
    BY <2>3, EmptySound
  <2>6. TickAfter = tick + 1
    BY <1>2 DEF TickAfter
  <2> QED BY <2>2, <2>4, <2>5, <2>6, StateFrom
<1> QED BY <1>1, <1>2

\* record_dispatch_expand writes a record or nothing.
LEMMA ExpandSound ==
  ASSUME NEW u \in Nat, NEW s, SoundState(s, u)
  PROVE  SoundState(RecordExpand(s), u)
<1>1. CASE s.chain = Absent \/ ~s.auditOn
  BY <1>1 DEF RecordExpand
<1>2. CASE ~(s.chain = Absent \/ ~s.auditOn)
  <2> DEFINE c == s.chain
             r == [kind |-> "expand", tick |-> c.clock,
                   before |-> s.biz, after |-> s.biz, prev |-> c.latest]
             d == AppendRecord([c EXCEPT !.clock = @ + 1], r)
  <2>1. r.prev = c.latest /\ r.tick = c.clock /\ r.kind = "expand"
    OBVIOUS
  <2>2. RecordExpand(s) = [s EXCEPT !.chain = d]
    BY <1>2 DEF RecordExpand
  <2>3. SoundChain(c, u)
    BY <1>2 DEF SoundState, ChainOf
  <2> HIDE DEF r
  <2>4. SoundChain(d, u)
    BY <2>1, <2>3, AppendExpanded
  <2> HIDE DEF d
  <2>5. [s EXCEPT !.chain = d] = [biz |-> s.biz, chain |-> d, hashes |-> s.hashes,
                                  auditOn |-> s.auditOn]
    BY DEF SoundState
  <2>6. SoundChain(IF d = Absent THEN EmptyChain ELSE d, u)
    BY <2>4, EmptySound
  <2> QED BY <2>2, <2>5, <2>6, StateFrom
<1> QED BY <1>1, <1>2
-----------------------------------------------------------------------------
(* Frames.                                                                 *)

LEMMA LaterFrames ==
  ASSUME NEW t \in Nat, NEW u \in Nat, t <= u, NEW fs, SoundFrames(fs, t)
  PROVE  SoundFrames(fs, u)
BY LaterState DEF SoundFrames, SoundFrame

LEMMA NewFrames ==
  ASSUME NEW t, NEW s, SoundState(s, t), NEW kind \in {"try", "catch", "parallel"}
  PROVE  SoundFrame(DispatchFrame(s), t) /\ SoundFrame(ScopeFrame(kind, s), t)
BY DEF SoundFrame, DispatchFrame, ScopeFrame

LEMMA PushFrame ==
  ASSUME NEW t, NEW fs, SoundFrames(fs, t), NEW f, SoundFrame(f, t)
  PROVE  SoundFrames(Append(fs, f), t)
<1>1. /\ IsSeq(Append(fs, f))
      /\ Len(Append(fs, f)) = Len(fs) + 1
      /\ \A k \in 1 .. Len(fs) : Append(fs, f)[k] = fs[k]
      /\ Append(fs, f)[Len(fs) + 1] = f
      /\ Len(fs) \in Nat
  BY AppendSeq DEF SoundFrames
<1>2. ASSUME NEW k \in 1 .. Len(fs) + 1
      PROVE  SoundFrame(Append(fs, f)[k], t)
  <2>1. CASE k \in 1 .. Len(fs)
    BY <2>1, <1>1 DEF SoundFrames
  <2>2. CASE k = Len(fs) + 1
    BY <2>2, <1>1
  <2> QED BY <2>1, <2>2, <1>1
<1> QED BY <1>1, <1>2 DEF SoundFrames

LEMMA DropFrames ==
  ASSUME NEW t, SoundFrames(frames, t), NEW k \in 1 .. Len(frames)
  PROVE  SoundFrames(Below(k), t)
<1>1. Len(frames) \in Nat
  BY DEF SoundFrames, IsSeq
<1>2. /\ IsSeq(Below(k)) /\ Len(Below(k)) = k - 1
      /\ \A j \in 1 .. (k - 1) : Below(k)[j] = frames[j]
  BY BelowSeq DEF SoundFrames, Below
<1>3. \A j \in 1 .. (k - 1) : j \in 1 .. Len(frames)
  BY <1>1
<1> QED BY <1>2, <1>3 DEF SoundFrames

\* What a pop leaves at the bottom.
LEMMA Bottom ==
  ASSUME IsSeq(frames), Nested, NEW k \in 1 .. Len(frames), NEW f
  PROVE  /\ k = 1 => frames[k].kind = "dispatch"
         /\ k > 1 => Len(Below(k)) > 0
         /\ Len(Below(k)) > 0 => Below(k)[1].kind = "dispatch"
         /\ k > 1 => /\ Len(Append(Below(k), f)) > 0
                     /\ Append(Below(k), f)[1].kind = "dispatch"
         /\ Len(frames) > 0 => /\ Len(Append(frames, f)) > 0
                               /\ Append(frames, f)[1].kind = "dispatch"
<1>1. Len(frames) \in Nat
  BY DEF IsSeq
<1>2. frames[1].kind = "dispatch"
  BY <1>1 DEF Nested
<1>3. /\ IsSeq(Below(k)) /\ Len(Below(k)) = k - 1
      /\ \A j \in 1 .. (k - 1) : Below(k)[j] = frames[j]
  BY BelowSeq DEF Below
<1>4. k > 1 => 1 \in 1 .. (k - 1) /\ k - 1 > 0
  BY <1>1
<1>5. k - 1 > 0 => k > 1
  BY <1>1
<1>6. /\ Len(Append(Below(k), f)) = Len(Below(k)) + 1
      /\ \A j \in 1 .. Len(Below(k)) : Append(Below(k), f)[j] = Below(k)[j]
  BY <1>3, AppendSeq
<1>7. /\ Len(Append(frames, f)) = Len(frames) + 1
      /\ \A j \in 1 .. Len(frames) : Append(frames, f)[j] = frames[j]
  BY AppendSeq
<1>8. k > 1 => Below(k)[1].kind = "dispatch"
  BY <1>2, <1>3, <1>4
<1>9. k > 1 => /\ Len(Append(Below(k), f)) > 0
               /\ Append(Below(k), f)[1].kind = "dispatch"
  <2> SUFFICES ASSUME k > 1
               PROVE  /\ Len(Append(Below(k), f)) > 0
                      /\ Append(Below(k), f)[1].kind = "dispatch"
    OBVIOUS
  <2>1. Append(Below(k), f)[1] = Below(k)[1]
    BY <1>3, <1>4, <1>6
  <2>2. Len(Append(Below(k), f)) = k - 1 + 1
    BY <1>3, <1>6
  <2> QED BY <1>8, <2>1, <2>2, <1>1
<1>10. Len(frames) > 0 => /\ Len(Append(frames, f)) > 0
                         /\ Append(frames, f)[1].kind = "dispatch"
  BY <1>1, <1>2, <1>7
<1> QED BY <1>2, <1>3, <1>4, <1>5, <1>8, <1>9, <1>10
-----------------------------------------------------------------------------
(* Steps.                                                                  *)

\* A parallel goes on with a branch, or merges.
LEMMA BranchStep ==
  ASSUME AuditInv, phase = "run", phase' = phase, tick' = tick,
         NEW k \in 1 .. Len(frames), frames[k].kind = "parallel",
         NEW last, last = Absent \/ SoundState(last, tick), NextBranch(k, last)
  PROVE  AuditInv'
<1>1. /\ SoundState(frames[k].base, tick) /\ SoundFrames(Below(k), tick)
      /\ frames[k] = [kind |-> frames[k].kind, before |-> frames[k].before,
                      base |-> frames[k].base, last |-> frames[k].last]
  BY DropFrames DEF AuditInv, SoundFrames, SoundFrame
<1>2. k > 1
  BY Bottom DEF AuditInv, SoundFrames, IsSeq
<1> DEFINE f == [frames[k] EXCEPT !.last = last]
<1>3. f = [kind |-> frames[k].kind, before |-> frames[k].before,
           base |-> frames[k].base, last |-> last]
  BY <1>1
<1>4. SoundFrame(f, tick)
  BY <1>1, <1>3 DEF SoundFrame
<1>5. CASE frames' = Append(Below(k), f) /\ st' = frames[k].base
  <2> HIDE DEF f
  <2>1. SoundFrames(frames', tick)
    BY <1>1, <1>4, <1>5, PushFrame
  <2>2. Len(frames') > 0 /\ frames'[1].kind = "dispatch"
    BY <1>2, <1>5, Bottom DEF AuditInv, SoundFrames
  <2> QED BY <1>1, <1>5, <2>1, <2>2 DEF AuditInv, Nested
<1>6. CASE /\ last # Absent /\ frames' = Below(k)
           /\ \/ st' = last
              \/ \E b \in Contents : st' = [frames[k].base EXCEPT !.biz = b]
  <2>1. SoundState(st', tick)
    <3>1. CASE st' = last
      BY <1>6, <3>1
    <3>2. ASSUME NEW b \in Contents, st' = [frames[k].base EXCEPT !.biz = b]
          PROVE  SoundState(st', tick)
      <4>1. SoundState([frames[k].base EXCEPT !.biz = b], tick)
        BY <1>1, WritesKeepSound
      <4> QED BY <3>2, <4>1
    <3> QED BY <1>6, <3>1, <3>2
  <2>2. Len(frames') > 0 /\ frames'[1].kind = "dispatch"
    BY <1>2, <1>6, Bottom DEF AuditInv, SoundFrames
  <2> QED BY <1>1, <1>6, <2>1, <2>2 DEF AuditInv, Nested
<1> QED BY <1>5, <1>6 DEF NextBranch

\* Every step of the loop keeps the invariant.
LEMMA AuditStep ==
  ASSUME AuditInv, Next
  PROVE  AuditInv'
<1> USE DEF AuditInv
<1>1. CASE BeginDispatch
  <2> DEFINE f == DispatchFrame(st)
  <2>1. SoundFrame(f, tick) /\ f.kind = "dispatch"
    BY NewFrames DEF DispatchFrame
  <2> HIDE DEF f
  <2>2. IsSeq(<<f>>) /\ Len(<<f>>) = 1 /\ <<f>>[1] = f
    BY DEF IsSeq
  <2>3. SoundFrames(<<f>>, tick)
    BY <2>1, <2>2 DEF SoundFrames
  <2> QED BY <1>1, <2>1, <2>2, <2>3 DEF BeginDispatch, Nested, f
<1>2. CASE MissDispatch
  BY <1>2 DEF MissDispatch, Nested
<1>3. CASE CaseStep
  <2>1. CASE ChangeData
    <3>1. PICK b \in Contents : st' = [st EXCEPT !.biz = b]
      BY <2>1 DEF ChangeData
    <3>2. SoundState([st EXCEPT !.biz = b], tick)
      BY WritesKeepSound
    <3> QED BY <2>1, <3>1, <3>2 DEF ChangeData, Nested
  <2>2. CASE TouchExec
    <3>1. SoundState(Touch(st), tick)
      BY WritesKeepSound
    <3> QED BY <2>2, <3>1 DEF TouchExec, Nested
  <2>3. CASE Expand
    <3>1. PICK s \in {st, Touch(st)} : st' = RecordExpand(s)
      BY <2>3 DEF Expand
    <3>2. SoundState(s, tick)
      BY WritesKeepSound
    <3>3. SoundState(RecordExpand(s), tick)
      BY <3>2, ExpandSound
    <3> QED BY <2>3, <3>1, <3>3 DEF Expand, Nested
  <2>4. CASE RuleTrace
    <3>1. SoundState(TraceStep(st, "rule"), TickAfter)
      BY TraceSound
    <3> QED BY <2>4, <3>1, LaterFrames DEF RuleTrace, TickAfter, Nested
  <2> QED BY <1>3, <2>1, <2>2, <2>3, <2>4 DEF CaseStep
<1>4. CASE Scope
  <2> DEFINE n == Len(frames)
  <2>1. Running => n \in 1 .. Len(frames)
    BY DEF Running, Nested, SoundFrames, IsSeq
  <2>2. ASSUME Running, NEW kind \in {"dispatch", "try", "catch"}, Top.kind = kind,
               kind = "dispatch" => phase' = IF n = 1 THEN "trace" ELSE "run",
               kind # "dispatch" => phase' = phase,
               tick' = tick, SoundState(st', tick), frames' = Below(n)
        PROVE  AuditInv'
    <3>1. n \in Nat /\ SoundFrames(frames', tick)
      BY <2>1, <2>2, DropFrames DEF SoundFrames, IsSeq
    <3>2. /\ n = 1 => frames[n].kind = "dispatch"
          /\ n > 1 => Len(frames') > 0
          /\ Len(frames') > 0 => frames'[1].kind = "dispatch"
      BY <2>1, <2>2, Bottom DEF SoundFrames
    <3>3. frames[n].kind = kind
      BY <2>2 DEF Top
    <3>4. n # 1 => n > 1
      <4>1. n \in 1 .. n
        BY <2>1, <2>2
      <4>2. \A i \in 1 .. n : i > 0
        OBVIOUS
      <4>3. n > 0
        BY <4>1, <4>2
      <4>4. n \in Nat
        BY <3>1
      <4> QED BY <4>3, <4>4
    <3>5. phase' = "run" => n # 1
      BY <2>2, <3>2, <3>3
    <3> QED BY <2>2, <3>1, <3>2, <3>4, <3>5 DEF Nested
  <2>3. CASE BeginInnerDispatch
    <3>1. frames' = Append(frames, DispatchFrame(st))
      BY <2>3 DEF BeginInnerDispatch
    <3>2. SoundFrames(frames', tick)
      BY <3>1, NewFrames, PushFrame
    <3>3. Len(frames') > 0 /\ frames'[1].kind = "dispatch"
      BY <2>1, <2>3, <3>1, Bottom DEF BeginInnerDispatch, MayNest, SoundFrames
    <3> QED BY <2>3, <3>2, <3>3 DEF BeginInnerDispatch, Nested
  <2>4. CASE EndDispatch
    <3> DEFINE h == [before |-> Top.before, after |-> st.biz]
    <3>1. SoundState([st EXCEPT !.hashes = h], tick)
      BY WritesKeepSound
    <3> QED BY <2>2, <2>4, <3>1 DEF EndDispatch
  <2>5. CASE BeginScope
    <3>1. PICK kind \in {"try", "parallel"} : frames' = Append(frames, ScopeFrame(kind, st))
      BY <2>5 DEF BeginScope
    <3>2. SoundFrames(frames', tick)
      BY <3>1, NewFrames, PushFrame
    <3>3. Len(frames') > 0 /\ frames'[1].kind = "dispatch"
      BY <2>1, <2>5, <3>1, Bottom DEF BeginScope, MayNest, SoundFrames
    <3> QED BY <2>5, <3>2, <3>3 DEF BeginScope, Nested
  <2>6. CASE EndTry
    BY <2>2, <2>6 DEF EndTry
  <2>7. CASE EndBranch
    <3>1. Running /\ n \in 1 .. Len(frames) /\ frames[n].kind = "parallel"
      BY <2>1, <2>7 DEF EndBranch, Top
    <3> QED BY <2>7, <3>1, BranchStep DEF EndBranch, Running
  <2>8. CASE Fail
    <3>1. PICK k \in DOMAIN frames :
            \/ /\ frames[k].kind = "try"
               /\ \E b \in Contents :
                    LET caught == [frames[k].base EXCEPT !.biz = b]
                    IN  /\ st' = caught
                        /\ \/ frames' = Below(k)
                           \/ frames' = Append(Below(k), ScopeFrame("catch", caught))
            \/ /\ frames[k].kind = "catch"
               /\ st' = frames[k].base
               /\ frames' = Below(k)
            \/ /\ frames[k].kind = "parallel"
               /\ NextBranch(k, frames[k].last)
      BY <2>8 DEF Fail
    <3>2. k \in 1 .. Len(frames)
      BY DEF SoundFrames, IsSeq
    <3>3. /\ frames[k].kind # "dispatch" => SoundState(frames[k].base, tick)
          /\ frames[k].last = Absent \/ SoundState(frames[k].last, tick)
      BY <3>2 DEF SoundFrames, SoundFrame
    <3>4. frames[k].kind # "dispatch" => k > 1
      BY <3>2, Bottom DEF SoundFrames, IsSeq
    <3>5. SoundFrames(Below(k), tick)
      BY <3>2, DropFrames
    <3>6. /\ k > 1 => Len(Below(k)) > 0
          /\ Len(Below(k)) > 0 => Below(k)[1].kind = "dispatch"
      BY <3>2, Bottom DEF SoundFrames
    <3>7. phase' = phase /\ tick' = tick /\ phase = "run"
      BY <2>8 DEF Fail, Running
    <3>8. ASSUME frames[k].kind = "try", NEW b \in Contents, NEW caught,
                 caught = [frames[k].base EXCEPT !.biz = b], st' = caught,
                 \/ frames' = Below(k)
                 \/ frames' = Append(Below(k), ScopeFrame("catch", caught))
          PROVE  AuditInv'
      <4>1. SoundState(caught, tick)
        BY <3>3, <3>8, WritesKeepSound
      <4>2. CASE frames' = Below(k)
        BY <3>4, <3>5, <3>6, <3>7, <3>8, <4>1, <4>2 DEF Nested
      <4>3. CASE frames' = Append(Below(k), ScopeFrame("catch", caught))
        <5>1. SoundFrames(frames', tick)
          BY <3>5, <4>1, <4>3, NewFrames, PushFrame
        <5>2. Len(frames') > 0 /\ frames'[1].kind = "dispatch"
          BY <3>2, <3>4, <3>8, <4>3, Bottom DEF SoundFrames
        <5> QED BY <3>7, <3>8, <4>1, <5>1, <5>2 DEF Nested
      <4> QED BY <3>8, <4>2, <4>3
    <3>9. CASE frames[k].kind = "catch" /\ st' = frames[k].base /\ frames' = Below(k)
      BY <3>3, <3>4, <3>5, <3>6, <3>7, <3>9 DEF Nested
    <3>10. CASE frames[k].kind = "parallel" /\ NextBranch(k, frames[k].last)
      BY <3>2, <3>3, <3>7, <3>10, BranchStep
    <3> QED BY <3>1, <3>8, <3>9, <3>10
  <2>9. CASE FailOut
    <3>1. IsSeq(<<>>) /\ Len(<<>>) = 0
      BY DEF IsSeq
    <3>2. SoundFrames(<<>>, tick)
      BY <3>1 DEF SoundFrames
    <3> QED BY <2>9, <3>1, <3>2 DEF FailOut, Nested
  <2> QED BY <1>4, <2>3, <2>4, <2>5, <2>6, <2>7, <2>8, <2>9 DEF Scope
<1>5. CASE BodyTrace
  <2>1. SoundState(TraceStep(st, "step"), TickAfter)
    BY TraceSound
  <2> QED BY <1>5, <2>1, LaterFrames DEF BodyTrace, TickAfter, Nested
<1>6. CASE Drain
  <2>1. CASE DrainMeta
    <3>1. PICK b \in Contents :
            LET s == [Touch(st) EXCEPT !.biz = b]
            IN  st' = IF DrainMetaTrace THEN TraceStep(s, "step") ELSE s
      BY <2>1 DEF DrainMeta
    <3> DEFINE q == Touch(st)
               s == [q EXCEPT !.biz = b]
    <3>2. SoundState(q, tick) /\ q.auditOn = st.auditOn
      BY WritesKeepSound
    <3> HIDE DEF q
    <3>3. SoundState(s, tick) /\ s.auditOn = st.auditOn
      BY <3>2, WritesKeepSound
    <3>4. st' = IF DrainMetaTrace THEN TraceStep(s, "step") ELSE s
      BY <3>1 DEF q
    <3> HIDE DEF s
    <3>5. SoundState(TraceStep(s, "step"), TickAfter)
      BY <3>3, TraceSound
    <3>6. phase' = "drain" /\ frames' = frames
      BY <2>1 DEF DrainMeta
    <3>7. CASE DrainMetaTrace
      <4>1. tick' = TickAfter /\ SoundState(st', TickAfter)
        BY <2>1, <3>4, <3>5, <3>7 DEF DrainMeta
      <4> QED BY <3>6, <4>1, LaterFrames DEF TickAfter, Nested
    <3>8. CASE ~DrainMetaTrace
      <4>1. tick' = tick /\ SoundState(st', tick)
        BY <2>1, <3>3, <3>4, <3>8 DEF DrainMeta
      <4> QED BY <3>6, <4>1 DEF Nested
    <3> QED BY <3>7, <3>8
  <2>2. CASE DrainSets
    <3>1. st' = TraceStep(Touch(st), "step")
      BY <2>2 DEF DrainSets
    <3>2. SoundState(Touch(st), tick) /\ Touch(st).auditOn = st.auditOn
      BY WritesKeepSound
    <3>3. SoundState(st', TickAfter)
      BY <3>1, <3>2, TraceSound
    <3> QED BY <2>2, <3>3, LaterFrames DEF DrainSets, AfterDrain, TickAfter, Nested
  <2>3. CASE DrainIdle
    <3>1. SoundState(TraceStep(st, "step"), TickAfter)
      BY TraceSound
    <3> QED BY <2>3, <3>1, LaterFrames DEF DrainIdle, AfterDrain, TickAfter, Nested
  <2>4. CASE DrainStopped
    BY <2>4 DEF DrainStopped, AfterDrain, Nested
  <2> QED BY <1>6, <2>1, <2>2, <2>3, <2>4 DEF Drain
<1>7. CASE Ended
  BY <1>7 DEF Ended, vars, Nested
<1> QED BY <1>1, <1>2, <1>3, <1>4, <1>5, <1>6, <1>7 DEF Next

LEMMA AuditInit ==
  Init => AuditInv
<1> SUFFICES ASSUME Init PROVE AuditInv
  OBVIOUS
<1>1. PICK b \in Contents, on \in BOOLEAN, c \in {Absent, EmptyChain} :
        st = [biz |-> b, chain |-> c, hashes |-> Absent, auditOn |-> on]
  BY DEF Init
<1>2. tick = 0 /\ frames = <<>> /\ phase = "dispatch"
  BY DEF Init
<1>3. SoundChain(IF c = Absent THEN EmptyChain ELSE c, 0)
  BY EmptySound
<1>4. SoundState(st, 0)
  BY <1>1, <1>3, StateFrom
<1>5. IsSeq(<<>>) /\ Len(<<>>) = 0
  BY DEF IsSeq
<1>6. SoundFrames(<<>>, 0)
  BY <1>5 DEF SoundFrames
<1> QED BY <1>2, <1>4, <1>5, <1>6 DEF AuditInv, Nested

(* The state of the loop, and every state a try, a catch or a parallel     *)
(* would fall back to, has a sound chain at every moment.                  *)
THEOREM AuditInvariant == Spec => []AuditInv
<1>1. AuditInv /\ [Next]_vars => AuditInv'
  <2>1. ASSUME AuditInv, UNCHANGED vars PROVE AuditInv'
    BY <2>1 DEF AuditInv, Nested, vars
  <2> QED BY <2>1, AuditStep
<1> QED BY <1>1, AuditInit, PTL DEF Spec

LEMMA ChainsSound ==
  ASSUME AuditInv, NEW c \in Chains
  PROVE  SoundChain(c, tick)
<1>1. PICK s \in {st} \cup Fallbacks : c = ChainOf(s)
  BY DEF Chains
<1>2. CASE s = st
  BY <1>1, <1>2 DEF AuditInv, SoundState
<1>3. CASE s \in Fallbacks
  <2>1. PICK k \in DOMAIN frames : s \in {frames[k].base, frames[k].last} /\ s # Absent
    BY <1>3 DEF Fallbacks
  <2>2. k \in 1 .. Len(frames)
    BY DEF AuditInv, SoundFrames, IsSeq
  <2>3. SoundFrame(frames[k], tick)
    BY <2>2 DEF AuditInv, SoundFrames
  <2>4. SoundState(s, tick)
    BY <2>1, <2>3 DEF SoundFrame
  <2> QED BY <1>1, <2>4 DEF SoundState
<1> QED BY <1>2, <1>3

(* Whatever is rolled back, dropped with a branch or merged, the chain     *)
(* that is left links every record to its predecessor, and names its ends. *)
THEOREM ChainVerifies == Spec => []ChainLinked
<1>1. AuditInv => ChainLinked
  BY ChainsSound DEF ChainLinked, SoundChain
<1> QED BY <1>1, AuditInvariant, PTL

(* No tick of a record of trace_step that is in use is ever given again,   *)
(* and the clock of the chain numbers its dispatch_expand records in order.*)
THEOREM TicksInOrder == Spec => []TicksIncrease
<1>1. AuditInv => TicksIncrease
  BY ChainsSound DEF TicksIncrease, SoundChain
<1> QED BY <1>1, AuditInvariant, PTL
-----------------------------------------------------------------------------
(* Growth.                                                                 *)

\* A state has a sequence of records.
LEMMA RecordsAreSeq ==
  ASSUME NEW t, NEW s, SoundState(s, t)
  PROVE  IsSeq(ChainOf(s).records) /\ Len(ChainOf(s).records) \in Nat
BY DEF SoundState, SoundChain, IsChain, IsSeq

LEMMA ExtendsItself ==
  ASSUME NEW c, Len(c.records) \in Nat
  PROVE  Extends(c, c)
BY DEF Extends

LEMMA ExtendsOn ==
  ASSUME NEW a, NEW b, NEW c, Extends(c, b), Extends(b, a),
         Len(a.records) \in Nat, Len(b.records) \in Nat, Len(c.records) \in Nat
  PROVE  Extends(c, a)
<1>1. ASSUME NEW k \in 1 .. Len(a.records)
      PROVE  c.records[k] = a.records[k]
  <2>1. k \in 1 .. Len(b.records)
    BY DEF Extends
  <2> QED BY <2>1 DEF Extends
<1> QED BY <1>1 DEF Extends

\* The writes that leave the chain alone, seen from outside.
LEMMA WritesKeepChain ==
  ASSUME NEW t, NEW s, SoundState(s, t), NEW x
  PROVE  /\ ChainOf([s EXCEPT !.biz = x]) = ChainOf(s)
         /\ [s EXCEPT !.biz = x].biz = x
         /\ [s EXCEPT !.biz = x].hashes = s.hashes
         /\ ChainOf([s EXCEPT !.hashes = x]) = ChainOf(s)
         /\ [s EXCEPT !.hashes = x].biz = s.biz
         /\ [s EXCEPT !.hashes = x].hashes = x
         /\ [s EXCEPT !.hashes = x].auditOn = s.auditOn
         /\ ChainOf(Touch(s)) = ChainOf(s)
         /\ Touch(s).biz = s.biz
         /\ Touch(s).hashes = IF s.hashes = Absent THEN NullHashes ELSE s.hashes
<1>1. s = [biz |-> s.biz, chain |-> s.chain, hashes |-> s.hashes,
           auditOn |-> s.auditOn]
  BY DEF SoundState
<1>2. /\ [s EXCEPT !.biz = x] = [biz |-> x, chain |-> s.chain, hashes |-> s.hashes,
                                 auditOn |-> s.auditOn]
      /\ [s EXCEPT !.hashes = x] = [biz |-> s.biz, chain |-> s.chain, hashes |-> x,
                                    auditOn |-> s.auditOn]
  BY <1>1
<1> DEFINE h == IF s.hashes = Absent THEN NullHashes ELSE s.hashes
<1>3. Touch(s) = [biz |-> s.biz, chain |-> s.chain, hashes |-> h,
                  auditOn |-> s.auditOn]
  BY <1>1 DEF Touch
<1> HIDE DEF h
<1>4. /\ ChainOf([s EXCEPT !.biz = x]) = ChainOf(s)
      /\ [s EXCEPT !.biz = x].biz = x
      /\ [s EXCEPT !.biz = x].hashes = s.hashes
  BY <1>2 DEF ChainOf
<1>5. /\ ChainOf([s EXCEPT !.hashes = x]) = ChainOf(s)
      /\ [s EXCEPT !.hashes = x].biz = s.biz
      /\ [s EXCEPT !.hashes = x].hashes = x
      /\ [s EXCEPT !.hashes = x].auditOn = s.auditOn
  BY <1>2 DEF ChainOf
<1>6. /\ ChainOf(Touch(s)) = ChainOf(s)
      /\ Touch(s).biz = s.biz
      /\ Touch(s).hashes = h
  BY <1>3 DEF ChainOf
<1> QED BY <1>4, <1>5, <1>6 DEF h

\* What a change of the business data leaves.
LEMMA SetData ==
  ASSUME NEW t, NEW s, SoundState(s, t), NEW b, NEW u, u = [s EXCEPT !.biz = b]
  PROVE  ChainOf(u) = ChainOf(s) /\ u.biz = b /\ u.auditOn = s.auditOn
<1>1. s = [biz |-> s.biz, chain |-> s.chain, hashes |-> s.hashes,
           auditOn |-> s.auditOn]
  BY DEF SoundState
<1>2. u = [biz |-> b, chain |-> s.chain, hashes |-> s.hashes, auditOn |-> s.auditOn]
  BY <1>1
<1> QED BY <1>2 DEF ChainOf

\* What trace_step adds to the chain of a state that is audited.
LEMMA TraceAppends ==
  ASSUME AbsentIsApart, NEW t, NEW s, SoundState(s, t), NEW kind, s.auditOn
  PROVE  LET u == TraceStep(s, kind)
             r == [kind |-> kind, tick |-> tick,
                   before |-> IF s.hashes = Absent THEN s.biz ELSE s.hashes.before,
                   after  |-> IF s.hashes = Absent THEN s.biz ELSE s.hashes.after,
                   prev   |-> ChainOf(s).latest]
         IN  /\ ChainOf(u).records = Append(ChainOf(s).records, r)
             /\ u.biz = s.biz /\ u.hashes = s.hashes /\ u.auditOn = s.auditOn
<1> DEFINE r == [kind |-> kind, tick |-> tick,
                 before |-> IF s.hashes = Absent THEN s.biz ELSE s.hashes.before,
                 after  |-> IF s.hashes = Absent THEN s.biz ELSE s.hashes.after,
                 prev   |-> ChainOf(s).latest]
           d == AppendRecord(ChainOf(s), r)
           u == TraceStep(s, kind)
<1>1. u = [s EXCEPT !.chain = d]
  BY DEF TraceStep
<1> HIDE DEF r, u
<1>2. d # Absent /\ d.records = Append(ChainOf(s).records, r)
  BY DEF AbsentIsApart, AppendRecord
<1> HIDE DEF d
<1>3. s = [biz |-> s.biz, chain |-> s.chain, hashes |-> s.hashes,
           auditOn |-> s.auditOn]
  BY DEF SoundState
<1>4. u = [biz |-> s.biz, chain |-> d, hashes |-> s.hashes, auditOn |-> s.auditOn]
  BY <1>1, <1>3
<1>5. ChainOf(u) = d /\ u.biz = s.biz /\ u.hashes = s.hashes /\ u.auditOn = s.auditOn
  BY <1>2, <1>4 DEF ChainOf
<1> QED BY <1>2, <1>5 DEF u, r

\* What record_dispatch_expand adds: a record of its own kind, or nothing.
LEMMA ExpandAppends ==
  ASSUME AbsentIsApart, NEW t, NEW s, SoundState(s, t)
  PROVE  LET u == RecordExpand(s)
         IN  /\ \/ u = s
                \/ \E r : /\ r.kind = "expand"
                          /\ ChainOf(u).records = Append(ChainOf(s).records, r)
             /\ u.biz = s.biz /\ u.hashes = s.hashes /\ u.auditOn = s.auditOn
<1>1. CASE s.chain = Absent \/ ~s.auditOn
  BY <1>1 DEF RecordExpand
<1>2. CASE ~(s.chain = Absent \/ ~s.auditOn)
  <2> DEFINE c == s.chain
             r == [kind |-> "expand", tick |-> c.clock,
                   before |-> s.biz, after |-> s.biz, prev |-> c.latest]
             b == [c EXCEPT !.clock = @ + 1]
             d == AppendRecord(b, r)
             u == RecordExpand(s)
  <2>1. u = [s EXCEPT !.chain = d]
    BY <1>2 DEF RecordExpand
  <2>2. r.kind = "expand"
    OBVIOUS
  <2> HIDE DEF r, u
  <2>3. ChainOf(s) = c
    BY <1>2 DEF ChainOf
  <2>4. c = [records |-> c.records, root |-> c.root, latest |-> c.latest,
             created |-> c.created, updated |-> c.updated, clock |-> c.clock]
    BY <2>3 DEF SoundState, SoundChain, IsChain
  <2> HIDE DEF c
  <2>5. b.records = c.records
    BY <2>4
  <2> HIDE DEF b
  <2>6. d # Absent /\ d.records = Append(c.records, r)
    BY <2>5 DEF AbsentIsApart, AppendRecord
  <2> HIDE DEF d
  <2>7. s = [biz |-> s.biz, chain |-> s.chain, hashes |-> s.hashes,
             auditOn |-> s.auditOn]
    BY DEF SoundState
  <2>8. u = [biz |-> s.biz, chain |-> d, hashes |-> s.hashes, auditOn |-> s.auditOn]
    BY <2>1, <2>7
  <2>9. ChainOf(u) = d /\ u.biz = s.biz /\ u.hashes = s.hashes /\ u.auditOn = s.auditOn
    BY <2>6, <2>8 DEF ChainOf
  <2> QED BY <2>2, <2>3, <2>6, <2>9 DEF u
<1> QED BY <1>1, <1>2

LEMMA AppendExtends ==
  ASSUME NEW c, NEW d, NEW r, IsSeq(c.records), d.records = Append(c.records, r)
  PROVE  Extends(d, c)
BY AppendSeq DEF Extends

\* A state whose chain extends the current one takes its place.
LEMMA GrowOn ==
  ASSUME NEW t, NEW fs, SoundFrames(fs, t), NEW s, SoundState(s, t), Growing(fs, s),
         NEW v, NEW u, SoundState(u, v), Extends(ChainOf(u), ChainOf(s))
  PROVE  Growing(fs, u)
<1> SUFFICES ASSUME NEW k \in 1 .. Len(fs), fs[k].kind # "dispatch"
             PROVE  Extends(ChainOf(u), ChainOf(fs[k].base))
  BY DEF Growing
<1>1. SoundState(fs[k].base, t)
  BY DEF SoundFrames, SoundFrame
<1>2. Extends(ChainOf(s), ChainOf(fs[k].base))
  BY DEF Growing
<1> QED BY <1>1, <1>2, RecordsAreSeq, ExtendsOn

\* A scope begins with the current state; a dispatch keeps no state.
LEMMA GrowPush ==
  ASSUME NEW t, NEW fs, IsSeq(fs), NEW s, SoundState(s, t), Growing(fs, s), NEW f,
         f.last = Absent, f.kind # "dispatch" => ChainOf(f.base) = ChainOf(s)
  PROVE  Growing(Append(fs, f), s)
<1> DEFINE gs == Append(fs, f)
           n == Len(fs)
<1>1. /\ Len(gs) = n + 1 /\ gs[n + 1] = f /\ n \in Nat
      /\ \A k \in 1 .. n : gs[k] = fs[k]
  BY AppendSeq
<1> HIDE DEF gs, n
<1>2. SUFFICES ASSUME NEW k \in 1 .. (n + 1), gs[k].kind # "dispatch"
      PROVE  /\ Extends(ChainOf(s), ChainOf(gs[k].base))
             /\ gs[k].last # Absent => Extends(ChainOf(gs[k].last), ChainOf(gs[k].base))
             /\ \A j \in 1 .. (k - 1) : gs[j].kind # "dispatch" =>
                  Extends(ChainOf(gs[k].base), ChainOf(gs[j].base))
  BY <1>1 DEF Growing, gs
<1>3. CASE k \in 1 .. n
  <2>1. \A j \in 1 .. (k - 1) : gs[j] = fs[j]
    BY <1>1, <1>3
  <2>2. gs[k] = fs[k]
    BY <1>1, <1>3
  <2> QED BY <1>2, <1>3, <2>1, <2>2 DEF Growing, n
<1>4. CASE k = n + 1
  <2>1. gs[k] = f /\ f.kind # "dispatch" /\ ChainOf(f.base) = ChainOf(s)
    BY <1>1, <1>2, <1>4
  <2>2. Extends(ChainOf(s), ChainOf(s))
    BY RecordsAreSeq, ExtendsItself
  <2>3. ASSUME NEW j \in 1 .. (k - 1), gs[j].kind # "dispatch"
        PROVE  Extends(ChainOf(s), ChainOf(gs[j].base))
    <3>1. j \in 1 .. n /\ gs[j] = fs[j]
      BY <1>1, <1>4
    <3> QED BY <3>1, <2>3 DEF Growing, n
  <2> QED BY <2>1, <2>2, <2>3
<1> QED BY <1>1, <1>3, <1>4

\* The frames below a scope grow with any state that extends its base.
LEMMA GrowDrop ==
  ASSUME NEW t, SoundFrames(frames, t), NEW s, Growing(frames, s),
         NEW k \in 1 .. Len(frames)
  PROVE  /\ Growing(Below(k), s)
         /\ frames[k].kind # "dispatch" => Growing(Below(k), frames[k].base)
<1>1. /\ Len(Below(k)) = k - 1 /\ Len(frames) \in Nat
      /\ \A j \in 1 .. (k - 1) : Below(k)[j] = frames[j]
  BY BelowSeq DEF SoundFrames, IsSeq, Below
<1>2. \A j \in 1 .. (k - 1) : j \in 1 .. Len(frames)
  BY <1>1
<1>3. \A j \in 1 .. (k - 1) : \A i \in 1 .. (j - 1) : i \in 1 .. (k - 1)
  BY <1>1
<1>4. ASSUME NEW u, \A j \in 1 .. (k - 1) : frames[j].kind # "dispatch" =>
                       Extends(ChainOf(u), ChainOf(frames[j].base))
      PROVE  Growing(Below(k), u)
  <2> SUFFICES ASSUME NEW j \in 1 .. (k - 1), frames[j].kind # "dispatch"
      PROVE  /\ Extends(ChainOf(u), ChainOf(frames[j].base))
             /\ frames[j].last # Absent =>
                  Extends(ChainOf(frames[j].last), ChainOf(frames[j].base))
             /\ \A i \in 1 .. (j - 1) : Below(k)[i].kind # "dispatch" =>
                  Extends(ChainOf(frames[j].base), ChainOf(Below(k)[i].base))
    BY <1>1 DEF Growing
  <2>1. \A i \in 1 .. (j - 1) : Below(k)[i] = frames[i]
    BY <1>1, <1>3
  <2> QED BY <1>2, <1>4, <2>1 DEF Growing
<1>5. Growing(Below(k), s)
  BY <1>2, <1>4 DEF Growing
<1>6. frames[k].kind # "dispatch" => Growing(Below(k), frames[k].base)
  BY <1>4 DEF Growing
<1> QED BY <1>5, <1>6

\* A parallel goes on with a branch, or merges: what is left extends what it
\* began with.
LEMMA GrowResume ==
  ASSUME AuditInv, Growing(frames, st), NEW k \in 1 .. Len(frames),
         frames[k].kind = "parallel", NEW last, NextBranch(k, last),
         last # Absent => /\ SoundState(last, tick)
                          /\ Extends(ChainOf(last), ChainOf(frames[k].base))
  PROVE  Growing(frames', st')
<1> DEFINE base == frames[k].base
           f == [frames[k] EXCEPT !.last = last]
<1>1. /\ SoundState(base, tick) /\ SoundFrames(Below(k), tick)
      /\ frames[k] = [kind |-> frames[k].kind, before |-> frames[k].before,
                      base |-> frames[k].base, last |-> frames[k].last]
  BY DropFrames DEF AuditInv, SoundFrames, SoundFrame
<1>2. Growing(Below(k), base)
  BY GrowDrop DEF AuditInv
<1>3. f.kind = "parallel" /\ f.base = base /\ f.last = last
  BY <1>1
<1>4. NextBranch(k, last) <=>
        \/ frames' = Append(Below(k), f) /\ st' = base
        \/ /\ last # Absent
           /\ frames' = Below(k)
           /\ \/ st' = last
              \/ \E b \in Contents : st' = [base EXCEPT !.biz = b]
  BY DEF NextBranch
<1> HIDE DEF base, f
<1>5. CASE frames' = Append(Below(k), f) /\ st' = base
  <2> DEFINE fs == Below(k)
             g == [kind |-> "parallel", before |-> f.before, base |-> base,
                   last |-> Absent]
             gs == Append(fs, g)
             hs == Append(fs, f)
  <2>1. Growing(gs, base)
    BY <1>1, <1>2, GrowPush DEF SoundFrames
  <2> HIDE DEF g
  <2>2. /\ Len(hs) = Len(fs) + 1 /\ hs[Len(fs) + 1] = f /\ Len(fs) \in Nat
        /\ \A j \in 1 .. Len(fs) : hs[j] = fs[j]
    BY <1>1, AppendSeq DEF SoundFrames
  <2>3. /\ Len(gs) = Len(fs) + 1 /\ gs[Len(fs) + 1] = g
        /\ \A j \in 1 .. Len(fs) : gs[j] = fs[j]
    BY <1>1, AppendSeq DEF SoundFrames
  <2>4. g.kind = f.kind /\ g.base = f.base
    BY <1>3 DEF g
  <2> HIDE DEF fs, gs, hs
  <2>5. \A j \in 1 .. Len(hs) : /\ hs[j].kind = gs[j].kind /\ hs[j].base = gs[j].base
                                /\ j # Len(fs) + 1 => hs[j] = gs[j]
    BY <2>2, <2>3, <2>4
  <2>6. Growing(hs, base)
    <3> SUFFICES ASSUME NEW j \in 1 .. Len(hs), hs[j].kind # "dispatch"
        PROVE  /\ Extends(ChainOf(base), ChainOf(hs[j].base))
               /\ hs[j].last # Absent =>
                    Extends(ChainOf(hs[j].last), ChainOf(hs[j].base))
               /\ \A i \in 1 .. (j - 1) : hs[i].kind # "dispatch" =>
                    Extends(ChainOf(hs[j].base), ChainOf(hs[i].base))
      BY DEF Growing
    <3>1. j \in 1 .. Len(gs) /\ gs[j].kind # "dispatch"
      BY <2>2, <2>3, <2>5
    <3>2. \A i \in 1 .. (j - 1) : i \in 1 .. Len(hs)
      BY <2>2
    <3>3. \A i \in 1 .. (j - 1) : hs[i].kind # "dispatch" =>
            Extends(ChainOf(hs[j].base), ChainOf(hs[i].base))
      BY <2>1, <2>5, <3>1, <3>2 DEF Growing
    <3>4. hs[j].last # Absent => Extends(ChainOf(hs[j].last), ChainOf(hs[j].base))
      <4>1. CASE j = Len(fs) + 1
        BY <1>3, <2>2, <4>1 DEF base
      <4>2. CASE j # Len(fs) + 1
        BY <2>1, <2>5, <3>1, <4>2 DEF Growing
      <4> QED BY <4>1, <4>2
    <3>5. Extends(ChainOf(base), ChainOf(hs[j].base))
      BY <2>1, <2>5, <3>1 DEF Growing
    <3> QED BY <3>3, <3>4, <3>5
  <2> QED BY <1>5, <2>6 DEF hs, fs
<1>6. CASE last # Absent /\ frames' = Below(k) /\ st' = last
  BY <1>1, <1>2, <1>6, GrowOn DEF base
<1>7. ASSUME frames' = Below(k), NEW b \in Contents, st' = [base EXCEPT !.biz = b]
      PROVE  Growing(frames', st')
  <2>1. ChainOf(st') = ChainOf(base) /\ SoundState(st', tick)
    BY <1>1, <1>7, WritesKeepChain, WritesKeepSound
  <2>2. Extends(ChainOf(base), ChainOf(base))
    BY <1>1, RecordsAreSeq, ExtendsItself
  <2> QED BY <1>1, <1>2, <1>7, <2>1, <2>2, GrowOn
<1> QED BY <1>4, <1>5, <1>6, <1>7

\* Only trace_step, dispatch_expand and the ends of scopes touch a chain.
LEMMA TraceExtends ==
  ASSUME AbsentIsApart, NEW t, NEW s, SoundState(s, t), NEW kind
  PROVE  Extends(ChainOf(TraceStep(s, kind)), ChainOf(s))
<1>1. CASE ~s.auditOn
  BY <1>1, RecordsAreSeq, ExtendsItself DEF TraceStep
<1>2. CASE s.auditOn
  <2> DEFINE u == TraceStep(s, kind)
  <2>1. \E r : ChainOf(u).records = Append(ChainOf(s).records, r)
    BY <1>2, TraceAppends
  <2> HIDE DEF u
  <2> QED BY <2>1, RecordsAreSeq, AppendExtends DEF u
<1> QED BY <1>1, <1>2

LEMMA ExpandExtends ==
  ASSUME AbsentIsApart, NEW t, NEW s, SoundState(s, t)
  PROVE  Extends(ChainOf(RecordExpand(s)), ChainOf(s))
<1> DEFINE u == RecordExpand(s)
<1>1. \/ u = s
      \/ \E r : ChainOf(u).records = Append(ChainOf(s).records, r)
  BY ExpandAppends
<1> HIDE DEF u
<1>2. Extends(ChainOf(u), ChainOf(s))
  BY <1>1, RecordsAreSeq, ExtendsItself, AppendExtends
<1> QED BY <1>2 DEF u

\* The frames stay and the chain does too, or grows.
LEMMA GrowInPlace ==
  ASSUME AuditInv, AuditInv', Growing(frames, st), frames' = frames,
         Extends(ChainOf(st'), ChainOf(st))
  PROVE  Growing(frames', st')
BY GrowOn DEF AuditInv

\* Without frames there is nothing to extend.
LEMMA GrowFrom ==
  ASSUME NEW s, NEW f, f.kind = "dispatch"
  PROVE  Growing(<<f>>, s) /\ Growing(<<>>, s)
BY DEF Growing

LEMMA GrowthStep ==
  ASSUME AbsentIsApart, GrowthInv, Next
  PROVE  GrowthInv'
<1>1. AuditInv /\ AuditInv' /\ Growing(frames, st)
  BY AuditStep DEF GrowthInv
<1>2. SoundState(st, tick) /\ SoundFrames(frames, tick) /\ IsSeq(frames) /\ Nested
  BY <1>1 DEF AuditInv, SoundFrames
<1>3. Extends(ChainOf(st), ChainOf(st))
  BY <1>2, RecordsAreSeq, ExtendsItself
<1>4. SUFFICES Growing(frames', st')
  BY <1>1 DEF GrowthInv
<1>5. CASE BeginDispatch
  <2>1. DispatchFrame(st).kind = "dispatch"
    BY DEF DispatchFrame
  <2> QED BY <1>5, <2>1, GrowFrom DEF BeginDispatch
<1>6. CASE MissDispatch
  BY <1>1, <1>6 DEF MissDispatch
<1>7. CASE CaseStep
  <2>1. CASE ChangeData
    <3>1. PICK b \in Contents : st' = [st EXCEPT !.biz = b]
      BY <2>1 DEF ChangeData
    <3>2. ChainOf([st EXCEPT !.biz = b]) = ChainOf(st)
      BY <1>2, WritesKeepChain
    <3> QED BY <1>1, <1>3, <2>1, <3>1, <3>2, GrowInPlace DEF ChangeData
  <2>2. CASE TouchExec
    <3>1. ChainOf(Touch(st)) = ChainOf(st)
      BY <1>2, WritesKeepChain
    <3> QED BY <1>1, <1>3, <2>2, <3>1, GrowInPlace DEF TouchExec
  <2>3. CASE Expand
    <3>1. PICK s \in {st, Touch(st)} : st' = RecordExpand(s)
      BY <2>3 DEF Expand
    <3>2. SoundState(s, tick) /\ ChainOf(s) = ChainOf(st)
      <4>1. SoundState(Touch(st), tick)
        BY <1>2, WritesKeepSound
      <4>2. ChainOf(Touch(st)) = ChainOf(st)
        BY <1>2, WritesKeepChain
      <4> QED BY <1>2, <4>1, <4>2
    <3>3. Extends(ChainOf(RecordExpand(s)), ChainOf(s))
      BY <3>2, ExpandExtends
    <3> QED BY <1>1, <2>3, <3>1, <3>2, <3>3, GrowInPlace DEF Expand
  <2>4. CASE RuleTrace
    <3>1. Extends(ChainOf(TraceStep(st, "rule")), ChainOf(st))
      BY <1>2, TraceExtends
    <3> QED BY <1>1, <2>4, <3>1, GrowInPlace DEF RuleTrace
  <2> QED BY <1>7, <2>1, <2>2, <2>3, <2>4 DEF CaseStep
<1>8. CASE Scope
  <2> DEFINE n == Len(frames)
  <2>1. Running => n \in 1 .. Len(frames)
    BY <1>2 DEF Running, Nested, IsSeq
  <2>2. CASE BeginInnerDispatch
    <3> DEFINE f == DispatchFrame(st)
    <3>1. f.last = Absent /\ f.kind = "dispatch"
      BY DEF DispatchFrame
    <3>2. frames' = Append(frames, f) /\ st' = st
      BY <2>2 DEF BeginInnerDispatch
    <3> HIDE DEF f
    <3> QED BY <1>1, <1>2, <3>1, <3>2, GrowPush
  <2>3. CASE EndDispatch
    <3>1. Growing(Below(n), st)
      BY <1>1, <1>2, <2>1, <2>3, GrowDrop DEF EndDispatch
    <3>2. frames' = Below(n) /\ Extends(ChainOf(st'), ChainOf(st))
      BY <1>2, <1>3, <2>3, WritesKeepChain DEF EndDispatch
    <3>3. SoundFrames(Below(n), tick) /\ SoundState(st', tick')
      BY <1>1, <1>2, <2>1, <2>3, DropFrames DEF AuditInv, EndDispatch
    <3> QED BY <1>2, <3>1, <3>2, <3>3, GrowOn
  <2>4. CASE BeginScope
    <3>1. PICK kind \in {"try", "parallel"} : frames' = Append(frames, ScopeFrame(kind, st))
      BY <2>4 DEF BeginScope
    <3> DEFINE f == ScopeFrame(kind, st)
    <3>2. f.last = Absent /\ f.base = st
      BY DEF ScopeFrame
    <3>3. st' = st
      BY <2>4 DEF BeginScope
    <3> HIDE DEF f
    <3>4. Growing(Append(frames, f), st)
      BY <1>1, <1>2, <3>2, GrowPush
    <3> QED BY <3>1, <3>3, <3>4 DEF f
  <2>5. CASE EndTry
    BY <1>1, <1>2, <2>1, <2>5, GrowDrop DEF EndTry
  <2>6. CASE EndBranch
    <3>1. /\ n \in 1 .. Len(frames) /\ frames[n].kind = "parallel"
          /\ NextBranch(n, st)
      BY <2>1, <2>6 DEF EndBranch, Top
    <3>2. Extends(ChainOf(st), ChainOf(frames[n].base))
      BY <1>1, <3>1 DEF Growing
    <3> QED BY <1>1, <1>2, <3>1, <3>2, GrowResume
  <2>7. CASE Fail
    <3>1. PICK k \in DOMAIN frames :
            \/ /\ frames[k].kind = "try"
               /\ \E b \in Contents :
                    LET caught == [frames[k].base EXCEPT !.biz = b]
                    IN  /\ st' = caught
                        /\ \/ frames' = Below(k)
                           \/ frames' = Append(Below(k), ScopeFrame("catch", caught))
            \/ /\ frames[k].kind = "catch"
               /\ st' = frames[k].base
               /\ frames' = Below(k)
            \/ /\ frames[k].kind = "parallel"
               /\ NextBranch(k, frames[k].last)
      BY <2>7 DEF Fail
    <3>2. k \in 1 .. Len(frames)
      BY <1>2 DEF IsSeq
    <3>3. /\ frames[k].kind # "dispatch" => SoundState(frames[k].base, tick)
          /\ frames[k].last = Absent \/ SoundState(frames[k].last, tick)
          /\ SoundFrames(Below(k), tick)
      BY <1>2, <3>2, DropFrames DEF SoundFrames, SoundFrame
    <3>4. frames[k].kind # "dispatch" => Growing(Below(k), frames[k].base)
      BY <1>1, <1>2, <3>2, GrowDrop
    <3>5. ASSUME frames[k].kind = "try", NEW b \in Contents, NEW caught,
                 caught = [frames[k].base EXCEPT !.biz = b], st' = caught,
                 \/ frames' = Below(k)
                 \/ frames' = Append(Below(k), ScopeFrame("catch", caught))
          PROVE  Growing(frames', st')
      <4>1. ChainOf(caught) = ChainOf(frames[k].base) /\ SoundState(caught, tick)
        BY <3>3, <3>5, WritesKeepChain, WritesKeepSound
      <4>2. Extends(ChainOf(caught), ChainOf(frames[k].base))
        BY <3>3, <3>5, <4>1, RecordsAreSeq, ExtendsItself
      <4>3. Growing(Below(k), caught)
        BY <3>3, <3>4, <3>5, <4>1, <4>2, GrowOn
      <4> DEFINE f == ScopeFrame("catch", caught)
      <4>4. f.last = Absent /\ f.base = caught
        BY DEF ScopeFrame
      <4> HIDE DEF f
      <4>5. Growing(Append(Below(k), f), caught)
        BY <3>3, <4>1, <4>3, <4>4, GrowPush DEF SoundFrames
      <4> QED BY <3>5, <4>3, <4>5 DEF f
    <3>6. CASE frames[k].kind = "catch" /\ st' = frames[k].base /\ frames' = Below(k)
      BY <3>4, <3>6
    <3>7. CASE frames[k].kind = "parallel" /\ NextBranch(k, frames[k].last)
      <4>1. frames[k].last # Absent =>
              Extends(ChainOf(frames[k].last), ChainOf(frames[k].base))
        BY <1>1, <3>2, <3>7 DEF Growing
      <4> QED BY <1>1, <3>2, <3>3, <3>7, <4>1, GrowResume
    <3> QED BY <3>1, <3>5, <3>6, <3>7
  <2>8. CASE FailOut
    BY <2>8 DEF FailOut, Growing
  <2> QED BY <1>8, <2>2, <2>3, <2>4, <2>5, <2>6, <2>7, <2>8 DEF Scope
<1>9. CASE BodyTrace
  <2>1. Extends(ChainOf(TraceStep(st, "step")), ChainOf(st))
    BY <1>2, TraceExtends
  <2> QED BY <1>1, <1>9, <2>1, GrowInPlace DEF BodyTrace
<1>10. CASE Drain
  <2>1. CASE DrainMeta
    <3>1. PICK b \in Contents :
            LET s == [Touch(st) EXCEPT !.biz = b]
            IN  st' = IF DrainMetaTrace THEN TraceStep(s, "step") ELSE s
      BY <2>1 DEF DrainMeta
    <3> DEFINE q == Touch(st)
               s == [q EXCEPT !.biz = b]
    <3>2. SoundState(q, tick) /\ ChainOf(q) = ChainOf(st)
      BY <1>2, WritesKeepSound, WritesKeepChain
    <3> HIDE DEF q
    <3>3. SoundState(s, tick) /\ ChainOf(s) = ChainOf(st)
      BY <3>2, WritesKeepSound, WritesKeepChain
    <3>4. st' = IF DrainMetaTrace THEN TraceStep(s, "step") ELSE s
      BY <3>1 DEF q
    <3> HIDE DEF s
    <3>5. Extends(ChainOf(TraceStep(s, "step")), ChainOf(st))
      BY <3>3, TraceExtends
    <3>6. Extends(ChainOf(st'), ChainOf(st))
      BY <1>3, <3>3, <3>4, <3>5
    <3> QED BY <1>1, <2>1, <3>6, GrowInPlace DEF DrainMeta
  <2>2. CASE DrainSets
    <3>1. SoundState(Touch(st), tick) /\ ChainOf(Touch(st)) = ChainOf(st)
      BY <1>2, WritesKeepSound, WritesKeepChain
    <3>2. Extends(ChainOf(TraceStep(Touch(st), "step")), ChainOf(st))
      BY <3>1, TraceExtends
    <3> QED BY <1>1, <2>2, <3>2, GrowInPlace DEF DrainSets, AfterDrain
  <2>3. CASE DrainIdle
    <3>1. Extends(ChainOf(TraceStep(st, "step")), ChainOf(st))
      BY <1>2, TraceExtends
    <3> QED BY <1>1, <2>3, <3>1, GrowInPlace DEF DrainIdle, AfterDrain
  <2>4. CASE DrainStopped
    BY <1>1, <2>4 DEF DrainStopped, AfterDrain
  <2> QED BY <1>10, <2>1, <2>2, <2>3, <2>4 DEF Drain
<1>11. CASE Ended
  BY <1>1, <1>11 DEF Ended, vars
<1> QED BY <1>5, <1>6, <1>7, <1>8, <1>9, <1>10, <1>11 DEF Next

LEMMA GrowthInit ==
  Init => GrowthInv
<1> SUFFICES ASSUME Init PROVE GrowthInv
  OBVIOUS
<1>1. AuditInv
  BY AuditInit
<1>2. frames = <<>>
  BY DEF Init
<1> QED BY <1>1, <1>2 DEF GrowthInv, Growing

(* Whatever runs inside a try, a catch or a branch of a parallel, at any   *)
(* level of nesting, no record that was there when it began is removed or  *)
(* altered; the states that are kept for a rollback, and the results of    *)
(* earlier branches, have them too.                                        *)
THEOREM RecordsArePermanent ==
  ASSUME AbsentIsApart
  PROVE  Spec => []ChainOnlyGrows
<1>1. GrowthInv /\ [Next]_vars => GrowthInv'
  <2>1. ASSUME GrowthInv, UNCHANGED vars PROVE GrowthInv'
    BY <2>1 DEF GrowthInv, AuditInv, Nested, vars
  <2> QED BY <2>1, GrowthStep
<1>2. GrowthInv => ChainOnlyGrows
  <2> SUFFICES ASSUME GrowthInv, NEW k \in DOMAIN frames, frames[k].base # Absent,
                      NEW s \in {st, frames[k].last} \ {Absent}
               PROVE  Extends(ChainOf(s), ChainOf(frames[k].base))
    BY DEF ChainOnlyGrows
  <2>1. k \in 1 .. Len(frames) /\ frames[k].kind # "dispatch"
    BY DEF GrowthInv, AuditInv, SoundFrames, SoundFrame, IsSeq
  <2> QED BY <2>1 DEF GrowthInv, Growing
<1> QED BY <1>1, <1>2, GrowthInit, PTL DEF Spec
-----------------------------------------------------------------------------
(* The history the records tell.                                           *)

\* A record of another kind leaves the history as it is.
LEMMA AppendOther ==
  ASSUME NEW c, NEW d, NEW r, IsSeq(c.records), d.records = Append(c.records, r),
         ~IsStep(r), NEW G
  PROVE  /\ Continues(c, G) => Continues(d, G)
         /\ \A e : EndsIn(c, e, G) => EndsIn(d, e, G)
         /\ NoSteps(c) => NoSteps(d)
         /\ \A k \in 1 .. Len(c.records) : LastStep(c, k) =>
              /\ k \in 1 .. Len(d.records) /\ LastStep(d, k)
              /\ d.records[k] = c.records[k]
<1> DEFINE n == Len(c.records)
<1>1. /\ Len(d.records) = n + 1 /\ d.records[n + 1] = r /\ n \in Nat
      /\ \A k \in 1 .. n : d.records[k] = c.records[k]
  BY AppendSeq
<1>2. \A i \in 1 .. n : i \in 1 .. Len(d.records)
  BY <1>1
<1>3. \A k \in 1 .. Len(d.records) : IsStep(d.records[k]) => k \in 1 .. n
  BY <1>1
<1>4. ASSUME Continues(c, G) PROVE Continues(d, G)
  <2> SUFFICES ASSUME NEW j \in 1 .. Len(d.records), NEW k \in 1 .. Len(d.records),
                      NextStep(d, j, k)
               PROVE  \/ /\ d.records[k].before = d.records[j].before
                         /\ d.records[k].after = d.records[j].after
                      \/ d.records[k].before \in Left(d, j, k - 1, G)
    BY DEF Continues
  <2>1. j \in 1 .. n /\ k \in 1 .. n
    BY <1>3 DEF NextStep
  <2>2. NextStep(c, j, k)
    BY <1>1, <1>2, <2>1 DEF NextStep
  <2>3. Left(d, j, k - 1, G) = Left(c, j, k - 1, G)
    BY <1>1, <2>1 DEF Left
  <2> QED BY <1>1, <1>4, <2>1, <2>2, <2>3 DEF Continues
<1>5. ASSUME NEW e, EndsIn(c, e, G) PROVE EndsIn(d, e, G)
  <2> SUFFICES ASSUME NEW k \in 1 .. Len(d.records), LastStep(d, k)
               PROVE  e \in Left(d, k, Len(d.records), G)
    BY DEF EndsIn
  <2>1. k \in 1 .. n
    BY <1>3 DEF LastStep
  <2>2. LastStep(c, k)
    BY <1>1, <1>2, <2>1 DEF LastStep
  <2>3. e \in Left(c, k, n, G)
    BY <1>5, <2>1, <2>2 DEF EndsIn
  <2>4. \A h : h.at \in k .. n => h.at \in k .. Len(d.records)
    BY <1>1
  <2> QED BY <1>1, <2>1, <2>3, <2>4 DEF Left
<1>6. NoSteps(c) => NoSteps(d)
  BY <1>1, <1>3 DEF NoSteps
<1>7. ASSUME NEW k \in 1 .. n, LastStep(c, k)
      PROVE  k \in 1 .. Len(d.records) /\ LastStep(d, k) /\ d.records[k] = c.records[k]
  BY <1>1, <1>2, <1>3, <1>7 DEF LastStep
<1> QED BY <1>4, <1>5, <1>6, <1>7

\* Record r goes on from the last record of a step in c.
GoesOn(c, r, G) ==
  \A k \in 1 .. Len(c.records) : LastStep(c, k) =>
    \/ r.before = c.records[k].before /\ r.after = c.records[k].after
    \/ r.before \in Left(c, k, Len(c.records), G)

\* Record r is the last one of a step in c.
IsLast(c, r) == \E k \in 1 .. Len(c.records) : LastStep(c, k) /\ c.records[k] = r

\* A record of a step that goes on from the last one is the last one now.
LEMMA AppendStep ==
  ASSUME NEW c, NEW d, NEW r, IsSeq(c.records), d.records = Append(c.records, r),
         IsStep(r), NEW G, Continues(c, G), GoesOn(c, r, G)
  PROVE  Continues(d, G) /\ EndsIn(d, r.after, {}) /\ IsLast(d, r)
<1> DEFINE n == Len(c.records)
<1>1. /\ Len(d.records) = n + 1 /\ d.records[n + 1] = r /\ n \in Nat
      /\ \A k \in 1 .. n : d.records[k] = c.records[k]
  BY AppendSeq
<1>2. \A i \in 1 .. n : i \in 1 .. Len(d.records) /\ i < n + 1
  BY <1>1
<1>3. n + 1 \in 1 .. Len(d.records) /\ LastStep(d, n + 1)
  BY <1>1 DEF LastStep
<1>4. Continues(d, G)
  <2> SUFFICES ASSUME NEW j \in 1 .. Len(d.records), NEW k \in 1 .. Len(d.records),
                      NextStep(d, j, k)
               PROVE  \/ /\ d.records[k].before = d.records[j].before
                         /\ d.records[k].after = d.records[j].after
                      \/ d.records[k].before \in Left(d, j, k - 1, G)
    BY DEF Continues
  <2>1. j \in 1 .. n
    BY <1>1 DEF NextStep
  <2>2. \A m : Left(d, j, m, G) = Left(c, j, m, G)
    BY <1>1, <2>1 DEF Left
  <2>3. CASE k \in 1 .. n
    <3>1. NextStep(c, j, k)
      BY <1>1, <1>2, <2>1, <2>3 DEF NextStep
    <3> QED BY <1>1, <2>1, <2>2, <2>3, <3>1 DEF Continues
  <2>4. CASE k = n + 1
    <3>1. LastStep(c, j)
      BY <1>1, <1>2, <2>1, <2>4 DEF NextStep, LastStep
    <3>2. k - 1 = n
      BY <1>1, <2>4
    <3> QED BY <1>1, <2>1, <2>2, <2>4, <3>1, <3>2 DEF GoesOn
  <2> QED BY <1>1, <2>3, <2>4
<1>5. EndsIn(d, r.after, {})
  <2> SUFFICES ASSUME NEW k \in 1 .. Len(d.records), LastStep(d, k)
               PROVE  r.after \in Left(d, k, Len(d.records), {})
    BY DEF EndsIn
  <2>1. k = n + 1
    BY <1>1, <1>2, <1>3 DEF LastStep
  <2> QED BY <1>1, <2>1 DEF Left
<1> QED BY <1>1, <1>3, <1>4, <1>5 DEF IsLast

\* Without a change by the drain the data is where the last record ends.
LEMMA LeftAlone ==
  ASSUME NEW c, NEW k, NEW n
  PROVE  Left(c, k, n, {}) = {c.records[k].after}
BY DEF Left

LEMMA LeftHere ==
  ASSUME NEW c, NEW k, NEW n, NEW G
  PROVE  c.records[k].after \in Left(c, k, n, G)
BY DEF Left

\* There is one last record of a step at most.
LEMMA OneLast ==
  ASSUME NEW c, IsSeq(c.records),
         NEW j \in 1 .. Len(c.records), NEW k \in 1 .. Len(c.records),
         LastStep(c, j), LastStep(c, k)
  PROVE  j = k
<1>1. ~(j < k) /\ ~(k < j)
  BY DEF LastStep
<1>2. j \in Int /\ k \in Int
  OBVIOUS
<1> QED BY <1>1, <1>2

\* trace_step by the loop tells the change that dispatch noted, once.
LEMMA TraceSettles ==
  ASSUME AbsentIsApart, NEW t, NEW s, SoundState(s, t), NEW m \in BOOLEAN, NEW G,
         Settled(s, m, G) \/ (~m /\ Pending(s, G))
  PROVE  Settled(TraceStep(s, "step"), m, G)
<1>1. IsSeq(ChainOf(s).records)
  BY RecordsAreSeq
<1>2. CASE ~s.auditOn
  <2>1. TraceStep(s, "step") = s
    BY <1>2 DEF TraceStep
  <2>2. CASE ~m /\ Pending(s, G)
    <3>1. Audited(s) /\ Continues(ChainOf(s), G) /\ NoSteps(ChainOf(s))
      BY <1>2, <2>2 DEF Pending, Tells, Audited
    <3>2. EndsIn(ChainOf(s), s.biz, {})
      BY <3>1 DEF NoSteps, EndsIn, LastStep
    <3>3. s.hashes # Absent /\ Recorded(s)
      BY <1>2, <2>2, <3>1 DEF Pending, Audited, Recorded
    <3> QED BY <2>1, <3>1, <3>2, <3>3 DEF Settled
  <2> QED BY <2>1, <2>2
<1>3. CASE s.auditOn
  <2> DEFINE u == TraceStep(s, "step")
             c == ChainOf(s)
             d == ChainOf(u)
             r == [kind |-> "step", tick |-> tick,
                   before |-> IF s.hashes = Absent THEN s.biz ELSE s.hashes.before,
                   after  |-> IF s.hashes = Absent THEN s.biz ELSE s.hashes.after,
                   prev   |-> ChainOf(s).latest]
  <2>1. /\ d.records = Append(c.records, r)
        /\ u.biz = s.biz /\ u.hashes = s.hashes /\ u.auditOn = s.auditOn
    BY <1>3, TraceAppends
  <2>2. /\ r.kind = "step"
        /\ r.before = IF s.hashes = Absent THEN s.biz ELSE s.hashes.before
        /\ r.after = IF s.hashes = Absent THEN s.biz ELSE s.hashes.after
    OBVIOUS
  <2>3. s.biz \in Contents /\ Continues(c, G)
    BY DEF Settled, Pending, Tells, Audited
  <2>4. Audited(u)
    BY <1>3, <2>1, <2>3 DEF Audited
  <2> HIDE DEF r, u
  <2>5. IsSeq(c.records)
    BY <1>1
  <2>6. CASE s.hashes = Absent
    <3>1. IsStep(r) /\ r.before = s.biz /\ r.after = s.biz
      BY <2>2, <2>3, <2>6, AuditConstants DEF IsStep
    <3>2. ~m /\ EndsIn(c, s.biz, {})
      BY <2>6 DEF Settled, Pending
    <3>3. GoesOn(c, r, G)
      BY <3>1, <3>2, LeftAlone, LeftHere DEF EndsIn, GoesOn
    <3>4. Continues(d, G) /\ EndsIn(d, s.biz, {})
      <4> HIDE DEF c, d
      <4>1. Continues(d, G) /\ EndsIn(d, r.after, {})
        BY <2>1, <2>3, <2>5, <3>1, <3>3, AppendStep
      <4> QED BY <3>1, <4>1
    <3> QED BY <2>1, <2>4, <2>6, <3>2, <3>4 DEF Settled, u
  <2>7. CASE s.hashes # Absent /\ s.hashes.before = Blank
    <3>1. ~IsStep(r)
      BY <2>2, <2>7 DEF IsStep
    <3>2. m \/ EndsIn(c, s.biz, {})
      BY <2>7, AuditConstants DEF Settled, Pending
    <3>3. Continues(d, G) /\ (m \/ EndsIn(d, s.biz, {}))
      BY <2>1, <2>3, <2>5, <3>1, <3>2, AppendOther
    <3> QED BY <2>1, <2>4, <2>7, <3>3 DEF Settled, u
  <2>8. CASE /\ s.hashes # Absent
             /\ s.hashes.before \in Contents /\ s.hashes.after \in Contents
             /\ m \/ s.hashes.after = s.biz
             /\ \A k \in 1 .. Len(c.records) : LastStep(c, k) =>
                  \/ /\ s.hashes.before = c.records[k].before
                     /\ s.hashes.after = c.records[k].after
                  \/ s.hashes.before \in Left(c, k, Len(c.records), G)
    <3>1. IsStep(r) /\ r.before = s.hashes.before /\ r.after = s.hashes.after
      BY <2>2, <2>8, AuditConstants DEF IsStep
    <3>2. GoesOn(c, r, G)
      BY <2>8, <3>1 DEF GoesOn
    <3> HIDE DEF c, d
    <3>3. Continues(d, G) /\ EndsIn(d, r.after, {}) /\ IsLast(d, r)
      BY <2>1, <2>3, <2>5, <3>1, <3>2, AppendStep
    <3>4. Recorded(u)
      BY <2>1, <2>8, <3>1, <3>3 DEF Recorded, IsLast, d
    <3>5. m \/ EndsIn(d, s.biz, {})
      BY <2>8, <3>1, <3>3
    <3> QED BY <2>1, <2>4, <2>8, <3>3, <3>4, <3>5 DEF Settled, d, u
  <2>9. CASE s.hashes # Absent /\ Settled(s, m, G) /\ s.hashes.before # Blank
    <3>1. Recorded(s) /\ (m \/ EndsIn(c, s.biz, {}))
      BY <2>9 DEF Settled
    <3>2. PICK k \in 1 .. Len(c.records) :
            /\ LastStep(c, k)
            /\ c.records[k].before = s.hashes.before
            /\ c.records[k].after = s.hashes.after
      BY <1>3, <3>1 DEF Recorded
    <3>3. \A j \in 1 .. Len(c.records) : LastStep(c, j) => j = k
      BY <1>1, <3>2, OneLast
    <3>4. m \/ s.hashes.after = s.biz
      BY <3>1, <3>2, LeftAlone DEF EndsIn
    <3> QED BY <2>8, <2>9, <3>1, <3>2, <3>3, <3>4 DEF Recorded
  <2>10. CASE s.hashes # Absent /\ ~m /\ Pending(s, G)
    <3>1. EndsIn(c, s.hashes.before, G) /\ s.hashes.after = s.biz
      BY <2>10 DEF Pending, Tells
    <3> QED BY <2>3, <2>8, <2>10, <3>1 DEF Pending, EndsIn
  <2> QED BY <2>6, <2>7, <2>9, <2>10
<1> QED BY <1>2, <1>3

\* Records that a rule or the fallback adds tell nothing new.
LEMMA TellsOn ==
  ASSUME NEW t, NEW s, SoundState(s, t), NEW e, NEW G, Tells(s, e, G), NEW u,
         u.biz \in Contents, u.auditOn = s.auditOn,
         \/ ChainOf(u) = ChainOf(s)
         \/ \E r : r.kind # "step" /\ ChainOf(u).records = Append(ChainOf(s).records, r)
  PROVE  Tells(u, e, G)
<1>1. CASE ChainOf(u) = ChainOf(s)
  BY <1>1 DEF Tells, Audited
<1>2. ASSUME NEW r, r.kind # "step", ChainOf(u).records = Append(ChainOf(s).records, r)
      PROVE  Tells(u, e, G)
  <2> DEFINE c == ChainOf(s)
             d == ChainOf(u)
  <2>1. ~IsStep(r) /\ IsSeq(c.records)
    BY <1>2, RecordsAreSeq DEF IsStep
  <2>2. Continues(c, G) /\ EndsIn(c, e, G)
    BY DEF Tells
  <2>3. d.records = Append(c.records, r)
    BY <1>2
  <2> HIDE DEF c, d
  <2>4. Continues(d, G) /\ EndsIn(d, e, G) /\ (NoSteps(c) => NoSteps(d))
    BY <2>1, <2>2, <2>3, AppendOther
  <2> QED BY <2>4 DEF Tells, Audited, c, d
<1> QED BY <1>1, <1>2

\* A dispatch that begins with the data the records end in, or with data the
\* drain has changed, goes on from them.
LEMMA EndsMore ==
  ASSUME NEW c, NEW e, NEW G, EndsIn(c, e, {})
  PROVE  EndsIn(c, e, G)
BY LeftAlone, LeftHere DEF EndsIn

LEMMA GapBridged ==
  ASSUME NEW t, NEW s, SoundState(s, t), NEW e, NEW G, NEW H,
         H = G \cup {[at |-> Len(ChainOf(s).records), data |-> e]},
         Continues(ChainOf(s), G)
  PROVE  Continues(ChainOf(s), H) /\ EndsIn(ChainOf(s), e, H)
<1> DEFINE c == ChainOf(s)
           g == [at |-> Len(c.records), data |-> e]
<1>1. Len(c.records) \in Nat
  BY RecordsAreSeq
<1>2. g \in H /\ g.at = Len(c.records) /\ g.data = e
  OBVIOUS
<1> HIDE DEF c, g
<1>3. ASSUME NEW k \in 1 .. Len(c.records)
      PROVE  e \in Left(c, k, Len(c.records), H)
  <2>1. g.at \in k .. Len(c.records)
    BY <1>1, <1>2
  <2> QED BY <1>2, <2>1 DEF Left
<1>4. \A k, n : Left(c, k, n, G) \subseteq Left(c, k, n, H)
  BY DEF Left
<1>5. Continues(c, H)
  BY <1>4 DEF Continues, c
<1>6. EndsIn(c, e, H)
  BY <1>3 DEF EndsIn
<1> QED BY <1>5, <1>6 DEF c

\* A frame more, or those below frame k.
LEMMA PushTells ==
  ASSUME NEW fs, IsSeq(fs), NEW e, NEW G, TellsFrames(fs, e, G), NEW f, TellsFrame(f, e, G)
  PROVE  TellsFrames(Append(fs, f), e, G)
<1>1. /\ Len(Append(fs, f)) = Len(fs) + 1 /\ Append(fs, f)[Len(fs) + 1] = f
      /\ \A k \in 1 .. Len(fs) : Append(fs, f)[k] = fs[k]
      /\ Len(fs) \in Nat
  BY AppendSeq
<1>2. ASSUME NEW k \in 1 .. Len(fs) + 1
      PROVE  TellsFrame(Append(fs, f)[k], e, G)
  <2>1. CASE k \in 1 .. Len(fs)
    BY <1>1, <2>1 DEF TellsFrames
  <2>2. CASE k = Len(fs) + 1
    BY <1>1, <2>2
  <2> QED BY <2>1, <2>2, <1>1
<1> QED BY <1>1, <1>2 DEF TellsFrames

LEMMA DropTells ==
  ASSUME IsSeq(frames), NEW e, NEW G, TellsFrames(frames, e, G), NEW k \in 1 .. Len(frames)
  PROVE  TellsFrames(Below(k), e, G)
<1>1. /\ Len(Below(k)) = k - 1 /\ Len(frames) \in Nat
      /\ \A j \in 1 .. (k - 1) : Below(k)[j] = frames[j]
  BY BelowSeq DEF IsSeq, Below
<1>2. \A j \in 1 .. (k - 1) : j \in 1 .. Len(frames)
  BY <1>1
<1> QED BY <1>1, <1>2 DEF TellsFrames

\* The dispatch of the loop stays at the bottom.
LEMMA SameBottom ==
  ASSUME IsSeq(frames), NEW k \in 1 .. Len(frames), NEW f
  PROVE  /\ k > 1 => Below(k)[1] = frames[1] /\ Append(Below(k), f)[1] = frames[1]
         /\ Append(frames, f)[1] = frames[1]
<1>1. /\ IsSeq(Below(k)) /\ Len(Below(k)) = k - 1 /\ Len(frames) \in Nat
      /\ \A j \in 1 .. (k - 1) : Below(k)[j] = frames[j]
  BY BelowSeq DEF IsSeq, Below
<1>2. \A j \in 1 .. Len(Below(k)) : Append(Below(k), f)[j] = Below(k)[j]
  BY <1>1, AppendSeq
<1>3. \A j \in 1 .. Len(frames) : Append(frames, f)[j] = frames[j]
  BY AppendSeq
<1>4. 1 \in 1 .. Len(frames) /\ (k > 1 => 1 \in 1 .. (k - 1))
  BY <1>1
<1> QED BY <1>1, <1>2, <1>3, <1>4

\* The case body goes on.
LEMMA BodyGoesOn ==
  ASSUME StoryInv, phase = "run", AuditInv', phase' = "run", frames'[1] = frames[1],
         UNCHANGED history,
         Tells(st', frames[1].before, gaps), TellsFrames(frames', frames[1].before, gaps)
  PROVE  StoryInv'
BY DEF StoryInv, Phases, history

LEMMA StoryResume ==
  ASSUME StoryInv, AuditInv', phase = "run", phase' = "run", UNCHANGED history,
         NEW k \in 1 .. Len(frames), frames[k].kind = "parallel",
         NEW last, last # Absent => Tells(last, frames[1].before, gaps),
         NextBranch(k, last)
  PROVE  StoryInv'
<1> DEFINE e == frames[1].before
           base == frames[k].base
           f == [frames[k] EXCEPT !.last = last]
<1>1. /\ IsSeq(frames) /\ k > 1 /\ SoundState(base, tick) /\ IsSeq(Below(k))
      /\ frames[k] = [kind |-> frames[k].kind, before |-> frames[k].before,
                      base |-> frames[k].base, last |-> frames[k].last]
  <2>1. IsSeq(frames) /\ SoundFrame(frames[k], tick) /\ Nested
    BY DEF StoryInv, AuditInv, SoundFrames
  <2>2. k > 1
    BY <2>1, Bottom DEF IsSeq
  <2>3. IsSeq(Below(k))
    BY <2>1, BelowSeq DEF Below
  <2> QED BY <2>1, <2>2, <2>3 DEF SoundFrame
<1>2. Tells(base, e, gaps) /\ TellsFrames(Below(k), e, gaps)
  <2>1. TellsFrames(frames, e, gaps) /\ e \in Contents
    BY DEF StoryInv
  <2> HIDE DEF e
  <2>2. TellsFrame(frames[k], e, gaps)
    BY <2>1 DEF TellsFrames
  <2> QED BY <1>1, <2>1, <2>2, DropTells DEF TellsFrame
<1>3. f.kind = "parallel" /\ f.base = base /\ f.last = last
  BY <1>1
<1>4. NextBranch(k, last) <=>
        \/ frames' = Append(Below(k), f) /\ st' = base
        \/ /\ last # Absent
           /\ frames' = Below(k)
           /\ \/ st' = last
              \/ \E b \in Contents : st' = [base EXCEPT !.biz = b]
  BY DEF NextBranch
<1>5. /\ Below(k)[1] = frames[1] /\ Append(Below(k), f)[1] = frames[1]
  BY <1>1, SameBottom
<1> HIDE DEF base, f
<1>6. CASE frames' = Append(Below(k), f) /\ st' = base
  <2>1. TellsFrame(f, e, gaps)
    BY <1>2, <1>3 DEF TellsFrame
  <2>2. TellsFrames(frames', e, gaps)
    BY <1>1, <1>2, <1>6, <2>1, PushTells
  <2> QED BY <1>2, <1>5, <1>6, <2>2, BodyGoesOn
<1>7. CASE last # Absent /\ frames' = Below(k) /\ st' = last
  BY <1>2, <1>5, <1>7, BodyGoesOn
<1>8. ASSUME frames' = Below(k), NEW b \in Contents, st' = [base EXCEPT !.biz = b]
      PROVE  StoryInv'
  <2>1. /\ ChainOf(st') = ChainOf(base) /\ st'.biz \in Contents
        /\ st'.auditOn = base.auditOn
    BY <1>1, <1>8, SetData
  <2>2. Tells(st', e, gaps)
    BY <1>1, <1>2, <2>1, TellsOn
  <2> QED BY <1>2, <1>5, <1>8, <2>2, BodyGoesOn
<1> QED BY <1>4, <1>6, <1>7, <1>8

LEMMA StoryStep ==
  ASSUME AbsentIsApart, StoryInv, Next
  PROVE  StoryInv'
<1> DEFINE e == frames[1].before
<1>1. /\ AuditInv /\ AuditInv' /\ SoundState(st, tick) /\ IsSeq(frames) /\ Nested
      /\ phase \in Phases
  BY AuditStep DEF StoryInv, AuditInv, SoundFrames
<1>2. /\ drifted \in BOOLEAN
      /\ phase = "run" => /\ e \in Contents /\ ~drifted
                          /\ Tells(st, e, gaps) /\ TellsFrames(frames, e, gaps)
  BY DEF StoryInv
<1>3. phase = "run" => Len(frames) \in 1 .. Len(frames) /\ 1 \in 1 .. Len(frames)
  BY <1>1 DEF Nested, IsSeq
<1>4. CASE BeginDispatch
  <2> DEFINE f == DispatchFrame(st)
  <2>1. f.kind = "dispatch" /\ f.last = Absent /\ f.before = st.biz
    BY DEF DispatchFrame
  <2> HIDE DEF f
  <2>2. /\ Audited(st) /\ Continues(ChainOf(st), gaps) /\ st.biz \in Contents
        /\ drifted \/ EndsIn(ChainOf(st), st.biz, {})
    BY <1>4 DEF BeginDispatch, StoryInv, Settled, Audited
  <2>3. /\ frames' = <<f>> /\ st' = st /\ phase' = "run" /\ drifted' = FALSE
        /\ gaps' = IF drifted
                     THEN gaps \cup {[at |-> Len(ChainOf(st).records), data |-> st.biz]}
                     ELSE gaps
    BY <1>4 DEF BeginDispatch, f
  <2>4. Tells(st, st.biz, gaps')
    <3>1. CASE ~drifted
      BY <2>2, <2>3, <3>1, EndsMore DEF Tells
    <3>2. CASE drifted
      BY <1>1, <2>2, <2>3, <3>2, GapBridged DEF Tells
    <3> QED BY <3>1, <3>2
  <2>5. TellsFrames(<<f>>, st.biz, gaps') /\ <<f>>[1] = f
    BY <2>1 DEF TellsFrames, TellsFrame
  <2> QED BY <1>1, <2>1, <2>2, <2>3, <2>4, <2>5 DEF StoryInv, Phases
<1>5. CASE MissDispatch
  BY <1>1, <1>5 DEF MissDispatch, StoryInv, Phases, history
<1>6. CASE CaseStep
  <2>1. phase = "run" /\ phase' = "run" /\ frames' = frames /\ UNCHANGED history
    BY <1>6 DEF CaseStep, ChangeData, TouchExec, Expand, RuleTrace, Running
  <2>2. Tells(st, e, gaps) /\ st.biz \in Contents
    BY <1>2, <2>1 DEF Tells, Audited
  <2>3. Tells(st', e, gaps)
    <3>1. CASE ChangeData
      <4>1. PICK b \in Contents : st' = [st EXCEPT !.biz = b]
        BY <3>1 DEF ChangeData
      <4>2. /\ ChainOf(st') = ChainOf(st) /\ st'.biz \in Contents
            /\ st'.auditOn = st.auditOn
        BY <1>1, <4>1, SetData
      <4> QED BY <1>1, <2>2, <4>2, TellsOn
    <3>2. CASE TouchExec
      <4>1. st' = Touch(st)
        BY <3>2 DEF TouchExec
      <4>2. ChainOf(Touch(st)) = ChainOf(st) /\ Touch(st).biz = st.biz
        BY <1>1, WritesKeepChain
      <4>3. Touch(st).auditOn = st.auditOn
        BY <1>1, WritesKeepSound
      <4> QED BY <1>1, <2>2, <4>1, <4>2, <4>3, TellsOn
    <3>3. CASE Expand
      <4>1. PICK s \in {st, Touch(st)} : st' = RecordExpand(s)
        BY <3>3 DEF Expand
      <4>2. ChainOf(Touch(st)) = ChainOf(st) /\ Touch(st).biz = st.biz
        BY <1>1, WritesKeepChain
      <4>3. Touch(st).auditOn = st.auditOn /\ SoundState(Touch(st), tick)
        BY <1>1, WritesKeepSound
      <4>4. SoundState(s, tick) /\ Tells(s, e, gaps) /\ s.biz \in Contents
        BY <1>1, <2>2, <4>2, <4>3, TellsOn
      <4>5. /\ \/ st' = s
               \/ \E r : /\ r.kind = "expand"
                         /\ ChainOf(st').records = Append(ChainOf(s).records, r)
            /\ st'.biz = s.biz /\ st'.auditOn = s.auditOn
        BY <4>1, <4>4, ExpandAppends
      <4> QED BY <4>4, <4>5, TellsOn
    <3>4. CASE RuleTrace
      <4>1. st' = TraceStep(st, "rule")
        BY <3>4 DEF RuleTrace
      <4>2. CASE ~st.auditOn
        BY <2>2, <4>1, <4>2 DEF TraceStep
      <4>3. CASE st.auditOn
        <5>1. /\ \E r : /\ r.kind = "rule"
                        /\ ChainOf(st').records = Append(ChainOf(st).records, r)
              /\ st'.biz = st.biz /\ st'.auditOn = st.auditOn
          BY <1>1, <4>1, <4>3, TraceAppends
        <5> QED BY <1>1, <2>2, <5>1, TellsOn
      <4> QED BY <4>2, <4>3
    <3> QED BY <1>6, <3>1, <3>2, <3>3, <3>4 DEF CaseStep
  <2> QED BY <1>1, <1>2, <2>1, <2>3, BodyGoesOn
<1>7. CASE Scope
  <2> DEFINE n == Len(frames)
  <2>1. /\ phase = "run" /\ n \in 1 .. Len(frames) /\ e \in Contents
        /\ Tells(st, e, gaps) /\ TellsFrames(frames, e, gaps) /\ UNCHANGED history
    BY <1>2, <1>3, <1>7 DEF Scope, BeginInnerDispatch, EndDispatch, BeginScope,
                           EndTry, EndBranch, Fail, FailOut, MayNest, Running
  <2>2. ASSUME NEW f, frames' = Append(frames, f), st' = st, phase' = phase,
               TellsFrame(f, e, gaps)
        PROVE  StoryInv'
    <3>1. frames'[1] = frames[1]
      BY <1>1, <2>1, <2>2, SameBottom
    <3>2. TellsFrames(frames', e, gaps)
      BY <1>1, <2>1, <2>2, PushTells
    <3> QED BY <1>1, <2>1, <2>2, <3>1, <3>2, BodyGoesOn
  <2>3. ASSUME NEW k \in 1 .. Len(frames), k > 1, frames' = Below(k), phase' = phase,
               Tells(st', e, gaps)
        PROVE  StoryInv'
    <3>1. frames'[1] = frames[1]
      BY <1>1, <2>3, SameBottom
    <3>2. TellsFrames(frames', e, gaps)
      BY <1>1, <2>1, <2>3, DropTells
    <3> QED BY <1>1, <2>1, <2>3, <3>1, <3>2, BodyGoesOn
  <2>4. \A k \in 1 .. Len(frames) : frames[k].kind # "dispatch" =>
          k > 1 /\ SoundState(frames[k].base, tick) /\ Tells(frames[k].base, e, gaps)
    <3> SUFFICES ASSUME NEW k \in 1 .. Len(frames), frames[k].kind # "dispatch"
                 PROVE  /\ k > 1 /\ SoundState(frames[k].base, tick)
                        /\ Tells(frames[k].base, e, gaps)
      OBVIOUS
    <3>1. k > 1
      BY <1>1, Bottom DEF IsSeq
    <3>2. SoundState(frames[k].base, tick)
      BY <1>1 DEF AuditInv, SoundFrames, SoundFrame
    <3>3. TellsFrame(frames[k], e, gaps)
      BY <2>1 DEF TellsFrames
    <3> QED BY <3>1, <3>2, <3>3 DEF TellsFrame
  <2>5. CASE BeginInnerDispatch
    <3> DEFINE f == DispatchFrame(st)
    <3>1. f.kind = "dispatch" /\ f.last = Absent
      BY DEF DispatchFrame
    <3>2. TellsFrame(f, e, gaps)
      BY <3>1 DEF TellsFrame
    <3> HIDE DEF f
    <3>3. frames' = Append(frames, f) /\ st' = st /\ phase' = phase
      BY <2>5 DEF BeginInnerDispatch, f
    <3> QED BY <2>2, <3>2, <3>3
  <2>6. CASE EndDispatch
    <3> DEFINE h == [before |-> Top.before, after |-> st.biz]
    <3>1. /\ ChainOf(st') = ChainOf(st) /\ st'.biz = st.biz
          /\ st'.auditOn = st.auditOn /\ st'.hashes = h
      BY <1>1, <2>6, WritesKeepChain DEF EndDispatch
    <3>2. Tells(st', e, gaps)
      BY <1>1, <2>1, <3>1, TellsOn DEF Tells, Audited
    <3>3. CASE n = 1
      <4>1. st'.hashes.before = e /\ st'.hashes.after = st'.biz /\ st'.hashes # Absent
        BY <3>1, <3>3 DEF AbsentIsApart, Top
      <4>2. Pending(st', gaps)
        BY <2>1, <3>2, <4>1 DEF Pending
      <4>3. phase' = "trace" /\ ~drifted
        BY <1>2, <2>1, <2>6, <3>3 DEF EndDispatch
      <4> QED BY <1>1, <2>1, <4>2, <4>3 DEF StoryInv, Phases, history
    <3>4. CASE n # 1
      <4>1. n > 1
        BY <1>1, <2>1, <3>4 DEF IsSeq
      <4>2. phase' = phase /\ frames' = Below(n)
        BY <2>1, <2>6, <3>4 DEF EndDispatch
      <4> QED BY <2>1, <2>3, <3>2, <4>1, <4>2
    <3> QED BY <3>3, <3>4
  <2>7. CASE BeginScope
    <3>1. PICK kind \in {"try", "parallel"} : frames' = Append(frames, ScopeFrame(kind, st))
      BY <2>7 DEF BeginScope
    <3> DEFINE f == ScopeFrame(kind, st)
    <3>2. f.last = Absent /\ f.base = st
      BY DEF ScopeFrame
    <3>3. TellsFrame(f, e, gaps)
      BY <2>1, <3>2 DEF TellsFrame
    <3>4. st' = st /\ phase' = phase
      BY <2>7 DEF BeginScope
    <3> HIDE DEF f
    <3>5. frames' = Append(frames, f)
      BY <3>1 DEF f
    <3> QED BY <2>2, <3>3, <3>4, <3>5
  <2>8. CASE EndTry
    <3>1. /\ frames[n].kind # "dispatch" /\ frames' = Below(n) /\ st' = st
          /\ phase' = phase
      BY <2>8 DEF EndTry, Top
    <3> QED BY <2>1, <2>3, <2>4, <3>1
  <2>9. CASE EndBranch
    <3>1. frames[n].kind = "parallel" /\ NextBranch(n, st) /\ phase' = "run"
      BY <2>9 DEF EndBranch, Top, Running
    <3> QED BY <1>1, <2>1, <3>1, StoryResume
  <2>10. CASE Fail
    <3>1. PICK k \in DOMAIN frames :
            \/ /\ frames[k].kind = "try"
               /\ \E b \in Contents :
                    LET caught == [frames[k].base EXCEPT !.biz = b]
                    IN  /\ st' = caught
                        /\ \/ frames' = Below(k)
                           \/ frames' = Append(Below(k), ScopeFrame("catch", caught))
            \/ /\ frames[k].kind = "catch"
               /\ st' = frames[k].base
               /\ frames' = Below(k)
            \/ /\ frames[k].kind = "parallel"
               /\ NextBranch(k, frames[k].last)
      BY <2>10 DEF Fail
    <3>2. k \in 1 .. Len(frames) /\ phase' = phase
      BY <1>1, <2>10 DEF IsSeq, Fail
    <3>3. ASSUME frames[k].kind = "try", NEW b \in Contents, NEW caught,
                 caught = [frames[k].base EXCEPT !.biz = b], st' = caught,
                 \/ frames' = Below(k)
                 \/ frames' = Append(Below(k), ScopeFrame("catch", caught))
          PROVE  StoryInv'
      <4>1. k > 1 /\ SoundState(frames[k].base, tick) /\ Tells(frames[k].base, e, gaps)
        BY <2>4, <3>2, <3>3
      <4>2. /\ ChainOf(caught) = ChainOf(frames[k].base) /\ caught.biz \in Contents
            /\ caught.auditOn = frames[k].base.auditOn
        <5>1. caught = [frames[k].base EXCEPT !.biz = b] /\ b \in Contents
          BY <3>3
        <5>2. SoundState(frames[k].base, tick)
          BY <4>1
        <5> QED BY <5>1, <5>2, SetData
      <4>3. Tells(caught, e, gaps)
        BY <4>1, <4>2, TellsOn
      <4>4. CASE frames' = Below(k)
        BY <2>3, <3>2, <3>3, <4>1, <4>3, <4>4
      <4>5. CASE frames' = Append(Below(k), ScopeFrame("catch", caught))
        <5> DEFINE f == ScopeFrame("catch", caught)
        <5>1. f.last = Absent /\ f.base = caught
          BY DEF ScopeFrame
        <5>2. TellsFrame(f, e, gaps)
          BY <4>3, <5>1 DEF TellsFrame
        <5> HIDE DEF f
        <5>3. IsSeq(Below(k)) /\ TellsFrames(Below(k), e, gaps)
          BY <1>1, <2>1, <3>2, DropTells, BelowSeq DEF Below
        <5>4. TellsFrames(frames', e, gaps)
          BY <4>5, <5>2, <5>3, PushTells DEF f
        <5>5. frames'[1] = frames[1]
          BY <1>1, <3>2, <4>1, <4>5, SameBottom
        <5> QED BY <1>1, <2>1, <3>2, <3>3, <4>3, <5>4, <5>5, BodyGoesOn
      <4> QED BY <3>3, <4>4, <4>5
    <3>4. CASE frames[k].kind = "catch" /\ st' = frames[k].base /\ frames' = Below(k)
      BY <2>3, <2>4, <3>2, <3>4
    <3>5. CASE frames[k].kind = "parallel" /\ NextBranch(k, frames[k].last)
      <4>1. TellsFrame(frames[k], e, gaps)
        BY <2>1, <3>2 DEF TellsFrames
      <4> QED BY <1>1, <2>1, <3>2, <3>5, <4>1, StoryResume DEF TellsFrame
    <3> QED BY <3>1, <3>3, <3>4, <3>5
  <2>11. CASE FailOut
    BY <1>1, <1>2, <2>1, <2>11 DEF FailOut, StoryInv, Phases, Tells, history
  <2> QED BY <1>7, <2>5, <2>6, <2>7, <2>8, <2>9, <2>10, <2>11 DEF Scope
<1>8. CASE BodyTrace
  <2>1. Settled(st, drifted, gaps) \/ (~drifted /\ Pending(st, gaps))
    BY <1>8 DEF BodyTrace, StoryInv
  <2>2. Settled(TraceStep(st, "step"), drifted, gaps)
    BY <1>1, <1>2, <2>1, TraceSettles
  <2> QED BY <1>1, <1>2, <1>8, <2>2 DEF BodyTrace, StoryInv, Phases, history
<1>9. CASE Drain
  <2>1. Settled(st, drifted, gaps) /\ phase' \in {"dispatch", "drain", "done"}
    BY <1>9 DEF Drain, DrainMeta, DrainSets, DrainIdle, DrainStopped, AfterDrain, StoryInv
  <2> DEFINE q == Touch(st)
  <2>2. /\ SoundState(q, tick)
        /\ ChainOf(q) = ChainOf(st) /\ q.biz = st.biz /\ q.auditOn = st.auditOn
        /\ q.hashes = IF st.hashes = Absent THEN NullHashes ELSE st.hashes
    BY <1>1, WritesKeepSound, WritesKeepChain
  <2>3. Settled(q, drifted, gaps) /\ q.hashes # Absent
    BY <2>1, <2>2 DEF Settled, Audited, Recorded, NullHashes, AbsentIsApart
  <2>4. Settled(TraceStep(q, "step"), drifted, gaps)
    BY <1>2, <2>2, <2>3, TraceSettles
  <2>5. CASE DrainMeta
    <3>1. PICK b \in Contents :
            /\ st' = IF DrainMetaTrace THEN TraceStep([q EXCEPT !.biz = b], "step")
                                       ELSE [q EXCEPT !.biz = b]
            /\ drifted' = (drifted \/ b # st.biz)
      BY <2>5 DEF DrainMeta
    <3> HIDE DEF q
    <3> DEFINE z == [q EXCEPT !.biz = b]
               m == drifted \/ b # st.biz
    <3>2. /\ SoundState(z, tick)
          /\ ChainOf(z) = ChainOf(q) /\ z.biz = b /\ z.auditOn = q.auditOn
          /\ z.hashes = q.hashes
      BY <2>2, SetData DEF SoundState
    <3>3. Settled(z, m, gaps)
      <4> HIDE DEF z
      <4>1. m \/ EndsIn(ChainOf(z), b, {})
        BY <2>2, <2>3, <3>2 DEF Settled
      <4>2. Recorded(q) => Recorded(z)
        BY <3>2 DEF Recorded
      <4> QED BY <2>3, <3>2, <4>1, <4>2 DEF Settled, Audited
    <3>4. m \in BOOLEAN
      BY <1>2
    <3> HIDE DEF z, m
    <3>5. Settled(TraceStep(z, "step"), m, gaps)
      BY <3>2, <3>3, <3>4, TraceSettles
    <3>6. Settled(st', m, gaps)
      BY <3>1, <3>3, <3>5 DEF z
    <3>7. drifted' = m /\ gaps' = gaps
      BY <2>5, <3>1 DEF DrainMeta, m
    <3> QED BY <1>1, <2>1, <3>4, <3>6, <3>7 DEF StoryInv, Phases
  <2>6. CASE DrainSets
    <3>1. st' = TraceStep(q, "step") /\ UNCHANGED history
      BY <2>6 DEF DrainSets, AfterDrain
    <3> QED BY <1>1, <1>2, <2>1, <2>4, <2>6, <3>1
            DEF DrainSets, AfterDrain, StoryInv, Phases, history
  <2>7. CASE DrainIdle
    <3>1. Settled(TraceStep(st, "step"), drifted, gaps)
      BY <1>1, <1>2, <2>1, TraceSettles
    <3> QED BY <1>1, <1>2, <2>1, <2>7, <3>1
            DEF DrainIdle, AfterDrain, StoryInv, Phases, history
  <2>8. CASE DrainStopped
    BY <1>1, <1>2, <2>1, <2>8 DEF DrainStopped, AfterDrain, StoryInv, Phases, history
  <2> QED BY <1>9, <2>5, <2>6, <2>7, <2>8 DEF Drain
<1>10. CASE Ended
  BY <1>1, <1>2, <1>10 DEF Ended, vars, history, StoryInv
<1> QED BY <1>4, <1>5, <1>6, <1>7, <1>8, <1>9, <1>10 DEF Next

LEMMA StoryInit ==
  Init => StoryInv
<1> SUFFICES ASSUME Init PROVE StoryInv
  OBVIOUS
<1>1. AuditInv
  BY AuditInit
<1>2. PICK b \in Contents, on \in BOOLEAN, c \in {Absent, EmptyChain} :
        st = [biz |-> b, chain |-> c, hashes |-> Absent, auditOn |-> on]
  BY DEF Init
<1>3. ChainOf(st) = EmptyChain /\ st.biz \in Contents /\ st.hashes = Absent
  BY <1>2 DEF ChainOf
<1>4. 1 .. Len(EmptyChain.records) = {}
  BY DEF EmptyChain
<1>5. drifted = FALSE /\ Settled(st, drifted, gaps)
  BY <1>3, <1>4 DEF Init, Settled, Audited, NoSteps, Continues, EndsIn
<1>6. phase = "dispatch"
  BY DEF Init
<1> QED BY <1>1, <1>5, <1>6 DEF StoryInv, Phases

(* The records of the loop tell the history of the business data: each    *)
(* begins where the last one ended or repeats it, whatever a case body     *)
(* tried, rolled back or merged, and a dispatch begins with the data the   *)
(* last record ends in; where a meta instruction of the drain has changed  *)
(* the data in between, the next record begins with the data so changed.   *)
THEOREM AuditTellsHistory ==
  ASSUME AbsentIsApart
  PROVE  Spec => []AuditComplete
<1>1. StoryInv /\ [Next]_vars => StoryInv'
  <2>1. ASSUME StoryInv, UNCHANGED vars PROVE StoryInv'
    BY <2>1 DEF StoryInv, AuditInv, Nested, vars, history
  <2> QED BY <2>1, StoryStep
<1>2. StoryInv => AuditComplete
  <2> SUFFICES ASSUME StoryInv PROVE AuditComplete
    OBVIOUS
  <2>1. Continues(ChainOf(st), gaps)
    BY DEF StoryInv, Phases, Settled, Pending, Tells
  <2>2. phase = "dispatch" /\ ~drifted => EndsIn(ChainOf(st), st.biz, {})
    BY DEF StoryInv, Settled
  <2> QED BY <2>1, <2>2 DEF AuditComplete
<1> QED BY <1>1, <1>2, StoryInit, PTL DEF Spec
=============================================================================
