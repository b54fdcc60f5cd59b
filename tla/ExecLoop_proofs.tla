--------------------------- MODULE ExecLoop_proofs ---------------------------
(***************************************************************************)
(* Proofs about ExecLoop for every value of its constants.  LossInv is     *)
(* inductive and gives type correctness and the queue discipline           *)
(* NoSafeLoss; LoopInv adds what the order of an instruction's stations    *)
(* needs, and gives that nothing runs twice, that dispatch sees business   *)
(* instructions, that a loop which ends by itself is done, and that a stop *)
(* is final; CountInv counts the rounds, for the truncation flag.  The     *)
(* last part proves that ExecLoop implements InstructionStream.            *)
(***************************************************************************)
EXTENDS ExecLoopStream, SequenceTheorems, FiniteSetTheorems, WellFoundedInduction, TLAPS

-----------------------------------------------------------------------------
(* Queues: how Ids, Sorted and AllNumbered behave under \o, Head and Tail. *)

\* The numbers of a concatenation are those of its parts.
LEMMA ConcatIds ==
  ASSUME NEW p \in Seq(Instruction), NEW q \in Seq(Instruction)
  PROVE  /\ p \o q \in Seq(Instruction)
         /\ Ids(p \o q) = Ids(p) \cup Ids(q)
<1>1. /\ p \o q \in Seq(Instruction)
      /\ Len(p \o q) = Len(p) + Len(q)
      /\ \A k \in 1 .. Len(p) + Len(q) :
           (p \o q)[k] = IF k <= Len(p) THEN p[k] ELSE q[k - Len(p)]
  BY ConcatProperties
<1>2. Ids(p \o q) \subseteq Ids(p) \cup Ids(q)
  BY <1>1 DEF Ids
<1>3. Ids(p) \subseteq Ids(p \o q)
  BY <1>1 DEF Ids
<1>4. ASSUME NEW k \in DOMAIN q PROVE q[k].id \in Ids(p \o q)
  <2>1. Len(p) + k \in DOMAIN (p \o q) /\ (p \o q)[Len(p) + k] = q[k]
    BY <1>1
  <2> QED BY <2>1 DEF Ids
<1> QED BY <1>1, <1>2, <1>3, <1>4 DEF Ids

\* Concatenation keeps Sorted if nothing new stands behind an advance.
LEMMA ConcatSorted ==
  ASSUME NEW p \in Seq(Instruction), NEW q \in Seq(Instruction), NEW b,
         Sorted(p, b), Sorted(q, b), HasAdvance(p) => AllBehind(q, b)
  PROVE  Sorted(p \o q, b)
<1>1. /\ Len(p \o q) = Len(p) + Len(q)
      /\ \A k \in 1 .. Len(p) + Len(q) :
           (p \o q)[k] = IF k <= Len(p) THEN p[k] ELSE q[k - Len(p)]
      /\ p \o q \in Seq(Instruction)
  BY ConcatProperties
<1> SUFFICES ASSUME NEW j \in DOMAIN (p \o q), NEW k \in DOMAIN (p \o q),
                    j < k, (p \o q)[j].type = "adv"
             PROVE  (p \o q)[k].id \in b \cup {0}
  BY DEF Sorted
<1>2. CASE k <= Len(p)
  <2>1. j \in DOMAIN p /\ k \in DOMAIN p /\ (p \o q)[j] = p[j] /\ (p \o q)[k] = p[k]
    BY <1>1, <1>2
  <2> QED BY <2>1 DEF Sorted
<1>3. CASE j <= Len(p) /\ ~(k <= Len(p))
  <2>1. j \in DOMAIN p /\ (p \o q)[j] = p[j]
    BY <1>1, <1>3
  <2>2. k - Len(p) \in DOMAIN q /\ (p \o q)[k] = q[k - Len(p)]
    BY <1>1, <1>3
  <2>3. AllBehind(q, b)
    BY <2>1 DEF HasAdvance
  <2> QED BY <2>2, <2>3 DEF AllBehind, Ids
<1>4. CASE ~(j <= Len(p))
  <2>1. /\ j - Len(p) \in DOMAIN q /\ (p \o q)[j] = q[j - Len(p)]
        /\ k - Len(p) \in DOMAIN q /\ (p \o q)[k] = q[k - Len(p)]
        /\ j - Len(p) < k - Len(p)
    BY <1>1, <1>4
  <2> QED BY <2>1 DEF Sorted
<1> QED BY <1>1, <1>2, <1>3, <1>4

LEMMA ConcatNumbered ==
  ASSUME NEW p \in Seq(Instruction), NEW q \in Seq(Instruction), NEW n,
         AllNumbered(p, n), AllNumbered(q, n)
  PROVE  AllNumbered(p \o q, n)
<1>1. /\ Len(p \o q) = Len(p) + Len(q)
      /\ \A k \in 1 .. Len(p) + Len(q) :
           (p \o q)[k] = IF k <= Len(p) THEN p[k] ELSE q[k - Len(p)]
      /\ p \o q \in Seq(Instruction)
  BY ConcatProperties
<1> SUFFICES ASSUME NEW k \in DOMAIN (p \o q) PROVE (p \o q)[k].type # "noop" /\ NumberedUpTo((p \o q)[k], n)
  BY DEF AllNumbered
<1>2. CASE k <= Len(p)
  BY <1>1, <1>2 DEF AllNumbered
<1>3. CASE ~(k <= Len(p))
  <2>1. k - Len(p) \in DOMAIN q /\ (p \o q)[k] = q[k - Len(p)]
    BY <1>1, <1>3
  <2> QED BY <2>1 DEF AllNumbered
<1> QED BY <1>2, <1>3

\* Popping the front: what is left, and what the front was.
LEMMA Popped ==
  ASSUME NEW q \in Seq(Instruction), q # <<>>, NEW b, NEW n,
         Sorted(q, b), AllNumbered(q, n)
  PROVE  /\ Head(q) \in Instruction /\ NumberedUpTo(Head(q), n)
         /\ Head(q).type # "noop"
         /\ Tail(q) \in Seq(Instruction)
         /\ Ids(q) = {Head(q).id} \cup Ids(Tail(q))
         /\ Sorted(Tail(q), b) /\ AllNumbered(Tail(q), n)
         /\ Head(q).type = "adv" => AllBehind(Tail(q), b)
<1>1. /\ Head(q) \in Instruction /\ Head(q) = q[1]
      /\ Tail(q) \in Seq(Instruction)
      /\ Len(q) \in Nat \ {0}
      /\ Len(Tail(q)) = Len(q) - 1
      /\ \A k \in 1 .. Len(Tail(q)) : Tail(q)[k] = q[k + 1]
  BY HeadTailProperties, EmptySeq
<1>2. \A k \in DOMAIN Tail(q) : k + 1 \in DOMAIN q /\ Tail(q)[k] = q[k + 1]
  BY <1>1
<1>3. 1 \in DOMAIN q
  BY <1>1
<1>4. \A k \in DOMAIN q : k = 1 \/ (k - 1 \in DOMAIN Tail(q) /\ q[k] = Tail(q)[k - 1])
  BY <1>1
<1>5. Ids(q) = {Head(q).id} \cup Ids(Tail(q))
  <2>1. Ids(q) \subseteq {Head(q).id} \cup Ids(Tail(q))
    BY <1>1, <1>4 DEF Ids
  <2>2. Ids(Tail(q)) \subseteq Ids(q)
    BY <1>2 DEF Ids
  <2>3. Head(q).id \in Ids(q)
    BY <1>1, <1>3 DEF Ids
  <2> QED BY <2>1, <2>2, <2>3
<1>6. Sorted(Tail(q), b)
  <2> SUFFICES ASSUME NEW j \in DOMAIN Tail(q), NEW k \in DOMAIN Tail(q),
                      j < k, Tail(q)[j].type = "adv"
               PROVE  Tail(q)[k].id \in b \cup {0}
    BY DEF Sorted
  <2>1. j + 1 \in DOMAIN q /\ k + 1 \in DOMAIN q /\ j + 1 < k + 1
    BY <1>1, <1>2
  <2> QED BY <1>2, <2>1 DEF Sorted
<1>7. AllNumbered(Tail(q), n) /\ NumberedUpTo(Head(q), n) /\ Head(q).type # "noop"
  BY <1>1, <1>2, <1>3 DEF AllNumbered
<1>8. ASSUME Head(q).type = "adv" PROVE AllBehind(Tail(q), b)
  <2> SUFFICES ASSUME NEW k \in DOMAIN Tail(q) PROVE Tail(q)[k].id \in b \cup {0}
    BY DEF AllBehind, Ids
  <2>1. k + 1 \in DOMAIN q /\ 1 < k + 1
    BY <1>1, <1>2
  <2> QED BY <1>1, <1>2, <1>3, <1>8, <2>1 DEF Sorted
<1> QED BY <1>1, <1>5, <1>6, <1>7, <1>8

\* More numbers may be dropped, and more may be issued.
LEMMA QueueMonotone ==
  ASSUME NEW q \in Seq(Instruction), NEW b, NEW c, b \subseteq c,
         NEW n \in Nat, NEW m \in Nat, n <= m
  PROVE  /\ Sorted(q, b) => Sorted(q, c)
         /\ AllBehind(q, b) => AllBehind(q, c)
         /\ AllNumbered(q, n) => AllNumbered(q, m)
BY DEF Sorted, AllBehind, AllNumbered, NumberedUpTo, Instruction

\* The queues dispatch and the drain append: nothing, or one advance.
LEMMA Tails ==
  ASSUME NEW t \in {<<>>, <<Advance>>}, NEW b, NEW n
  PROVE  /\ t \in Seq(Instruction) /\ Sorted(t, b) /\ AllNumbered(t, n)
         /\ Ids(t) \subseteq {0} /\ AllBehind(t, b)
<1>1. Advance \in Instruction /\ Advance.id = 0 /\ Advance.type = "adv"
  BY DEF Advance, Instr, Instruction
<1>2. CASE t = <<>>
  BY <1>2 DEF Sorted, AllNumbered, Ids, AllBehind
<1>3. CASE t = <<Advance>>
  <2>1. t \in Seq(Instruction) /\ DOMAIN t = {1} /\ t[1] = Advance
    BY <1>1, <1>3
  <2> QED BY <1>1, <2>1 DEF Sorted, AllNumbered, NumberedUpTo, Ids, AllBehind
<1> QED BY <1>2, <1>3

\* A batch of n fresh instructions, numbered from c + 1.
LEMMA Batch ==
  ASSUME NEW n \in Nat, NEW types \in [1 .. n -> Kinds], NEW c \in Nat, NEW b,
         NEW s, s = [k \in 1 .. n |-> Instr(types[k], c + k)]
  PROVE  /\ s \in Seq(Instruction) /\ ~HasAdvance(s) /\ Sorted(s, b)
         /\ Ids(s) = (c + 1) .. (c + n) /\ AllNumbered(s, c + n)
<1>1. ASSUME NEW k \in 1 .. n
      PROVE  /\ s[k] \in Instruction
             /\ s[k].type \in {"biz", "op"} /\ s[k].id = c + k
             /\ c + k \in 1 .. (c + n)
  <2>1. types[k] \in {"biz", "op"} /\ s[k] = [type |-> types[k], id |-> c + k]
    BY KindsAssumption DEF Instr
  <2>2. c + k \in 1 .. (c + n)
    OBVIOUS
  <2> QED BY <2>1, <2>2 DEF Instruction
<1>2. DOMAIN s = 1 .. n
  OBVIOUS
<1>3. s \in Seq(Instruction)
  BY <1>1, <1>2
<1>4. ~HasAdvance(s) /\ Sorted(s, b)
  BY <1>1, <1>2 DEF HasAdvance, Sorted
<1>5. AllNumbered(s, c + n)
  BY <1>1, <1>2 DEF AllNumbered, NumberedUpTo
<1>6. Ids(s) \subseteq (c + 1) .. (c + n)
  BY <1>1, <1>2 DEF Ids
<1>7. ASSUME NEW i \in (c + 1) .. (c + n) PROVE i \in Ids(s)
  <2>1. i - c \in 1 .. n /\ c + (i - c) = i
    OBVIOUS
  <2> QED BY <1>1, <1>2, <2>1 DEF Ids
<1> QED BY <1>3, <1>4, <1>5, <1>6, <1>7

-----------------------------------------------------------------------------
(* What the body of an instruction does to the queue.                      *)

\* The part of the state the body of an instruction works on, well formed.
QueueOK(q, b, n) ==
  q \in Seq(Instruction) /\ Sorted(q, b) /\ AllNumbered(q, n)

\* The queue q became queue': nothing in it was dropped, and every fresh
\* number is in the new queue or was appended behind an advance.
QueueGrew(q) ==
  /\ issued' \in Nat /\ issued <= issued'
  /\ behind \subseteq behind' /\ behind' \subseteq 1 .. issued'
  /\ QueueOK(queue, behind, issued)'
  /\ Ids(q) \subseteq Ids(queue')
  /\ \A i \in (issued + 1) .. issued' : i \in Ids(queue') \cup behind'

LEMMA QueueOKConcat ==
  ASSUME NEW p, NEW q, NEW b, NEW n, QueueOK(p, b, n), QueueOK(q, b, n),
         HasAdvance(p) => AllBehind(q, b)
  PROVE  QueueOK(p \o q, b, n) /\ Ids(p \o q) = Ids(p) \cup Ids(q)
BY ConcatIds, ConcatSorted, ConcatNumbered DEF QueueOK

\* Whatever the body of an instruction does, the queue only grows.
LEMMA ExecuteRuleGrows ==
  ASSUME TypeOK, NEW i, NEW q, QueueOK(q, behind, issued),
         NEW tail \in {<<>>, <<Advance>>}, ExecuteRule(i, q, tail)
  PROVE  QueueGrew(q)
<1> USE DEF QueueOK
<1>1. issued \in Nat /\ behind \subseteq 1 .. issued
  BY DEF TypeOK
<1>2. \A b, n : QueueOK(tail, b, n) /\ AllBehind(tail, b)
  BY Tails
<1>3. CASE RunPlain(q, tail)
  <2>1. queue' = q \o tail /\ issued' = issued /\ behind' = behind
    BY <1>3 DEF RunPlain
  <2> HIDE DEF QueueOK
  <2>2. QueueOK(q \o tail, behind, issued) /\ Ids(q \o tail) = Ids(q) \cup Ids(tail)
    BY <1>2, QueueOKConcat
  <2> QED BY <1>1, <2>1, <2>2 DEF QueueGrew
<1>4. CASE PushFront(q, tail)
  <2>1. PICK t \in Kinds : queue' = <<Instr(t, issued + 1)>> \o q \o tail
    BY <1>4 DEF PushFront
  <2> DEFINE f == <<Instr(t, issued + 1)>>
  <2>2. issued' = issued + 1 /\ behind' = behind
    BY <1>4 DEF PushFront
  <2>3. QueueOK(f, behind, issued + 1) /\ Ids(f) = {issued + 1} /\ ~HasAdvance(f)
    <3>1. Instr(t, issued + 1) \in Instruction /\ Instr(t, issued + 1).type = t
          /\ Instr(t, issued + 1).id = issued + 1
      BY <1>1, KindsAssumption DEF Instr, Instruction
    <3>2. f \in Seq(Instruction) /\ DOMAIN f = {1} /\ f[1] = Instr(t, issued + 1)
      BY <3>1
    <3>3. NumberedUpTo(Instr(t, issued + 1), issued + 1) /\ Instr(t, issued + 1).type # "noop"
      BY <1>1, <3>1, KindsAssumption DEF NumberedUpTo
    <3>4. Ids(f) = {issued + 1}
      BY <3>1, <3>2 DEF Ids
    <3>5. ~HasAdvance(f) /\ Sorted(f, behind)
      BY <3>1, <3>2, KindsAssumption DEF HasAdvance, Sorted
    <3> QED BY <3>2, <3>3, <3>4, <3>5 DEF AllNumbered
  <2>4. QueueOK(q, behind, issued + 1)
    BY <1>1, QueueMonotone
  <2> HIDE DEF f, QueueOK
  <2>5. QueueOK(f \o q, behind, issued + 1) /\ Ids(f \o q) = Ids(f) \cup Ids(q)
    BY <2>3, <2>4, QueueOKConcat
  <2>6. /\ QueueOK((f \o q) \o tail, behind, issued + 1)
        /\ Ids((f \o q) \o tail) = Ids(f \o q) \cup Ids(tail)
    BY <1>2, <2>5, QueueOKConcat
  <2>7. queue' = (f \o q) \o tail
    BY <2>1 DEF f
  <2> QED BY <1>1, <2>2, <2>3, <2>5, <2>6, <2>7 DEF QueueGrew
<1>5. CASE PushBack(q, tail)
  <2>0. PICK n \in 1 .. MaxBatch :
          \E types \in [1 .. n -> Kinds] :
            /\ queue' = q \o [k \in 1 .. n |-> Instr(types[k], issued + k)] \o tail
            /\ issued' = issued + n
            /\ behind' = IF HasAdvance(q)
                           THEN behind \cup ((issued + 1) .. (issued + n))
                           ELSE behind
    BY <1>5 DEF PushBack
  <2>1. PICK types \in [1 .. n -> Kinds] :
          /\ queue' = q \o [k \in 1 .. n |-> Instr(types[k], issued + k)] \o tail
          /\ issued' = issued + n
          /\ behind' = IF HasAdvance(q)
                         THEN behind \cup ((issued + 1) .. (issued + n))
                         ELSE behind
    BY <2>0
  <2> DEFINE s == [k \in 1 .. n |-> Instr(types[k], issued + k)]
  <2>2. n \in Nat /\ issued + n \in Nat /\ issued <= issued + n
    BY <1>1, BoundsAssumption
  <2>3. behind \subseteq behind' /\ behind' \subseteq 1 .. (issued + n)
    BY <1>1, <2>1, <2>2
  <2>4. QueueOK(s, behind', issued + n) /\ Ids(s) = (issued + 1) .. (issued + n)
    BY <1>1, <2>2, Batch
  <2>5. HasAdvance(q) => AllBehind(s, behind')
    BY <2>1, <2>4 DEF AllBehind
  <2>6. QueueOK(q, behind', issued + n)
    BY <1>1, <2>2, <2>3, QueueMonotone
  <2> HIDE DEF s, QueueOK
  <2>7. QueueOK(q \o s, behind', issued + n) /\ Ids(q \o s) = Ids(q) \cup Ids(s)
    BY <2>4, <2>5, <2>6, QueueOKConcat
  <2>8. /\ QueueOK((q \o s) \o tail, behind', issued + n)
        /\ Ids((q \o s) \o tail) = Ids(q \o s) \cup Ids(tail)
    BY <1>2, <2>7, QueueOKConcat
  <2>9. queue' = (q \o s) \o tail
    BY <2>1 DEF s
  <2> QED BY <2>1, <2>2, <2>3, <2>4, <2>7, <2>8, <2>9 DEF QueueGrew
<1>6. CASE Halt(q)
  BY <1>1, <1>6 DEF Halt, QueueGrew
<1> QED BY <1>3, <1>4, <1>5, <1>6 DEF ExecuteRule

\* advance_instruction on a queue whose numbers are all in behind.
LEMMA ExecAdvanceDrops ==
  ASSUME TypeOK, NEW q, QueueOK(q, behind, issued), AllBehind(q, behind),
         NEW tail \in {<<>>, <<Advance>>}, ExecAdvance(q, tail)
  PROVE  /\ QueueOK(queue, behind, issued)' /\ AllBehind(queue, behind)'
         /\ instruction' \in Instruction /\ NumberedUpTo(instruction, issued)'
         /\ instruction'.id \in behind \cup {0}
         /\ running' \in BOOLEAN
         /\ UNCHANGED <<cond, history>>
<1>1. issued \in Nat /\ running \in BOOLEAN /\ UNCHANGED <<cond, history>>
  BY DEF TypeOK, ExecAdvance
<1>2. issued' = issued /\ behind' = behind
  BY <1>1 DEF history
<1>3. \A t \in {<<>>, <<Advance>>} : \A b, n : QueueOK(t, b, n) /\ AllBehind(t, b)
  BY Tails DEF QueueOK
<1>4. CASE q = <<>>
  <2>1. instruction' = Noop /\ running' \in BOOLEAN /\ queue' \in {<<>>, <<Advance>>}
    BY <1>1, <1>4 DEF ExecAdvance
  <2>2. Noop \in Instruction /\ Noop.id = 0 /\ NumberedUpTo(Noop, issued)
    BY DEF Noop, Instr, Instruction, NumberedUpTo
  <2> QED BY <1>1, <1>2, <1>3, <2>1, <2>2
<1>5. CASE q # <<>>
  <2>1. /\ instruction' = Head(q) /\ running' = running
        /\ queue' = Tail(q) \o (IF running THEN tail ELSE <<>>)
    BY <1>5 DEF ExecAdvance
  <2> DEFINE t == IF running THEN tail ELSE <<>>
  <2>2. t \in {<<>>, <<Advance>>}
    OBVIOUS
  <2>3. /\ Head(q) \in Instruction /\ NumberedUpTo(Head(q), issued)
        /\ QueueOK(Tail(q), behind, issued)
        /\ Ids(q) = {Head(q).id} \cup Ids(Tail(q))
    BY <1>5, Popped DEF QueueOK
  <2>4. AllBehind(Tail(q), behind) /\ Head(q).id \in behind \cup {0}
    BY <2>3 DEF AllBehind
  <2> HIDE DEF t
  <2>5. /\ QueueOK(Tail(q) \o t, behind, issued)
        /\ Ids(Tail(q) \o t) = Ids(Tail(q)) \cup Ids(t)
    BY <1>3, <2>2, <2>3, QueueOKConcat
  <2>6. AllBehind(Tail(q) \o t, behind)
    BY <1>3, <2>2, <2>4, <2>5 DEF AllBehind
  <2>7. queue' = Tail(q) \o t
    BY <2>1 DEF t
  <2> QED BY <1>1, <1>2, <2>1, <2>3, <2>4, <2>5, <2>6, <2>7
<1> QED BY <1>4, <1>5

-----------------------------------------------------------------------------
(* LossInv is inductive.                                                   *)

LEMMA LossInvInit == Init => LossInv
<1> SUFFICES ASSUME Init PROVE LossInv
  OBVIOUS
<1>1. PICK r \in RequestedSteps : maxSteps = ParseMaxSteps(r)
  BY DEF Init
<1>2. maxSteps \in 0 .. (WordSize - 1)
  <2>1. (IF r = Absent THEN DefaultSteps ELSE r) \in Int
    BY StepsAssumption
  <2>2. \A n \in Int : (IF n < StepCap THEN n ELSE StepCap) % WordSize \in 0 .. (WordSize - 1)
    BY StepsAssumption
  <2> QED BY <1>1, <2>1, <2>2 DEF ParseMaxSteps
<1>3. PICK t \in Kinds : instruction = Instr(t, 1)
  BY DEF Init
<1>4. /\ instruction \in Instruction /\ NumberedUpTo(instruction, issued)
      /\ instruction.id = 1 /\ instruction.type # "adv"
  BY <1>3, KindsAssumption DEF Init, Instr, Instruction, NumberedUpTo
<1>5. queue \in Seq(Instruction) /\ AllNumbered(queue, issued) /\ Sorted(queue, behind)
  BY DEF Init, AllNumbered, Sorted
<1>6. TypeOK
  BY <1>2, <1>4, <1>5 DEF Init, TypeOK, Phases
<1>7. NoSafeLoss
  BY <1>4 DEF Init, NoSafeLoss, Waiting
<1> QED BY <1>4, <1>5, <1>6, <1>7
        DEF Init, LossInv, TypeInv, CurrentExpendable, CurrentAdvance

\* An instruction that runs with the numbered instruction i taken out of
\* the places it waited in: the loss part of the invariant for its step.
LEMMA RunKeepsNoSafeLoss ==
  ASSUME TypeOK, NoSafeLoss, NEW i, NEW q, QueueGrew(q),
         executed' = executed \cup {i}, refused' = refused,
         \A n \in Nat : Waiting(n) => n = i \/ n \in Ids(q) \/ n \in executed' \cup refused' \cup behind'
                                         \/ instruction'.id = n
  PROVE  NoSafeLoss'
<1> SUFFICES ASSUME NEW n \in (1 .. issued') \ behind'
             PROVE  n \in executed' \cup refused' \/ Waiting(n)'
  BY DEF NoSafeLoss
<1>1. n \in Nat /\ issued \in Nat /\ issued' \in Nat
  BY DEF QueueGrew, TypeOK
<1>2. CASE n \in 1 .. issued
  <2>1. n \in executed \cup refused \/ Waiting(n)
    BY <1>2 DEF NoSafeLoss, QueueGrew
  <2> QED BY <1>1, <2>1 DEF QueueGrew, Waiting
<1>3. CASE n \notin 1 .. issued
  <2>1. n \in (issued + 1) .. issued'
    BY <1>1, <1>3
  <2> QED BY <2>1 DEF QueueGrew, Waiting
<1> QED BY <1>2, <1>3

\* DispatchRule: the current instruction runs and stays current.
LEMMA DispatchRuleKeepsLossInv == LossInv /\ DispatchRule => LossInv'
<1> SUFFICES ASSUME LossInv, DispatchRule PROVE LossInv'
  OBVIOUS
<1>1. /\ TypeOK /\ QueueOK(queue, behind, issued) /\ NumberedUpTo(instruction, issued)
      /\ NoSafeLoss /\ ExecuteRule(instruction, queue, <<Advance>>)
      /\ instruction' = instruction /\ phase' = "drain" /\ UNCHANGED loopVars
      /\ instruction.type \in {"biz", "op"}
  BY DEF LossInv, TypeInv, TypeOK, QueueOK, DispatchRule
<1>2. QueueGrew(queue)
  BY <1>1, ExecuteRuleGrows
<1>3. executed' = executed \cup {instruction.id} /\ refused' = refused
      /\ cond' \in BOOLEAN /\ running' \in BOOLEAN /\ halted' \in BOOLEAN
  BY <1>1 DEF ExecuteRule, RunPlain, PushFront, PushBack, Halt, TypeOK
<1>4. instruction.id \in 1 .. issued /\ 1 .. issued \subseteq 1 .. issued'
  BY <1>1, <1>2 DEF NumberedUpTo, QueueGrew, TypeOK
<1>5. TypeOK'
  <2>1. executed' \subseteq 1 .. issued' /\ refused' \subseteq 1 .. issued'
    BY <1>1, <1>2, <1>3, <1>4 DEF TypeOK, QueueGrew
  <2> QED BY <1>1, <1>2, <1>3, <2>1 DEF TypeOK, QueueGrew, QueueOK, loopVars, Phases
<1>6. TypeInv'
  BY <1>1, <1>2, <1>4, <1>5 DEF TypeInv, QueueGrew, QueueOK, NumberedUpTo
<1>7. NoSafeLoss'
  BY <1>1, <1>2, <1>3, RunKeepsNoSafeLoss DEF Waiting
<1> QED BY <1>1, <1>2, <1>3, <1>6, <1>7
        DEF LossInv, CurrentExpendable, CurrentAdvance, QueueGrew, QueueOK

\* DrainMetaRule: the front of the queue runs, the current one is untouched.
LEMMA DrainMetaRuleKeepsLossInv == LossInv /\ DrainMetaRule => LossInv'
<1> SUFFICES ASSUME LossInv, DrainMetaRule PROVE LossInv'
  OBVIOUS
<1> DEFINE q == Tail(queue)
<1>1. /\ TypeOK /\ NumberedUpTo(instruction, issued)
      /\ NoSafeLoss /\ ExecuteRule(Head(queue), q, <<>>)
      /\ instruction' = instruction /\ phase = "drain" /\ UNCHANGED <<phase, loopVars>>
      /\ queue # <<>> /\ queue \in Seq(Instruction)
      /\ Sorted(queue, behind) /\ AllNumbered(queue, issued)
      /\ MetaConfigured /\ Head(queue).type \notin {"adv", "biz"}
  BY DEF LossInv, TypeInv, TypeOK, DrainMetaRule, Popping, IsMeta
<1>2. /\ QueueOK(q, behind, issued)
      /\ Head(queue) \in Instruction /\ NumberedUpTo(Head(queue), issued)
      /\ Head(queue).type # "noop"
      /\ Ids(queue) = {Head(queue).id} \cup Ids(q)
  BY <1>1, Popped DEF QueueOK
<1> HIDE DEF q
<1>3. QueueGrew(q)
  BY <1>1, <1>2, ExecuteRuleGrows
<1>4. executed' = executed \cup {Head(queue).id} /\ refused' = refused
      /\ cond' \in BOOLEAN /\ running' \in BOOLEAN /\ halted' \in BOOLEAN
  BY <1>1 DEF ExecuteRule, RunPlain, PushFront, PushBack, Halt, TypeOK
<1>5. Head(queue).id \in 1 .. issued /\ 1 .. issued \subseteq 1 .. issued'
  <2>1. Head(queue).type = "op"
    BY <1>1, <1>2 DEF Instruction
  <2> QED BY <1>1, <1>2, <1>3, <2>1 DEF NumberedUpTo, QueueGrew, TypeOK
<1>6. TypeOK'
  <2>1. executed' \subseteq 1 .. issued' /\ refused' \subseteq 1 .. issued'
    BY <1>1, <1>3, <1>4, <1>5 DEF TypeOK, QueueGrew
  <2> QED BY <1>1, <1>3, <1>4, <2>1 DEF TypeOK, QueueGrew, QueueOK, loopVars, Phases
<1>7. TypeInv'
  BY <1>1, <1>3, <1>6 DEF TypeInv, TypeOK, QueueGrew, QueueOK, NumberedUpTo
<1>8. NoSafeLoss'
  BY <1>1, <1>2, <1>3, <1>4, RunKeepsNoSafeLoss DEF Waiting
<1> QED BY <1>1, <1>3, <1>4, <1>7, <1>8
        DEF LossInv, CurrentExpendable, CurrentAdvance, QueueGrew, QueueOK

\* advance_instruction, from dispatch or from the drain, on a queue q all of
\* whose numbers are in behind; the current instruction was expendable.
LEMMA ExecAdvanceKeepsLossInv ==
  ASSUME LossInv, NEW q, QueueOK(q, behind, issued), AllBehind(q, behind),
         NEW tail \in {<<>>, <<Advance>>}, ExecAdvance(q, tail),
         Ids(queue) \subseteq Ids(q) \cup {0},
         instruction.id \in executed \cup refused \cup behind \cup {0},
         UNCHANGED loopVars, phase' \in Phases,
         MetaConfigured /\ instruction'.type = "adv" =>
           phase' \notin {"check", "body"} /\ (phase' = "next" => ~running')
  PROVE  LossInv'
<1>1. /\ TypeOK /\ NoSafeLoss
      /\ UNCHANGED <<cond, issued, executed, refused, behind, halted>>
  BY DEF LossInv, TypeInv, ExecAdvance, history
<1>2. /\ QueueOK(queue, behind, issued)' /\ AllBehind(queue, behind)'
      /\ instruction' \in Instruction /\ NumberedUpTo(instruction, issued)'
      /\ instruction'.id \in behind \cup {0}
      /\ running' \in BOOLEAN
  BY <1>1, ExecAdvanceDrops
<1>3. TypeInv'
  BY <1>1, <1>2 DEF TypeInv, TypeOK, QueueOK, loopVars
<1>4. NoSafeLoss'
  <2> SUFFICES ASSUME NEW n \in (1 .. issued) \ behind
               PROVE  n \in executed \cup refused
    BY <1>1 DEF NoSafeLoss
  <2>1. n # 0 /\ (n \in executed \cup refused \/ Waiting(n))
    BY <1>1 DEF NoSafeLoss, TypeOK
  <2> QED BY <2>1 DEF Waiting, AllBehind
<1> QED BY <1>1, <1>2, <1>3, <1>4
        DEF LossInv, CurrentExpendable, CurrentAdvance, QueueOK

LEMMA DispatchAdvanceKeepsLossInv == LossInv /\ DispatchAdvance => LossInv'
<1> SUFFICES ASSUME LossInv, DispatchAdvance PROVE LossInv'
  OBVIOUS
<1>1. /\ QueueOK(queue, behind, issued) /\ NumberedUpTo(instruction, issued)
      /\ ExecAdvance(queue, <<Advance>>)
      /\ phase = "body" /\ instruction.type = "adv"
      /\ phase' = "drain" /\ UNCHANGED loopVars
  BY DEF LossInv, TypeInv, TypeOK, QueueOK, DispatchAdvance
<1>2. ~MetaConfigured /\ AllBehind(queue, behind) /\ instruction.id = 0
  BY <1>1 DEF LossInv, CurrentAdvance, NumberedUpTo
<1> QED BY <1>1, <1>2, ExecAdvanceKeepsLossInv DEF Phases

LEMMA DrainMetaAdvanceKeepsLossInv == LossInv /\ DrainMetaAdvance => LossInv'
<1> SUFFICES ASSUME LossInv, DrainMetaAdvance PROVE LossInv'
  OBVIOUS
<1>1. /\ queue \in Seq(Instruction) /\ queue # <<>>
      /\ Sorted(queue, behind) /\ AllNumbered(queue, issued)
      /\ ExecAdvance(Tail(queue), <<>>)
      /\ phase = "drain" /\ Head(queue).type = "adv"
      /\ UNCHANGED <<phase, loopVars>>
  BY DEF LossInv, TypeInv, TypeOK, DrainMetaAdvance, Popping
<1>2. /\ QueueOK(Tail(queue), behind, issued) /\ AllBehind(Tail(queue), behind)
      /\ Head(queue).id = 0 /\ Ids(queue) = {Head(queue).id} \cup Ids(Tail(queue))
  BY <1>1, Popped DEF QueueOK, NumberedUpTo
<1>3. instruction.id \in executed \cup refused \cup behind \cup {0}
  BY <1>1 DEF LossInv, CurrentExpendable
<1> QED BY <1>1, <1>2, <1>3, ExecAdvanceKeepsLossInv DEF Phases

LEMMA DrainAdvanceKeepsLossInv == LossInv /\ DrainAdvance => LossInv'
<1> SUFFICES ASSUME LossInv, DrainAdvance PROVE LossInv'
  OBVIOUS
<1>1. /\ queue = <<>> /\ ExecAdvance(queue, <<>>)
      /\ phase = "drain" /\ phase' = "next" /\ UNCHANGED loopVars
  BY DEF DrainAdvance
<1>2. QueueOK(queue, behind, issued) /\ AllBehind(queue, behind)
  BY <1>1, Tails DEF QueueOK
<1>3. instruction.id \in executed \cup refused \cup behind \cup {0}
  BY <1>1 DEF LossInv, CurrentExpendable
<1>4. instruction'.type # "adv"
  BY <1>1 DEF ExecAdvance, Noop, Instr
<1> QED BY <1>1, <1>2, <1>3, <1>4, ExecAdvanceKeepsLossInv DEF Phases

LEMMA DrainBusinessKeepsLossInv == LossInv /\ DrainBusiness => LossInv'
<1> SUFFICES ASSUME LossInv, DrainBusiness PROVE LossInv'
  OBVIOUS
<1>1. /\ TypeOK /\ NoSafeLoss /\ queue \in Seq(Instruction) /\ queue # <<>>
      /\ Sorted(queue, behind) /\ AllNumbered(queue, issued)
      /\ phase = "drain" /\ phase' = "next" /\ ~IsMeta(Head(queue))
      /\ instruction' = Head(queue) /\ queue' = Tail(queue)
      /\ UNCHANGED <<loopVars, running, cond, history>>
  BY DEF LossInv, TypeInv, TypeOK, DrainBusiness, Popping
<1>2. /\ Head(queue) \in Instruction /\ NumberedUpTo(Head(queue), issued)
      /\ QueueOK(Tail(queue), behind, issued)
      /\ Ids(queue) = {Head(queue).id} \cup Ids(Tail(queue))
      /\ Head(queue).type = "adv" => AllBehind(Tail(queue), behind)
  BY <1>1, Popped DEF QueueOK
<1>3. TypeInv'
  BY <1>1, <1>2 DEF TypeInv, TypeOK, QueueOK, loopVars, history, Phases
<1>4. NoSafeLoss'
  <2> SUFFICES ASSUME NEW n \in (1 .. issued) \ behind
               PROVE  n \in executed \cup refused \/ Waiting(n)'
    BY <1>1 DEF NoSafeLoss, history
  <2>1. n # 0 /\ (n \in executed \cup refused \/ Waiting(n))
    BY <1>1 DEF NoSafeLoss, TypeOK
  <2>2. CASE n \in Ids(queue)
    BY <1>1, <1>2, <2>2 DEF Waiting
  <2>3. CASE instruction.id = n
    BY <1>1, <2>1, <2>3 DEF LossInv, CurrentExpendable
  <2> QED BY <2>1, <2>2, <2>3 DEF Waiting
<1>5. CurrentAdvance'
  BY <1>1, <1>2 DEF CurrentAdvance, IsMeta, history
<1> QED BY <1>1, <1>2, <1>3, <1>4, <1>5
        DEF LossInv, CurrentExpendable, QueueOK, history

\* Every step of the loop, and every stuttering step, keeps LossInv.
LEMMA LossInvNext == LossInv /\ [Next]_vars => LossInv'
<1> SUFFICES ASSUME LossInv, [Next]_vars PROVE LossInv'
  OBVIOUS
<1> USE DEF LossInv, TypeInv, TypeOK, CurrentExpendable, CurrentAdvance,
            NoSafeLoss, Waiting, loopVars, execVars, history, Phases
<1>1. CASE CheckCondition
  BY <1>1 DEF CheckCondition
<1>2. CASE DispatchRule
  BY <1>2, DispatchRuleKeepsLossInv
<1>3. CASE DispatchNoop
  <2>1. QueueOK(queue, behind, issued) /\ QueueOK(<<Advance>>, behind, issued)
        /\ Ids(<<Advance>>) \subseteq {0} /\ AllBehind(<<Advance>>, behind)
    BY Tails DEF QueueOK
  <2>2. queue' = queue \o <<Advance>>
    BY <1>3, <2>1 DEF DispatchNoop, QueueOK
  <2>3. QueueOK(queue', behind, issued) /\ Ids(queue') = Ids(queue) \cup Ids(<<Advance>>)
    BY <2>1, <2>2, QueueOKConcat
  <2>4. /\ instruction.type = "noop" /\ phase' = "drain"
        /\ UNCHANGED <<loopVars, running, instruction, cond, history>>
    BY <1>3 DEF DispatchNoop
  <2>5. instruction.id = 0
    BY <2>4 DEF NumberedUpTo
  <2> QED BY <2>3, <2>4, <2>5 DEF QueueOK
<1>4. CASE DispatchAdvance
  BY <1>4, DispatchAdvanceKeepsLossInv
<1>5. CASE DispatchMiss
  BY <1>5 DEF DispatchMiss, NumberedUpTo
<1>6. CASE DrainStopped
  BY <1>6 DEF DrainStopped
<1>7. CASE DrainMetaAdvance
  BY <1>7, DrainMetaAdvanceKeepsLossInv
<1>8. CASE DrainMetaRule
  BY <1>8, DrainMetaRuleKeepsLossInv
<1>9. CASE DrainBusiness
  BY <1>9, DrainBusinessKeepsLossInv
<1>10. CASE DrainIdle
  BY <1>10 DEF DrainIdle, IsMeta
<1>11. CASE DrainAdvance
  BY <1>11, DrainAdvanceKeepsLossInv
<1>12. CASE Fail
  BY <1>12 DEF Fail
<1>13. CASE EndIteration
  BY <1>13 DEF EndIteration
<1>14. CASE Finish
  BY <1>14 DEF Finish
<1>15. CASE UNCHANGED vars
  BY <1>15 DEF vars
<1> QED
  BY <1>1, <1>2, <1>3, <1>4, <1>5, <1>6, <1>7, <1>8, <1>9, <1>10, <1>11,
     <1>12, <1>13, <1>14, <1>15
     DEF Next, LoopStep, Dispatch, Drain, Returned

-----------------------------------------------------------------------------
(* No number twice: Distinct and HasAdvance under \o, Head and Tail.       *)

\* The numbers of a well-formed queue are those issued, and 0.
LEMMA IdsIssued ==
  ASSUME NEW q, NEW n \in Nat, AllNumbered(q, n)
  PROVE  Ids(q) \subseteq 0 .. n
BY DEF AllNumbered, NumberedUpTo, Ids

LEMMA ConcatDistinct ==
  ASSUME NEW p \in Seq(Instruction), NEW q \in Seq(Instruction),
         Distinct(p), Distinct(q), Ids(p) \cap Ids(q) \subseteq {0}
  PROVE  Distinct(p \o q)
<1>1. /\ Len(p \o q) = Len(p) + Len(q)
      /\ \A k \in 1 .. Len(p) + Len(q) :
           (p \o q)[k] = IF k <= Len(p) THEN p[k] ELSE q[k - Len(p)]
      /\ p \o q \in Seq(Instruction)
  BY ConcatProperties
<1> SUFFICES ASSUME NEW j \in DOMAIN (p \o q), NEW k \in DOMAIN (p \o q),
                    j # k, (p \o q)[j].id = (p \o q)[k].id
             PROVE  (p \o q)[j].id = 0
  BY DEF Distinct
<1>2. ASSUME NEW i \in DOMAIN (p \o q)
      PROVE  \/ i \in DOMAIN p /\ (p \o q)[i] = p[i]
             \/ i > Len(p) /\ i - Len(p) \in DOMAIN q /\ (p \o q)[i] = q[i - Len(p)]
  BY <1>1
<1>3. CASE j \in DOMAIN p /\ k \in DOMAIN p
  <2>1. (p \o q)[j] = p[j] /\ (p \o q)[k] = p[k]
    BY <1>1, <1>3
  <2> QED BY <1>3, <2>1 DEF Distinct
<1>4. CASE j \notin DOMAIN p /\ k \notin DOMAIN p
  <2>1. /\ j - Len(p) \in DOMAIN q /\ (p \o q)[j] = q[j - Len(p)]
        /\ k - Len(p) \in DOMAIN q /\ (p \o q)[k] = q[k - Len(p)]
        /\ j - Len(p) # k - Len(p)
    BY <1>1, <1>2, <1>4
  <2> QED BY <2>1 DEF Distinct
<1>5. ASSUME NEW a \in DOMAIN p, NEW b \in DOMAIN q, p[a].id = q[b].id
      PROVE  p[a].id = 0
  BY <1>5 DEF Ids
<1>6. CASE j \in DOMAIN p /\ k \notin DOMAIN p
  <2>1. (p \o q)[j] = p[j]
    BY <1>1, <1>6
  <2>2. k - Len(p) \in DOMAIN q /\ (p \o q)[k] = q[k - Len(p)]
    BY <1>2, <1>6
  <2> QED BY <1>5, <1>6, <2>1, <2>2
<1>7. CASE j \notin DOMAIN p /\ k \in DOMAIN p
  <2>1. (p \o q)[k] = p[k]
    BY <1>1, <1>7
  <2>2. j - Len(p) \in DOMAIN q /\ (p \o q)[j] = q[j - Len(p)]
    BY <1>2, <1>7
  <2> QED BY <1>5, <1>7, <2>1, <2>2
<1> QED BY <1>3, <1>4, <1>6, <1>7

LEMMA ConcatAdvance ==
  ASSUME NEW p \in Seq(Instruction), NEW q \in Seq(Instruction)
  PROVE  HasAdvance(p \o q) <=> HasAdvance(p) \/ HasAdvance(q)
<1>1. /\ Len(p \o q) = Len(p) + Len(q)
      /\ \A k \in 1 .. Len(p) + Len(q) :
           (p \o q)[k] = IF k <= Len(p) THEN p[k] ELSE q[k - Len(p)]
      /\ p \o q \in Seq(Instruction)
  BY ConcatProperties
<1>2. HasAdvance(p \o q) => HasAdvance(p) \/ HasAdvance(q)
  BY <1>1 DEF HasAdvance
<1>3. HasAdvance(p) => HasAdvance(p \o q)
  BY <1>1 DEF HasAdvance
<1>4. ASSUME NEW k \in DOMAIN q, q[k].type = "adv" PROVE HasAdvance(p \o q)
  <2>1. Len(p) + k \in DOMAIN (p \o q) /\ (p \o q)[Len(p) + k] = q[k]
    BY <1>1
  <2> QED BY <1>4, <2>1 DEF HasAdvance
<1> QED BY <1>2, <1>3, <1>4 DEF HasAdvance

\* Popping the front of a queue without duplicates.
LEMMA PoppedDistinct ==
  ASSUME NEW q \in Seq(Instruction), q # <<>>, Distinct(q)
  PROVE  /\ Distinct(Tail(q))
         /\ Head(q).id \notin Ids(Tail(q)) \ {0}
         /\ HasAdvance(q) /\ Head(q).type # "adv" => HasAdvance(Tail(q))
<1>1. /\ Head(q) = q[1]
      /\ Tail(q) \in Seq(Instruction)
      /\ Len(q) \in Nat \ {0}
      /\ Len(Tail(q)) = Len(q) - 1
      /\ \A k \in 1 .. Len(Tail(q)) : Tail(q)[k] = q[k + 1]
  BY HeadTailProperties, EmptySeq
<1>2. \A k \in DOMAIN Tail(q) : k + 1 \in DOMAIN q /\ k + 1 # 1 /\ Tail(q)[k] = q[k + 1]
  BY <1>1
<1>3. 1 \in DOMAIN q
  BY <1>1
<1>4. \A k \in DOMAIN q : k = 1 \/ (k - 1 \in DOMAIN Tail(q) /\ q[k] = Tail(q)[k - 1])
  BY <1>1
<1>5. Distinct(Tail(q))
  <2> SUFFICES ASSUME NEW j \in DOMAIN Tail(q), NEW k \in DOMAIN Tail(q),
                      j # k, Tail(q)[j].id = Tail(q)[k].id
               PROVE  Tail(q)[j].id = 0
    BY DEF Distinct
  <2>1. j + 1 \in DOMAIN q /\ k + 1 \in DOMAIN q /\ j + 1 # k + 1
    BY <1>1, <1>2
  <2> QED BY <1>2, <2>1 DEF Distinct
<1>6. ASSUME NEW k \in DOMAIN Tail(q), Tail(q)[k].id = Head(q).id
      PROVE  Head(q).id = 0
  BY <1>1, <1>2, <1>3, <1>6 DEF Distinct
<1>7. HasAdvance(q) /\ Head(q).type # "adv" => HasAdvance(Tail(q))
  BY <1>1, <1>4 DEF HasAdvance
<1> QED BY <1>5, <1>6, <1>7 DEF Ids

\* The queues dispatch and the drain append.
LEMMA TailsDistinct ==
  ASSUME NEW t \in {<<>>, <<Advance>>}
  PROVE  Distinct(t) /\ (t # <<>> => HasAdvance(t))
<1>1. Advance \in Instruction /\ Advance.id = 0 /\ Advance.type = "adv"
  BY DEF Advance, Instr, Instruction
<1>2. CASE t = <<>>
  BY <1>2 DEF Distinct
<1>3. CASE t = <<Advance>>
  <2>1. t \in Seq(Instruction) /\ DOMAIN t = {1} /\ t[1] = Advance
    BY <1>1, <1>3
  <2> QED BY <1>1, <2>1 DEF Distinct, HasAdvance
<1> QED BY <1>2, <1>3

LEMMA BatchDistinct ==
  ASSUME NEW n \in Nat, NEW types \in [1 .. n -> Kinds], NEW c \in Nat
  PROVE  Distinct([k \in 1 .. n |-> Instr(types[k], c + k)])
BY DEF Distinct, Instr

-----------------------------------------------------------------------------
(* OnceInv, IdleInv and BusinessInv are inductive.                         *)

\* The queue q became queue', and no number came in twice.
QueueFresh(q, tail) ==
  /\ Distinct(queue')
  /\ Ids(queue') \subseteq Ids(q) \cup {0} \cup ((issued + 1) .. issued')
  /\ HasAdvance(q) => HasAdvance(queue')
  /\ running' => running
  /\ running' /\ tail # <<>> => HasAdvance(queue')
  /\ ~running' => ~running \/ halted'
  /\ halted => halted'

\* Whatever the body of an instruction does, it brings in fresh numbers.
LEMMA ExecuteRuleFresh ==
  ASSUME TypeOK, NEW i, NEW q, QueueOK(q, behind, issued), Distinct(q),
         NEW tail \in {<<>>, <<Advance>>}, ExecuteRule(i, q, tail)
  PROVE  QueueFresh(q, tail)
<1>1. issued \in Nat /\ q \in Seq(Instruction) /\ Ids(q) \subseteq 0 .. issued
  BY IdsIssued DEF TypeOK, QueueOK
<1>2. /\ tail \in Seq(Instruction) /\ Ids(tail) \subseteq {0} /\ Distinct(tail)
      /\ tail # <<>> => HasAdvance(tail)
  BY Tails, TailsDistinct
<1>3. ASSUME NEW s \in Seq(Instruction), Distinct(s)
      PROVE  /\ s \o tail \in Seq(Instruction) /\ Distinct(s \o tail)
             /\ Ids(s \o tail) \subseteq Ids(s) \cup {0}
             /\ HasAdvance(s) => HasAdvance(s \o tail)
             /\ tail # <<>> => HasAdvance(s \o tail)
  <2>1. s \o tail \in Seq(Instruction) /\ Ids(s \o tail) = Ids(s) \cup Ids(tail)
    BY <1>2, ConcatIds
  <2>2. Distinct(s \o tail)
    BY <1>2, <1>3, ConcatDistinct
  <2>3. HasAdvance(s \o tail) <=> HasAdvance(s) \/ HasAdvance(tail)
    BY <1>2, ConcatAdvance
  <2> QED BY <1>2, <2>1, <2>2, <2>3
<1>4. CASE RunPlain(q, tail)
  BY <1>1, <1>3, <1>4 DEF RunPlain, QueueFresh
<1>5. CASE PushFront(q, tail)
  <2>1. PICK t \in Kinds : queue' = <<Instr(t, issued + 1)>> \o q \o tail
    BY <1>5 DEF PushFront
  <2> DEFINE f == <<Instr(t, issued + 1)>>
  <2>2. /\ f \in Seq(Instruction) /\ Ids(f) = {issued + 1} /\ Distinct(f)
    <3>1. Instr(t, issued + 1) \in Instruction /\ Instr(t, issued + 1).id = issued + 1
      BY <1>1, KindsAssumption DEF Instr, Instruction
    <3>2. f \in Seq(Instruction) /\ DOMAIN f = {1} /\ f[1] = Instr(t, issued + 1)
      BY <3>1
    <3>3. Ids(f) = {issued + 1}
      BY <3>1, <3>2 DEF Ids
    <3> HIDE DEF f
    <3> QED BY <3>2, <3>3 DEF Distinct
  <2> HIDE DEF f
  <2>3. f \o q \in Seq(Instruction) /\ Ids(f \o q) = Ids(f) \cup Ids(q)
    BY <1>1, <2>2, ConcatIds
  <2>4. Distinct(f \o q)
    <3>1. issued + 1 \notin Ids(q)
      BY <1>1
    <3> QED BY <1>1, <2>2, <3>1, ConcatDistinct
  <2>5. HasAdvance(q) => HasAdvance(f \o q)
    BY <1>1, <2>2, ConcatAdvance
  <2>6. queue' = (f \o q) \o tail
    BY <2>1 DEF f
  <2>7. /\ Distinct(queue')
        /\ Ids(queue') \subseteq Ids(q) \cup {0} \cup {issued + 1}
        /\ HasAdvance(q) => HasAdvance(queue')
        /\ tail # <<>> => HasAdvance(queue')
    BY <1>3, <2>2, <2>3, <2>4, <2>5, <2>6
  <2>8. issued' = issued + 1 /\ running' = running /\ halted' = halted
    BY <1>5 DEF PushFront
  <2>9. issued + 1 \in (issued + 1) .. issued'
    BY <1>1, <2>8
  <2> QED BY <2>7, <2>8, <2>9 DEF QueueFresh
<1>6. CASE PushBack(q, tail)
  <2>0. PICK n \in 1 .. MaxBatch :
          \E types \in [1 .. n -> Kinds] :
            /\ queue' = q \o [k \in 1 .. n |-> Instr(types[k], issued + k)] \o tail
            /\ issued' = issued + n
    BY <1>6 DEF PushBack
  <2>1. PICK types \in [1 .. n -> Kinds] :
          /\ queue' = q \o [k \in 1 .. n |-> Instr(types[k], issued + k)] \o tail
          /\ issued' = issued + n
    BY <2>0
  <2> DEFINE s == [k \in 1 .. n |-> Instr(types[k], issued + k)]
  <2>2. n \in Nat
    BY BoundsAssumption
  <2>3. s \in Seq(Instruction) /\ Ids(s) = (issued + 1) .. (issued + n) /\ Distinct(s)
    BY <1>1, <2>2, Batch, BatchDistinct
  <2> HIDE DEF s
  <2>4. q \o s \in Seq(Instruction) /\ Ids(q \o s) = Ids(q) \cup Ids(s)
    BY <1>1, <2>3, ConcatIds
  <2>5. Distinct(q \o s)
    <3>1. Ids(q) \cap Ids(s) \subseteq {0}
      BY <1>1, <2>2, <2>3
    <3> QED BY <1>1, <2>3, <3>1, ConcatDistinct
  <2>6. HasAdvance(q) => HasAdvance(q \o s)
    BY <1>1, <2>3, ConcatAdvance
  <2>7. queue' = (q \o s) \o tail
    BY <2>1 DEF s
  <2>8. /\ Distinct(queue')
        /\ Ids(queue') \subseteq Ids(q) \cup {0} \cup ((issued + 1) .. issued')
        /\ HasAdvance(q) => HasAdvance(queue')
        /\ tail # <<>> => HasAdvance(queue')
    BY <1>3, <2>1, <2>3, <2>4, <2>5, <2>6, <2>7
  <2>9. running' = running /\ halted' = halted
    BY <1>6 DEF PushBack
  <2> QED BY <2>8, <2>9 DEF QueueFresh
<1>7. CASE Halt(q)
  BY <1>1, <1>7 DEF Halt, QueueFresh
<1> QED BY <1>4, <1>5, <1>6, <1>7 DEF ExecuteRule

\* advance_instruction on a queue of fresh numbers.
LEMMA ExecAdvanceFresh ==
  ASSUME TypeOK, NEW q \in Seq(Instruction), AllNumbered(q, issued), Distinct(q),
         Ids(q) \cap executed = {},
         NEW tail \in {<<>>, <<Advance>>}, ExecAdvance(q, tail)
  PROVE  /\ Distinct(queue') /\ Ids(queue') \cap executed = {}
         /\ instruction'.id \notin Ids(queue') \ {0} /\ instruction'.id \notin executed
         /\ instruction'.type = "noop" => queue' = <<>> \/ (running' /\ queue' = tail)
         /\ running' => running
         /\ running /\ ~running' => queue' = <<>> /\ instruction' = Noop
<1>1. 0 \notin executed /\ running \in BOOLEAN
  BY DEF TypeOK
<1>2. CASE q = <<>>
  <2>1. /\ instruction' = Noop /\ (running' => running)
        /\ queue' = IF running' THEN tail ELSE <<>>
    BY <1>1, <1>2 DEF ExecAdvance
  <2>2. Noop.id = 0
    BY DEF Noop, Instr
  <2>3. queue' \in {<<>>, <<Advance>>} /\ queue' \in {<<>>, tail}
    BY <2>1
  <2>4. Distinct(queue') /\ Ids(queue') \subseteq {0}
    BY <2>3, Tails, TailsDistinct
  <2> QED BY <1>1, <2>1, <2>2, <2>3, <2>4
<1>3. CASE q # <<>>
  <2> DEFINE t == IF running THEN tail ELSE <<>>
  <2>1. instruction' = Head(q) /\ running' = running /\ queue' = Tail(q) \o t
    BY <1>3 DEF ExecAdvance
  <2>2. t \in {<<>>, <<Advance>>}
    OBVIOUS
  <2> HIDE DEF t
  <2>3. t \in Seq(Instruction) /\ Ids(t) \subseteq {0} /\ Distinct(t)
    BY <2>2, Tails, TailsDistinct
  <2>4. Sorted(q, Ids(q)) /\ Tail(q) \in Seq(Instruction)
    <3>1. Sorted(q, Ids(q))
      BY DEF Sorted, Ids
    <3>2. Tail(q) \in Seq(Instruction)
      BY <1>3, HeadTailProperties
    <3> QED BY <3>1, <3>2
  <2>5. Ids(q) = {Head(q).id} \cup Ids(Tail(q)) /\ Head(q).type # "noop"
    BY <1>3, <2>4, Popped
  <2>6. Distinct(Tail(q)) /\ Head(q).id \notin Ids(Tail(q)) \ {0}
    BY <1>3, PoppedDistinct
  <2>7. Ids(Tail(q) \o t) = Ids(Tail(q)) \cup Ids(t)
    BY <2>3, <2>4, ConcatIds
  <2>8. Distinct(Tail(q) \o t)
    <3>1. Ids(Tail(q)) \cap Ids(t) \subseteq {0}
      BY <2>3
    <3> QED BY <2>3, <2>4, <2>6, <3>1, ConcatDistinct
  <2> QED BY <1>1, <2>1, <2>3, <2>5, <2>6, <2>7, <2>8
<1> QED BY <1>2, <1>3

\* What the invariant says of the queue, in the form the steps need it.
LEMMA LoopInvFacts ==
  ASSUME LoopInv
  PROVE  /\ TypeOK /\ TypeInv /\ LossInv /\ OnceInv /\ IdleInv /\ BusinessInv
         /\ QueueOK(queue, behind, issued) /\ Distinct(queue)
         /\ NumberedUpTo(instruction, issued) /\ AllNumbered(queue, issued)
         /\ issued \in Nat /\ executed \subseteq 1 .. issued
         /\ 0 \notin executed /\ Ids(queue) \subseteq 0 .. issued
         /\ queue \in Seq(Instruction) /\ instruction \in Instruction
BY IdsIssued DEF LoopInv, LossInv, TypeInv, TypeOK, OnceInv, QueueOK

LEMMA LoopInvInit == Init => LoopInv
<1> SUFFICES ASSUME Init PROVE LoopInv
  OBVIOUS
<1>1. LossInv
  BY LossInvInit
<1>2. instruction.type \in {"biz", "op"}
  BY KindsAssumption DEF Init, Instr
<1>3. queue = <<>> /\ executed = {} /\ running /\ step = 0 /\ ~holds /\ phase \in {"check", "finish"}
  BY DEF Init
<1>4. Distinct(queue) /\ Ids(queue) = {}
  BY <1>3 DEF Distinct, Ids
<1> QED BY <1>1, <1>2, <1>3, <1>4
        DEF LoopInv, OnceInv, IdleInv, BusinessInv, RoundEnded

\* DispatchRule: the current instruction runs, an advance is appended.
LEMMA DispatchRuleKeepsLoopInv ==
  ASSUME LoopInv, DispatchRule, LossInv' PROVE LoopInv'
<1>1. /\ ExecuteRule(instruction, queue, <<Advance>>) /\ phase = "body"
      /\ instruction' = instruction /\ phase' = "drain"
      /\ instruction.type \in {"biz", "op"}
      /\ executed' = executed \cup {instruction.id} /\ halted \in BOOLEAN
  BY LoopInvFacts DEF DispatchRule, ExecuteRule, TypeOK
<1>2. QueueFresh(queue, <<Advance>>)
  BY <1>1, ExecuteRuleFresh, LoopInvFacts
<1>3. instruction.id \in 1 .. issued /\ running /\ instruction.id \notin Ids(queue)
  BY <1>1, LoopInvFacts DEF NumberedUpTo, OnceInv
<1>4. \A i \in (issued + 1) .. issued' : i \notin 1 .. issued /\ i # 0
  BY LoopInvFacts
<1>5. Ids(queue') \cap executed' = {}
  BY <1>1, <1>2, <1>3, <1>4, LoopInvFacts DEF QueueFresh, OnceInv
<1>6. instruction'.id \notin Ids(queue') \ {0}
  BY <1>1, <1>2, <1>3, <1>4 DEF QueueFresh
<1>7. OnceInv'
  BY <1>1, <1>2, <1>5, <1>6 DEF OnceInv, QueueFresh
<1>8. IdleInv' /\ BusinessInv'
  BY <1>1, <1>2, <1>3 DEF IdleInv, BusinessInv, RoundEnded, QueueFresh
<1> QED BY <1>7, <1>8 DEF LoopInv

\* DrainMetaRule: the front of the queue runs.
LEMMA DrainMetaRuleKeepsLoopInv ==
  ASSUME LoopInv, DrainMetaRule, LossInv' PROVE LoopInv'
<1> DEFINE q == Tail(queue)
<1>1. /\ ExecuteRule(Head(queue), q, <<>>) /\ phase = "drain" /\ phase' = "drain"
      /\ instruction' = instruction /\ running /\ queue # <<>>
      /\ Head(queue).type \notin {"adv", "biz"}
      /\ executed' = executed \cup {Head(queue).id}
  BY DEF DrainMetaRule, Popping, IsMeta, ExecuteRule
<1>2. /\ QueueOK(q, behind, issued)
      /\ Head(queue) \in Instruction /\ NumberedUpTo(Head(queue), issued)
      /\ Head(queue).type # "noop"
      /\ Ids(queue) = {Head(queue).id} \cup Ids(q)
  BY <1>1, Popped, LoopInvFacts DEF QueueOK
<1>3. /\ Distinct(q) /\ Head(queue).id \notin Ids(q) \ {0}
      /\ HasAdvance(queue) => HasAdvance(q)
  BY <1>1, PoppedDistinct, LoopInvFacts
<1> HIDE DEF q
<1>4. QueueFresh(q, <<>>)
  BY <1>1, <1>2, <1>3, ExecuteRuleFresh, LoopInvFacts
<1>5. Head(queue).id \in 1 .. issued
  <2>1. Head(queue).type = "op"
    BY <1>1, <1>2 DEF Instruction
  <2> QED BY <1>2, <2>1 DEF NumberedUpTo
<1>6. \A i \in (issued + 1) .. issued' : i \notin 1 .. issued /\ i # 0
  BY LoopInvFacts
<1>7. /\ Head(queue).id # 0
      /\ instruction.id \in 0 .. issued
      /\ instruction.id # Head(queue).id
      /\ instruction.id \notin Ids(q) \ {0}
  <2>1. Head(queue).id # 0
    BY <1>5
  <2>2. instruction.id \in 0 .. issued
    BY LoopInvFacts DEF NumberedUpTo
  <2> QED BY <1>2, <2>1, <2>2, LoopInvFacts DEF OnceInv
<1>8. Ids(queue') \cap executed' = {}
  BY <1>1, <1>2, <1>3, <1>4, <1>5, <1>6, <1>7, LoopInvFacts DEF QueueFresh, OnceInv
<1>9. instruction'.id \notin Ids(queue') \ {0}
  <2>1. instruction.id \notin (issued + 1) .. issued'
    BY <1>6, <1>7, LoopInvFacts
  <2> QED BY <1>1, <1>4, <1>7, <2>1 DEF QueueFresh
<1>10. running' /\ instruction'.id \in executed' => HasAdvance(queue')
  <2>1. instruction.id \in executed => HasAdvance(queue)
    BY <1>1, LoopInvFacts DEF OnceInv
  <2> QED BY <1>1, <1>3, <1>4, <1>7, <2>1 DEF QueueFresh
<1>11. OnceInv'
  BY <1>1, <1>4, <1>8, <1>9, <1>10 DEF OnceInv, QueueFresh
<1>12. instruction.type # "noop"
  <2>1. queue = <<Advance>> => Head(queue) = Advance /\ Advance.type = "adv"
    BY DEF Advance, Instr
  <2> QED BY <1>1, <2>1, LoopInvFacts DEF IdleInv
<1>13. IdleInv' /\ BusinessInv'
  BY <1>1, <1>4, <1>12 DEF IdleInv, BusinessInv, RoundEnded, QueueFresh
<1> QED BY <1>11, <1>13 DEF LoopInv

\* advance_instruction, wherever it runs: the drain goes on or is over.
LEMMA ExecAdvanceKeepsLoopInv ==
  ASSUME LoopInv, LossInv', NEW q \in Seq(Instruction), AllNumbered(q, issued),
         Distinct(q), Ids(q) \subseteq Ids(queue),
         NEW tail \in {<<>>, <<Advance>>}, ExecAdvance(q, tail),
         UNCHANGED loopVars,
         (phase' = "drain" /\ running) \/ (phase' = "next" /\ q = <<>>),
         tail = <<>> \/ phase' = "drain"
  PROVE  LoopInv'
<1>1. Ids(q) \cap executed = {}
  BY LoopInvFacts DEF OnceInv
<1>2. /\ Distinct(queue') /\ Ids(queue') \cap executed = {}
      /\ instruction'.id \notin Ids(queue') \ {0} /\ instruction'.id \notin executed
      /\ instruction'.type = "noop" => queue' = <<>> \/ (running' /\ queue' = tail)
      /\ running' => running
      /\ running /\ ~running' => queue' = <<>> /\ instruction' = Noop
  BY <1>1, ExecAdvanceFresh, LoopInvFacts
<1>3. executed' = executed /\ halted' = halted
  BY DEF ExecAdvance, history
<1>4. q = <<>> => instruction' = Noop /\ (queue' = <<>> \/ running')
  BY DEF ExecAdvance
<1>5. OnceInv'
  BY <1>2, <1>3 DEF OnceInv
<1>6. IdleInv'
  BY <1>2, <1>3, <1>4 DEF IdleInv
<1>7. BusinessInv'
  BY <1>4 DEF BusinessInv, RoundEnded, Noop, Instr
<1> QED BY <1>5, <1>6, <1>7 DEF LoopInv

LEMMA LoopInvNext == LoopInv /\ [Next]_vars => LoopInv'
<1> SUFFICES ASSUME LoopInv, [Next]_vars PROVE LoopInv'
  OBVIOUS
<1>1. LossInv'
  BY LossInvNext DEF LoopInv
<1>2. /\ queue \in Seq(Instruction) /\ AllNumbered(queue, issued) /\ Distinct(queue)
      /\ OnceInv /\ IdleInv /\ BusinessInv /\ NumberedUpTo(instruction, issued)
      /\ 0 \notin executed /\ running \in BOOLEAN /\ instruction \in Instruction
  BY LoopInvFacts DEF TypeOK
<1> USE DEF LoopInv, OnceInv, IdleInv, BusinessInv, RoundEnded, loopVars,
            execVars, history
<1>3. CASE CheckCondition
  BY <1>1, <1>2, <1>3 DEF CheckCondition
<1>4. CASE DispatchRule
  BY <1>1, <1>4, DispatchRuleKeepsLoopInv
<1>5. CASE DispatchNoop
  <2>1. queue = <<>> /\ instruction.id = 0 /\ running
    BY <1>2, <1>5 DEF DispatchNoop, NumberedUpTo
  <2>2. queue' = <<Advance>>
    BY <1>5, <2>1 DEF DispatchNoop
  <2>3. Distinct(queue') /\ Ids(queue') \subseteq {0} /\ HasAdvance(queue')
    BY <2>2, Tails, TailsDistinct
  <2> QED BY <1>1, <1>2, <1>5, <2>1, <2>2, <2>3 DEF DispatchNoop
<1>6. CASE DispatchAdvance
  BY <1>1, <1>2, <1>6, ExecAdvanceKeepsLoopInv DEF DispatchAdvance
<1>7. CASE DispatchMiss
  BY <1>1, <1>2, <1>7 DEF DispatchMiss
<1>8. CASE DrainStopped
  BY <1>1, <1>2, <1>8 DEF DrainStopped
<1>9. CASE DrainMetaAdvance
  <2>1. /\ queue # <<>> /\ running /\ ExecAdvance(Tail(queue), <<>>)
        /\ phase' = "drain" /\ UNCHANGED loopVars
    BY <1>9 DEF DrainMetaAdvance, Popping
  <2>2. /\ Tail(queue) \in Seq(Instruction) /\ AllNumbered(Tail(queue), issued)
        /\ Ids(Tail(queue)) \subseteq Ids(queue)
    BY <2>1, Popped, LoopInvFacts DEF QueueOK
  <2>3. Distinct(Tail(queue))
    BY <1>2, <2>1, PoppedDistinct
  <2> QED BY <1>1, <2>1, <2>2, <2>3, ExecAdvanceKeepsLoopInv
<1>10. CASE DrainMetaRule
  BY <1>1, <1>10, DrainMetaRuleKeepsLoopInv
<1>11. CASE DrainBusiness
  <2>1. /\ queue # <<>> /\ running /\ ~IsMeta(Head(queue))
        /\ instruction' = Head(queue) /\ queue' = Tail(queue) /\ phase' = "next"
        /\ UNCHANGED <<running, history>>
    BY <1>11 DEF DrainBusiness, Popping
  <2>2. /\ Ids(queue) = {Head(queue).id} \cup Ids(Tail(queue))
        /\ Head(queue).type # "noop"
    BY <2>1, Popped, LoopInvFacts DEF QueueOK
  <2>3. Distinct(Tail(queue)) /\ Head(queue).id \notin Ids(Tail(queue)) \ {0}
    BY <1>2, <2>1, PoppedDistinct
  <2> QED BY <1>1, <1>2, <2>1, <2>2, <2>3 DEF IsMeta
<1>12. CASE DrainIdle
  <2>1. ~HasAdvance(<<>>)
    BY DEF HasAdvance
  <2> QED BY <1>1, <1>2, <1>12, <2>1 DEF DrainIdle, IsMeta
<1>13. CASE DrainAdvance
  BY <1>1, <1>2, <1>13, ExecAdvanceKeepsLoopInv DEF DrainAdvance
<1>14. CASE Fail
  BY <1>1, <1>2, <1>14 DEF Fail
<1>15. CASE EndIteration
  BY <1>1, <1>2, <1>15 DEF EndIteration
<1>16. CASE Finish
  BY <1>1, <1>2, <1>16 DEF Finish
<1>17. CASE UNCHANGED vars
  BY <1>1, <1>2, <1>17 DEF vars, Distinct, Ids, HasAdvance
<1> QED
  BY <1>3, <1>4, <1>5, <1>6, <1>7, <1>8, <1>9, <1>10, <1>11, <1>12, <1>13,
     <1>14, <1>15, <1>16, <1>17
     DEF Next, LoopStep, Dispatch, Drain, Returned

-----------------------------------------------------------------------------
(* CountInv is inductive where dispatch always runs an instruction.        *)

LEMMA ExecutedFinite ==
  ASSUME LoopInv
  PROVE  /\ IsFiniteSet(executed) /\ Cardinality(executed) \in Nat
         /\ \A i : /\ Cardinality(executed \cup {i}) >= Cardinality(executed)
                   /\ i \notin executed =>
                        Cardinality(executed \cup {i}) = Cardinality(executed) + 1
<1>1. executed \subseteq 1 .. issued /\ issued \in Nat
  BY LoopInvFacts
<1>2. IsFiniteSet(1 .. issued)
  BY <1>1, FS_Interval
<1>3. IsFiniteSet(executed)
  BY <1>1, <1>2, FS_Subset
<1>4. Cardinality(executed) \in Nat
  BY <1>3, FS_CardinalityType
<1>5. ASSUME NEW i
      PROVE  Cardinality(executed \cup {i}) =
               IF i \in executed THEN Cardinality(executed) ELSE Cardinality(executed) + 1
  BY <1>3, FS_AddElement
<1>6. \A n \in Nat : n >= n /\ n + 1 >= n
  OBVIOUS
<1> QED BY <1>3, <1>4, <1>5, <1>6

LEMMA CountInvInit == Init => CountInv
<1> SUFFICES ASSUME Init PROVE CountInv
  OBVIOUS
<1>1. LoopInv
  BY LoopInvInit
<1>2. Cardinality(executed) \in Nat
  BY <1>1, ExecutedFinite
<1>3. Rounds = 0
  BY DEF Init, Rounds, RoundEnded
<1> QED BY <1>2, <1>3 DEF Init, CountInv

LEMMA CountInvNext ==
  ASSUME MetaConfigured, "miss" \notin Effects, LoopInv, CountInv, [Next]_vars
  PROVE  CountInv'
<1>1. /\ IsFiniteSet(executed) /\ Cardinality(executed) \in Nat
      /\ \A i : /\ Cardinality(executed \cup {i}) >= Cardinality(executed)
                /\ i \notin executed =>
                     Cardinality(executed \cup {i}) = Cardinality(executed) + 1
  BY ExecutedFinite
<1>2. /\ step \in Nat /\ running \in BOOLEAN /\ holds \in BOOLEAN /\ truncated \in BOOLEAN
      /\ OnceInv /\ IdleInv /\ CurrentAdvance
  BY LoopInvFacts DEF TypeOK, LossInv
<1>3. CASE CheckCondition
  BY <1>1, <1>2, <1>3 DEF CheckCondition, CountInv, Rounds, RoundEnded, execVars, history
<1>4. CASE DispatchRule
  <2>1. /\ executed' = executed \cup {instruction.id} /\ phase = "body" /\ phase' = "drain"
        /\ instruction' = instruction /\ UNCHANGED loopVars /\ instruction.type # "noop"
    BY <1>4 DEF DispatchRule, ExecuteRule
  <2>2. instruction.id \notin executed
    BY <1>2, <2>1 DEF OnceInv
  <2>3. Rounds = step /\ Rounds' = step + 1
    BY <2>1 DEF Rounds, RoundEnded, loopVars
  <2>4. Cardinality(executed') >= Rounds'
    BY <1>1, <1>2, <2>1, <2>2, <2>3 DEF CountInv
  <2> QED BY <2>1, <2>4 DEF CountInv, loopVars
<1>5. CASE DispatchNoop
  BY <1>1, <1>2, <1>5 DEF DispatchNoop, CountInv, loopVars
<1>6. CASE DispatchAdvance
  BY <1>2, <1>6 DEF DispatchAdvance, CurrentAdvance
<1>7. CASE DispatchMiss
  BY <1>7 DEF DispatchMiss
<1>8. CASE DrainStopped
  BY <1>1, <1>2, <1>8 DEF DrainStopped, CountInv, Rounds, RoundEnded, loopVars, execVars, history
<1>9. CASE DrainMetaAdvance
  <2>1. /\ queue # <<>> /\ ExecAdvance(Tail(queue), <<>>) /\ phase = "drain"
        /\ phase' = "drain" /\ UNCHANGED loopVars
    BY <1>9 DEF DrainMetaAdvance, Popping
  <2>2. executed' = executed /\ (Tail(queue) = <<>> => instruction' = Noop)
    BY <2>1 DEF ExecAdvance, history
  <2>3. instruction.type = "noop" => Tail(queue) = <<>>
    <3>1. Tail(<<Advance>>) = <<>>
      OBVIOUS
    <3> QED BY <1>2, <2>1, <3>1 DEF IdleInv
  <2>4. instruction'.type # "noop" => instruction.type # "noop"
    BY <2>2, <2>3 DEF Noop, Instr
  <2>5. Rounds' = Rounds
    BY <2>1 DEF Rounds, RoundEnded, loopVars
  <2> QED BY <2>1, <2>2, <2>4, <2>5 DEF CountInv, loopVars
<1>10. CASE DrainMetaRule
  <2>1. /\ executed' = executed \cup {Head(queue).id} /\ phase = "drain"
        /\ phase' = "drain" /\ instruction' = instruction /\ UNCHANGED loopVars
    BY <1>10 DEF DrainMetaRule, Popping, ExecuteRule
  <2>2. Rounds' = Rounds /\ Rounds = step + 1
    BY <2>1 DEF Rounds, RoundEnded, loopVars
  <2>3. Cardinality(executed') >= Cardinality(executed) /\ Cardinality(executed') \in Nat
    <3>1. Cardinality(executed') >= Cardinality(executed)
      BY <1>1, <2>1
    <3>2. IsFiniteSet(executed')
      BY <1>1, <2>1, FS_AddElement
    <3> QED BY <3>1, <3>2, FS_CardinalityType
  <2>4. instruction'.type # "noop" => Cardinality(executed') >= Rounds'
    BY <1>1, <1>2, <2>1, <2>2, <2>3 DEF CountInv
  <2> QED BY <2>1, <2>4 DEF CountInv, loopVars
<1>11. CASE DrainBusiness
  <2>1. /\ queue # <<>> /\ running /\ ~IsMeta(Head(queue)) /\ phase = "drain"
        /\ phase' = "next" /\ UNCHANGED <<loopVars, history>>
    BY <1>11 DEF DrainBusiness, Popping
  <2>2. instruction.type # "noop"
    <3>1. Head(<<Advance>>) = Advance /\ IsMeta(Advance)
      BY DEF IsMeta, Advance, Instr
    <3> QED BY <1>2, <2>1, <3>1 DEF IdleInv
  <2>3. Rounds' = Rounds
    BY <2>1 DEF Rounds, RoundEnded, loopVars
  <2> QED BY <2>1, <2>2, <2>3 DEF CountInv, loopVars, history
<1>12. CASE DrainIdle
  BY <1>1, <1>2, <1>12 DEF DrainIdle, CountInv, Rounds, RoundEnded, loopVars, execVars, history
<1>13. CASE DrainAdvance
  <2>1. /\ instruction' = Noop /\ phase' = "next" /\ phase = "drain" /\ UNCHANGED loopVars
    BY <1>13 DEF DrainAdvance, ExecAdvance
  <2> QED BY <2>1 DEF CountInv, loopVars, Noop, Instr
<1>14. CASE Fail
  BY <1>1, <1>2, <1>14 DEF Fail, CountInv, Rounds, RoundEnded, loopVars, execVars, history
<1>15. CASE EndIteration
  BY <1>1, <1>2, <1>15 DEF EndIteration, CountInv, Rounds, RoundEnded, execVars, history
<1>16. CASE Finish
  BY <1>1, <1>2, <1>16 DEF Finish, CountInv, Rounds, RoundEnded, execVars, history
<1>17. CASE UNCHANGED vars
  BY <1>17 DEF vars, CountInv, Rounds, RoundEnded, loopVars, execVars, history
<1> QED
  BY <1>3, <1>4, <1>5, <1>6, <1>7, <1>8, <1>9, <1>10, <1>11, <1>12, <1>13,
     <1>14, <1>15, <1>16, <1>17
     DEF Next, LoopStep, Dispatch, Drain, Returned

-----------------------------------------------------------------------------
(* Every field of the loop keeps to its type, whatever the rule program    *)
(* and the configuration are.                                              *)
THEOREM TypeCorrect == Spec => []TypeOK
<1>1. LossInv => TypeOK
  BY DEF LossInv, TypeInv
<1> QED BY LossInvInit, LossInvNext, <1>1, PTL DEF Spec

(* The queue discipline: an instruction that was not appended behind an    *)
(* advance_instruction is never dropped by drain_queue.  It holds for      *)
(* every rule program, every list of meta types, every termination domain  *)
(* and every max_steps.                                                    *)
THEOREM QueueDiscipline == Spec => []NoSafeLoss
<1>1. LossInv => NoSafeLoss
  BY DEF LossInv
<1> QED BY LossInvInit, LossInvNext, <1>1, PTL DEF Spec

(* Corollary for disciplined rule programs: if nothing is ever appended    *)
(* behind an advance, nothing at all is lost.                              *)
THEOREM DisciplinedNothingLost == Spec => [](behind = {} => NothingLost)
<1>1. LossInv /\ behind = {} => NothingLost
  BY DEF LossInv, NoSafeLoss, NothingLost
<1> QED BY LossInvInit, LossInvNext, <1>1, PTL DEF Spec

(* No instruction runs twice, whatever the rule program and the list of    *)
(* meta types are: neither by dispatch nor by the drain, and not although  *)
(* an instruction stays in __exec__.instruction after its body ran.        *)
THEOREM EachRunsAtMostOnce == Spec => []RunsAtMostOnce
<1>1. LoopInv => RunsAtMostOnce
  <2> SUFFICES ASSUME LoopInv PROVE RunsAtMostOnce
    OBVIOUS
  <2>1. phase = "body" => running /\ instruction.id \notin executed
    BY DEF LoopInv, OnceInv
  <2> QED BY <2>1 DEF LoopInv, OnceInv, RunsAtMostOnce, Distinct
<1> QED BY LoopInvInit, LoopInvNext, <1>1, PTL DEF Spec

(* The drain leaves no meta instruction to dispatch.                       *)
THEOREM DrainLeavesBusiness == Spec => []DispatchSeesBusiness
<1>1. LoopInv => DispatchSeesBusiness
  BY DEF LoopInv, OnceInv, BusinessInv, DispatchSeesBusiness
<1> QED BY LoopInvInit, LoopInvNext, <1>1, PTL DEF Spec

(* The loop that stops by itself leaves nothing undone, and it never goes  *)
(* round with the default instruction while something waits.               *)
THEOREM ExitComplete == Spec => []NormalExitComplete
<1>1. LoopInv => NormalExitComplete
  <2> SUFFICES ASSUME LoopInv,
                      \/ phase = "done" /\ ~running /\ ~halted
                      \/ phase = "body" /\ instruction.type = "noop"
               PROVE  queue = <<>> /\ (1 .. issued) \ behind \subseteq executed \cup refused
    BY DEF NormalExitComplete
  <2>1. queue = <<>> /\ instruction.id = 0
    BY LoopInvFacts DEF IdleInv, NumberedUpTo, Noop, Instr
  <2>2. ASSUME NEW i \in (1 .. issued) \ behind PROVE i \in executed \cup refused
    <3>1. i # 0
      OBVIOUS
    <3> QED BY <2>1, <3>1 DEF LoopInv, LossInv, NoSafeLoss, Waiting, Ids
  <2> QED BY <2>1, <2>2
<1> QED BY LoopInvInit, LoopInvNext, <1>1, PTL DEF Spec

(* A cleared __running is final, whatever is left in the queue.            *)
THEOREM StopIsFinal == Spec => StoppedStaysStopped
<1>1. LoopInv /\ [Next]_vars =>
        [~running => ~running' /\ executed' = executed /\ issued' = issued]_vars
  <2> SUFFICES ASSUME LoopInv, Next, ~running
               PROVE  ~running' /\ executed' = executed /\ issued' = issued
    BY DEF vars
  <2>1. phase \notin {"check", "body"}
    BY LoopInvFacts DEF OnceInv
  <2>2. CASE DrainAdvance
    BY <2>2, LoopInvFacts DEF DrainAdvance, ExecAdvance, history
  <2>3. CASE ~DrainAdvance
    BY <2>1, <2>3
    DEF Next, LoopStep, Returned, Dispatch, Drain, CheckCondition, DispatchRule,
        DispatchNoop, DispatchAdvance, DispatchMiss, DrainStopped,
        DrainMetaAdvance, DrainMetaRule, DrainBusiness, DrainIdle, Popping,
        Fail, EndIteration, Finish, execVars, history, vars
  <2> QED BY <2>2, <2>3
<1> QED BY LoopInvInit, LoopInvNext, <1>1, PTL DEF Spec, StoppedStaysStopped

(* __terminated_by_max_steps means what its name says, if the meta types   *)
(* are configured and dispatch finds an entry for every instruction.       *)
THEOREM TruncationIsHonest ==
  ASSUME MetaConfigured, "miss" \notin Effects
  PROVE  Spec => []TruncationMeansWorkLeft
<1>1. LoopInv /\ CountInv => TruncationMeansWorkLeft
  <2> SUFFICES ASSUME LoopInv, CountInv, truncated PROVE TruncationMeansWorkLeft
    BY DEF TruncationMeansWorkLeft
  <2>1. /\ phase = "done" /\ holds /\ running /\ step = (maxSteps - 1) % WordSize
        /\ instruction.type \in {"biz", "noop"}
    BY LoopInvFacts DEF CountInv, BusinessInv, RoundEnded
  <2>2. step + 1 = maxSteps
    <3>1. maxSteps \in 0 .. (WordSize - 1) /\ maxSteps # 0
      BY <2>1, LoopInvFacts DEF TypeOK, CountInv
    <3>2. \A w \in Nat \ {0} : \A m \in 1 .. (w - 1) : (m - 1) % w = m - 1
      OBVIOUS
    <3>3. maxSteps \in 1 .. (WordSize - 1)
      BY <3>1, StepsAssumption
    <3> QED BY <2>1, <3>2, <3>3, StepsAssumption
  <2>3. CASE instruction.type = "biz"
    <3>1. Rounds = step + 1
      BY <2>1 DEF Rounds, RoundEnded
    <3>2. instruction.id \notin executed
      BY <2>1, LoopInvFacts DEF OnceInv
    <3> QED BY <2>2, <2>3, <3>1, <3>2 DEF CountInv, TruncationMeansWorkLeft
  <2>4. CASE instruction.type = "noop"
    <3>1. queue = <<>> /\ instruction.id = 0
      BY <2>1, <2>4, LoopInvFacts DEF IdleInv, NumberedUpTo
    <3>2. ASSUME NEW i \in (1 .. issued) \ behind PROVE i \in executed \cup refused
      <4>1. i # 0
        OBVIOUS
      <4> QED BY <3>1, <4>1 DEF LoopInv, LossInv, NoSafeLoss, Waiting, Ids
    <3> QED BY <2>4, <3>1, <3>2 DEF TruncationMeansWorkLeft
  <2> QED BY <2>1, <2>3, <2>4
<1>2. CountInv /\ LoopInv /\ [Next]_vars => CountInv'
  BY CountInvNext
<1> QED BY LoopInvInit, LoopInvNext, CountInvInit, <1>1, <1>2, PTL DEF Spec
-----------------------------------------------------------------------------
(* The numbers of a queue, as a sequence.                                  *)

\* The first n instructions of q are the numbered ones.
FrontNumbered(q, n) ==
  /\ n <= Len(q)
  /\ \A k \in DOMAIN q : q[k].id # 0 <=> k <= n

\* A nonempty set of naturals has a least element.
LEMMA LeastNat ==
  ASSUME NEW T, T \subseteq Nat, T # {}
  PROVE  \E m \in T : \A k \in T : m <= k
<1> DEFINE R == {ss \in Nat \X Nat : ss[1] < ss[2]}
<1>1. IsWellFoundedOn(R, Nat)
  BY NatLessThanWellFounded DEF OpToRel
<1>2. \A y, x \in Nat : y < x => <<y, x>> \in R
  OBVIOUS
<1> HIDE DEF R
<1>3. PICK m \in T : \A k \in T : ~ (<<k, m>> \in R)
  BY <1>1, WFMin
<1>4. ASSUME NEW k \in T PROVE m <= k
  <2>1. m \in Nat /\ k \in Nat /\ ~(k < m)
    BY <1>2, <1>3
  <2> QED BY <2>1
<1> QED BY <1>4

\* Where nothing is numbered behind an advance, the numbered come first.
LEMMA SortedFront ==
  ASSUME NEW q, NEW c, QueueOK(q, {}, c)
  PROVE  \E n \in Nat : FrontNumbered(q, n)
<1>1. /\ q \in Seq(Instruction) /\ Sorted(q, {}) /\ AllNumbered(q, c)
      /\ Len(q) \in Nat
  BY DEF QueueOK
<1>2. ASSUME NEW j \in DOMAIN q, NEW k \in DOMAIN q, j < k, q[j].id = 0
      PROVE  q[k].id = 0
  <2>1. q[j] \in Instruction
    BY <1>1
  <2>2. q[j].type = "adv"
    BY <1>1, <1>2, <2>1 DEF AllNumbered, NumberedUpTo, Instruction
  <2> QED BY <1>1, <1>2, <2>2 DEF Sorted
<1> DEFINE T == {k \in DOMAIN q : q[k].id = 0}
<1>3. CASE T = {}
  BY <1>1, <1>3 DEF FrontNumbered
<1>4. CASE T # {}
  <2>1. T \subseteq Nat
    BY <1>1
  <2>2. PICK m \in T : \A k \in T : m <= k
    BY <1>4, <2>1, LeastNat
  <2>3. m \in 1 .. Len(q) /\ q[m].id = 0
    BY <1>1
  <2>4. m - 1 \in Nat /\ m - 1 <= Len(q)
    BY <1>1, <2>3
  <2>5. ASSUME NEW k \in DOMAIN q PROVE q[k].id # 0 <=> k <= m - 1
    <3>1. CASE k <= m - 1
      BY <1>1, <2>2, <2>3, <3>1
    <3>2. CASE ~(k <= m - 1)
      <4>1. k = m \/ m < k
        BY <1>1, <2>3, <3>2
      <4> QED BY <1>1, <1>2, <2>3, <3>2, <4>1
    <3> QED BY <3>1, <3>2
  <2> QED BY <1>1, <2>4, <2>5 DEF FrontNumbered
<1> QED BY <1>3, <1>4

LEMMA FunctionIsSeq ==
  ASSUME NEW S, NEW n \in Nat, NEW f \in [1 .. n -> S]
  PROVE  f \in Seq(S) /\ Len(f) = n
<1>1. f \in Seq(S)
  OBVIOUS
<1>2. DOMAIN f = 1 .. n
  OBVIOUS
<1> QED BY <1>1, <1>2

LEMMA NumbersOfFront ==
  ASSUME NEW q \in Seq(Instruction), NEW n \in Nat, FrontNumbered(q, n)
  PROVE  Numbers(q) = [k \in 1 .. n |-> q[k].id]
<1>1. {j \in DOMAIN q : q[j].id # 0} = 1 .. n
  BY DEF FrontNumbered
<1>2. Cardinality(1 .. n) = n
  BY FS_Interval
<1> QED BY <1>1, <1>2 DEF Numbers

\* Concatenation where everything in p is numbered, or nothing in q.
LEMMA ConcatNumbers ==
  ASSUME NEW p \in Seq(Instruction), NEW m \in Nat, FrontNumbered(p, m),
         NEW q \in Seq(Instruction), NEW n \in Nat, FrontNumbered(q, n),
         m = Len(p) \/ n = 0
  PROVE  Numbers(p \o q) = Numbers(p) \o Numbers(q)
<1>1. /\ Len(p) \in Nat /\ Len(q) \in Nat
      /\ m <= Len(p) /\ n <= Len(q)
  BY DEF FrontNumbered
<1>2. /\ Len(p \o q) = Len(p) + Len(q)
      /\ \A k \in 1 .. Len(p) + Len(q) :
           (p \o q)[k] = IF k <= Len(p) THEN p[k] ELSE q[k - Len(p)]
      /\ p \o q \in Seq(Instruction)
  BY <1>1, ConcatProperties
<1>3. FrontNumbered(p \o q, m + n)
  <2>1. m + n <= Len(p \o q)
    BY <1>1, <1>2
  <2>2. ASSUME NEW k \in DOMAIN (p \o q)
        PROVE  (p \o q)[k].id # 0 <=> k <= m + n
    <3>1. CASE k <= Len(p)
      <4>1. k \in DOMAIN p /\ (p \o q)[k] = p[k]
        BY <1>1, <1>2, <3>1
      <4>2. p[k].id # 0 <=> k <= m
        BY <4>1 DEF FrontNumbered
      <4>3. k <= m <=> k <= m + n
        BY <1>1, <1>2, <3>1
      <4> QED BY <4>1, <4>2, <4>3
    <3>2. CASE ~(k <= Len(p))
      <4>1. k - Len(p) \in DOMAIN q /\ (p \o q)[k] = q[k - Len(p)]
        BY <1>1, <1>2, <3>2
      <4>2. q[k - Len(p)].id # 0 <=> k - Len(p) <= n
        BY <4>1 DEF FrontNumbered
      <4>3. k - Len(p) <= n <=> k <= m + n
        BY <1>1, <1>2, <3>2
      <4> QED BY <4>1, <4>2, <4>3
    <3> QED BY <3>1, <3>2
  <2> QED BY <1>2, <2>1, <2>2 DEF FrontNumbered
<1>4. /\ Numbers(p) = [k \in 1 .. m |-> p[k].id]
      /\ Numbers(q) = [k \in 1 .. n |-> q[k].id]
      /\ Numbers(p \o q) = [k \in 1 .. m + n |-> (p \o q)[k].id]
  <2>1. m + n \in Nat
    OBVIOUS
  <2> QED BY <1>2, <1>3, <2>1, NumbersOfFront
<1> DEFINE a == [k \in 1 .. m |-> p[k].id]
           b == [k \in 1 .. n |-> q[k].id]
           c == [k \in 1 .. m + n |-> (p \o q)[k].id]
<1>5. /\ \A k \in 1 .. m : p[k].id \in Nat
      /\ \A k \in 1 .. n : q[k].id \in Nat
  <2>1. \A i \in Instruction : i.id \in Nat
    BY DEF Instruction
  <2>2. /\ \A k \in 1 .. m : p[k] \in Instruction
        /\ \A k \in 1 .. n : q[k] \in Instruction
    BY <1>1
  <2> QED BY <2>1, <2>2
<1>6. a \in Seq(Nat) /\ b \in Seq(Nat) /\ Len(a) = m /\ Len(b) = n
  BY <1>1, <1>5
<1>7. c \in Seq(Nat) /\ Len(c) = m + n
  <2>1. \A k \in 1 .. m + n : (p \o q)[k] \in Instruction
    BY <1>1, <1>2
  <2>2. \A i \in Instruction : i.id \in Nat
    BY DEF Instruction
  <2>3. \A k \in 1 .. m + n : (p \o q)[k].id \in Nat
    BY <2>1, <2>2
  <2>4. m + n \in Nat
    OBVIOUS
  <2> HIDE DEF c
  <2>5. c = [k \in 1 .. m + n |-> (p \o q)[k].id]
    BY DEF c
  <2>6. c \in [1 .. m + n -> Nat]
    BY <2>3, <2>5
  <2> QED BY <2>4, <2>6, FunctionIsSeq
<1>8. /\ a \o b \in Seq(Nat) /\ Len(a \o b) = m + n
      /\ \A k \in 1 .. m + n :
           (a \o b)[k] = IF k <= m THEN a[k] ELSE b[k - m]
  BY <1>6, ConcatProperties
<1>9. ASSUME NEW k \in 1 .. m + n PROVE c[k] = (a \o b)[k]
  <2>1. CASE k <= m
    <3>1. (p \o q)[k] = p[k] /\ k \in 1 .. m
      BY <1>1, <1>2, <2>1
    <3> QED BY <1>8, <2>1, <3>1
  <2>2. CASE ~(k <= m)
    <3>1. m = Len(p) /\ k - m \in 1 .. n
      BY <1>1, <2>2
    <3>2. (p \o q)[k] = q[k - m]
      BY <1>1, <1>2, <2>2, <3>1
    <3> QED BY <1>8, <2>2, <3>1, <3>2
  <2> QED BY <2>1, <2>2
<1> HIDE DEF a, b, c
<1>10. c = a \o b
  BY <1>7, <1>8, <1>9, SeqEqual
<1> QED BY <1>4, <1>10 DEF a, b, c
\* A queue of nothing but advances holds no number.
LEMMA ZeroNumbers ==
  ASSUME NEW q \in Seq(Instruction), Ids(q) \subseteq {0}
  PROVE  FrontNumbered(q, 0) /\ Numbers(q) = <<>>
<1>1. \A k \in DOMAIN q : q[k].id = 0 /\ ~(k <= 0)
  <2>1. \A k \in DOMAIN q : q[k].id \in {0}
    BY DEF Ids
  <2>2. \A k \in DOMAIN q : ~(k <= 0)
    OBVIOUS
  <2> QED BY <2>1, <2>2
<1>2. FrontNumbered(q, 0)
  <2>1. 0 <= Len(q)
    OBVIOUS
  <2> QED BY <1>1, <2>1 DEF FrontNumbered
<1>3. Numbers(q) = [k \in 1 .. 0 |-> q[k].id]
  BY <1>2, NumbersOfFront
<1>4. [k \in 1 .. 0 |-> q[k].id] = <<>>
  OBVIOUS
<1> QED BY <1>2, <1>3, <1>4

LEMMA SingleNumbers ==
  ASSUME NEW i \in Instruction, i.id # 0
  PROVE  <<i>> \in Seq(Instruction) /\ FrontNumbered(<<i>>, 1) /\ Numbers(<<i>>) = <<i.id>>
<1>1. <<i>> \in Seq(Instruction) /\ Len(<<i>>) = 1 /\ <<i>>[1] = i
  OBVIOUS
<1>2. FrontNumbered(<<i>>, 1)
  BY <1>1 DEF FrontNumbered
<1>3. Numbers(<<i>>) = [k \in 1 .. 1 |-> <<i>>[k].id]
  BY <1>1, <1>2, NumbersOfFront
<1>4. [k \in 1 .. 1 |-> <<i>>[k].id] = <<i.id>>
  OBVIOUS
<1> QED BY <1>1, <1>2, <1>3, <1>4

\* The batch of push_instruction_sequence.
LEMMA BatchNumbers ==
  ASSUME NEW n \in Nat, NEW types \in [1 .. n -> Kinds], NEW c \in Nat,
         NEW s, s = [k \in 1 .. n |-> Instr(types[k], c + k)]
  PROVE  s \in Seq(Instruction) /\ FrontNumbered(s, n)
<1>1. s \in Seq(Instruction)
  BY Batch
<1>2. Len(s) = n /\ \A k \in 1 .. n : s[k].id = c + k
  BY <1>1 DEF Instr
<1>3. FrontNumbered(s, n)
  BY <1>1, <1>2 DEF FrontNumbered
<1> QED BY <1>1, <1>2, <1>3

\* A well-formed queue: its numbers are a sequence, and the head comes first.
LEMMA QueueNumbers ==
  ASSUME NEW q, NEW c, QueueOK(q, {}, c)
  PROVE  /\ Numbers(q) \in Seq(Nat)
         /\ q # <<>> /\ Head(q).id # 0 => Numbers(q) = <<Head(q).id>> \o Numbers(Tail(q))
         /\ q # <<>> /\ Head(q).id = 0 => Ids(q) \subseteq {0} /\ Ids(Tail(q)) \subseteq {0}
<1>1. q \in Seq(Instruction) /\ Sorted(q, {}) /\ AllNumbered(q, c)
  BY DEF QueueOK
<1>2. PICK n \in Nat : FrontNumbered(q, n)
  BY SortedFront
<1>3. Numbers(q) \in Seq(Nat)
  <2>1. Numbers(q) = [k \in 1 .. n |-> q[k].id]
    BY <1>1, <1>2, NumbersOfFront
  <2>2. \A k \in 1 .. n : q[k] \in Instruction
    BY <1>1, <1>2 DEF FrontNumbered
  <2>3. \A k \in 1 .. n : q[k].id \in Nat
    BY <2>2 DEF Instruction
  <2> QED BY <2>1, <2>3
<1>4. ASSUME q # <<>>
      PROVE  /\ Head(q) \in Instruction /\ QueueOK(Tail(q), {}, c)
             /\ Head(q).type = "adv" => Ids(Tail(q)) \subseteq {0}
             /\ Head(q).id = 0 => Head(q).type = "adv"
             /\ Ids(q) = {Head(q).id} \cup Ids(Tail(q))
  <2>1. /\ Head(q) \in Instruction /\ QueueOK(Tail(q), {}, c)
        /\ NumberedUpTo(Head(q), c) /\ Head(q).type # "noop"
        /\ Head(q).type = "adv" => AllBehind(Tail(q), {})
        /\ Ids(q) = {Head(q).id} \cup Ids(Tail(q))
    BY <1>1, <1>4, Popped DEF QueueOK
  <2>2. Head(q).id = 0 => Head(q).type = "adv"
    BY <2>1 DEF NumberedUpTo, Instruction
  <2> QED BY <2>1, <2>2 DEF AllBehind
<1>5. ASSUME q # <<>>, Head(q).id # 0
      PROVE  Numbers(q) = <<Head(q).id>> \o Numbers(Tail(q))
  <2>1. q = <<Head(q)>> \o Tail(q)
    BY <1>1, <1>5, HeadTailProperties
  <2>2. /\ <<Head(q)>> \in Seq(Instruction) /\ FrontNumbered(<<Head(q)>>, 1)
        /\ Numbers(<<Head(q)>>) = <<Head(q).id>> /\ Len(<<Head(q)>>) = 1
    BY <1>4, <1>5, SingleNumbers
  <2>3. PICK m \in Nat : FrontNumbered(Tail(q), m)
    BY <1>4, <1>5, SortedFront
  <2>4. Tail(q) \in Seq(Instruction)
    BY <1>4, <1>5 DEF QueueOK
  <2>5. Numbers(<<Head(q)>> \o Tail(q)) = Numbers(<<Head(q)>>) \o Numbers(Tail(q))
    BY <2>2, <2>3, <2>4, ConcatNumbers
  <2> QED BY <2>1, <2>2, <2>5
<1> QED BY <1>3, <1>4, <1>5

\* Nothing dispatch appends afterwards is numbered.
LEMMA TailNumbers ==
  ASSUME NEW q, NEW c, QueueOK(q, {}, c), NEW t \in {<<>>, <<Advance>>}
  PROVE  Numbers(q \o t) = Numbers(q)
<1>1. t \in Seq(Instruction) /\ Ids(t) \subseteq {0} /\ q \in Seq(Instruction)
  BY Tails DEF QueueOK
<1>2. FrontNumbered(t, 0) /\ Numbers(t) = <<>>
  BY <1>1, ZeroNumbers
<1>3. PICK n \in Nat : FrontNumbered(q, n)
  BY SortedFront
<1>4. Numbers(q \o t) = Numbers(q) \o Numbers(t)
  BY <1>1, <1>2, <1>3, ConcatNumbers
<1>5. Numbers(q) \in Seq(Nat)
  BY QueueNumbers
<1> QED BY <1>2, <1>4, <1>5, ConcatEmptySeq

-----------------------------------------------------------------------------
(* The step mapping.                                                       *)

\* The head x of the work list runs and n fresh instructions come in.
LEMMA RunStep ==
  ASSUME NEW n \in 0 .. MaxBatch, NEW x \in Nat, NEW s \in Seq(Nat), issued \in Nat,
         Todo = <<x>> \o s, Outcome = "open", Outcome' = "open",
         issued' = issued + n, issued' <= MaxIssued, executed' = executed \cup {x},
         \/ Todo' = [k \in 1 .. n |-> issued + k] \o s
         \/ Todo' = s \o [k \in 1 .. n |-> issued + k]
  PROVE  Stream!Next
<1>1. Todo # <<>> /\ Head(Todo) = x /\ Tail(Todo) = s
  OBVIOUS
<1>2. Stream!Run(n)
  BY <1>1 DEF Stream!Run
<1> QED BY <1>2 DEF Stream!Next

\* ... or it clears __running.
LEMMA HaltStep ==
  ASSUME NEW x \in Nat, NEW s \in Seq(Nat),
         Todo = <<x>> \o s, Outcome = "open", Outcome' = "stopped",
         issued' = issued, executed' = executed \cup {x}, Todo' = s
  PROVE  Stream!Next
<1>1. Todo # <<>> /\ Head(Todo) = x /\ Tail(Todo) = s
  OBVIOUS
<1>2. Stream!RunAndStop
  BY <1>1 DEF Stream!RunAndStop
<1> QED BY <1>2 DEF Stream!Next

\* What the invariant says, in the form the steps need it.
LEMMA StreamFacts ==
  ASSUME StreamInv
  PROVE  /\ LoopInv /\ TypeOK /\ QueueOK(queue, {}, issued) /\ issued \in Nat
         /\ queue \in Seq(Instruction) /\ Numbers(queue) \in Seq(Nat)
         /\ instruction \in Instruction /\ NumberedUpTo(instruction, issued)
         /\ phase = "drain" => instruction.id \in executed \cup {0}
         /\ phase = "drain" => Current = <<>> /\ Todo = Numbers(queue)
         /\ instruction.id = 0 => Current = <<>> /\ Todo = Numbers(queue)
         /\ phase = "body" => running /\ instruction.id \notin executed
         /\ running /\ phase \notin {"done", "failed"} => Outcome = "open"
<1>1. /\ LoopInv /\ behind = {} /\ refused = {}
  BY DEF StreamInv
<1>2. /\ TypeOK /\ QueueOK(queue, {}, issued) /\ issued \in Nat
      /\ queue \in Seq(Instruction)
      /\ instruction \in Instruction /\ NumberedUpTo(instruction, issued)
  BY <1>1, LoopInvFacts
<1>3. Numbers(queue) \in Seq(Nat)
  BY <1>2, QueueNumbers
<1>4. <<>> \o Numbers(queue) = Numbers(queue)
  BY <1>3, ConcatEmptySeq
<1>5. phase = "drain" => instruction.id \in executed \cup {0}
  BY <1>1 DEF LoopInv, LossInv, CurrentExpendable
<1>6. /\ phase = "drain" => Current = <<>> /\ Todo = Numbers(queue)
      /\ instruction.id = 0 => Current = <<>> /\ Todo = Numbers(queue)
  BY <1>4, <1>5 DEF Current, Todo
<1>7. phase = "body" => running /\ instruction.id \notin executed
  BY <1>1, LoopInvFacts DEF OnceInv
<1>8. running /\ phase \notin {"done", "failed"} => Outcome = "open"
  BY DEF Outcome, StreamInv
<1> QED BY <1>1, <1>2, <1>3, <1>5, <1>6, <1>7, <1>8

\* The body of the instruction at the head of the work list.
LEMMA ExecuteRuleStep ==
  ASSUME StreamInv, behind' = {},
         NEW i \in Instruction, NEW q, QueueOK(q, {}, issued),
         NEW tail \in {<<>>, <<Advance>>}, ExecuteRule(i, q, tail),
         Todo = <<i.id>> \o Numbers(q), Todo' = Numbers(queue'),
         running, phase \notin {"done", "failed"}, phase' = "drain",
         UNCHANGED truncated
  PROVE  Stream!Next
<1>1. /\ issued \in Nat /\ Outcome = "open" /\ issued <= MaxIssued /\ behind = {}
      /\ ~truncated /\ ~halted /\ i.id \in Nat
  BY StreamFacts DEF StreamInv, Instruction
<1>2. executed' = executed \cup {i.id} /\ MaxBatch \in Nat \ {0}
  BY BoundsAssumption DEF ExecuteRule
<1>3. Numbers(q) \in Seq(Nat) /\ q \in Seq(Instruction)
  BY QueueNumbers DEF QueueOK
<1>4. running' /\ ~halted' => Outcome' = "open"
  BY <1>1 DEF Outcome
<1>5. CASE RunPlain(q, tail)
  <2>1. /\ queue' = q \o tail /\ issued' = issued + 0 /\ Outcome' = "open"
    BY <1>1, <1>4, <1>5 DEF RunPlain
  <2>2. Todo' = Numbers(q)
    BY <2>1, TailNumbers
  <2>3. Numbers(q) = [k \in 1 .. 0 |-> issued + k] \o Numbers(q)
    <3>1. [k \in 1 .. 0 |-> issued + k] = <<>>
      OBVIOUS
    <3> QED BY <1>3, <3>1, ConcatEmptySeq
  <2>4. 0 \in 0 .. MaxBatch /\ issued' <= MaxIssued
    BY <1>1, <1>2, <2>1
  <2> QED BY <1>1, <1>2, <1>3, <2>1, <2>2, <2>3, <2>4, RunStep
<1>6. CASE PushFront(q, tail)
  <2>1. PICK t \in Kinds : queue' = <<Instr(t, issued + 1)>> \o q \o tail
    BY <1>6 DEF PushFront
  <2> DEFINE f == <<Instr(t, issued + 1)>>
  <2>2. issued' = issued + 1 /\ issued' <= MaxIssued /\ Outcome' = "open"
    <3>1. issued' = issued + 1 /\ issued < MaxIssued /\ running' /\ ~halted'
      BY <1>1, <1>6 DEF PushFront
    <3> QED BY <1>1, <1>4, <3>1, BoundsAssumption
  <2>3. /\ f \in Seq(Instruction) /\ FrontNumbered(f, 1)
        /\ Numbers(f) = <<issued + 1>> /\ Len(f) = 1
    <3>1. /\ Instr(t, issued + 1) \in Instruction /\ Instr(t, issued + 1).id = issued + 1
          /\ issued + 1 # 0
      BY <1>1, KindsAssumption DEF Instr, Instruction
    <3> QED BY <3>1, SingleNumbers
  <2>4. QueueOK(f \o q, {}, issued + 1)
    <3>1. QueueOK(f, {}, issued + 1) /\ ~HasAdvance(f)
      <4>1. f[1] = Instr(t, issued + 1) /\ DOMAIN f = {1}
        OBVIOUS
      <4>2. /\ f[1].type \in {"biz", "op"} /\ f[1].id \in 1 .. (issued + 1)
        BY <1>1, <4>1, KindsAssumption DEF Instr
      <4> HIDE DEF f
      <4> QED BY <2>3, <4>1, <4>2 DEF QueueOK, Sorted, AllNumbered, NumberedUpTo, HasAdvance
    <3>2. QueueOK(q, {}, issued + 1)
      BY <1>1, <1>3, QueueMonotone DEF QueueOK
    <3> QED BY <3>1, <3>2, QueueOKConcat
  <2> HIDE DEF f
  <2>5. Numbers(f \o q) = <<issued + 1>> \o Numbers(q)
    <3>1. PICK n \in Nat : FrontNumbered(q, n)
      BY SortedFront
    <3> QED BY <1>3, <2>3, <3>1, ConcatNumbers
  <2>6. Numbers((f \o q) \o tail) = Numbers(f \o q)
    BY <2>4, TailNumbers
  <2>7. queue' = (f \o q) \o tail
    BY <2>1 DEF f
  <2>8. [k \in 1 .. 1 |-> issued + k] = <<issued + 1>>
    OBVIOUS
  <2>9. Todo' = [k \in 1 .. 1 |-> issued + k] \o Numbers(q)
    BY <2>5, <2>6, <2>7, <2>8
  <2>10. 1 \in 0 .. MaxBatch
    BY <1>2
  <2> QED BY <1>1, <1>2, <1>3, <2>2, <2>9, <2>10, RunStep
<1>7. CASE PushBack(q, tail)
  <2>0. PICK n \in 1 .. MaxBatch :
          \E types \in [1 .. n -> Kinds] :
            /\ queue' = q \o [k \in 1 .. n |-> Instr(types[k], issued + k)] \o tail
            /\ issued' = issued + n
            /\ issued + n <= MaxIssued
            /\ behind' = IF HasAdvance(q)
                           THEN behind \cup ((issued + 1) .. (issued + n))
                           ELSE behind
    BY <1>7 DEF PushBack
  <2>1. PICK types \in [1 .. n -> Kinds] :
          /\ queue' = q \o [k \in 1 .. n |-> Instr(types[k], issued + k)] \o tail
          /\ issued' = issued + n
          /\ issued + n <= MaxIssued
          /\ behind' = IF HasAdvance(q)
                         THEN behind \cup ((issued + 1) .. (issued + n))
                         ELSE behind
    BY <2>0
  <2> DEFINE s == [k \in 1 .. n |-> Instr(types[k], issued + k)]
  <2>2. n \in Nat /\ n \in 0 .. MaxBatch /\ issued + n \in Nat /\ issued <= issued + n
    BY <1>1, <1>2
  <2>3. ~HasAdvance(q)
    <3>1. issued + 1 \in (issued + 1) .. (issued + n)
      BY <1>1
    <3> QED BY <2>1, <3>1
  <2>4. /\ s \in Seq(Instruction) /\ FrontNumbered(s, n)
        /\ Numbers(s) = [k \in 1 .. n |-> issued + k]
    <3>1. n \in Nat /\ issued \in Nat
      BY <1>1, <2>2
    <3>2. s \in Seq(Instruction) /\ FrontNumbered(s, n)
      BY <3>1, BatchNumbers
    <3>3. \A k \in 1 .. n : s[k].id = issued + k
      BY <3>1 DEF Instr
    <3> HIDE DEF s
    <3>4. Numbers(s) = [k \in 1 .. n |-> s[k].id]
      BY <3>1, <3>2, NumbersOfFront
    <3> QED BY <3>2, <3>3, <3>4
  <2>5. QueueOK(s, {}, issued + n)
    <3>1. n \in Nat /\ issued \in Nat
      BY <1>1, <2>2
    <3>2. s \in Seq(Instruction) /\ Sorted(s, {}) /\ AllNumbered(s, issued + n)
      BY <3>1, Batch
    <3> QED BY <3>2 DEF QueueOK
  <2>6. QueueOK(q, {}, issued + n)
    BY <1>1, <1>3, <2>2, QueueMonotone DEF QueueOK
  <2> HIDE DEF s
  <2>7. QueueOK(q \o s, {}, issued + n)
    BY <2>3, <2>5, <2>6, QueueOKConcat
  <2>8. Numbers(q \o s) = Numbers(q) \o [k \in 1 .. n |-> issued + k]
    <3>1. PICK m \in Nat : FrontNumbered(q, m)
      BY SortedFront
    <3>2. m = Len(q)
      <4>1. Len(q) \in Nat /\ m <= Len(q)
        BY <1>3, <3>1 DEF FrontNumbered
      <4>2. CASE m < Len(q)
        <5>1. m + 1 \in DOMAIN q /\ ~(m + 1 <= m)
          BY <1>3, <4>1, <4>2
        <5>2. q[m + 1].id = 0 /\ q[m + 1] \in Instruction
          BY <1>3, <3>1, <5>1 DEF FrontNumbered
        <5>3. q[m + 1].type = "adv"
          BY <5>1, <5>2 DEF QueueOK, AllNumbered, NumberedUpTo, Instruction
        <5> QED BY <2>3, <5>1, <5>3 DEF HasAdvance
      <4> QED BY <4>1, <4>2
    <3> QED BY <1>3, <2>2, <2>4, <3>1, <3>2, ConcatNumbers
  <2>9. Numbers((q \o s) \o tail) = Numbers(q \o s)
    BY <2>7, TailNumbers
  <2>10. queue' = (q \o s) \o tail
    BY <2>1 DEF s
  <2>11. Todo' = Numbers(q) \o [k \in 1 .. n |-> issued + k]
    BY <2>8, <2>9, <2>10
  <2>12. Outcome' = "open"
    BY <1>1, <1>4, <1>7 DEF PushBack
  <2> QED BY <1>1, <1>2, <1>3, <2>1, <2>2, <2>11, <2>12, RunStep
<1>8. CASE Halt(q)
  <2>1. /\ queue' = q /\ issued' = issued /\ Outcome' = "stopped"
    BY <1>1, <1>8 DEF Halt, Outcome
  <2> QED BY <1>1, <1>2, <1>3, <2>1, HaltStep
<1> QED BY <1>5, <1>6, <1>7, <1>8 DEF ExecuteRule

-----------------------------------------------------------------------------
(* StreamInv is inductive for disciplined programs.                        *)

\* advance_instruction may clear __running and changes no number.
LEMMA AdvanceRunning ==
  ASSUME TypeOK, NEW q, NEW tail, ExecAdvance(q, tail)
  PROVE  /\ running' \in BOOLEAN /\ (running' => running)
         /\ UNCHANGED <<issued, executed, refused, behind, halted>>
<1>1. running \in BOOLEAN
  BY DEF TypeOK
<1>2. CASE q = <<>>
  BY <1>1, <1>2 DEF ExecAdvance, history
<1>3. CASE q # <<>>
  BY <1>1, <1>3 DEF ExecAdvance, history
<1> QED BY <1>2, <1>3

LEMMA StreamInvInit == Init => StreamInv
<1> SUFFICES ASSUME Init PROVE StreamInv
  OBVIOUS
<1>1. LoopInv
  BY LoopInvInit
<1> QED BY <1>1, BoundsAssumption DEF Init, StreamInv

LEMMA StreamInvNext ==
  ASSUME "miss" \notin Effects, StreamInv, [Next /\ behind' = behind]_vars
  PROVE  StreamInv'
<1>1. LoopInv' /\ behind' = {}
  BY LoopInvNext DEF StreamInv, vars, history
<1>2. issued \in Nat /\ issued <= MaxIssued
  BY StreamFacts DEF StreamInv
<1>3. ASSUME NEW i, NEW q, NEW tail, ExecuteRule(i, q, tail)
      PROVE  refused' = {} /\ issued' <= MaxIssued /\ (halted' => ~running')
  BY <1>2, <1>3, BoundsAssumption
     DEF ExecuteRule, RunPlain, PushFront, PushBack, Halt, StreamInv
<1>4. CASE DispatchRule \/ DrainMetaRule
  BY <1>1, <1>3, <1>4 DEF DispatchRule, DrainMetaRule, Popping, StreamInv, loopVars
<1>5. ASSUME NEW q, NEW tail, ExecAdvance(q, tail)
      PROVE  refused' = {} /\ issued' <= MaxIssued /\ (halted' => ~running')
  <2>1. /\ running' => running
        /\ UNCHANGED <<issued, refused, halted>>
    BY <1>5, AdvanceRunning, StreamFacts
  <2> QED BY <2>1 DEF StreamInv
<1>5a. CASE DispatchAdvance \/ DrainMetaAdvance \/ DrainAdvance
  BY <1>1, <1>5, <1>5a
     DEF DispatchAdvance, DrainMetaAdvance, DrainAdvance, Popping,
         StreamInv, loopVars
<1>6. CASE DispatchMiss
  BY <1>6 DEF DispatchMiss
<1>7. CASE CheckCondition \/ DispatchNoop \/ DrainStopped \/ DrainBusiness \/ DrainIdle
           \/ Fail \/ EndIteration \/ Finish \/ UNCHANGED vars
  BY <1>1, <1>7
     DEF CheckCondition, DispatchNoop, DrainStopped, DrainBusiness, DrainIdle,
         Popping, Fail, EndIteration, Finish, StreamInv, vars, loopVars,
         execVars, history
<1> QED BY <1>4, <1>6, <1>7, <1>5a DEF Next, LoopStep, Dispatch, Drain, Returned

-----------------------------------------------------------------------------
(* Every step of the loop is a step of the work list, or leaves it alone.  *)

LEMMA StreamInitMaps == Init => Stream!Init
<1> SUFFICES ASSUME Init PROVE Stream!Init
  OBVIOUS
<1>1. StreamInv
  BY StreamInvInit
<1>2. /\ instruction.id = 1 /\ queue = <<>> /\ executed = {} /\ issued = 1
      /\ Outcome = "open"
  BY DEF Init, Instr, Outcome
<1>3. Numbers(queue) = <<>>
  <2>1. Ids(queue) \subseteq {0}
    BY <1>2 DEF Ids
  <2> QED BY <1>2, <2>1, ZeroNumbers, EmptySeq
<1>4. Todo = <<1>>
  <2>1. Current = <<1>>
    BY <1>2 DEF Current
  <2>2. <<1>> \o <<>> = <<1>>
    OBVIOUS
  <2> QED BY <1>3, <2>1, <2>2 DEF Todo
<1> QED BY <1>2, <1>4 DEF Stream!Init

\* advance_instruction while nothing numbered waits: it may complete the list.
LEMMA ExecAdvanceStep ==
  ASSUME StreamInv, NEW q, QueueOK(q, {}, issued), Ids(q) \subseteq {0},
         NEW tail \in {<<>>, <<Advance>>}, ExecAdvance(q, tail),
         Todo = <<>>, phase \notin {"done", "failed"}, phase' \notin {"done", "failed"},
         UNCHANGED truncated
  PROVE  Stream!Next \/ UNCHANGED Stream!streamVars
<1>1. /\ running \in BOOLEAN /\ halted \in BOOLEAN /\ ~truncated /\ (halted => ~running)
      /\ executed' = executed /\ issued' = issued /\ halted' = halted
      /\ running' \in BOOLEAN /\ (running' => running)
  BY StreamFacts, AdvanceRunning DEF StreamInv, TypeOK
<1>2. instruction'.id = 0 /\ queue' \in Seq(Instruction) /\ Ids(queue') \subseteq {0}
  <2>1. CASE q = <<>>
    <3>1. instruction' = Noop /\ queue' \in {<<>>, <<Advance>>}
      BY <2>1 DEF ExecAdvance
    <3> QED BY <3>1, Tails DEF Noop, Instr
  <2>2. CASE q # <<>>
    <3> DEFINE t == IF running THEN tail ELSE <<>>
    <3>1. instruction' = Head(q) /\ queue' = Tail(q) \o t
      BY <2>2 DEF ExecAdvance
    <3>2. t \in {<<>>, <<Advance>>}
      OBVIOUS
    <3> HIDE DEF t
    <3>3. Ids(q) = {Head(q).id} \cup Ids(Tail(q)) /\ Tail(q) \in Seq(Instruction)
      BY <2>2, Popped DEF QueueOK
    <3>4. t \in Seq(Instruction) /\ Ids(t) \subseteq {0}
      BY <3>2, Tails
    <3>5. Tail(q) \o t \in Seq(Instruction) /\ Ids(Tail(q) \o t) = Ids(Tail(q)) \cup Ids(t)
      BY <3>3, <3>4, ConcatIds
    <3> QED BY <3>1, <3>3, <3>4, <3>5
  <2> QED BY <2>1, <2>2
<1>3. Todo' = <<>>
  <2>1. Numbers(queue') = <<>>
    BY <1>2, ZeroNumbers
  <2>2. Current' = <<>>
    BY <1>2 DEF Current
  <2>3. <<>> \o <<>> = <<>>
    OBVIOUS
  <2> QED BY <2>1, <2>2, <2>3 DEF Todo
<1>4. Outcome' = Outcome \/ (Outcome = "open" /\ Outcome' = "complete")
  BY <1>1 DEF Outcome
<1>5. CASE Outcome' = Outcome
  BY <1>1, <1>3, <1>5 DEF Stream!streamVars
<1>6. CASE Outcome = "open" /\ Outcome' = "complete"
  <2>1. Stream!Complete
    BY <1>1, <1>3, <1>6 DEF Stream!Complete
  <2> QED BY <2>1 DEF Stream!Next
<1> QED BY <1>4, <1>5, <1>6

LEMMA StreamStep ==
  ASSUME "miss" \notin Effects, StreamInv, [Next /\ behind' = behind]_vars
  PROVE  Stream!Next \/ UNCHANGED Stream!streamVars
<1>1. behind' = {} /\ ~(truncated /\ phase # "done") /\ (halted => ~running)
  BY DEF StreamInv, vars, history
<1>2. StreamInv'
  BY StreamInvNext
<1>3. ASSUME UNCHANGED <<instruction, queue, executed>>
      PROVE  Todo' = Todo
  BY <1>3 DEF Todo, Current, Numbers
<1>3a. ASSUME instruction'.id \in executed' \cup {0}
       PROVE  Todo' = Numbers(queue')
  <2>1. QueueOK(queue', {}, issued')
    BY <1>1, <1>2 DEF StreamInv, LoopInv, LossInv, TypeInv, TypeOK, QueueOK
  <2>2. Numbers(queue') \in Seq(Nat)
    BY <2>1, QueueNumbers
  <2>3. <<>> \o Numbers(queue') = Numbers(queue')
    BY <2>2, ConcatEmptySeq
  <2> QED BY <1>3a, <2>3 DEF Todo, Current
<1>4. CASE CheckCondition
  BY <1>1, <1>3, <1>4
     DEF CheckCondition, Outcome, Stream!streamVars, execVars, history
<1>5. CASE DispatchRule
  <2>1. /\ phase = "body" /\ phase' = "drain" /\ running
        /\ instruction.type \in {"biz", "op"}
        /\ ExecuteRule(instruction, queue, <<Advance>>)
        /\ instruction.id \notin executed /\ UNCHANGED loopVars
    BY <1>5, StreamFacts DEF DispatchRule
  <2>2. instruction.id # 0
    <3>1. instruction.id \in 1 .. issued /\ issued \in Nat
      BY <2>1, StreamFacts DEF NumberedUpTo
    <3> QED BY <3>1
  <2>3. Todo = <<instruction.id>> \o Numbers(queue)
    BY <2>1, <2>2 DEF Todo, Current
  <2>4. Todo' = Numbers(queue')
    BY <1>5, <1>3a DEF DispatchRule, ExecuteRule
  <2>5. UNCHANGED truncated
    BY <2>1 DEF loopVars
  <2>6. QueueOK(queue, {}, issued) /\ instruction \in Instruction
    BY StreamFacts
  <2> QED BY <1>1, <2>1, <2>3, <2>4, <2>5, <2>6, ExecuteRuleStep
<1>6. CASE DispatchNoop
  <2>1. /\ instruction.id = 0 /\ instruction' = instruction /\ phase = "body" /\ phase' = "drain"
        /\ queue' = queue \o <<Advance>> /\ UNCHANGED <<truncated, running, executed, issued, halted>>
    BY <1>6, StreamFacts DEF DispatchNoop, NumberedUpTo, loopVars, history
  <2>2. Todo = Numbers(queue) /\ Todo' = Numbers(queue')
    BY <1>3a, <2>1, StreamFacts
  <2>3. Numbers(queue') = Numbers(queue)
    BY <2>1, TailNumbers, StreamFacts
  <2>4. Outcome' = Outcome
    BY <2>1 DEF Outcome
  <2> QED BY <2>1, <2>2, <2>3, <2>4 DEF Stream!streamVars
<1>7. CASE DispatchAdvance
  <2>1. /\ phase = "body" /\ phase' = "drain" /\ instruction.type = "adv"
        /\ ExecAdvance(queue, <<Advance>>) /\ UNCHANGED truncated
    BY <1>7 DEF DispatchAdvance, loopVars
  <2>2. instruction.id = 0 /\ Ids(queue) \subseteq {0}
    BY <2>1, StreamFacts, LoopInvFacts
       DEF StreamInv, LossInv, CurrentAdvance, NumberedUpTo, AllBehind
  <2>3. Todo = <<>>
    BY <2>2, StreamFacts, ZeroNumbers
  <2> QED BY <2>1, <2>2, <2>3, StreamFacts, ExecAdvanceStep
<1>8. CASE DispatchMiss
  BY <1>8 DEF DispatchMiss
<1>9. CASE DrainStopped
  BY <1>1, <1>3, <1>9
     DEF DrainStopped, Outcome, Stream!streamVars, loopVars, execVars, history
<1>10. CASE DrainMetaAdvance
  <2>1. /\ phase = "drain" /\ phase' = "drain" /\ queue # <<>> /\ Head(queue).type = "adv"
        /\ ExecAdvance(Tail(queue), <<>>) /\ UNCHANGED truncated
    BY <1>10 DEF DrainMetaAdvance, Popping, loopVars
  <2>2. QueueOK(Tail(queue), {}, issued) /\ Head(queue).id = 0
    BY <2>1, StreamFacts, Popped DEF QueueOK, NumberedUpTo
  <2>3. Ids(queue) \subseteq {0} /\ Ids(Tail(queue)) \subseteq {0}
    BY <2>1, <2>2, StreamFacts, QueueNumbers
  <2>4. Todo = <<>>
    BY <2>1, <2>3, StreamFacts, ZeroNumbers
  <2> QED BY <2>1, <2>2, <2>3, <2>4, ExecAdvanceStep
<1>11. CASE DrainMetaRule
  <2>1. /\ phase = "drain" /\ phase' = "drain" /\ running /\ queue # <<>>
        /\ IsMeta(Head(queue)) /\ Head(queue).type # "adv"
        /\ ExecuteRule(Head(queue), Tail(queue), <<>>) /\ UNCHANGED truncated
    BY <1>11 DEF DrainMetaRule, Popping, loopVars
  <2>2. /\ QueueOK(Tail(queue), {}, issued) /\ Head(queue) \in Instruction
        /\ NumberedUpTo(Head(queue), issued) /\ Head(queue).type # "noop"
    BY <2>1, StreamFacts, Popped DEF QueueOK
  <2>3. Head(queue).id # 0
    <3>1. Head(queue).type = "op"
      BY <2>1, <2>2 DEF Instruction, IsMeta
    <3>2. Head(queue).id \in 1 .. issued
      BY <2>2, <3>1 DEF NumberedUpTo
    <3> QED BY <3>2, StreamFacts
  <2>4. Todo = <<Head(queue).id>> \o Numbers(Tail(queue))
    BY <2>1, <2>3, StreamFacts, QueueNumbers
  <2>5. Todo' = Numbers(queue')
    <3>1. instruction' = instruction /\ executed \subseteq executed'
      BY <1>11 DEF DrainMetaRule, ExecuteRule
    <3>2. instruction.id \in executed \cup {0}
      BY <2>1, StreamFacts
    <3> QED BY <1>3a, <3>1, <3>2
  <2> QED BY <1>1, <2>1, <2>2, <2>4, <2>5, ExecuteRuleStep
<1>12. CASE DrainBusiness
  <2>1. /\ phase = "drain" /\ phase' = "next" /\ queue # <<>>
        /\ instruction' = Head(queue) /\ queue' = Tail(queue)
        /\ UNCHANGED <<truncated, running, executed, issued, halted>>
    BY <1>12 DEF DrainBusiness, Popping, loopVars, history
  <2>2. Todo = Numbers(queue)
    BY <2>1, StreamFacts
  <2>3. Tail(queue) \in Seq(Instruction) /\ Numbers(Tail(queue)) \in Seq(Nat)
    <3>1. QueueOK(Tail(queue), {}, issued)
      BY <2>1, StreamFacts, Popped DEF QueueOK
    <3> QED BY <3>1, QueueNumbers DEF QueueOK
  <2>4. CASE Head(queue).id = 0
    <3>1. Ids(queue) \subseteq {0} /\ Ids(Tail(queue)) \subseteq {0}
      BY <2>1, <2>4, StreamFacts, QueueNumbers
    <3>2. Numbers(queue) = <<>> /\ Numbers(Tail(queue)) = <<>>
      BY <2>3, <3>1, StreamFacts, ZeroNumbers
    <3>3. Todo' = Numbers(queue')
      BY <1>3a, <2>1, <2>4
    <3> QED BY <2>1, <2>2, <3>2, <3>3 DEF Outcome, Stream!streamVars
  <2>5. CASE Head(queue).id # 0
    <3>1. Head(queue).id \notin executed
      <4>1. Ids(queue) = {Head(queue).id} \cup Ids(Tail(queue))
        BY <2>1, StreamFacts, Popped DEF QueueOK
      <4> QED BY <4>1, StreamFacts, LoopInvFacts DEF OnceInv
    <3>2. Numbers(queue) = <<Head(queue).id>> \o Numbers(Tail(queue))
      BY <2>1, <2>5, StreamFacts, QueueNumbers
    <3>3. Current' = <<Head(queue).id>>
      BY <2>1, <2>5, <3>1 DEF Current
    <3>4. Todo' = Todo
      BY <2>1, <2>2, <3>2, <3>3 DEF Todo
    <3> QED BY <2>1, <3>4 DEF Outcome, Stream!streamVars
  <2> QED BY <2>4, <2>5
<1>13. CASE DrainIdle
  BY <1>1, <1>3, <1>13
     DEF DrainIdle, Outcome, Stream!streamVars, loopVars, execVars, history
<1>14. CASE DrainAdvance
  <2>1. /\ phase = "drain" /\ phase' = "next" /\ queue = <<>>
        /\ ExecAdvance(queue, <<>>) /\ UNCHANGED truncated
    BY <1>14 DEF DrainAdvance, loopVars
  <2>2. Ids(queue) \subseteq {0}
    BY <2>1 DEF Ids
  <2>3. Todo = <<>>
    BY <2>1, <2>2, StreamFacts, ZeroNumbers
  <2> QED BY <2>1, <2>2, <2>3, StreamFacts, ExecAdvanceStep
<1>15. CASE Fail
  <2>1. Todo' = Todo /\ UNCHANGED <<executed, issued>>
    BY <1>3, <1>15 DEF Fail, execVars, history
  <2>2. Outcome # "aborted" /\ Outcome' = "aborted"
    BY <1>1, <1>15 DEF Fail, Outcome
  <2>3. Stream!GiveUp
    BY <2>1, <2>2 DEF Stream!GiveUp
  <2> QED BY <2>3 DEF Stream!Next
<1>16. CASE EndIteration
  BY <1>1, <1>3, <1>16
     DEF EndIteration, Outcome, Stream!streamVars, execVars, history
<1>17. CASE Finish
  <2>1. Todo' = Todo /\ UNCHANGED <<executed, issued>>
    BY <1>3, <1>17 DEF Finish, execVars, history
  <2>2. Outcome' = Outcome \/ (Outcome # "aborted" /\ Outcome' = "aborted")
    BY <1>1, <1>17 DEF Finish, Outcome, execVars, history
  <2>3. CASE Outcome # "aborted" /\ Outcome' = "aborted"
    <3>1. Stream!GiveUp
      BY <2>1, <2>3 DEF Stream!GiveUp
    <3> QED BY <3>1 DEF Stream!Next
  <2> QED BY <2>1, <2>2, <2>3 DEF Stream!streamVars
<1>18. CASE UNCHANGED vars
  BY <1>3, <1>18
     DEF vars, Outcome, Stream!streamVars, loopVars, execVars, history
<1> QED
  BY <1>4, <1>5, <1>6, <1>7, <1>8, <1>9, <1>10, <1>11, <1>12, <1>13, <1>14,
     <1>15, <1>16, <1>17, <1>18 DEF Next, LoopStep, Dispatch, Drain, Returned

(* The refinement: for every value of the constants, a loop whose dispatch *)
(* finds an entry for every instruction runs a disciplined program as      *)
(* InstructionStream says, step by step.                                   *)
THEOREM LoopImplementsStream ==
  ASSUME "miss" \notin Effects
  PROVE  DisciplinedSpec => ImplementsStream
<1>1. StreamInv /\ [Next /\ behind' = behind]_vars => StreamInv'
  BY StreamInvNext
<1>2. StreamInv /\ [Next /\ behind' = behind]_vars => [Stream!Next]_Stream!streamVars
  BY StreamStep
<1> QED
  BY StreamInvInit, StreamInitMaps, <1>1, <1>2, PTL
     DEF DisciplinedSpec, ImplementsStream, Stream!Spec
=============================================================================
