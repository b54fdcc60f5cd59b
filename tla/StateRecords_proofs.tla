-------------------------- MODULE StateRecords_proofs --------------------------
(***************************************************************************)
(* The audit chain of a state, for all texts, keys, chains and states.     *)
(* First what the hash of a record covers: a record that verifies under a  *)
(* hash is the only one that does, and the latest hash of a chain leaves   *)
(* its records no choice.  Then records and chains as values, and from     *)
(* this that alterations of a stored chain are noticed.  Last values as    *)
(* JSON and back, and from this that a stored state is continued with the  *)
(* same chain and the same hash.                                           *)
(***************************************************************************)
EXTENDS StateRecords, StateOps_proofs

\* A text that begins with `first`.
Begins(text, first, rest) == text = first \o rest

\* A text that is read in two ways, its first part as long in both.
LEMMA ConcatCancels ==
  ASSUME NEW a \in Audit!Texts, NEW b \in Audit!Texts, NEW x \in Audit!Texts,
         NEW y \in Audit!Texts, NEW w,
         Begins(w, a, x), Begins(w, b, y), Len(a) = Len(b)
  PROVE  a = b /\ x = y
<1>1. a \o x = b \o y
  BY DEF Begins
<1>2. /\ Len(a \o x) = Len(a) + Len(x)
      /\ \A k \in 1 .. Len(a) + Len(x) : (a \o x)[k] = IF k <= Len(a) THEN a[k] ELSE x[k - Len(a)]
  BY ConcatProperties DEF Audit!Texts
<1>3. /\ Len(b \o y) = Len(b) + Len(y)
      /\ \A k \in 1 .. Len(b) + Len(y) : (b \o y)[k] = IF k <= Len(b) THEN b[k] ELSE y[k - Len(b)]
  BY ConcatProperties DEF Audit!Texts
<1>4. Len(a) \in Nat /\ Len(x) \in Nat /\ Len(y) \in Nat /\ Len(x) = Len(y)
  BY <1>1, <1>2, <1>3 DEF Audit!Texts
<1>5. \A k \in 1 .. Len(a) : a[k] = b[k]
  BY <1>1, <1>2, <1>3, <1>4
<1>6. \A k \in 1 .. Len(x) : x[k] = y[k]
  <2>. TAKE k \in 1 .. Len(x)
  <2>1. k + Len(a) \in 1 .. Len(a) + Len(x) /\ ~(k + Len(a) <= Len(a)) /\ (k + Len(a)) - Len(a) = k
    BY <1>4
  <2>. QED
    BY <1>1, <1>2, <1>3, <1>4, <2>1
<1>. QED
  BY <1>4, <1>5, <1>6, SeqEqual DEF Audit!Texts

\* A first part that has two parts itself.
LEMMA SplitsAgain ==
  ASSUME NEW a \in Audit!Texts, NEW b \in Audit!Texts, NEW x \in Audit!Texts, NEW w, Begins(w,
         a \o b, x)
  PROVE  Begins(w, a, b \o x)
<1>1. (a \o b) \o x = a \o (b \o x)
  BY DEF Audit!Texts
<1>. QED
  BY <1>1, Zenon DEF Begins

\* A text after its length.
LEMMA SizedText ==
  ASSUME NEW a \in Audit!Texts
  PROVE  /\ Audit!Sized(a) \in Audit!Texts /\ Len(Audit!Sized(a)) = 1 + Len(a)
         /\ Audit!Sized(a)[1] = Len(a)
BY DEF Audit!Sized, Audit!Texts

\* Texts one after the other.
LEMMA ConcatText ==
  ASSUME NEW a \in Audit!Texts, NEW b \in Audit!Texts
  PROVE  a \o b \in Audit!Texts
BY DEF Audit!Texts

\* A number as a text.
LEMMA ByteText ==
  ASSUME NEW n \in Int
  PROVE  <<n>> \in Audit!Texts
BY DEF Audit!Texts

\* A byte in front of what follows.
LEMMA BytePrefix ==
  ASSUME NEW m \in Int, NEW n \in Int, NEW x \in Audit!Texts, NEW y \in Audit!Texts, NEW w,
         Begins(w, <<m>>, x), Begins(w, <<n>>, y)
  PROVE  m = n /\ x = y
<1>1. <<m>> \in Audit!Texts /\ <<n>> \in Audit!Texts /\ Len(<<m>>) = Len(<<n>>)
  BY DEF Audit!Texts
<1>2. <<m>> = <<n>> /\ x = y
  BY <1>1, ConcatCancels
<1>. QED
  BY <1>2

\* A length in front shows where a text ends: nothing can be moved from one
\* field of a record into the next.
LEMMA SizedPrefix ==
  ASSUME NEW a \in Audit!Texts, NEW b \in Audit!Texts, NEW x \in Audit!Texts,
         NEW y \in Audit!Texts, NEW w,
         Begins(w, Audit!Sized(a), x), Begins(w, Audit!Sized(b), y)
  PROVE  a = b /\ x = y
<1>1. /\ Audit!Sized(a) \in Audit!Texts /\ Audit!Sized(b) \in Audit!Texts
      /\ Len(Audit!Sized(a)) = 1 + Len(a) /\ Len(Audit!Sized(b)) = 1 + Len(b)
      /\ Audit!Sized(a)[1] = Len(a) /\ Audit!Sized(b)[1] = Len(b)
  BY SizedText
<1>2. /\ Len(a) \in Int /\ Len(b) \in Int /\ a \o x \in Audit!Texts /\ b \o y \in Audit!Texts
  BY DEF Audit!Texts
<1>3. Begins(w, <<Len(a)>>, a \o x) /\ Begins(w, <<Len(b)>>, b \o y)
  BY <1>2, ByteText, SplitsAgain DEF Audit!Sized
<1>4. Len(a) = Len(b)
  BY <1>2, <1>3, BytePrefix
<1>5. Audit!Sized(a) = Audit!Sized(b) /\ x = y
  BY <1>1, <1>4, ConcatCancels
<1>6. Begins(Audit!Sized(a), <<Len(a)>>, a) /\ Begins(Audit!Sized(a), <<Len(b)>>, b)
  BY <1>5, Zenon DEF Begins, Audit!Sized
<1>7. a = b
  BY <1>2, <1>6, BytePrefix
<1>. QED
  BY <1>5, <1>7

\* A tag and a text, followed by x.
LEMMA OptionalSome ==
  ASSUME NEW a \in Audit!Texts, NEW x \in Audit!Texts, NEW w, Begins(w, Audit!Optional(<<a>>), x)
  PROVE  Begins(w, <<1>>, Audit!Sized(a) \o x)
<1>1. Audit!Optional(<<a>>) = <<1>> \o Audit!Sized(a)
  BY DEF Audit!Optional
<1>2. Audit!Sized(a) \in Audit!Texts /\ <<1>> \in Audit!Texts
  BY SizedText, ByteText
<1>. QED
  BY <1>1, <1>2, SplitsAgain

\* The tag tells None from an empty text.
LEMMA OptionalPrefix ==
  ASSUME NEW a \in Audit!OptionalTexts, NEW b \in Audit!OptionalTexts, NEW x \in Audit!Texts,
         NEW y \in Audit!Texts, NEW w,
         Begins(w, Audit!Optional(a), x), Begins(w, Audit!Optional(b), y)
  PROVE  a = b /\ x = y
<1>1. Audit!Optional(<<>>) = <<0>>
  BY DEF Audit!Optional
<1>2. \A t \in Audit!Texts, z \in Audit!Texts : Audit!Sized(t) \o z \in Audit!Texts
  BY SizedText, ConcatText
<1>3. CASE a = <<>> /\ b = <<>>
  BY <1>1, <1>3, BytePrefix
<1>4. ASSUME NEW s \in Audit!Texts, NEW t \in Audit!Texts, a = <<s>>, b = <<t>>
      PROVE  a = b /\ x = y
  <2>1. Begins(w, <<1>>, Audit!Sized(s) \o x) /\ Begins(w, <<1>>, Audit!Sized(t) \o y)
    BY <1>4, OptionalSome
  <2>2. PICK u \in Audit!Texts : u = Audit!Sized(s) \o x
    BY <1>2
  <2>3. PICK v \in Audit!Texts : v = Audit!Sized(t) \o y
    BY <1>2
  <2>4. Begins(w, <<1>>, u) /\ Begins(w, <<1>>, v)
    BY <2>1, <2>2, <2>3, Zenon
  <2>5. u = v
    BY <2>4, BytePrefix
  <2>6. Begins(u, Audit!Sized(s), x) /\ Begins(u, Audit!Sized(t), y)
    BY <2>2, <2>3, <2>5, Zenon DEF Begins
  <2>7. s = t /\ x = y
    BY <2>6, SizedPrefix
  <2>. QED
    BY <1>4, <2>7
<1>5. ASSUME NEW t \in Audit!Texts, a = <<>>, b = <<t>>
      PROVE  FALSE
  <2>1. Begins(w, <<0>>, x) /\ Begins(w, <<1>>, Audit!Sized(t) \o y)
    BY <1>1, <1>5, OptionalSome
  <2>. QED
    BY <1>2, <2>1, BytePrefix
<1>6. ASSUME NEW t \in Audit!Texts, a = <<t>>, b = <<>>
      PROVE  FALSE
  <2>1. Begins(w, <<1>>, Audit!Sized(t) \o x) /\ Begins(w, <<0>>, y)
    BY <1>1, <1>6, OptionalSome
  <2>. QED
    BY <1>2, <2>1, BytePrefix
<1>. QED
  BY <1>3, <1>4, <1>5, <1>6 DEF Audit!OptionalTexts

-----------------------------------------------------------------------------
(* Records.                                                                *)

\* What a record signs from its k-th field from the end on.
Tail1(r) == <<r.version>>
Tail2(r) == Audit!Optional(r.error_message) \o Tail1(r)
Tail3(r) == Audit!Optional(r.change_summary) \o Tail2(r)
Tail4(r) == <<Audit!ResultByte(r.execution_result)>> \o Tail3(r)
Tail5(r) == Audit!Sized(r.previous_hash) \o Tail4(r)
Tail6(r) == Audit!Sized(r.state_after_hash) \o Tail5(r)
Tail7(r) == Audit!Sized(r.state_before_hash) \o Tail6(r)
Tail8(r) == <<r.timestamp>> \o Tail7(r)
Tail9(r) == Audit!Sized(r.rule_id) \o Tail8(r)
Tail10(r) == Audit!Sized(r.nonce) \o Tail9(r)
Tail11(r) == Audit!Sized(r.id) \o Tail10(r)

\* An optional text as a text.
LEMMA OptionalText ==
  ASSUME NEW a \in Audit!OptionalTexts
  PROVE  Audit!Optional(a) \in Audit!Texts
<1>1. CASE a = <<>>
  BY <1>1, ByteText DEF Audit!Optional
<1>2. ASSUME NEW t \in Audit!Texts, a = <<t>>
      PROVE  Audit!Optional(a) \in Audit!Texts
  <2>1. Audit!Optional(a) = <<1>> \o Audit!Sized(t)
    BY <1>2 DEF Audit!Optional
  <2>. QED
    BY <2>1, ByteText, SizedText, ConcatText
<1>. QED
  BY <1>1, <1>2 DEF Audit!OptionalTexts

\* The tails of the signed text are texts.
LEMMA TailTexts ==
  ASSUME NEW r \in Audit!Records
  PROVE  /\ Tail1(r) \in Audit!Texts /\ Tail2(r) \in Audit!Texts /\ Tail3(r) \in Audit!Texts
         /\ Tail4(r) \in Audit!Texts /\ Tail5(r) \in Audit!Texts /\ Tail6(r) \in Audit!Texts
         /\ Tail7(r) \in Audit!Texts /\ Tail8(r) \in Audit!Texts /\ Tail9(r) \in Audit!Texts
         /\ Tail10(r) \in Audit!Texts /\ Tail11(r) \in Audit!Texts
<1>1. /\ r.version \in Int /\ r.timestamp \in Int /\ Audit!ResultByte(r.execution_result) \in Int
      /\ r.error_message \in Audit!OptionalTexts /\ r.change_summary \in Audit!OptionalTexts
      /\ {r.id, r.nonce, r.rule_id, r.state_before_hash, r.state_after_hash,
          r.previous_hash} \subseteq Audit!Texts
  BY DEF Audit!Records, Audit!ResultByte, Audit!ExecutionResults
<1>2. /\ Tail1(r) \in Audit!Texts /\ Tail2(r) \in Audit!Texts
      /\ Tail3(r) \in Audit!Texts /\ Tail4(r) \in Audit!Texts
  BY <1>1, ByteText, OptionalText, ConcatText DEF Tail1, Tail2, Tail3, Tail4
<1>3. /\ Tail5(r) \in Audit!Texts /\ Tail6(r) \in Audit!Texts
      /\ Tail7(r) \in Audit!Texts /\ Tail8(r) \in Audit!Texts
  BY <1>1, <1>2, ByteText, SizedText, ConcatText DEF Tail5, Tail6, Tail7, Tail8
<1>. QED
  BY <1>1, <1>2, <1>3, SizedText, ConcatText DEF Tail9, Tail10, Tail11

\* Different results have different bytes.
LEMMA ResultBytesDiffer ==
  ASSUME NEW a \in Audit!ExecutionResults, NEW b \in Audit!ExecutionResults,
         Audit!ResultByte(a) = Audit!ResultByte(b)
  PROVE  a = b
BY DEF Audit!ExecutionResults, Audit!ResultByte

\* The hash of a record begins with the key, and the signed text follows.
LEMMA HashSplits ==
  ASSUME NEW r \in Audit!Records, NEW key \in Audit!Texts, NEW w, w = Audit!ComputeHash(r, key)
  PROVE  Begins(w, <<Len(key)>> \o key, Tail11(r))
BY Zenon DEF Begins, Audit!ComputeHash, Audit!HmacSha256, Tail1, Tail2, Tail3, Tail4, Tail5,
                Tail6, Tail7,
   Tail8, Tail9, Tail10, Tail11

\* Two records that sign the same text differ in their hash at most.
LEMMA SignedTextCoversAll ==
  ASSUME NEW r \in Audit!Records, NEW s \in Audit!Records, Tail11(r) = Tail11(s), r.hash = s.hash
  PROVE  r = s
<1>1. r.id = s.id /\ Tail10(r) = Tail10(s)
  <2>1. r.id \in Audit!Texts /\ s.id \in Audit!Texts
    BY DEF Audit!Records
  <2>2. Tail10(r) \in Audit!Texts /\ Tail10(s) \in Audit!Texts
    BY TailTexts
  <2>3. /\ Begins(Tail11(r), Audit!Sized(r.id), Tail10(r))
        /\ Begins(Tail11(r), Audit!Sized(s.id), Tail10(s))
    BY Zenon DEF Tail11, Begins
  <2>. QED
    BY <2>1, <2>2, <2>3, SizedPrefix
<1>2. r.nonce = s.nonce /\ Tail9(r) = Tail9(s)
  <2>1. r.nonce \in Audit!Texts /\ s.nonce \in Audit!Texts
    BY DEF Audit!Records
  <2>2. Tail9(r) \in Audit!Texts /\ Tail9(s) \in Audit!Texts
    BY TailTexts
  <2>3. /\ Begins(Tail10(r), Audit!Sized(r.nonce), Tail9(r))
        /\ Begins(Tail10(r), Audit!Sized(s.nonce), Tail9(s))
    BY <1>1, Zenon DEF Tail10, Begins
  <2>. QED
    BY <2>1, <2>2, <2>3, SizedPrefix
<1>3. r.rule_id = s.rule_id /\ Tail8(r) = Tail8(s)
  <2>1. r.rule_id \in Audit!Texts /\ s.rule_id \in Audit!Texts
    BY DEF Audit!Records
  <2>2. Tail8(r) \in Audit!Texts /\ Tail8(s) \in Audit!Texts
    BY TailTexts
  <2>3. /\ Begins(Tail9(r), Audit!Sized(r.rule_id), Tail8(r))
        /\ Begins(Tail9(r), Audit!Sized(s.rule_id), Tail8(s))
    BY <1>2, Zenon DEF Tail9, Begins
  <2>. QED
    BY <2>1, <2>2, <2>3, SizedPrefix
<1>4. r.timestamp = s.timestamp /\ Tail7(r) = Tail7(s)
  <2>1. r.timestamp \in Int /\ s.timestamp \in Int
    BY DEF Audit!Records
  <2>2. Tail7(r) \in Audit!Texts /\ Tail7(s) \in Audit!Texts
    BY TailTexts
  <2>3. /\ Begins(Tail8(r), <<r.timestamp>>, Tail7(r))
        /\ Begins(Tail8(r), <<s.timestamp>>, Tail7(s))
    BY <1>3, Zenon DEF Tail8, Begins
  <2>. QED
    BY <2>1, <2>2, <2>3, BytePrefix
<1>5. r.state_before_hash = s.state_before_hash /\ Tail6(r) = Tail6(s)
  <2>1. r.state_before_hash \in Audit!Texts /\ s.state_before_hash \in Audit!Texts
    BY DEF Audit!Records
  <2>2. Tail6(r) \in Audit!Texts /\ Tail6(s) \in Audit!Texts
    BY TailTexts
  <2>3. /\ Begins(Tail7(r), Audit!Sized(r.state_before_hash), Tail6(r))
        /\ Begins(Tail7(r), Audit!Sized(s.state_before_hash), Tail6(s))
    BY <1>4, Zenon DEF Tail7, Begins
  <2>. QED
    BY <2>1, <2>2, <2>3, SizedPrefix
<1>6. r.state_after_hash = s.state_after_hash /\ Tail5(r) = Tail5(s)
  <2>1. r.state_after_hash \in Audit!Texts /\ s.state_after_hash \in Audit!Texts
    BY DEF Audit!Records
  <2>2. Tail5(r) \in Audit!Texts /\ Tail5(s) \in Audit!Texts
    BY TailTexts
  <2>3. /\ Begins(Tail6(r), Audit!Sized(r.state_after_hash), Tail5(r))
        /\ Begins(Tail6(r), Audit!Sized(s.state_after_hash), Tail5(s))
    BY <1>5, Zenon DEF Tail6, Begins
  <2>. QED
    BY <2>1, <2>2, <2>3, SizedPrefix
<1>7. r.previous_hash = s.previous_hash /\ Tail4(r) = Tail4(s)
  <2>1. r.previous_hash \in Audit!Texts /\ s.previous_hash \in Audit!Texts
    BY DEF Audit!Records
  <2>2. Tail4(r) \in Audit!Texts /\ Tail4(s) \in Audit!Texts
    BY TailTexts
  <2>3. /\ Begins(Tail5(r), Audit!Sized(r.previous_hash), Tail4(r))
        /\ Begins(Tail5(r), Audit!Sized(s.previous_hash), Tail4(s))
    BY <1>6, Zenon DEF Tail5, Begins
  <2>. QED
    BY <2>1, <2>2, <2>3, SizedPrefix
<1>8. r.execution_result = s.execution_result /\ Tail3(r) = Tail3(s)
  <2>1. /\ r.execution_result \in Audit!ExecutionResults
        /\ s.execution_result \in Audit!ExecutionResults
    BY DEF Audit!Records
  <2>2. Tail3(r) \in Audit!Texts /\ Tail3(s) \in Audit!Texts
    BY TailTexts
  <2>3. /\ Begins(Tail4(r), <<Audit!ResultByte(r.execution_result)>>, Tail3(r))
        /\ Begins(Tail4(r), <<Audit!ResultByte(s.execution_result)>>, Tail3(s))
    BY <1>7, Zenon DEF Tail4, Begins
  <2>4. Audit!ResultByte(r.execution_result) \in Int /\ Audit!ResultByte(s.execution_result) \in Int
    BY <2>1 DEF Audit!ExecutionResults, Audit!ResultByte
  <2>5. /\ Audit!ResultByte(r.execution_result) = Audit!ResultByte(s.execution_result)
        /\ Tail3(r) = Tail3(s)
    BY <2>2, <2>3, <2>4, BytePrefix
  <2>. QED
    BY <2>1, <2>5, ResultBytesDiffer
<1>9. r.change_summary = s.change_summary /\ Tail2(r) = Tail2(s)
  <2>1. r.change_summary \in Audit!OptionalTexts /\ s.change_summary \in Audit!OptionalTexts
    BY DEF Audit!Records
  <2>2. Tail2(r) \in Audit!Texts /\ Tail2(s) \in Audit!Texts
    BY TailTexts
  <2>3. /\ Begins(Tail3(r), Audit!Optional(r.change_summary), Tail2(r))
        /\ Begins(Tail3(r), Audit!Optional(s.change_summary), Tail2(s))
    BY <1>8, Zenon DEF Tail3, Begins
  <2>. QED
    BY <2>1, <2>2, <2>3, OptionalPrefix
<1>10. r.error_message = s.error_message /\ Tail1(r) = Tail1(s)
  <2>1. r.error_message \in Audit!OptionalTexts /\ s.error_message \in Audit!OptionalTexts
    BY DEF Audit!Records
  <2>2. Tail1(r) \in Audit!Texts /\ Tail1(s) \in Audit!Texts
    BY TailTexts
  <2>3. /\ Begins(Tail2(r), Audit!Optional(r.error_message), Tail1(r))
        /\ Begins(Tail2(r), Audit!Optional(s.error_message), Tail1(s))
    BY <1>9, Zenon DEF Tail2, Begins
  <2>. QED
    BY <2>1, <2>2, <2>3, OptionalPrefix
<1>11. r.version = s.version
  BY <1>10 DEF Tail1
<1>. QED
  BY <1>1, <1>2, <1>3, <1>4, <1>5, <1>6, <1>7, <1>8, <1>9, <1>10, <1>11 DEF Audit!Records

(* A record that verifies under a key is the only one that does under this *)
(* key and hash: no field, optional field or version can be altered, and   *)
(* no byte moved between fields, without verify (audit.rs) noticing.       *)
THEOREM AlteredRecordNoticed ==
  ASSUME NEW r \in Audit!Records, NEW s \in Audit!Records, NEW key \in Audit!Texts,
         Audit!Verify(r, key), Audit!Verify(s, key), r.hash = s.hash
  PROVE  r = s
<1>1. PICK w : w = Audit!ComputeHash(r, key)
  OBVIOUS
<1>2. w = Audit!ComputeHash(s, key)
  BY <1>1 DEF Audit!Verify
<1>3. Begins(w, <<Len(key)>> \o key, Tail11(r)) /\ Begins(w, <<Len(key)>> \o key, Tail11(s))
  BY <1>1, <1>2, HashSplits
<1>4. <<Len(key)>> \o key \in Audit!Texts
  <2>1. Len(key) \in Int
    BY DEF Audit!Texts
  <2>. QED
    BY <2>1, ByteText, ConcatText
<1>5. Tail11(r) = Tail11(s)
  BY <1>3, <1>4, ConcatCancels, TailTexts
<1>. QED
  BY <1>5, SignedTextCoversAll

-----------------------------------------------------------------------------
(* Chains.                                                                 *)

\* A set of numbers has a least one.
LEMMA LeastNumber ==
  ASSUME NEW T, T \subseteq Nat, T # {}
  PROVE  \E x \in T : \A y \in T : ~(y < x)
<1>1. \E x \in T : \A y \in T : ~(<<y, x>> \in OpToRel(<, Nat))
  BY NatLessThanWellFounded, WFMin
<1>. QED
  BY <1>1 DEF OpToRel

\* The hash of a record is longer than the hash of an empty chain.
LEMMA HashIsNotGenesis ==
  ASSUME NEW r \in Audit!Records, NEW key \in Audit!Texts, Audit!Verify(r, key)
  PROVE  r.hash # Audit!Genesis
<1>1. Begins(r.hash, <<Len(key)>> \o key, Tail11(r))
  BY HashSplits DEF Audit!Verify
<1>2. Tail11(r) \in Audit!Texts /\ Audit!Sized(r.id) \in Audit!Texts /\ Tail10(r) \in Audit!Texts
  BY TailTexts, SizedText DEF Audit!Records
<1>3. Len(Tail11(r)) = Len(Audit!Sized(r.id)) + Len(Tail10(r)) /\ Len(Audit!Sized(r.id)) > 0
  BY <1>2, SizedText DEF Tail11, Audit!Texts, Audit!Records
<1>4. Len(r.hash) = 1 + Len(key) + Len(Tail11(r))
  BY <1>1, <1>2 DEF Begins, Audit!Texts
<1>5. Len(key) \in Nat /\ Len(Audit!Sized(r.id)) \in Nat /\ Len(Tail10(r)) \in Nat
  BY <1>2 DEF Audit!Texts
<1>6. Len(Audit!Genesis) = 1
  BY DEF Audit!Genesis
<1>7. Len(r.hash) > 1
  BY <1>3, <1>4, <1>5
<1>8. ASSUME r.hash = Audit!Genesis
      PROVE  FALSE
  <2>1. Len(r.hash) = Len(Audit!Genesis)
    BY <1>8, Zenon
  <2>. QED
    BY <1>6, <1>7, <2>1
<1>. QED
  BY <1>8

\* The hash that the k-th record from the end should have.
End(records, k) ==
  IF k = Len(records) THEN Audit!Genesis ELSE records[Len(records) - k].hash

\* Two sound chains with the same latest hash agree at every distance from
\* their ends.
LEMMA EndsAgree ==
  ASSUME NEW c \in Seq(Audit!Records), NEW d \in Seq(Audit!Records), NEW key \in Audit!Texts,
         NEW latest,
         Audit!Sound(c, latest, key), Audit!Sound(d, latest, key)
  PROVE  \A k \in Nat : k <= Len(c) /\ k <= Len(d) => End(c, k) = End(d, k)
<1>. DEFINE T == {k \in Nat : k <= Len(c) /\ k <= Len(d) /\ End(c, k) # End(d, k)}
<1>. SUFFICES ASSUME T # {} PROVE FALSE
  OBVIOUS
<1>1. PICK x \in T : \A y \in T : ~(y < x)
  BY LeastNumber, Zenon
<1>2. x \in Nat /\ x <= Len(c) /\ x <= Len(d) /\ End(c, x) # End(d, x)
  OBVIOUS
<1>3. Len(c) \in Nat /\ Len(d) \in Nat
  OBVIOUS
<1>4. End(c, 0) = latest /\ End(d, 0) = latest
  BY <1>3 DEF End, Audit!Sound
<1>5. x # 0
  BY <1>2, <1>4
<1>6. x - 1 \in Nat /\ End(c, x - 1) = End(d, x - 1)
  BY <1>1, <1>2, <1>3, <1>5
<1>. DEFINE i == Len(c) - (x - 1)
            j == Len(d) - (x - 1)
<1>7. i \in 1 .. Len(c) /\ j \in 1 .. Len(d)
  BY <1>2, <1>3, <1>5
<1>8. /\ c[i] \in Audit!Records /\ d[j] \in Audit!Records
      /\ Audit!Verify(c[i], key) /\ Audit!Verify(d[j], key)
  BY <1>7 DEF Audit!Sound
<1>9. c[i].hash = d[j].hash
  BY <1>2, <1>3, <1>6, <1>7 DEF End
<1>10. c[i] = d[j]
  BY <1>8, <1>9, AlteredRecordNoticed
<1>11. c[i].previous_hash = End(c, x) /\ d[j].previous_hash = End(d, x)
  <2>1. c[i].previous_hash = IF i = 1 THEN Audit!Genesis ELSE c[i - 1].hash
    BY <1>7 DEF Audit!Sound
  <2>2. d[j].previous_hash = IF j = 1 THEN Audit!Genesis ELSE d[j - 1].hash
    BY <1>7 DEF Audit!Sound
  <2>3. /\ i = 1 <=> x = Len(c)
        /\ j = 1 <=> x = Len(d)
        /\ i - 1 = Len(c) - x /\ j - 1 = Len(d) - x
    BY <1>2, <1>3
  <2>. QED
    BY <2>1, <2>2, <2>3 DEF End
<1>. QED
  BY <1>2, <1>10, <1>11

(* The latest hash of a sound chain leaves its records no choice: none can *)
(* be altered, dropped, repeated, moved or put in front without the hashes *)
(* of AuditRecord noticing it, as long as latest_hash itself is known.     *)
THEOREM LatestHashPinsChain ==
  ASSUME NEW c \in Seq(Audit!Records), NEW d \in Seq(Audit!Records), NEW key \in Audit!Texts,
         NEW latest,
         Audit!Sound(c, latest, key), Audit!Sound(d, latest, key)
  PROVE  c = d
<1>1. Len(c) \in Nat /\ Len(d) \in Nat
  OBVIOUS
<1>2. ASSUME NEW a \in Seq(Audit!Records), NEW b \in Seq(Audit!Records),
             Audit!Sound(a, latest, key), Audit!Sound(b, latest, key), Len(a) < Len(b)
      PROVE  FALSE
  <2>1. Len(a) \in Nat /\ Len(b) \in Nat
    OBVIOUS
  <2>2. End(a, Len(a)) = End(b, Len(a))
    BY <1>2, <2>1, EndsAgree
  <2>3. Len(b) - Len(a) \in 1 .. Len(b)
    BY <1>2, <2>1
  <2>4. PICK r \in Audit!Records : r = b[Len(b) - Len(a)]
    BY <2>3
  <2>5. Audit!Verify(r, key) /\ r.hash = Audit!Genesis
    BY <1>2, <2>1, <2>2, <2>3, <2>4 DEF End, Audit!Sound
  <2>. QED
    BY <2>5, HashIsNotGenesis
<1>3. Len(c) = Len(d)
  BY <1>1, <1>2
<1>4. ASSUME NEW i \in 1 .. Len(c)
      PROVE  c[i] = d[i]
  <2>1. Len(c) - i \in Nat /\ Len(c) - i # Len(c) /\ Len(c) - (Len(c) - i) = i
    BY <1>1
  <2>2. End(c, Len(c) - i) = End(d, Len(c) - i)
    BY <1>1, <1>3, <2>1, EndsAgree
  <2>3. c[i].hash = d[i].hash
    BY <1>3, <2>1, <2>2 DEF End
  <2>4. /\ c[i] \in Audit!Records /\ d[i] \in Audit!Records
        /\ Audit!Verify(c[i], key) /\ Audit!Verify(d[i], key)
    BY <1>3 DEF Audit!Sound
  <2>. QED
    BY <2>3, <2>4, AlteredRecordNoticed
<1>. QED
  BY <1>3, <1>4, SeqEqual

-----------------------------------------------------------------------------
(* Chains that the writers make.                                           *)

\* Records and chains with the widths of the code.
Recs == {r \in Audit!Records : r.version \in 0 .. VersionLimit - 1}
Chains ==
  [records : Seq(Recs), root_hash : Audit!Texts, latest_hash : Audit!Texts, created_at : Int,
   updated_at : Int, logical_tick : 0 .. 2 * IntLimit - 1, version : 0 .. VersionLimit - 1]

Good(chain) == chain \in Chains /\ Verified(chain)

\* A record whose hash is what it signs.
Signed(r) == r \in Recs /\ Audit!Verify(r, AuditKey)

\* The message does not contain the hash.
LEMMA HashOfOthers ==
  ASSUME NEW r \in Audit!Records, NEW h
  PROVE  Audit!ComputeHash([r EXCEPT !.hash = h], AuditKey) = Audit!ComputeHash(r, AuditKey)
<1> DEFINE s == [r EXCEPT !.hash = h]
<1>1. /\ s.id = r.id /\ s.nonce = r.nonce /\ s.rule_id = r.rule_id /\ s.timestamp = r.timestamp
      /\ s.state_before_hash = r.state_before_hash /\ s.state_after_hash = r.state_after_hash
      /\ s.previous_hash = r.previous_hash /\ s.execution_result = r.execution_result
      /\ s.change_summary = r.change_summary /\ s.error_message = r.error_message
      /\ s.version = r.version
  BY DEF Audit!Records
<1> HIDE DEF s
<1>2. Audit!ComputeHash(s, AuditKey) = Audit!ComputeHash(r, AuditKey)
  BY <1>1, Zenon DEF Audit!ComputeHash
<1> QED BY <1>2 DEF s

\* A hash is a text.
LEMMA ComputedText ==
  ASSUME NEW r \in Audit!Records
  PROVE  Audit!ComputeHash(r, AuditKey) \in Audit!Texts
<1>1. Begins(Audit!ComputeHash(r, AuditKey), <<Len(AuditKey)>> \o AuditKey, Tail11(r))
  BY RecordAssumption, HashSplits
<1>2. Tail11(r) \in Audit!Texts /\ AuditKey \in Audit!Texts
  BY RecordAssumption, TailTexts
<1>3. <<Len(AuditKey)>> \in Audit!Texts
  BY <1>2 DEF Audit!Texts
<1> QED BY <1>1, <1>2, <1>3, ConcatText DEF Begins

\* A record with its hash put in.
LEMMA HashedSigned ==
  ASSUME NEW r \in Recs
  PROVE  Signed([r EXCEPT !.hash = Audit!ComputeHash(r, AuditKey)])
<1> DEFINE h == Audit!ComputeHash(r, AuditKey)
           s == [r EXCEPT !.hash = h]
<1>1. r \in Audit!Records /\ h \in Audit!Texts
  BY ComputedText DEF Recs
<1>2. Audit!ComputeHash(s, AuditKey) = h
  BY <1>1, HashOfOthers
<1> HIDE DEF h
<1>3. s \in Audit!Records /\ s.version = r.version /\ s.hash = h
  BY <1>1 DEF Audit!Records
<1> HIDE DEF s
<1>4. Signed(s)
  BY <1>2, <1>3 DEF Signed, Recs, Audit!Verify
<1> QED BY <1>4 DEF s, h

\* What both writers append (AuditRecord::new).
LEMMA NewSigned ==
  ASSUME NEW chain \in Chains, NEW rule \in Audit!Texts, NEW tick \in Int,
         NEW before \in Audit!Texts, NEW after \in Audit!Texts, NEW summary \in Audit!Texts
  PROVE  LET r == Audit!NewRecord(chain, rule, tick, before, after, summary, AuditKey)
         IN  /\ Signed(r) /\ r.previous_hash = chain.latest_hash
             /\ r.state_before_hash = before /\ r.state_after_hash = after
<1> DEFINE id == Audit!DeriveId(chain.latest_hash, tick)
           nonce == Audit!DeriveNonce(chain.latest_hash, tick, AuditKey)
           r == [id |-> id, rule_id |-> rule, timestamp |-> tick,
                 state_before_hash |-> before, state_after_hash |-> after,
                 change_summary |-> <<summary>>, execution_result |-> "success",
                 error_message |-> <<>>, hash |-> <<>>, previous_hash |-> chain.latest_hash,
                 nonce |-> nonce, version |-> Audit!CurrentVersion]
           new == Audit!NewRecord(chain, rule, tick, before, after, summary, AuditKey)
<1>1. chain.latest_hash \in Audit!Texts /\ AuditKey \in Audit!Texts
  BY RecordAssumption DEF Chains
<1>2. id \in Audit!Texts
  BY <1>1 DEF Audit!DeriveId, Audit!Sized, Audit!Texts
<1>3. nonce \in Audit!Texts
  BY <1>1 DEF Audit!DeriveNonce, Audit!HmacSha256, Audit!Texts
<1>4. new = [r EXCEPT !.hash = Audit!ComputeHash(r, AuditKey)]
  BY DEF Audit!NewRecord
<1> HIDE DEF id, nonce, new
<1>5. <<>> \in Audit!Texts /\ Audit!CurrentVersion \in 0 .. VersionLimit - 1
  BY RecordAssumption DEF Audit!Texts, Audit!CurrentVersion
<1>6. r \in Recs
  BY <1>1, <1>2, <1>3, <1>5 DEF Recs, Audit!Records, Audit!OptionalTexts, Audit!ExecutionResults
<1>7. /\ new.previous_hash = chain.latest_hash
      /\ new.state_before_hash = before /\ new.state_after_hash = after
  BY <1>4
<1> HIDE DEF r
<1>8. Signed(new)
  BY <1>4, <1>6, HashedSigned
<1> QED BY <1>7, <1>8 DEF new

\* An empty chain verifies.
LEMMA EmptyGood == Good(Audit!EmptyChain)
<1> DEFINE c == Audit!EmptyChain
<1>1. /\ c.records = <<>> /\ c.root_hash = Audit!Genesis /\ c.latest_hash = Audit!Genesis
      /\ c.created_at = 0 /\ c.updated_at = 0 /\ c.logical_tick = 0
      /\ c.version = Audit!CurrentVersion
  BY DEF Audit!EmptyChain
<1>2. Audit!Genesis \in Audit!Texts /\ Audit!CurrentVersion \in 0 .. VersionLimit - 1
  BY RecordAssumption DEF Audit!Genesis, Audit!Texts, Audit!CurrentVersion
<1>3. 0 \in 0 .. 2 * IntLimit - 1
  BY IntLimitAssumption
<1>4. <<>> \in Seq(Recs) /\ Len(<<>>) = 0
  OBVIOUS
<1>5. c \in Chains
  BY <1>2, <1>3, <1>4 DEF Chains, Audit!EmptyChain
<1> HIDE DEF c
<1>6. Verified(c)
  BY <1>1, <1>4 DEF Verified, Audit!Sound
<1> QED BY <1>5, <1>6 DEF Good, c

\* A signed record that names the last hash keeps a chain sound.
LEMMA AppendGood ==
  ASSUME NEW chain, Good(chain), NEW r, Signed(r), r.previous_hash = chain.latest_hash
  PROVE  LET new == Audit!AppendRecord(chain, r)
         IN  Good(new) /\ new.records = Append(chain.records, r) /\ new.latest_hash = r.hash
<1> DEFINE new == Audit!AppendRecord(chain, r)
           n == Len(chain.records)
<1>0. chain \in Chains /\ r \in Recs /\ Verified(chain) /\ Audit!Verify(r, AuditKey)
  BY DEF Good, Signed
<1>1. chain.records \in Seq(Recs) /\ n \in Nat /\ r.hash \in Audit!Texts /\ r.timestamp \in Int
  BY <1>0 DEF Chains, Recs, Audit!Records
<1>2. /\ new.records = Append(chain.records, r) /\ new.latest_hash = r.hash
      /\ new \in Chains
  <2>1. Append(chain.records, r) \in Seq(Recs)
    BY <1>0, <1>1
  <2>2. PICK root \in Audit!Texts, created \in Int :
          new = [chain EXCEPT !.records = Append(@, r), !.root_hash = root,
                              !.created_at = created, !.latest_hash = r.hash,
                              !.updated_at = r.timestamp]
    BY <1>0, <1>1 DEF Audit!AppendRecord, Chains
  <2> HIDE DEF new
  <2>3. /\ chain.records \in Seq(Recs) /\ chain.logical_tick \in 0 .. 2 * IntLimit - 1
        /\ chain.version \in 0 .. VersionLimit - 1
    BY <1>0 DEF Chains
  <2>4. /\ new.records = Append(chain.records, r) /\ new.latest_hash = r.hash
    BY <1>0, <2>2 DEF Chains
  <2>5. new \in Chains
    BY <1>0, <1>1, <2>1, <2>2, <2>3 DEF Chains
  <2> QED BY <2>4, <2>5
<1>3. /\ Len(Append(chain.records, r)) = n + 1
      /\ \A k \in 1 .. n : Append(chain.records, r)[k] = chain.records[k]
      /\ Append(chain.records, r)[n + 1] = r
  BY <1>0, <1>1
<1>4. chain.latest_hash = IF n = 0 THEN Audit!Genesis ELSE chain.records[n].hash
  BY <1>0 DEF Verified, Audit!Sound
<1>5. ASSUME NEW k \in 1 .. n + 1
      PROVE  /\ Audit!Verify(Append(chain.records, r)[k], AuditKey)
             /\ Append(chain.records, r)[k].previous_hash =
                  IF k = 1 THEN Audit!Genesis ELSE Append(chain.records, r)[k - 1].hash
  <2>1. CASE k = n + 1
    <3>1. k # 1 => n \in 1 .. n /\ k - 1 = n /\ n # 0
      BY <1>1, <2>1
    <3>2. k = 1 => n = 0
      BY <1>1, <2>1
    <3> QED BY <1>0, <1>3, <1>4, <2>1, <3>1, <3>2
  <2>2. CASE k # n + 1
    <3>1. k \in 1 .. n /\ (k # 1 => k - 1 \in 1 .. n)
      BY <1>1, <2>2
    <3>2. /\ Audit!Verify(chain.records[k], AuditKey)
          /\ chain.records[k].previous_hash =
               IF k = 1 THEN Audit!Genesis ELSE chain.records[k - 1].hash
      BY <1>0, <3>1 DEF Verified, Audit!Sound
    <3> QED BY <1>3, <3>1, <3>2
  <2> QED BY <2>1, <2>2
<1> HIDE DEF new
<1>6. Verified(new)
  <2>1. n + 1 # 0
    BY <1>1
  <2> QED BY <1>2, <1>3, <1>5, <2>1 DEF Verified, Audit!Sound
<1> QED BY <1>2, <1>6 DEF Good, new

-----------------------------------------------------------------------------
(* Records as values.                                                      *)

SignedTexts == TextFields \cup OptionalFields

\* What to_value writes for one field of a record.
FieldValue(r, f) ==
  CASE f \in TextFields               -> VText(r[f])
    [] f \in OptionalFields           -> VText(r[f][1])
    [] f \in {"timestamp", "version"} -> VInt(r[f])
    [] f = "execution_result"         -> Text(r[f])

\* The fields of a stored record.
LEMMA RecordStored ==
  ASSUME NEW r
  PROVE  /\ RecordToValue(r) = VObj(RecordToValue(r).fields)
         /\ \A f \in RecordFields :
              f \in OptionalFields /\ r[f] = <<>> => <<f>> \notin DOMAIN RecordToValue(r).fields
         /\ \A f \in RecordFields :
              FieldOf(RecordToValue(r), <<f>>) =
                IF f \in OptionalFields /\ r[f] = <<>> THEN None ELSE FieldValue(r, f)
<1> DEFINE present == {f \in RecordFields : f \in OptionalFields => r[f] # <<>>}
           g == [key \in {<<f>> : f \in present} |-> FieldValue(r, key[1])]
<1>1. RecordToValue(r) = VObj(g)
  BY DEF RecordToValue, Fields, FieldValue
<1>2. \A f \in RecordFields : <<f>> \in DOMAIN g <=> f \in present
  OBVIOUS
<1>3. \A f \in present : <<f>> \in DOMAIN g /\ g[<<f>>] = FieldValue(r, f)
  OBVIOUS
<1> HIDE DEF g
<1>4. VObj(g).fields = g /\ VObj(g).type = "obj"
  BY DEF VObj
<1>5. ASSUME NEW f \in RecordFields
      PROVE  FieldOf(RecordToValue(r), <<f>>) =
               IF f \in OptionalFields /\ r[f] = <<>> THEN None ELSE FieldValue(r, f)
  BY <1>1, <1>2, <1>3, <1>4 DEF FieldOf, Field
<1>6. \A f \in RecordFields :
        f \in OptionalFields /\ r[f] = <<>> => <<f>> \notin DOMAIN RecordToValue(r).fields
  BY <1>1, <1>2, <1>4
<1> QED BY <1>1, <1>4, <1>5, <1>6

\* Where v has a text or a number of a record, it is one.
Readable(v) ==
  /\ \A f \in SignedTexts : IsText(FieldOf(v, <<f>>)) => FieldOf(v, <<f>>).bytes \in Audit!Texts
  /\ FieldOf(v, <<"timestamp">>).type = "int" => FieldOf(v, <<"timestamp">>).n \in Int
  /\ FieldOf(v, <<"version">>).type = "int" => FieldOf(v, <<"version">>).n \in Int

\* The same, and where a text may be there is no other value.
Written(v) ==
  /\ v = VObj(v.fields) /\ Readable(v)
  /\ \A f \in SignedTexts : <<f>> \in DOMAIN v.fields => IsText(FieldOf(v, <<f>>))

\* A record that was stored.
LEMMA StoredWritten ==
  ASSUME NEW r \in Audit!Records
  PROVE  Written(RecordToValue(r))
<1> DEFINE v == RecordToValue(r)
<1>1. ASSUME NEW f \in TextFields
      PROVE  /\ IsText(FieldOf(v, <<f>>)) /\ FieldOf(v, <<f>>).bytes \in Audit!Texts
  <2>1. FieldOf(v, <<f>>) = VText(r[f])
    BY RecordStored DEF RecordFields, FieldValue, TextFields, OptionalFields
  <2>2. r[f] \in Audit!Texts
    BY DEF TextFields, Audit!Records
  <2> QED BY <2>1, <2>2 DEF IsText, VText
<1>2. ASSUME NEW f \in OptionalFields
      PROVE  \/ FieldOf(v, <<f>>) = None /\ <<f>> \notin DOMAIN v.fields
             \/ IsText(FieldOf(v, <<f>>)) /\ FieldOf(v, <<f>>).bytes \in Audit!Texts
  <2>1. r[f] \in Audit!OptionalTexts
    BY DEF OptionalFields, Audit!Records
  <2>2. CASE r[f] = <<>>
    BY <2>2, RecordStored DEF RecordFields
  <2>3. CASE r[f] # <<>>
    <3>1. FieldOf(v, <<f>>) = VText(r[f][1])
      BY <2>3, RecordStored DEF RecordFields, FieldValue, TextFields, OptionalFields
    <3>2. r[f][1] \in Audit!Texts
      BY <2>1, <2>3 DEF Audit!OptionalTexts
    <3> QED BY <3>1, <3>2 DEF IsText, VText
  <2> QED BY <2>2, <2>3
<1>3. ASSUME NEW f \in {"timestamp", "version"}
      PROVE  FieldOf(v, <<f>>) = VInt(r[f]) /\ r[f] \in Int
  <2>1. FieldOf(v, <<f>>) = VInt(r[f])
    BY RecordStored DEF RecordFields, FieldValue, TextFields, OptionalFields
  <2>2. r[f] \in Int
    BY DEF Audit!Records
  <2> QED BY <2>1, <2>2
<1>4. v = VObj(v.fields)
  BY RecordStored
<1> HIDE DEF v
<1>5. ~IsText(None)
  BY DEF IsText, None
<1>6. Readable(v)
  <2>1. \A f \in SignedTexts : IsText(FieldOf(v, <<f>>)) => FieldOf(v, <<f>>).bytes \in Audit!Texts
    BY <1>1, <1>2, <1>5 DEF SignedTexts
  <2>2. /\ FieldOf(v, <<"timestamp">>).n = r["timestamp"]
        /\ FieldOf(v, <<"version">>).n = r["version"]
    BY <1>3 DEF VInt
  <2>3. r["timestamp"] \in Int /\ r["version"] \in Int
    BY <1>3
  <2> QED BY <2>1, <2>2, <2>3 DEF Readable
<1>7. Written(v)
  BY <1>1, <1>2, <1>4, <1>6 DEF Written, SignedTexts
<1> QED BY <1>7 DEF v

\* What a record is read as, field by field.
FieldRead(v, f) ==
  LET At == FieldOf(v, <<f>>)
  IN  CASE f \in TextFields       -> At.bytes
        [] f \in OptionalFields   -> IF IsText(At) THEN <<At.bytes>> ELSE <<>>
        [] f = "timestamp"        -> At.n
        [] f = "version"          -> At.n % VersionLimit
        [] f = "execution_result" -> At.text[1]

\* from_value reads it.
Parses(v) ==
  /\ \A f \in TextFields : IsText(FieldOf(v, <<f>>))
  /\ FieldOf(v, <<"timestamp">>).type = "int" /\ FieldOf(v, <<"version">>).type = "int"
  /\ FieldOf(v, <<"execution_result">>) \in {Text(e) : e \in Audit!ExecutionResults}

\* from_value, with the names above.
LEMMA RecordReadIs ==
  ASSUME NEW v
  PROVE  RecordFromValue(v) =
           IF Parses(v) THEN [f \in RecordFields |-> FieldRead(v, f)] ELSE Unreadable
BY DEF RecordFromValue, Parses, FieldRead

\* A function of the fields of a record is a record.
LEMMA RecordMade ==
  ASSUME NEW g, g = [f \in RecordFields |-> g[f]],
         \A f \in TextFields : g[f] \in Audit!Texts,
         \A f \in OptionalFields : g[f] \in Audit!OptionalTexts,
         g["timestamp"] \in Int, g["version"] \in 0 .. VersionLimit - 1,
         g["execution_result"] \in Audit!ExecutionResults
  PROVE  g \in Recs
<1>1. /\ {g["id"], g["rule_id"], g["state_before_hash"], g["state_after_hash"], g["hash"],
          g["previous_hash"], g["nonce"]} \subseteq Audit!Texts
      /\ {g["change_summary"], g["error_message"]} \subseteq Audit!OptionalTexts
  BY DEF TextFields, OptionalFields
<1>2. g["version"] \in Int
  BY RecordAssumption
<1>3. g = [id |-> g["id"], rule_id |-> g["rule_id"], timestamp |-> g["timestamp"],
           state_before_hash |-> g["state_before_hash"],
           state_after_hash |-> g["state_after_hash"], change_summary |-> g["change_summary"],
           execution_result |-> g["execution_result"], error_message |-> g["error_message"],
           hash |-> g["hash"], previous_hash |-> g["previous_hash"], nonce |-> g["nonce"],
           version |-> g["version"]]
  BY DEF RecordFields, TextFields, OptionalFields
<1>4. g \in Audit!Records
  BY <1>1, <1>2, <1>3 DEF Audit!Records
<1> QED BY <1>4 DEF Recs

\* Whatever is read is a record, if its texts and numbers are such.
LEMMA ReadTyped ==
  ASSUME NEW v, Readable(v), RecordFromValue(v) # Unreadable
  PROVE  RecordFromValue(v) \in Recs
<1> DEFINE g == [f \in RecordFields |-> FieldRead(v, f)]
<1>1. Parses(v) /\ RecordFromValue(v) = g
  BY RecordReadIs
<1>2. ASSUME NEW f \in TextFields PROVE g[f] \in Audit!Texts
  <2>1. g[f] = FieldOf(v, <<f>>).bytes
    BY DEF FieldRead, RecordFields, TextFields, OptionalFields
  <2> QED BY <1>1, <2>1 DEF Parses, Readable, SignedTexts
<1>3. ASSUME NEW f \in OptionalFields PROVE g[f] \in Audit!OptionalTexts
  <2>1. g[f] = IF IsText(FieldOf(v, <<f>>)) THEN <<FieldOf(v, <<f>>).bytes>> ELSE <<>>
    BY DEF FieldRead, RecordFields, TextFields, OptionalFields
  <2>2. CASE IsText(FieldOf(v, <<f>>))
    <3>1. FieldOf(v, <<f>>).bytes \in Audit!Texts
      BY <2>2 DEF Readable, SignedTexts
    <3> QED BY <2>1, <2>2, <3>1 DEF Audit!OptionalTexts
  <2>3. CASE ~IsText(FieldOf(v, <<f>>))
    BY <2>1, <2>3 DEF Audit!OptionalTexts
  <2> QED BY <2>2, <2>3
<1>4. g["timestamp"] \in Int
  <2>1. g["timestamp"] = FieldOf(v, <<"timestamp">>).n
    BY DEF FieldRead, RecordFields, TextFields, OptionalFields
  <2> QED BY <1>1, <2>1 DEF Parses, Readable
<1>5. g["version"] \in 0 .. VersionLimit - 1
  <2>1. g["version"] = FieldOf(v, <<"version">>).n % VersionLimit
    BY DEF FieldRead, RecordFields, TextFields, OptionalFields
  <2>2. FieldOf(v, <<"version">>).n \in Int
    BY <1>1 DEF Parses, Readable
  <2>3. VersionLimit \in Nat /\ VersionLimit > 0
    BY RecordAssumption DEF Audit!CurrentVersion
  <2>4. \A m \in Int, n \in Nat : n > 0 => m % n \in 0 .. n - 1
    OBVIOUS
  <2> QED BY <2>1, <2>2, <2>3, <2>4
<1>6. g["execution_result"] \in Audit!ExecutionResults
  <2>1. g["execution_result"] = FieldOf(v, <<"execution_result">>).text[1]
    BY DEF FieldRead, RecordFields, TextFields, OptionalFields
  <2>2. PICK e \in Audit!ExecutionResults : FieldOf(v, <<"execution_result">>) = Text(e)
    BY <1>1 DEF Parses
  <2> QED BY <2>1, <2>2 DEF Text, VStr
<1>7. g = [f \in RecordFields |-> g[f]]
  OBVIOUS
<1> HIDE DEF g
<1>8. g \in Recs
  BY <1>2, <1>3, <1>4, <1>5, <1>6, <1>7, RecordMade
<1> QED BY <1>1, <1>8

\* A record is read back as it was stored (to_value, from_value).
LEMMA RecordSurvives ==
  ASSUME NEW r \in Recs
  PROVE  RecordFromValue(RecordToValue(r)) = r
<1> DEFINE v == RecordToValue(r)
<1>0. r \in Audit!Records /\ r.version \in 0 .. VersionLimit - 1
  BY DEF Recs
<1>1. \A f \in RecordFields :
        FieldOf(v, <<f>>) =
          IF f \in OptionalFields /\ r[f] = <<>> THEN None ELSE FieldValue(r, f)
  BY RecordStored
<1> HIDE DEF v
<1>2. ASSUME NEW f \in TextFields
      PROVE  IsText(FieldOf(v, <<f>>)) /\ FieldRead(v, f) = r[f]
  <2>1. FieldOf(v, <<f>>) = VText(r[f])
    BY <1>1 DEF RecordFields, FieldValue, TextFields, OptionalFields
  <2> QED BY <2>1 DEF FieldRead, IsText, VText, TextFields, OptionalFields
<1>3. ASSUME NEW f \in OptionalFields
      PROVE  FieldRead(v, f) = r[f]
  <2>1. FieldRead(v, f) = IF IsText(FieldOf(v, <<f>>)) THEN <<FieldOf(v, <<f>>).bytes>> ELSE <<>>
    BY DEF FieldRead, TextFields, OptionalFields
  <2>2. r[f] \in Audit!OptionalTexts
    BY <1>0 DEF OptionalFields, Audit!Records
  <2>3. CASE r[f] = <<>>
    BY <1>1, <2>1, <2>3 DEF RecordFields, IsText, None
  <2>4. CASE r[f] # <<>>
    <3>1. FieldOf(v, <<f>>) = VText(r[f][1])
      BY <1>1, <2>4 DEF RecordFields, FieldValue, TextFields, OptionalFields
    <3>2. r[f] = <<r[f][1]>>
      BY <2>2, <2>4 DEF Audit!OptionalTexts
    <3> QED BY <2>1, <3>1, <3>2 DEF IsText, VText
  <2> QED BY <2>3, <2>4
<1>4. /\ FieldOf(v, <<"timestamp">>) = VInt(r["timestamp"])
      /\ FieldOf(v, <<"version">>) = VInt(r["version"])
      /\ FieldOf(v, <<"execution_result">>) = Text(r["execution_result"])
  BY <1>1 DEF RecordFields, FieldValue, TextFields, OptionalFields
<1>5. /\ FieldRead(v, "timestamp") = r["timestamp"]
      /\ FieldRead(v, "version") = r["version"] % VersionLimit
      /\ FieldRead(v, "execution_result") = r["execution_result"]
  BY <1>4 DEF FieldRead, TextFields, OptionalFields, VInt, Text, VStr
<1>6. r["version"] % VersionLimit = r["version"]
  <2>1. VersionLimit \in Nat /\ r["version"] \in 0 .. VersionLimit - 1
    BY <1>0, RecordAssumption
  <2> QED BY <2>1
<1>7. Parses(v)
  <2>1. r["execution_result"] \in Audit!ExecutionResults
    BY <1>0 DEF Audit!Records
  <2>2. FieldOf(v, <<"timestamp">>).type = "int" /\ FieldOf(v, <<"version">>).type = "int"
    BY <1>4 DEF VInt
  <2> QED BY <1>2, <1>4, <2>1, <2>2 DEF Parses
<1>8. \A f \in RecordFields : FieldRead(v, f) = r[f]
  BY <1>2, <1>3, <1>5, <1>6 DEF RecordFields
<1>9. r = [f \in RecordFields |-> r[f]]
  BY <1>0 DEF Audit!Records, RecordFields, TextFields, OptionalFields
<1>10. RecordFromValue(v) = [f \in RecordFields |-> FieldRead(v, f)]
  BY <1>7, RecordReadIs
<1> QED BY <1>8, <1>9, <1>10 DEF v

-----------------------------------------------------------------------------
(* The chains about a state.                                               *)

\* What the hash of a state looks at is a value.
LEMMA SnapshotProper ==
  ASSUME NEW d, Proper(VObj(d))
  PROVE  Proper(BusinessSnapshot(d))
<1> DEFINE K == DOMAIN d \ SystemFields
           b == Restrict(d, K)
<1>1. VObj(d).type = "obj" /\ VObj(d).fields = d
  BY DEF VObj
<1>2. IsFiniteSet(DOMAIN d) /\ DOMAIN d \subseteq Words /\ \A k \in DOMAIN d : Proper(d[k])
  BY <1>1, FieldsProper
<1>3. IsFiniteSet(K) /\ K \subseteq Words /\ K \subseteq DOMAIN d
  BY <1>2, FS_Subset
<1>4. DOMAIN b = K /\ b = [k \in K |-> b[k]] /\ \A k \in K : b[k] = d[k]
  BY DEF Restrict
<1> HIDE DEF b, K
<1>5. Proper(VObj(b))
  BY <1>2, <1>3, <1>4, ObjectProper
<1> QED BY <1>5 DEF BusinessSnapshot, b, K

\* The hash of a state is a text.
LEMMA StateHashText ==
  ASSUME NEW d, Proper(VObj(d))
  PROVE  StateHash(d) \in Audit!Texts
<1> DEFINE s == <<BusinessSnapshot(d)>>
<1>1. Hashable(s)
  BY SnapshotProper DEF Hashable
<1>2. StateHash(d) = ContentHash(s)
  BY DEF StateHash
<1> HIDE DEF s
<1>3. ContentHash(s) \in Seq(Int)
  BY <1>1, EncodingsTyped, FlattenTyped
<1> QED BY <1>2, <1>3 DEF Audit!Texts

\* A chain and one more record about a state.
Traced(hash, chain, tick, message) ==
  LET r == Audit!NewRecord(chain, <<1, 2>>, tick, hash, hash, <<1>>, AuditKey)
      s == [r EXCEPT !.error_message = message]
  IN  Audit!AppendRecord(chain, [s EXCEPT !.hash = Audit!ComputeHash(s, AuditKey)])

\* The record is signed with the message in it.
LEMMA TracedGood ==
  ASSUME NEW chain, Good(chain), NEW hash \in Audit!Texts, NEW tick \in Int,
         NEW message \in Audit!OptionalTexts
  PROVE  Good(Traced(hash, chain, tick, message))
<1>0. PICK rule \in Audit!Texts, summary \in Audit!Texts : rule = <<1, 2>> /\ summary = <<1>>
  <2>1. <<1, 2>> \in Audit!Texts /\ <<1>> \in Audit!Texts
    BY DEF Audit!Texts
  <2> QED BY <2>1
<1> DEFINE r == Audit!NewRecord(chain, rule, tick, hash, hash, summary, AuditKey)
           s == [r EXCEPT !.error_message = message]
           t == [s EXCEPT !.hash = Audit!ComputeHash(s, AuditKey)]
<1>1. chain \in Chains
  BY DEF Good
<1>2. Signed(r) /\ r.previous_hash = chain.latest_hash
  BY <1>1, NewSigned
<1> HIDE DEF r
<1>3. s \in Recs /\ s.previous_hash = chain.latest_hash
  BY <1>2 DEF Signed, Recs, Audit!Records
<1>4. \A h : [s EXCEPT !.hash = h].previous_hash = s.previous_hash
  BY <1>3 DEF Recs, Audit!Records
<1> HIDE DEF s
<1>5. Signed(t) /\ t.previous_hash = chain.latest_hash
  BY <1>3, <1>4, HashedSigned
<1>6. Traced(hash, chain, tick, message) = Audit!AppendRecord(chain, t)
  BY <1>0, Zenon DEF Traced, r, s
<1> HIDE DEF t
<1> QED BY <1>5, <1>6, AppendGood

\* The chains that are altered are good ones.
LEMMA ChainsAboutGood ==
  ASSUME NEW hash \in Audit!Texts, NEW chain \in ChainsAbout(hash)
  PROVE  Good(chain)
<1> DEFINE one == {Traced(hash, Audit!EmptyChain, 0, message) :
                     message \in {<<>>, <<<<>>>>, <<<<1>>>>}}
<1>1. chain \in one \cup {Traced(hash, Traced(hash, c, 1, <<>>), 0, <<>>) : c \in one}
  BY DEF ChainsAbout, Traced
<1>2. {<<>>, <<<<>>>>, <<<<1>>>>} \subseteq Audit!OptionalTexts
  <2>1. <<>> \in Audit!Texts /\ <<1>> \in Audit!Texts
    BY DEF Audit!Texts
  <2> QED BY <2>1 DEF Audit!OptionalTexts
<1>3. \A c \in one : Good(c)
  BY <1>2, EmptyGood, TracedGood
<1>4. <<>> \in Audit!OptionalTexts
  BY DEF Audit!OptionalTexts
<1> HIDE DEF one
<1>5. \A c \in one : Good(Traced(hash, c, 1, <<>>))
  BY <1>3, <1>4, TracedGood
<1>6. \A c \in one : Good(Traced(hash, Traced(hash, c, 1, <<>>), 0, <<>>))
  BY <1>4, <1>5, TracedGood
<1> QED BY <1>1, <1>3, <1>6

-----------------------------------------------------------------------------
(* What is altered in a stored chain.                                      *)

\* One field of an object set.
LEMMA PutField ==
  ASSUME NEW g, NEW key, NEW v
  PROVE  \A k : FieldOf(VObj(Put(g, key, v)), k) = IF k = key THEN v ELSE FieldOf(VObj(g), k)
<1>1. \A f : VObj(f).type = "obj" /\ VObj(f).fields = f
  BY DEF VObj
<1>2. /\ DOMAIN Put(g, key, v) = DOMAIN g \cup {key}
      /\ \A x \in DOMAIN g \cup {key} : Put(g, key, v)[x] = IF x = key THEN v ELSE g[x]
  BY DEF Put
<1> QED BY <1>1, <1>2 DEF FieldOf, Field

\* A value that may stand anywhere in a stored record.
Plain(v) == (IsText(v) => v.bytes \in Audit!Texts) /\ (v.type = "int" => v.n \in Int)

\* A field is set to such a value.
LEMMA PutReadable ==
  ASSUME NEW g, Readable(VObj(g)), NEW key, NEW v, Plain(v)
  PROVE  Readable(VObj(Put(g, key, v)))
<1>1. \A k : \/ FieldOf(VObj(Put(g, key, v)), k) = v
             \/ FieldOf(VObj(Put(g, key, v)), k) = FieldOf(VObj(g), k)
  BY PutField
<1> QED BY <1>1 DEF Readable, Plain

\* A field is left out.
LEMMA RestReadable ==
  ASSUME NEW g, Readable(VObj(g)), NEW key
  PROVE  Readable(VObj(Restrict(g, DOMAIN g \ {key})))
<1> DEFINE rest == Restrict(g, DOMAIN g \ {key})
<1>1. \A f : VObj(f).type = "obj" /\ VObj(f).fields = f
  BY DEF VObj
<1>2. /\ DOMAIN rest = DOMAIN g \ {key}
      /\ \A x \in DOMAIN g \ {key} : rest[x] = g[x]
  BY DEF Restrict
<1> HIDE DEF rest
<1>3. \A k : FieldOf(VObj(rest), k) = None \/ FieldOf(VObj(rest), k) = FieldOf(VObj(g), k)
  BY <1>1, <1>2 DEF FieldOf, Field
<1>4. ~IsText(None) /\ None.type # "int"
  BY DEF IsText, None
<1>5. Readable(VObj(rest))
  BY <1>3, <1>4 DEF Readable
<1> QED BY <1>5 DEF rest

\* One field of a record altered, and the record may still be read.
LEMMA FieldsReadable ==
  ASSUME NEW g, Readable(VObj(g)), NEW w \in FieldsAltered(g)
  PROVE  Readable(VObj(w))
<1>1. \A v \in {VNull, VText(<<>>), VText(<<1>>), VInt(0), VInt(3 + VersionLimit)} : Plain(v)
  <2>1. <<>> \in Audit!Texts /\ <<1>> \in Audit!Texts
    BY DEF Audit!Texts
  <2>2. \A t \in Audit!Texts : Plain(VText(t))
    BY DEF Plain, IsText, VText
  <2>3. \A n \in Int : Plain(VInt(n))
    BY DEF Plain, IsText, VInt
  <2>4. Plain(VNull)
    BY DEF Plain, IsText, VNull
  <2>5. 3 + VersionLimit \in Int
    BY RecordAssumption
  <2> QED BY <2>1, <2>2, <2>3, <2>4, <2>5
<1>2. \A e : Plain(Text(e))
  BY DEF Plain, IsText, Text, VStr
<1>3. CASE \E key, v : Plain(v) /\ w = Put(g, key, v)
  BY <1>3, PutReadable
<1>4. CASE \E key : w = Restrict(g, DOMAIN g \ {key})
  BY <1>4, RestReadable
<1> DEFINE names == TextFields \cup OptionalFields \cup {"timestamp", "version"}
           values == {VNull, VText(<<>>), VText(<<1>>), VInt(0), VInt(3 + VersionLimit)}
<1>5. \/ \E f \in names, v \in values : w = Put(g, <<f>>, v)
      \/ \E e \in Audit!ExecutionResults \cup {"x"} : w = Put(g, <<"execution_result">>, Text(e))
      \/ \E key \in DOMAIN g : w = Restrict(g, DOMAIN g \ {key})
  <2> DEFINE A == {Put(g, <<f>>, v) : f \in names, v \in values}
             B == {Put(g, <<"execution_result">>, Text(e)) :
                     e \in Audit!ExecutionResults \cup {"x"}}
             C == {Restrict(g, DOMAIN g \ {key}) : key \in DOMAIN g}
  <2>1. w \in A \cup B \cup C
    BY DEF FieldsAltered
  <2> HIDE DEF names, values
  <2>2. CASE w \in A
    BY <2>2
  <2>3. CASE w \in B
    BY <2>3
  <2>4. CASE w \in C
    BY <2>4
  <2> QED BY <2>1, <2>2, <2>3, <2>4
<1> HIDE DEF names, values
<1>6. CASE \E f \in names, v \in values : w = Put(g, <<f>>, v)
  BY <1>1, <1>3, <1>6, Zenon DEF values
<1>7. CASE \E e \in Audit!ExecutionResults \cup {"x"} : w = Put(g, <<"execution_result">>, Text(e))
  BY <1>2, <1>3, <1>7, Zenon
<1> QED BY <1>4, <1>5, <1>6, <1>7

\* The same when a byte moves from one field to the next.
LEMMA BytesReadable ==
  ASSUME NEW g, Written(VObj(g)), NEW w \in BytesMoved(g)
  PROVE  Readable(VObj(w))
<1>1. \A k \in 1 .. 8 : SignedOrder[k] \in SignedTexts
  BY DEF SignedOrder, SignedTexts, TextFields, OptionalFields
<1>2. Len(SignedOrder) = 8
  BY DEF SignedOrder
<1>3. \A f \in SignedTexts : <<f>> \in DOMAIN g =>
        IsText(g[<<f>>]) /\ g[<<f>>].bytes \in Audit!Texts
  <2> SUFFICES ASSUME NEW f \in SignedTexts, <<f>> \in DOMAIN g
               PROVE  IsText(g[<<f>>]) /\ g[<<f>>].bytes \in Audit!Texts
    OBVIOUS
  <2>1. FieldOf(VObj(g), <<f>>) = g[<<f>>] /\ VObj(g).fields = g
    BY DEF FieldOf, Field, VObj
  <2> QED BY <2>1 DEF Written, Readable
<1>4. PICK k \in {j \in 1 .. Len(SignedOrder) - 1 :
                    /\ {<<SignedOrder[j]>>, <<SignedOrder[j + 1]>>} \subseteq DOMAIN g
                    /\ g[<<SignedOrder[j]>>].bytes # <<>>} :
        w = Put(Put(g, <<SignedOrder[k]>>, VText(Front(g[<<SignedOrder[k]>>].bytes))),
                <<SignedOrder[k + 1]>>,
                VText(<<Last(g[<<SignedOrder[k]>>].bytes)>> \o g[<<SignedOrder[k + 1]>>].bytes))
  BY Zenon DEF BytesMoved
<1> DEFINE f == g[<<SignedOrder[k]>>].bytes
           h == g[<<SignedOrder[k + 1]>>].bytes
<1>5. f \in Audit!Texts /\ h \in Audit!Texts
  <2>1. k \in 1 .. 8 /\ k + 1 \in 1 .. 8
    BY <1>2
  <2> QED BY <1>1, <1>3, <2>1
<1>6. f # <<>>
  BY <1>4
<1> HIDE DEF f, h
<1>7. Front(f) \in Audit!Texts /\ <<Last(f)>> \o h \in Audit!Texts
  BY <1>5, <1>6 DEF Front, Last, Audit!Texts
<1>8. \A t \in Audit!Texts : Plain(VText(t))
  BY DEF Plain, IsText, VText
<1>9. w = Put(Put(g, <<SignedOrder[k]>>, VText(Front(f))),
              <<SignedOrder[k + 1]>>, VText(<<Last(f)>> \o h))
  BY <1>4 DEF f, h
<1>10. Readable(VObj(g))
  BY DEF Written
<1> QED BY <1>7, <1>8, <1>9, <1>10, PutReadable

\* Whatever is altered, what is in the list may still be read as a record.
LEMMA ItemsReadable ==
  ASSUME NEW S, \A x \in S : Written(x), NEW items \in Seq(S), NEW new \in ItemsAltered(items)
  PROVE  \E T : new \in Seq(T) /\ \A x \in T : Readable(x)
<1>1. \A x \in S : Readable(x)
  BY DEF Written
<1>2. \A k \in DOMAIN items : items[k] \in S
  OBVIOUS
<1>3. ASSUME NEW k \in DOMAIN items, new = RemoveAt(items, k)
      PROVE  new \in Seq(S)
  BY <1>3 DEF RemoveAt
<1>4. ASSUME NEW k \in DOMAIN items, NEW j \in DOMAIN items, new = InsertAt(items, k, items[j])
      PROVE  new \in Seq(S)
  BY <1>4 DEF InsertAt
<1>5. ASSUME NEW k \in DOMAIN items, NEW j \in DOMAIN items,
             new = [items EXCEPT ![j] = items[k], ![k] = items[j]]
      PROVE  new \in Seq(S)
  BY <1>5
<1>6. ASSUME NEW k \in DOMAIN items,
             NEW w \in FieldsAltered(items[k].fields) \cup BytesMoved(items[k].fields),
             new = [items EXCEPT ![k] = VObj(w)]
      PROVE  \E T : new \in Seq(T) /\ \A x \in T : Readable(x)
  <2>1. Written(items[k])
    BY <1>2
  <2>2. items[k] = VObj(items[k].fields)
    BY <2>1 DEF Written
  <2>3. PICK g : g = items[k].fields
    OBVIOUS
  <2>4. Written(VObj(g)) /\ Readable(VObj(g))
    BY <2>1, <2>2, <2>3 DEF Written
  <2>5. Readable(VObj(w))
    BY <2>3, <2>4, FieldsReadable, BytesReadable
  <2>6. new \in Seq(S \cup {VObj(w)})
    BY <1>6
  <2> QED BY <1>1, <2>5, <2>6
<1>7. \/ \E k \in DOMAIN items : new = RemoveAt(items, k)
      \/ \E k, j \in DOMAIN items : new = InsertAt(items, k, items[j])
      \/ \E k, j \in DOMAIN items : new = [items EXCEPT ![j] = items[k], ![k] = items[j]]
      \/ \E k \in DOMAIN items :
           \E w \in FieldsAltered(items[k].fields) \cup BytesMoved(items[k].fields) :
             new = [items EXCEPT ![k] = VObj(w)]
  <2> DEFINE A == {RemoveAt(items, k) : k \in DOMAIN items}
             B == {InsertAt(items, k, items[j]) : j, k \in DOMAIN items}
             C == {[items EXCEPT ![j] = items[k], ![k] = items[j]] : j, k \in DOMAIN items}
             W(k) == FieldsAltered(items[k].fields) \cup BytesMoved(items[k].fields)
             E == {{[items EXCEPT ![k] = VObj(fields)] : fields \in W(k)} : k \in DOMAIN items}
  <2>1. new \in A \cup B \cup C \cup UNION E
    BY DEF ItemsAltered
  <2>2. CASE new \in A
    BY <2>2
  <2>3. CASE new \in B
    BY <2>3
  <2>4. CASE new \in C
    BY <2>4
  <2>5. CASE new \in UNION E
    <3> HIDE DEF W
    <3>1. \E k \in DOMAIN items : \E w \in W(k) : new = [items EXCEPT ![k] = VObj(w)]
      BY <2>5
    <3> QED BY <3>1, Zenon DEF W
  <2> QED BY <2>1, <2>2, <2>3, <2>4, <2>5
<1> QED BY <1>1, <1>3, <1>4, <1>5, <1>6, <1>7

\* What to_value writes for one field of a chain.
ChainFieldValue(chain, f) ==
  CASE f \in {"root_hash", "latest_hash"} -> VText(chain[f])
    [] f \in {"created_at", "updated_at", "version"} -> VInt(chain[f])
    [] f = "logical_tick" -> VInt(AsI64(chain[f]))
    [] f = "records" -> VList([k \in DOMAIN chain[f] |-> RecordToValue(chain[f][k])])

\* The fields of a stored chain.
LEMMA ChainStored ==
  ASSUME NEW chain
  PROVE  /\ ChainToValue(chain) = VObj(ChainToValue(chain).fields)
         /\ DOMAIN ChainToValue(chain).fields = {<<f>> : f \in ChainFields}
         /\ \A f \in ChainFields :
              FieldOf(ChainToValue(chain), <<f>>) = ChainFieldValue(chain, f)
<1> DEFINE g == [key \in {<<f>> : f \in ChainFields} |-> ChainFieldValue(chain, key[1])]
<1>1. ChainToValue(chain) = VObj(g)
  BY DEF ChainToValue, Fields, ChainFieldValue
<1>2. /\ DOMAIN g = {<<f>> : f \in ChainFields}
      /\ \A f \in ChainFields : <<f>> \in DOMAIN g /\ g[<<f>>] = ChainFieldValue(chain, f)
  OBVIOUS
<1> HIDE DEF g
<1>3. VObj(g).fields = g /\ VObj(g).type = "obj"
  BY DEF VObj
<1>4. \A f \in ChainFields : FieldOf(ChainToValue(chain), <<f>>) = ChainFieldValue(chain, f)
  BY <1>1, <1>2, <1>3 DEF FieldOf, Field
<1> QED BY <1>1, <1>2, <1>3, <1>4

\* The records of a chain that was read.
RecordsRead(items) == [k \in DOMAIN items |-> RecordFromValue(items[k])]

\* A chain that from_value reads.
ChainParses(v) ==
  LET At(f) == FieldOf(v, <<f>>)
  IN  /\ At("records").type = "list"
      /\ Unreadable \notin Range(RecordsRead(At("records").items))
      /\ IsText(At("root_hash")) /\ IsText(At("latest_hash"))
      /\ \A f \in {"created_at", "updated_at", "version"} : At(f).type = "int"

\* from_value of a chain, with the names above.
LEMMA ChainReadIs ==
  ASSUME NEW v
  PROVE  LET At(f) == FieldOf(v, <<f>>)
         IN  ChainFromValue(v) =
               IF ChainParses(v)
                 THEN [records |-> RecordsRead(At("records").items),
                       root_hash |-> At("root_hash").bytes,
                       latest_hash |-> At("latest_hash").bytes,
                       created_at |-> At("created_at").n, updated_at |-> At("updated_at").n,
                       logical_tick |->
                         IF At("logical_tick").type = "int" THEN AsU64(At("logical_tick").n) ELSE 0,
                       version |-> At("version").n % VersionLimit]
                 ELSE Unreadable
BY Zenon DEF ChainFromValue, ChainParses, RecordsRead

\* The records of a stored chain with other items in their place.
LEMMA AlteredRead ==
  ASSUME NEW g, NEW T, NEW items \in Seq(T), \A x \in T : Readable(x),
         NEW v, v = VObj(Put(g, <<"records">>, VList(items))), ChainFromValue(v) # Unreadable
  PROVE  /\ ChainFromValue(v).records \in Seq(Audit!Records)
         /\ ChainFromValue(v).latest_hash = FieldOf(VObj(g), <<"latest_hash">>).bytes
<1>1. ChainParses(v)
  BY ChainReadIs
<1>2. /\ ChainFromValue(v).records = RecordsRead(FieldOf(v, <<"records">>).items)
      /\ ChainFromValue(v).latest_hash = FieldOf(v, <<"latest_hash">>).bytes
  BY <1>1, ChainReadIs
<1>3. <<"latest_hash">> # <<"records">>
  OBVIOUS
<1>4. /\ FieldOf(v, <<"records">>) = VList(items)
      /\ FieldOf(v, <<"latest_hash">>) = FieldOf(VObj(g), <<"latest_hash">>)
  <2>1. \A k : FieldOf(v, k) = IF k = <<"records">> THEN VList(items) ELSE FieldOf(VObj(g), k)
    BY PutField
  <2> QED BY <1>3, <2>1
<1>5. FieldOf(v, <<"records">>).items = items
  BY <1>4 DEF VList
<1>6. \A k \in DOMAIN items : RecordsRead(items)[k] = RecordFromValue(items[k])
  BY DEF RecordsRead
<1>7. ASSUME NEW k \in DOMAIN items PROVE RecordFromValue(items[k]) \in Audit!Records
  <2>1. RecordFromValue(items[k]) # Unreadable
    <3>1. Unreadable \notin Range(RecordsRead(items))
      BY <1>1, <1>5 DEF ChainParses
    <3> QED BY <1>6, <3>1 DEF Range, RecordsRead
  <2>2. Readable(items[k])
    OBVIOUS
  <2> QED BY <2>1, <2>2, ReadTyped DEF Recs
<1>8. RecordsRead(items) \in Seq(Audit!Records)
  <2>1. RecordsRead(items) = [k \in 1 .. Len(items) |-> RecordFromValue(items[k])]
    BY DEF RecordsRead
  <2>2. \A k \in 1 .. Len(items) : RecordFromValue(items[k]) \in Audit!Records
    BY <1>7
  <2> QED BY <2>1, <2>2
<1> QED BY <1>2, <1>4, <1>5, <1>8

\* A good chain that was altered where it is stored, and is still sound, has
\* the records it had.
LEMMA AlteredChainSame ==
  ASSUME NEW chain, Good(chain),
         NEW items \in ItemsAltered(ChainToValue(chain).fields[<<"records">>].items),
         NEW read,
         read = ChainFromValue(VObj(Put(ChainToValue(chain).fields, <<"records">>, VList(items)))),
         read # Unreadable, Verified(read)
  PROVE  read.records = chain.records
<1> DEFINE stored == ChainToValue(chain)
           old == stored.fields[<<"records">>].items
<1>1. chain.records \in Seq(Recs) /\ chain.latest_hash \in Audit!Texts /\ Verified(chain)
  BY DEF Good, Chains
<1>2. /\ FieldOf(stored, <<"records">>) = ChainFieldValue(chain, "records")
      /\ FieldOf(stored, <<"latest_hash">>) = ChainFieldValue(chain, "latest_hash")
      /\ <<"records">> \in DOMAIN stored.fields /\ stored = VObj(stored.fields)
  BY ChainStored DEF ChainFields
<1>3. /\ FieldOf(stored, <<"latest_hash">>).bytes = chain.latest_hash
      /\ FieldOf(stored, <<"records">>).items =
           [k \in DOMAIN chain.records |-> RecordToValue(chain.records[k])]
  BY <1>2 DEF ChainFieldValue, VText, VList
<1>4. FieldOf(stored, <<"records">>) = stored.fields[<<"records">>]
  BY <1>2 DEF FieldOf, Field, VObj
<1> DEFINE S == {RecordToValue(r) : r \in Recs}
<1>5. old \in Seq(S)
  <2>1. old = [k \in 1 .. Len(chain.records) |-> RecordToValue(chain.records[k])]
    <3>1. DOMAIN chain.records = 1 .. Len(chain.records)
      BY <1>1
    <3> QED BY <1>3, <1>4, <3>1
  <2>2. \A k \in 1 .. Len(chain.records) : RecordToValue(chain.records[k]) \in S
    BY <1>1
  <2> QED BY <1>1, <2>1, <2>2
<1>6. \A x \in S : Written(x)
  BY StoredWritten DEF Recs
<1>7. items \in ItemsAltered(old)
  OBVIOUS
<1> HIDE DEF S, old
<1>8. PICK T : items \in Seq(T) /\ \A x \in T : Readable(x)
  BY <1>5, <1>6, <1>7, ItemsReadable
<1> DEFINE v == VObj(Put(stored.fields, <<"records">>, VList(items)))
<1>9. read = ChainFromValue(v)
  OBVIOUS
<1> HIDE DEF stored
<1>10. /\ read.records \in Seq(Audit!Records)
       /\ read.latest_hash = FieldOf(VObj(stored.fields), <<"latest_hash">>).bytes
  BY <1>8, <1>9, AlteredRead
<1>11. read.latest_hash = chain.latest_hash
  BY <1>2, <1>3, <1>10
<1>12. chain.records \in Seq(Audit!Records)
  <2>1. Recs \subseteq Audit!Records
    BY DEF Recs
  <2> QED BY <1>1, <2>1
<1>13. AuditKey \in Audit!Texts
  BY RecordAssumption
<1> QED BY <1>1, <1>10, <1>11, <1>12, <1>13, LatestHashPinsChain DEF Verified

(* Whatever is altered in the records of a stored chain, from whatever     *)
(* state: the chain does not parse, verify says so, or what is read is     *)
(* what was written (AuditChainState::from_value, verify in audit.rs).     *)
THEOREM AlterationsFail == Spec => []AlteredChainFails
<1>1. DataInv => AlteredChainFails
  <2> SUFFICES ASSUME DataInv, NEW chain \in ChainsAbout(StateHash(data)),
                      NEW items \in ItemsAltered(ChainToValue(chain).fields[<<"records">>].items),
                      NEW read,
                      read = ChainFromValue(VObj(Put(ChainToValue(chain).fields, <<"records">>,
                                                     VList(items))))
               PROVE  read = Unreadable \/ read.records = chain.records \/ ~Verified(read)
    BY Zenon DEF AlteredChainFails
  <2>1. Good(chain)
    BY StateHashText, ChainsAboutGood DEF DataInv
  <2> QED BY <2>1, AlteredChainSame
<1> QED BY <1>1, StateHoldsValues, PTL

-----------------------------------------------------------------------------
(* Values as JSON and back.                                                *)

\* What becomes JSON of everything inside v, level by level.
Jsoning(v, of) ==
  /\ \A n \in 0 .. MaxJsonDepth + 1 :
       of[n] = [w \in Layers(v, MaxJsonDepth + 1)[n] |->
                  JsonOf(w, n, IF n = MaxJsonDepth + 1 THEN <<>> ELSE of[n + 1])]
  /\ ToJson(v) = of[0][v]

\* There is such JSON.
LEMMA JsonDefined ==
  ASSUME NEW v
  PROVE  \E of : Jsoning(v, of)
<1> DEFINE N == MaxJsonDepth + 1
           Step(k, below) == [w \in Layers(v, N)[k] |-> JsonOf(w, k, below)]
           Body(f, n) == [k \in N - n .. N |-> Step(k, IF k = N THEN <<>> ELSE f[k + 1])]
           Some == {n \in Nat : n <= N => \E f : f = Body(f, n)}
<1>0. N \in Nat
  BY JsonAssumption
<1> HIDE DEF N, Step
<1>1. 0 \in Some
  <2> DEFINE g == [k \in N .. N |-> Step(k, <<>>)]
  <2>1. g = Body(g, 0)
    BY <1>0
  <2> HIDE DEF g, Body
  <2> QED BY <2>1
<1>2. ASSUME NEW n \in Nat, n \in Some PROVE n + 1 \in Some
  <2>0. SUFFICES ASSUME n + 1 <= N PROVE \E f : f = Body(f, n + 1)
    OBVIOUS
  <2>1. PICK f : f = Body(f, n)
    BY <1>0, <1>2, <2>0
  <2> DEFINE m == N - (n + 1)
             g == [k \in m .. N |-> IF k = m THEN Step(m, f[m + 1]) ELSE f[k]]
  <2>2. ASSUME NEW k \in m .. N
        PROVE  g[k] = Step(k, IF k = N THEN <<>> ELSE g[k + 1])
    <3>0. m \in Nat /\ m < N /\ m + 1 = N - n
      BY <1>0, <2>0
    <3> HIDE DEF m
    <3>1. CASE k = m
      <4>1. k # N /\ k + 1 \in m .. N /\ k + 1 # m
        BY <3>0, <3>1, <1>0
      <4>2. g[k + 1] = f[m + 1]
        BY <3>1, <4>1
      <4> QED BY <3>1, <4>1, <4>2
    <3>2. CASE k # m
      <4>1. k \in N - n .. N
        BY <3>0, <3>2, <1>0
      <4>2. f[k] = Step(k, IF k = N THEN <<>> ELSE f[k + 1])
        BY <2>1, <4>1
      <4>3. k # N => k + 1 \in m .. N /\ k + 1 # m
        BY <4>1, <3>0, <1>0
      <4>4. k # N => g[k + 1] = f[k + 1]
        BY <4>3
      <4>5. g[k] = f[k]
        BY <3>2
      <4> HIDE DEF g
      <4> QED BY <4>2, <4>4, <4>5
    <3> QED BY <3>1, <3>2
  <2>3. g = Body(g, n + 1)
    BY <2>2
  <2> HIDE DEF g, Body
  <2> QED BY <2>3
<1>3. Nat \subseteq Some
  <2> HIDE DEF Some
  <2> QED BY <1>1, <1>2, Upwards
<1>4. \E f : f = Body(f, N)
  BY <1>0, <1>3
<1> DEFINE Of == CHOOSE f : f = [k \in 0 .. N |-> Step(k, IF k = N THEN <<>> ELSE f[k + 1])]
<1>5. \E f : f = [k \in 0 .. N |-> Step(k, IF k = N THEN <<>> ELSE f[k + 1])]
  BY <1>0, <1>4
<1>6. Of = [k \in 0 .. N |-> Step(k, IF k = N THEN <<>> ELSE Of[k + 1])]
  BY <1>5
<1>7. ToJson(v) = Of[0][v]
  BY DEF ToJson, BottomUp, N, Step
<1> HIDE DEF Of
<1>8. \A n \in 0 .. N : Of[n] = Step(n, IF n = N THEN <<>> ELSE Of[n + 1])
  BY <1>6
<1> QED BY <1>7, <1>8 DEF N, Step, Jsoning

\* The same for values that are read from JSON.
Valuing(v, of) ==
  /\ \A n \in 0 .. MaxJsonDepth + 1 :
       of[n] = [w \in Layers(v, MaxJsonDepth + 1)[n] |->
                  ValueOf(w, n, IF n = MaxJsonDepth + 1 THEN <<>> ELSE of[n + 1])]
  /\ FromJson(v) = of[0][v]

\* There are such values.
LEMMA ValueDefined ==
  ASSUME NEW v
  PROVE  \E of : Valuing(v, of)
<1> DEFINE N == MaxJsonDepth + 1
           Step(k, below) == [w \in Layers(v, N)[k] |-> ValueOf(w, k, below)]
           Body(f, n) == [k \in N - n .. N |-> Step(k, IF k = N THEN <<>> ELSE f[k + 1])]
           Some == {n \in Nat : n <= N => \E f : f = Body(f, n)}
<1>0. N \in Nat
  BY JsonAssumption
<1> HIDE DEF N, Step
<1>1. 0 \in Some
  <2> DEFINE g == [k \in N .. N |-> Step(k, <<>>)]
  <2>1. g = Body(g, 0)
    BY <1>0
  <2> HIDE DEF g, Body
  <2> QED BY <2>1
<1>2. ASSUME NEW n \in Nat, n \in Some PROVE n + 1 \in Some
  <2>0. SUFFICES ASSUME n + 1 <= N PROVE \E f : f = Body(f, n + 1)
    OBVIOUS
  <2>1. PICK f : f = Body(f, n)
    BY <1>0, <1>2, <2>0
  <2> DEFINE m == N - (n + 1)
             g == [k \in m .. N |-> IF k = m THEN Step(m, f[m + 1]) ELSE f[k]]
  <2>2. ASSUME NEW k \in m .. N
        PROVE  g[k] = Step(k, IF k = N THEN <<>> ELSE g[k + 1])
    <3>0. m \in Nat /\ m < N /\ m + 1 = N - n
      BY <1>0, <2>0
    <3> HIDE DEF m
    <3>1. CASE k = m
      <4>1. k # N /\ k + 1 \in m .. N /\ k + 1 # m
        BY <3>0, <3>1, <1>0
      <4>2. g[k + 1] = f[m + 1]
        BY <3>1, <4>1
      <4> QED BY <3>1, <4>1, <4>2
    <3>2. CASE k # m
      <4>1. k \in N - n .. N
        BY <3>0, <3>2, <1>0
      <4>2. f[k] = Step(k, IF k = N THEN <<>> ELSE f[k + 1])
        BY <2>1, <4>1
      <4>3. k # N => k + 1 \in m .. N /\ k + 1 # m
        BY <4>1, <3>0, <1>0
      <4>4. k # N => g[k + 1] = f[k + 1]
        BY <4>3
      <4>5. g[k] = f[k]
        BY <3>2
      <4> HIDE DEF g
      <4> QED BY <4>2, <4>4, <4>5
    <3> QED BY <3>1, <3>2
  <2>3. g = Body(g, n + 1)
    BY <2>2
  <2> HIDE DEF g, Body
  <2> QED BY <2>3
<1>3. Nat \subseteq Some
  <2> HIDE DEF Some
  <2> QED BY <1>1, <1>2, Upwards
<1>4. \E f : f = Body(f, N)
  BY <1>0, <1>3
<1> DEFINE Of == CHOOSE f : f = [k \in 0 .. N |-> Step(k, IF k = N THEN <<>> ELSE f[k + 1])]
<1>5. \E f : f = [k \in 0 .. N |-> Step(k, IF k = N THEN <<>> ELSE f[k + 1])]
  BY <1>0, <1>4
<1>6. Of = [k \in 0 .. N |-> Step(k, IF k = N THEN <<>> ELSE Of[k + 1])]
  BY <1>5
<1>7. FromJson(v) = Of[0][v]
  BY DEF FromJson, BottomUp, N, Step
<1> HIDE DEF Of
<1>8. \A n \in 0 .. N : Of[n] = Step(n, IF n = N THEN <<>> ELSE Of[n + 1])
  BY <1>6
<1> QED BY <1>7, <1>8 DEF N, Step, Valuing

\* A value that JSON has, except for its depth.
Lasting(w) == w.type # "bytes" /\ (w.type = "float" => w.bits \notin NonFinite)

\* Up to MaxJsonDepth nothing but the parts changes.
LEMMA JsonRebuilds ==
  ASSUME NEW v, NEW of, Jsoning(v, of), NEW n \in 0 .. MaxJsonDepth,
         NEW w \in Layers(v, MaxJsonDepth + 1)[n], Lasting(w)
  PROVE  of[n][w] = Rebuilt(w, of[n + 1])
<1>1. MaxJsonDepth \in Nat
  BY JsonAssumption
<1>2. n \in 0 .. MaxJsonDepth + 1 /\ n # MaxJsonDepth + 1 /\ ~(n > MaxJsonDepth)
  BY <1>1
<1> DEFINE L == Layers(v, MaxJsonDepth + 1)[n]
<1>3. of[n] = [u \in L |-> JsonOf(u, n, IF n = MaxJsonDepth + 1 THEN <<>> ELSE of[n + 1])]
  BY <1>2 DEF Jsoning
<1> HIDE DEF L
<1>4. w \in L
  BY DEF L
<1>5. of[n][w] = JsonOf(w, n, of[n + 1])
  BY <1>2, <1>3, <1>4
<1> QED BY <1>2, <1>5 DEF JsonOf, TooDeepForJson, Lasting

\* The same where JSON is read.
LEMMA ValueRebuilds ==
  ASSUME NEW v, NEW of, Valuing(v, of), NEW n \in 0 .. MaxJsonDepth,
         NEW w \in Layers(v, MaxJsonDepth + 1)[n]
  PROVE  of[n][w] = Rebuilt(w, of[n + 1])
<1>1. MaxJsonDepth \in Nat
  BY JsonAssumption
<1>2. n \in 0 .. MaxJsonDepth + 1 /\ n # MaxJsonDepth + 1 /\ ~(n > MaxJsonDepth)
  BY <1>1
<1> DEFINE L == Layers(v, MaxJsonDepth + 1)[n]
<1>3. of[n] = [u \in L |-> ValueOf(u, n, IF n = MaxJsonDepth + 1 THEN <<>> ELSE of[n + 1])]
  BY <1>2 DEF Valuing
<1> HIDE DEF L
<1>4. w \in L
  BY DEF L
<1>5. of[n][w] = ValueOf(w, n, of[n + 1])
  BY <1>2, <1>3, <1>4
<1> QED BY <1>2, <1>5 DEF ValueOf, TooDeepForJson

\* The parts of what stands at one level stand at the next.
LEMMA PartsBelow ==
  ASSUME NEW v, NEW depth \in Nat, NEW n \in Nat, n < depth, NEW w \in Layers(v, depth)[n]
  PROVE  PartsOf(w) \subseteq Layers(v, depth)[n + 1]
<1>1. n + 1 \in 0 .. depth /\ n + 1 # 0 /\ (n + 1) - 1 = n
  OBVIOUS
<1>2. Layers(v, depth)[n + 1] = UNION {PartsOf(u) : u \in Layers(v, depth)[n]}
  BY <1>1, LayersDefined
<1> QED BY <1>2

\* What stands n levels inside v is in H[n], for n up to top, if that holds the
\* parts of what is in H[n - 1].
LEMMA LayersWithin ==
  ASSUME NEW v, NEW depth \in Nat, NEW top \in Nat, top <= depth, NEW H, v \in H[0],
         \A n \in Nat : n < top => \A w \in H[n] : PartsOf(w) \subseteq H[n + 1]
  PROVE  \A n \in 0 .. top : Layers(v, depth)[n] \subseteq H[n]
<1> DEFINE Low == {n \in Nat : n <= top => Layers(v, depth)[n] \subseteq H[n]}
<1>1. 0 \in Low
  <2>1. 0 \in 0 .. depth
    OBVIOUS
  <2>2. Layers(v, depth)[0] = {v}
    BY <2>1, LayersDefined
  <2> QED BY <2>2
<1>2. ASSUME NEW n \in Nat, n \in Low PROVE n + 1 \in Low
  <2>1. SUFFICES ASSUME n + 1 <= top PROVE Layers(v, depth)[n + 1] \subseteq H[n + 1]
    OBVIOUS
  <2>2. n + 1 \in 0 .. depth /\ n + 1 # 0 /\ (n + 1) - 1 = n /\ n <= top /\ n < top
    BY <2>1
  <2>3. Layers(v, depth)[n + 1] = UNION {PartsOf(w) : w \in Layers(v, depth)[n]}
    BY <2>2, LayersDefined
  <2> QED BY <1>2, <2>2, <2>3
<1>3. Nat \subseteq Low
  <2> HIDE DEF Low
  <2> QED BY <1>1, <1>2, Upwards
<1> QED BY <1>3

\* The parts of a value whose parts are replaced twice.
LEMMA RebuiltTwice ==
  ASSUME NEW w, NEW p, NEW q, NEW r, \A z \in PartsOf(w) : r[z] = q[p[z]]
  PROVE  Rebuilt(Rebuilt(w, p), q) = Rebuilt(w, r)
<1>1. CASE w.type = "list"
  <2> DEFINE f == [k \in DOMAIN w.items |-> p[w.items[k]]]
             g == [k \in DOMAIN f |-> q[f[k]]]
             h == [k \in DOMAIN w.items |-> r[w.items[k]]]
  <2>1. PartsOf(w) = Range(w.items)
    BY <1>1 DEF PartsOf
  <2>2. \A k \in DOMAIN w.items : w.items[k] \in PartsOf(w)
    BY <2>1 DEF Range
  <2>3. g = h
    BY <2>2
  <2>4. Rebuilt(w, p) = VList(f) /\ Rebuilt(w, r) = VList(h)
    BY <1>1 DEF Rebuilt
  <2>5. VList(f).type = "list" /\ VList(f).items = f
    BY DEF VList
  <2>6. Rebuilt(VList(f), q) = VList([k \in DOMAIN VList(f).items |-> q[VList(f).items[k]]])
    <3> HIDE DEF f
    <3> QED BY <2>5 DEF Rebuilt
  <2> HIDE DEF f, h
  <2> QED BY <2>3, <2>4, <2>5, <2>6
<1>2. CASE w.type = "obj"
  <2> DEFINE f == [k \in DOMAIN w.fields |-> p[w.fields[k]]]
             g == [k \in DOMAIN f |-> q[f[k]]]
             h == [k \in DOMAIN w.fields |-> r[w.fields[k]]]
  <2>1. PartsOf(w) = Range(w.fields)
    BY <1>2 DEF PartsOf
  <2>2. \A k \in DOMAIN w.fields : w.fields[k] \in PartsOf(w)
    BY <2>1 DEF Range
  <2>3. g = h
    BY <2>2
  <2>4. Rebuilt(w, p) = VObj(f) /\ Rebuilt(w, r) = VObj(h)
    BY <1>2 DEF Rebuilt
  <2>5. VObj(f).type = "obj" /\ VObj(f).fields = f
    BY DEF VObj
  <2>6. Rebuilt(VObj(f), q) = VObj([k \in DOMAIN VObj(f).fields |-> q[VObj(f).fields[k]]])
    <3> HIDE DEF f
    <3> QED BY <2>5 DEF Rebuilt
  <2> HIDE DEF f, h
  <2> QED BY <2>3, <2>4, <2>5, <2>6
<1>3. CASE w.type # "list" /\ w.type # "obj"
  BY <1>3 DEF Rebuilt
<1> QED BY <1>1, <1>2, <1>3

\* What the parts become are the parts of what is made of them.
LEMMA PartsRebuilt ==
  ASSUME NEW w, NEW p
  PROVE  \A z \in PartsOf(w) : p[z] \in PartsOf(Rebuilt(w, p))
<1>0. \A f : /\ VObj(f).type = "obj" /\ VObj(f).fields = f
             /\ VList(f).type = "list" /\ VList(f).items = f
  BY DEF VObj, VList
<1>1. CASE w.type = "list"
  <2> DEFINE f == [k \in DOMAIN w.items |-> p[w.items[k]]]
  <2>1. PartsOf(w) = {w.items[k] : k \in DOMAIN w.items}
    BY <1>1 DEF PartsOf, Range
  <2>2. \A k \in DOMAIN w.items : p[w.items[k]] \in Range(f)
    BY DEF Range
  <2>3. Rebuilt(w, p) = VList(f)
    BY <1>1 DEF Rebuilt
  <2> HIDE DEF f
  <2>4. PartsOf(VList(f)) = Range(f)
    BY <1>0 DEF PartsOf
  <2> QED BY <2>1, <2>2, <2>3, <2>4
<1>2. CASE w.type = "obj"
  <2> DEFINE f == [k \in DOMAIN w.fields |-> p[w.fields[k]]]
  <2>1. PartsOf(w) = {w.fields[k] : k \in DOMAIN w.fields}
    BY <1>2 DEF PartsOf, Range
  <2>2. \A k \in DOMAIN w.fields : p[w.fields[k]] \in Range(f)
    BY DEF Range
  <2>3. Rebuilt(w, p) = VObj(f)
    BY <1>2 DEF Rebuilt
  <2> HIDE DEF f
  <2>4. PartsOf(VObj(f)) = Range(f)
    BY <1>0 DEF PartsOf
  <2> QED BY <2>1, <2>2, <2>3, <2>4
<1>3. CASE w.type # "list" /\ w.type # "obj"
  BY <1>3 DEF PartsOf
<1> QED BY <1>1, <1>2, <1>3

\* A state that is stored as JSON, and read.
RoundTrip(s, j, json, val) ==
  /\ j = ToJson(VObj(s)) /\ Jsoning(VObj(s), json) /\ Valuing(j, val)
  /\ Restored(s) = [k \in DOMAIN s |-> val[1][json[1][s[k]]]]
  /\ \A k \in DOMAIN s : /\ s[k] \in Layers(VObj(s), MaxJsonDepth + 1)[1]
                         /\ json[1][s[k]] \in Layers(j, MaxJsonDepth + 1)[1]

\* What is read has the fields that were stored, each on its own.
LEMMA RestoredIs ==
  ASSUME NEW s
  PROVE  \E j, json, val : RoundTrip(s, j, json, val)
<1> DEFINE j == ToJson(VObj(s))
           L == Layers(VObj(s), MaxJsonDepth + 1)
           M == Layers(j, MaxJsonDepth + 1)
<1>1. PICK json : Jsoning(VObj(s), json)
  BY JsonDefined
<1>2. PICK val : Valuing(j, val)
  BY ValueDefined
<1>3. MaxJsonDepth + 1 \in Nat /\ 0 \in 0 .. MaxJsonDepth /\ 0 \in 0 .. MaxJsonDepth + 1
        /\ 0 < MaxJsonDepth + 1
  BY JsonAssumption
<1>4. VObj(s) \in L[0] /\ j \in M[0]
  BY <1>3, LayersDefined
<1>5. /\ VObj(s).type = "obj" /\ VObj(s).fields = s
      /\ \A f : VObj(f).type = "obj" /\ VObj(f).fields = f
  BY DEF VObj
<1>6. Lasting(VObj(s))
  BY <1>5 DEF Lasting
<1> DEFINE f == [k \in DOMAIN s |-> json[1][s[k]]]
           g == [k \in DOMAIN s |-> val[1][json[1][s[k]]]]
<1>7. j = VObj(f)
  <2>1. json[0][VObj(s)] = Rebuilt(VObj(s), json[0 + 1])
    BY <1>1, <1>3, <1>4, <1>6, JsonRebuilds
  <2>2. j = json[0][VObj(s)]
    BY <1>1 DEF Jsoning
  <2> QED BY <1>5, <2>1, <2>2 DEF Rebuilt
<1>8. FromJson(j) = Rebuilt(j, val[1])
  <2>1. val[0][j] = Rebuilt(j, val[0 + 1])
    BY <1>2, <1>3, <1>4, ValueRebuilds
  <2>2. FromJson(j) = val[0][j]
    BY <1>2 DEF Valuing
  <2> QED BY <2>1, <2>2
<1>9. Restored(s) = g
  <2>1. Restored(s) = FromJson(j).fields
    BY DEF Restored
  <2> HIDE DEF j
  <2>2. j.type = "obj" /\ j.fields = f
    BY <1>5, <1>7
  <2>3. FromJson(j) = VObj([k \in DOMAIN j.fields |-> val[1][j.fields[k]]])
    BY <1>8, <2>2 DEF Rebuilt
  <2>4. [k \in DOMAIN j.fields |-> val[1][j.fields[k]]] = g
    BY <2>2
  <2> QED BY <1>5, <2>1, <2>3, <2>4
<1>10. ASSUME NEW k \in DOMAIN s PROVE s[k] \in L[1] /\ json[1][s[k]] \in M[1]
  <2>1. s[k] \in PartsOf(VObj(s))
    BY <1>5 DEF PartsOf, Range
  <2>2. json[1][s[k]] \in PartsOf(j)
    <3>1. PartsOf(VObj(f)) = Range(f)
      BY <1>5 DEF PartsOf
    <3> QED BY <1>7, <3>1 DEF Range
  <2>3. PartsOf(VObj(s)) \subseteq L[0 + 1] /\ PartsOf(j) \subseteq M[0 + 1]
    BY <1>3, <1>4, PartsBelow
  <2> QED BY <2>1, <2>2, <2>3
<1> HIDE DEF j, L, M
<1>11. RoundTrip(s, j, json, val)
  BY <1>1, <1>2, <1>9, <1>10 DEF RoundTrip, j, L, M
<1> QED BY <1>11

-----------------------------------------------------------------------------
(* The hash of a state that was stored.                                    *)

\* Parts with the same encodings have wholes with the same encoding.
LEMMA BytesAlike ==
  ASSUME NEW x, Proper(x), NEW p, NEW y, y = Rebuilt(x, p), NEW n,
         NEW e, NEW g, \A z \in PartsOf(x) : g[p[z]] = e[z]
  PROVE  Bytes(y, n, g) = Bytes(x, n, e)
<1>1. CASE n > MaxHashDepth
  BY <1>1 DEF Bytes
<1>2. CASE ~(n > MaxHashDepth) /\ x.type = "list"
  <2> DEFINE f == [k \in DOMAIN x.items |-> p[x.items[k]]]
  <2>1. y = VList(f)
    BY <1>2 DEF Rebuilt
  <2>2. y.type = "list" /\ y.items = f
    BY <2>1 DEF VList
  <2>3. Len(x.items) \in Nat /\ DOMAIN x.items = 1 .. Len(x.items)
    BY <1>2, ItemsProper
  <2>4. DOMAIN f = 1 .. Len(x.items) /\ Len(f) = Len(x.items)
    BY <2>3
  <2>5. \A k \in DOMAIN x.items : x.items[k] \in PartsOf(x)
    BY <1>2 DEF PartsOf, Range
  <2>6. Elements(y, g) = Elements(x, e)
    <3>1. \A k \in DOMAIN x.items : g[f[k]] = e[x.items[k]]
      BY <2>5
    <3> HIDE DEF f
    <3> QED BY <2>2, <2>3, <2>4, <3>1 DEF Elements
  <2>7. Bytes(x, n, e) = <<5>> \o <<Len(x.items)>> \o FlattenSeq(Elements(x, e))
    BY <1>2 DEF Bytes, Prefix, Elements
  <2>8. Bytes(y, n, g) = <<5>> \o <<Len(y.items)>> \o FlattenSeq(Elements(y, g))
    BY <1>2, <2>2 DEF Bytes, Prefix, Elements
  <2> HIDE DEF f
  <2> QED BY <2>2, <2>4, <2>6, <2>7, <2>8
<1>3. CASE ~(n > MaxHashDepth) /\ x.type = "obj"
  <2> DEFINE f == [k \in DOMAIN x.fields |-> p[x.fields[k]]]
  <2>1. y = VObj(f)
    BY <1>3 DEF Rebuilt
  <2>2. y.type = "obj" /\ y.fields = f
    BY <2>1 DEF VObj
  <2>3. DOMAIN f = DOMAIN x.fields /\ \A k \in DOMAIN x.fields : f[k] = p[x.fields[k]]
    OBVIOUS
  <2> HIDE DEF f
  <2>4. SortedKeys(y.fields) = SortedKeys(x.fields)
    BY <2>2, <2>3, Zenon DEF SortedKeys
  <2>5. \A k \in DOMAIN x.fields : x.fields[k] \in PartsOf(x)
    BY <1>3 DEF PartsOf, Range
  <2>6. \A k \in DOMAIN x.fields : g[y.fields[k]] = e[x.fields[k]]
    BY <2>2, <2>3, <2>5
  <2> DEFINE keys == SortedKeys(x.fields)
  <2>7. \A i \in DOMAIN keys : keys[i] \in DOMAIN x.fields
    <3>1. DOMAIN keys = 1 .. Len(keys) /\ \A i \in 1 .. Len(keys) : keys[i] \in DOMAIN x.fields
      BY <1>3, KeysListed
    <3> QED BY <3>1
  <2>8. Entries(y, g) = Entries(x, e)
    <3>1. ASSUME NEW i \in DOMAIN keys PROVE Entry(y, g, keys[i]) = Entry(x, e, keys[i])
      <4>1. g[y.fields[keys[i]]] = e[x.fields[keys[i]]]
        BY <2>6, <2>7
      <4> QED BY <4>1, Zenon DEF Entry
    <3>2. Entries(y, g) = [i \in DOMAIN keys |-> Entry(y, g, keys[i])]
      BY <2>4, Zenon DEF Entries
    <3>3. Entries(x, e) = [i \in DOMAIN keys |-> Entry(x, e, keys[i])]
      BY Zenon DEF Entries
    <3> HIDE DEF keys
    <3> QED BY <3>1, <3>2, <3>3
  <2>9. Bytes(x, n, e) = <<6>> \o <<Cardinality(DOMAIN x.fields)>> \o FlattenSeq(Entries(x, e))
    BY <1>3 DEF Bytes, Prefix, Entries, Entry
  <2>10. Bytes(y, n, g) = <<6>> \o <<Cardinality(DOMAIN y.fields)>> \o FlattenSeq(Entries(y, g))
    BY <1>3, <2>2 DEF Bytes, Prefix, Entries, Entry
  <2> QED BY <2>2, <2>3, <2>8, <2>9, <2>10
<1>4. CASE ~(n > MaxHashDepth) /\ x.type # "list" /\ x.type # "obj"
  <2>1. y = x
    BY <1>4 DEF Rebuilt
  <2>2. x.type \in {"null", "bool", "int", "float", "str", "bytes"}
    BY <1>4, VariantsProper
  <2> QED BY <1>4, <2>1, <2>2 DEF Bytes
<1> QED BY <1>1, <1>2, <1>3, <1>4

\* What the hash looks at has the same encoding when it was stored and read.
LEMMA EncodingKept ==
  ASSUME NEW s, NEW K \in SUBSET DOMAIN s, NEW b, b = VObj(Restrict(s, K)), Proper(b),
         \A n \in 0 .. MaxHashDepth : \A w \in Layers(b, MaxHashDepth + 1)[n] : Lasting(w),
         NEW c, c = VObj(Restrict(Restored(s), K))
  PROVE  Encode(c) = Encode(b)
<1> DEFINE N == MaxJsonDepth + 1
           D == MaxHashDepth + 1
           B == Layers(b, D)
           C == Layers(c, D)
           L == Layers(VObj(s), N)
<1>0. /\ N \in Nat /\ D \in Nat /\ D <= N /\ MaxJsonDepth \in Nat /\ MaxHashDepth \in Nat
      /\ MaxHashDepth <= MaxJsonDepth
  BY DepthAssumption, JsonAssumption, RecordAssumption
<1>1. PICK j, json, val : RoundTrip(s, j, json, val)
  BY RestoredIs
<1> DEFINE M == Layers(j, N)
<1>2. PICK e : Encoding(b, e)
  BY EncodeDefined
<1>3. PICK g : Encoding(c, g)
  BY EncodeDefined
<1>4. ASSUME NEW n \in 0 .. D
      PROVE  /\ \A w \in B[n] : e[n][w] = Bytes(w, n, IF n = D THEN <<>> ELSE e[n + 1])
             /\ \A w \in C[n] : g[n][w] = Bytes(w, n, IF n = D THEN <<>> ELSE g[n + 1])
  <2>1. /\ e[n] = [u \in B[n] |-> Bytes(u, n, IF n = D THEN <<>> ELSE e[n + 1])]
        /\ g[n] = [u \in C[n] |-> Bytes(u, n, IF n = D THEN <<>> ELSE g[n + 1])]
    BY <1>2, <1>3 DEF Encoding
  <2> HIDE DEF B, C, D
  <2> QED BY <2>1
<1>5. \A n \in 0 .. D : \A w \in B[n] : Proper(w)
  <2>1. PICK U : Closed(U) /\ b \in U
    BY DEF Proper
  <2>2. \A n \in 0 .. D : B[n] \subseteq U
    <3> HIDE DEF D
    <3> QED BY <1>0, <2>1, InsideClosed
  <2> HIDE DEF B
  <2> QED BY <2>1, <2>2 DEF Proper
<1>6. /\ VObj(s).type = "obj" /\ VObj(s).fields = s
      /\ \A f : VObj(f).type = "obj" /\ VObj(f).fields = f
  BY DEF VObj
<1>7. /\ b.type = "obj" /\ DOMAIN b.fields = K /\ \A k \in K : b.fields[k] = s[k]
      /\ c.type = "obj" /\ DOMAIN c.fields = K
      /\ \A k \in K : c.fields[k] = val[1][json[1][s[k]]]
      /\ c.fields = [k \in K |-> c.fields[k]] /\ c = VObj(c.fields)
  <2>1. /\ DOMAIN Restored(s) = DOMAIN s
        /\ \A k \in K : Restored(s)[k] = val[1][json[1][s[k]]]
    BY <1>1 DEF RoundTrip
  <2>2. \A f : DOMAIN Restrict(f, K) = K /\ \A k \in K : Restrict(f, K)[k] = f[k]
    BY DEF Restrict
  <2>3. Restrict(Restored(s), K) = [k \in K |-> Restrict(Restored(s), K)[k]]
    BY DEF Restrict
  <2> QED BY <1>6, <2>1, <2>2, <2>3
<1>17. PartsOf(b) \subseteq PartsOf(VObj(s))
  <2>1. PartsOf(b) = Range(b.fields)
    BY <1>7 DEF PartsOf
  <2>2. PartsOf(VObj(s)) = Range(s)
    BY <1>6 DEF PartsOf
  <2> DEFINE f == b.fields
  <2>5. DOMAIN f = K /\ \A k \in K : f[k] = s[k]
    BY <1>7
  <2> HIDE DEF f
  <2>6. \A z \in Range(f) : \E k \in K : z = s[k]
    BY <2>5 DEF Range
  <2>3. \A z \in Range(b.fields) : \E k \in K : z = s[k]
    BY <2>6 DEF f
  <2>4. \A k \in K : s[k] \in Range(s)
    BY DEF Range
  <2> QED BY <2>1, <2>2, <2>3, <2>4
<1>8. \A n \in 1 .. D : B[n] \subseteq L[n]
  <2> DEFINE H == [n \in 0 .. D |-> IF n = 0 THEN {b} ELSE L[n]]
  <2>1. b \in H[0]
    BY <1>0
  <2>2. ASSUME NEW n \in Nat, n < D, NEW w \in H[n] PROVE PartsOf(w) \subseteq H[n + 1]
    <3>1. n + 1 \in 0 .. D /\ n + 1 # 0 /\ n \in 0 .. D /\ n < N
      BY <1>0, <2>2
    <3>2. H[n + 1] = L[n + 1]
      BY <3>1
    <3>3. CASE n = 0
      <4>1. w = b
        BY <3>1, <3>3
      <4>2. PartsOf(b) \subseteq PartsOf(VObj(s))
        BY <1>6, <1>7, <1>17
      <4>3. VObj(s) \in L[0] /\ 0 < N
        BY <1>0, LayersDefined
      <4>4. PartsOf(VObj(s)) \subseteq L[0 + 1]
        BY <1>0, <4>3, PartsBelow
      <4> QED BY <3>2, <3>3, <4>1, <4>2, <4>4
    <3>4. CASE n # 0
      <4>1. w \in L[n]
        BY <3>1, <3>4
      <4>2. PartsOf(w) \subseteq L[n + 1]
        BY <1>0, <3>1, <4>1, PartsBelow
      <4> QED BY <3>2, <4>2
    <3> QED BY <3>3, <3>4
  <2>3. \A n \in 1 .. D : H[n] = L[n]
    BY <1>0
  <2> HIDE DEF H, D, L
  <2>4. \A n \in 0 .. D : Layers(b, D)[n] \subseteq H[n]
    <3>1. D <= D
      BY <1>0
    <3> QED BY <1>0, <2>1, <2>2, <3>1, LayersWithin
  <2> QED BY <2>3, <2>4
<1> DEFINE Alike(n) ==
             \A w \in B[n] : json[n][w] \in M[n] /\ val[n][json[n][w]] \in C[n]
                               => g[n][val[n][json[n][w]]] = e[n][w]
           Low == {m \in Nat : m < D => Alike(D - m)}
<1>9. 0 \in Low
  <2>1. D \in 0 .. D /\ D > MaxHashDepth /\ D - 0 = D
    BY <1>0
  <2>2. ASSUME NEW w \in B[D], val[D][json[D][w]] \in C[D]
        PROVE  g[D][val[D][json[D][w]]] = e[D][w]
    <3>1. /\ e[D][w] = Bytes(w, D, <<>>)
          /\ g[D][val[D][json[D][w]]] = Bytes(val[D][json[D][w]], D, <<>>)
      <4> HIDE DEF B, C, D
      <4> QED BY <1>4, <2>1, <2>2
    <3>2. \A u : Bytes(u, D, <<>>) = <<7>>
      BY <2>1 DEF Bytes
    <3> HIDE DEF D
    <3> QED BY <3>1, <3>2
  <2>3. Alike(D)
    <3> HIDE DEF B, C, D, M
    <3> QED BY <2>2
  <2> HIDE DEF Alike, D
  <2> QED BY <2>1, <2>3
<1>10. ASSUME NEW m \in Nat, m \in Low PROVE m + 1 \in Low
  <2> DEFINE n == D - (m + 1)
  <2>1. SUFFICES ASSUME m + 1 < D PROVE Alike(n)
    OBVIOUS
  <2>2. /\ n \in Nat /\ n \in 1 .. D /\ n \in 0 .. D /\ n # D /\ n + 1 = D - m /\ m < D
        /\ n \in 0 .. MaxHashDepth /\ n \in 0 .. MaxJsonDepth /\ n < N /\ n < D
        /\ ~(n > MaxHashDepth)
    BY <1>0, <2>1
  <2>3. Alike(n + 1)
    <3> HIDE DEF Alike, D, n
    <3> QED BY <1>10, <2>2
  <2> HIDE DEF n, Low
  <2>4. SUFFICES ASSUME NEW w \in B[n], json[n][w] \in M[n], val[n][json[n][w]] \in C[n]
                 PROVE  g[n][val[n][json[n][w]]] = e[n][w]
    OBVIOUS
  <2>5. Proper(w) /\ Lasting(w) /\ w \in L[n]
    BY <1>5, <1>8, <2>2
  <2> DEFINE x == json[n][w]
             y == val[n][x]
             p == [z \in PartsOf(w) |-> val[n + 1][json[n + 1][z]]]
  <2>6. x = Rebuilt(w, json[n + 1])
    BY <1>1, <2>2, <2>5, JsonRebuilds DEF RoundTrip
  <2>7. y = Rebuilt(x, val[n + 1])
    BY <1>1, <2>2, <2>4, ValueRebuilds DEF RoundTrip
  <2>8. Rebuilt(Rebuilt(w, json[n + 1]), val[n + 1]) = Rebuilt(w, p)
    <3>1. \A z \in PartsOf(w) : p[z] = val[n + 1][json[n + 1][z]]
      OBVIOUS
    <3> HIDE DEF p
    <3> QED BY <3>1, RebuiltTwice
  <2>9. y = Rebuilt(w, p) /\ \A z \in PartsOf(w) : json[n + 1][z] \in PartsOf(x)
    <3> HIDE DEF p, x, y
    <3>1. \A z \in PartsOf(w) : json[n + 1][z] \in PartsOf(Rebuilt(w, json[n + 1]))
      BY PartsRebuilt
    <3> QED BY <2>6, <2>7, <2>8, <3>1
  <2>10. \A z \in PartsOf(x) : val[n + 1][z] \in PartsOf(y)
    <3> HIDE DEF x, y
    <3>2. \A z \in PartsOf(x) : val[n + 1][z] \in PartsOf(Rebuilt(x, val[n + 1]))
      BY PartsRebuilt
    <3> QED BY <2>7, <3>2
  <2>11. /\ PartsOf(w) \subseteq B[n + 1] /\ PartsOf(x) \subseteq M[n + 1]
         /\ PartsOf(y) \subseteq C[n + 1]
    <3>1. w \in B[n] /\ x \in M[n] /\ y \in C[n]
      BY <2>4
    <3> HIDE DEF x, y, N, D
    <3> QED BY <1>0, <2>2, <3>1, PartsBelow
  <2>12. \A z \in PartsOf(w) : g[n + 1][p[z]] = e[n + 1][z]
    <3>1. ASSUME NEW z \in PartsOf(w)
          PROVE  /\ p[z] = val[n + 1][json[n + 1][z]]
                 /\ z \in B[n + 1] /\ json[n + 1][z] \in M[n + 1]
                 /\ val[n + 1][json[n + 1][z]] \in C[n + 1]
      <4>1. p[z] = val[n + 1][json[n + 1][z]]
        OBVIOUS
      <4> HIDE DEF p, x, y, B, C, M
      <4> QED BY <2>9, <2>10, <2>11, <4>1
    <3> HIDE DEF p, B, C, M
    <3> QED BY <2>3, <3>1
  <2>13. /\ e[n][w] = Bytes(w, n, e[n + 1])
         /\ g[n][y] = Bytes(y, n, g[n + 1])
    <3>1. w \in B[n] /\ y \in C[n]
      BY <2>4
    <3> HIDE DEF B, C, D, y
    <3> QED BY <1>4, <2>2, <3>1
  <2> HIDE DEF p, x, y
  <2>14. Bytes(y, n, g[n + 1]) = Bytes(w, n, e[n + 1])
    BY <2>5, <2>9, <2>12, BytesAlike
  <2> QED BY <2>13, <2>14 DEF x, y
<1>11. Alike(1)
  <2>1. Nat \subseteq Low
    <3> HIDE DEF Low
    <3> QED BY <1>9, <1>10, Upwards
  <2>2. D - 1 \in Nat /\ D - 1 < D /\ D - (D - 1) = 1
    BY <1>0
  <2> HIDE DEF Alike, D
  <2> QED BY <2>1, <2>2
<1> DEFINE p == [z \in PartsOf(b) |-> val[1][json[1][z]]]
<1>12. \A k \in K : b.fields[k] \in PartsOf(b) /\ c.fields[k] \in PartsOf(c)
  BY <1>7 DEF PartsOf, Range
<1>13. c = Rebuilt(b, p)
  <2>1. \A k \in K : p[b.fields[k]] = c.fields[k]
    BY <1>7, <1>12
  <2> HIDE DEF p
  <2>2. Rebuilt(b, p) = VObj([k \in K |-> p[b.fields[k]]])
    BY <1>7 DEF Rebuilt
  <2>3. [k \in K |-> p[b.fields[k]]] = [k \in K |-> c.fields[k]]
    BY <2>1
  <2> QED BY <1>7, <2>2, <2>3
<1>14. \A z \in PartsOf(b) : g[1][p[z]] = e[1][z]
  <2>1. SUFFICES ASSUME NEW z \in PartsOf(b) PROVE g[1][p[z]] = e[1][z]
    OBVIOUS
  <2>2. PICK k \in K : z = b.fields[k]
    BY <1>7 DEF PartsOf, Range
  <2>3. p[z] = val[1][json[1][s[k]]] /\ z = s[k] /\ p[z] = c.fields[k]
    BY <1>7, <2>2
  <2>4. json[1][s[k]] \in M[1]
    BY <1>1 DEF RoundTrip
  <2>5. 0 < D /\ b \in B[0] /\ c \in C[0]
    BY <1>0, LayersDefined
  <2>6. PartsOf(b) \subseteq B[0 + 1] /\ PartsOf(c) \subseteq C[0 + 1]
    <3> HIDE DEF D
    <3> QED BY <1>0, <2>5, PartsBelow
  <2>7. z \in B[1] /\ p[z] \in C[1]
    <3> HIDE DEF p, B, C
    <3> QED BY <1>12, <2>2, <2>3, <2>6
  <2> HIDE DEF p, B, C, M
  <2> QED BY <1>11, <2>3, <2>4, <2>7
<1>15. e[0][b] = Bytes(b, 0, e[1]) /\ g[0][c] = Bytes(c, 0, g[1])
  <2>1. 0 \in 0 .. D /\ 0 # D /\ b \in B[0] /\ c \in C[0]
    BY <1>0, LayersDefined
  <2> HIDE DEF B, C, D
  <2> QED BY <1>4, <2>1
<1>16. Encode(b) = e[0][b] /\ Encode(c) = g[0][c]
  BY <1>2, <1>3 DEF Encoding
<1> HIDE DEF p
<1>18. Bytes(c, 0, g[1]) = Bytes(b, 0, e[1])
  BY <1>13, <1>14, BytesAlike
<1> QED BY <1>15, <1>16, <1>18

-----------------------------------------------------------------------------
\* A state without the fields of the system, and with a value put into it, has
\* nothing inside that JSON does not have.
LEMMA StoredLasts ==
  ASSUME NEW d, NEW v, NEW key, NEW K, Storable(VObj(d)), Storable(v),
         NEW b, b = VObj(Restrict(Put(d, key, v), K)), K \subseteq DOMAIN Put(d, key, v)
  PROVE  \A n \in 0 .. MaxHashDepth : \A w \in Layers(b, MaxHashDepth + 1)[n] : Lasting(w)
<1> DEFINE D == MaxHashDepth
           J == MaxJsonDepth
           X == Layers(VObj(d), J)
           Y == Layers(v, J)
           H == [n \in 0 .. D |-> IF n = 0 THEN {b} ELSE X[n] \cup Y[n - 1]]
<1>1. D \in Nat /\ J \in Nat /\ D <= J /\ D + 1 \in Nat /\ D <= D + 1
  BY DepthAssumption, JsonAssumption, RecordAssumption
<1>2. \A f : VObj(f).type = "obj" /\ VObj(f).fields = f
  BY DEF VObj
<1>3. \A n \in 0 .. J : /\ \A w \in X[n] : Lasting(w)
                        /\ \A w \in Y[n] : Lasting(w)
  BY Zenon DEF Storable, Inside, Lasting
<1>4. b \in H[0]
  BY <1>1
<1>5. ASSUME NEW n \in Nat, n < D, NEW w \in H[n] PROVE PartsOf(w) \subseteq H[n + 1]
  <2>1. /\ n \in 0 .. D /\ n + 1 \in 0 .. D /\ n + 1 # 0 /\ (n + 1) - 1 = n /\ n < J /\ 0 < J
        /\ n # 0 => n - 1 \in Nat /\ (n - 1) + 1 = n /\ n - 1 < J
    BY <1>1, <1>5
  <2>2. H[n + 1] = X[n + 1] \cup Y[n]
    BY <2>1
  <2>3. CASE n = 0
    <3>1. w = b
      BY <2>1, <2>3
    <3>2. VObj(d) \in X[0] /\ v \in Y[0]
      BY <1>1, LayersDefined
    <3>3. PartsOf(VObj(d)) \subseteq X[0 + 1]
      BY <1>1, <2>1, <3>2, PartsBelow
    <3>4. PartsOf(VObj(d)) = Range(d)
      BY <1>2 DEF PartsOf
    <3> DEFINE f == Restrict(Put(d, key, v), K)
    <3>5. \A k \in DOMAIN f : f[k] = v \/ (k \in DOMAIN d /\ f[k] = d[k])
      BY DEF Restrict, Put
    <3> HIDE DEF f
    <3>6. PartsOf(b) = Range(f)
      BY <1>2 DEF PartsOf, f
    <3>7. \A z \in Range(f) : z = v \/ z \in Range(d)
      BY <3>5 DEF Range
    <3> QED BY <2>2, <2>3, <3>1, <3>2, <3>3, <3>4, <3>6, <3>7
  <2>4. CASE n # 0
    <3>1. w \in X[n] \/ w \in Y[n - 1]
      BY <2>1, <2>4
    <3>2. w \in X[n] => PartsOf(w) \subseteq X[n + 1]
      BY <1>1, <2>1, PartsBelow
    <3>3. w \in Y[n - 1] => PartsOf(w) \subseteq Y[n]
      <4>1. w \in Y[n - 1] => PartsOf(w) \subseteq Y[(n - 1) + 1]
        BY <1>1, <2>1, <2>4, PartsBelow
      <4> QED BY <2>1, <2>4, <4>1
    <3> HIDE DEF H, X, Y
    <3> QED BY <2>2, <3>1, <3>2, <3>3
  <2> QED BY <2>3, <2>4
<1>6. \A n \in 0 .. D : Layers(b, D + 1)[n] \subseteq H[n]
  <2> HIDE DEF H, D
  <2> QED BY <1>1, <1>4, <1>5, LayersWithin
<1>7. ASSUME NEW n \in 0 .. D, NEW w \in H[n] PROVE Lasting(w)
  <2>1. CASE n = 0
    BY <1>2, <2>1 DEF Lasting
  <2>2. CASE n # 0
    <3>1. n \in 0 .. J /\ n - 1 \in 0 .. J
      BY <1>1, <2>2
    <3>2. w \in X[n] \/ w \in Y[n - 1]
      BY <2>2
    <3> HIDE DEF X, Y
    <3> QED BY <1>3, <3>1, <3>2
  <2> QED BY <2>1, <2>2
<1> HIDE DEF H
<1> QED BY <1>6, <1>7

-----------------------------------------------------------------------------
(* The chain of a state that was stored.                                   *)

\* Up to MaxJsonDepth, of[n] replaces the parts of what stands at level n of x.
Rebuilding(x, of) ==
  \A n \in 0 .. MaxJsonDepth : \A w \in Layers(x, MaxJsonDepth + 1)[n] :
    Lasting(w) => of[n][w] = Rebuilt(w, of[n + 1])

\* Both ways do.
LEMMA BothRebuild ==
  ASSUME NEW x, NEW of, Jsoning(x, of) \/ Valuing(x, of)
  PROVE  Rebuilding(x, of)
BY JsonRebuilds, ValueRebuilds DEF Rebuilding

Leaf(w) == w.type \in {"text", "int", "str"}

\* A leaf stays what it is.
LEMMA LeafKept ==
  ASSUME NEW x, NEW of, Rebuilding(x, of), NEW n \in 0 .. MaxJsonDepth,
         NEW w \in Layers(x, MaxJsonDepth + 1)[n], Leaf(w)
  PROVE  of[n][w] = w
<1>1. Lasting(w)
  BY DEF Leaf, Lasting
<1>2. Rebuilt(w, of[n + 1]) = w
  BY DEF Rebuilt, Leaf
<1> QED BY <1>1, <1>2 DEF Rebuilding

\* A list or an object stays what it is when its parts do.
LEMMA WholeKept ==
  ASSUME NEW x, NEW of, Rebuilding(x, of), NEW n \in 0 .. MaxJsonDepth, NEW K, NEW f,
         f = [k \in K |-> f[k]], NEW w \in Layers(x, MaxJsonDepth + 1)[n],
         w = VList(f) \/ w = VObj(f),
         \A k \in K : f[k] \in Layers(x, MaxJsonDepth + 1)[n + 1] => of[n + 1][f[k]] = f[k]
  PROVE  of[n][w] = w
<1>0. /\ VObj(f).type = "obj" /\ VObj(f).fields = f
      /\ VList(f).type = "list" /\ VList(f).items = f
  BY DEF VObj, VList
<1>1. DOMAIN f = K
  OBVIOUS
<1>2. n \in Nat /\ n < MaxJsonDepth + 1 /\ MaxJsonDepth + 1 \in Nat
  BY JsonAssumption
<1>3. PartsOf(w) = Range(f)
  BY <1>0 DEF PartsOf
<1>4. \A k \in K : f[k] \in Range(f)
  BY <1>1 DEF Range
<1>5. PartsOf(w) \subseteq Layers(x, MaxJsonDepth + 1)[n + 1]
  BY <1>2, PartsBelow
<1> DEFINE g == [k \in K |-> of[n + 1][f[k]]]
<1>6. g = f
  <2>1. \A k \in K : of[n + 1][f[k]] = f[k]
    BY <1>3, <1>4, <1>5
  <2>2. g = [k \in K |-> f[k]]
    BY <2>1
  <2> QED BY <2>2
<1>7. Lasting(w)
  BY <1>0 DEF Lasting
<1>8. Rebuilt(w, of[n + 1]) = w
  <2>1. CASE w = VList(f)
    <3>1. Rebuilt(w, of[n + 1]) = VList(g)
      BY <1>0, <1>1, <2>1 DEF Rebuilt
    <3> QED BY <1>6, <2>1, <3>1
  <2>2. CASE w = VObj(f)
    <3>1. Rebuilt(w, of[n + 1]) = VObj(g)
      BY <1>0, <1>1, <2>2 DEF Rebuilt
    <3> QED BY <1>6, <2>2, <3>1
  <2> QED BY <2>1, <2>2
<1> QED BY <1>7, <1>8 DEF Rebuilding

\* What a record is stored as.
LEMMA RecordLeaves ==
  ASSUME NEW r
  PROVE  \E K, f : /\ RecordToValue(r) = VObj(f) /\ f = [k \in K |-> f[k]]
                   /\ \A k \in K : Leaf(f[k])
<1> DEFINE present == {f \in RecordFields : f \in OptionalFields => r[f] # <<>>}
           K == {<<f>> : f \in present}
           g == [key \in K |-> FieldValue(r, key[1])]
<1>1. RecordToValue(r) = VObj(g)
  BY DEF RecordToValue, Fields, FieldValue
<1>2. ASSUME NEW f \in RecordFields PROVE Leaf(FieldValue(r, f))
  BY DEF FieldValue, RecordFields, TextFields, OptionalFields, Leaf, VText, VInt, Text, VStr
<1>3. \A k \in K : g[k] = FieldValue(r, k[1]) /\ k[1] \in RecordFields
  OBVIOUS
<1>4. g = [k \in K |-> g[k]]
  OBVIOUS
<1> HIDE DEF K, g
<1> QED BY <1>1, <1>2, <1>3, <1>4

\* A chain that is a field of what is stored stays what it is, on either way.
LEMMA ChainKept ==
  ASSUME NEW x, NEW of, Rebuilding(x, of), NEW chain,
         ChainToValue(chain) \in Layers(x, MaxJsonDepth + 1)[1]
  PROVE  of[1][ChainToValue(chain)] = ChainToValue(chain)
<1> DEFINE L == Layers(x, MaxJsonDepth + 1)
           list == [k \in DOMAIN chain["records"] |-> RecordToValue(chain["records"][k])]
<1>0. /\ {1, 2, 3, 4} \subseteq 0 .. MaxJsonDepth
      /\ 1 + 1 = 2 /\ 2 + 1 = 3 /\ 3 + 1 = 4
  BY JsonAssumption, RecordAssumption
<1>1. ASSUME NEW r, RecordToValue(r) \in L[3] PROVE of[3][RecordToValue(r)] = RecordToValue(r)
  <2>1. PICK K, f : /\ RecordToValue(r) = VObj(f) /\ f = [k \in K |-> f[k]]
                    /\ \A k \in K : Leaf(f[k])
    BY RecordLeaves
  <2>2. \A k \in K : f[k] \in L[3 + 1] => of[3 + 1][f[k]] = f[k]
    BY <1>0, <2>1, LeafKept
  <2> QED BY <1>0, <1>1, <2>1, <2>2, WholeKept
<1>2. VList(list) \in L[2] => of[2][VList(list)] = VList(list)
  <2>1. list = [k \in DOMAIN chain["records"] |-> list[k]]
    OBVIOUS
  <2>2. \A k \in DOMAIN chain["records"] : list[k] \in L[2 + 1] => of[2 + 1][list[k]] = list[k]
    BY <1>0, <1>1
  <2> HIDE DEF list
  <2> QED BY <1>0, <2>1, <2>2, WholeKept
<1> DEFINE K == {<<f>> : f \in ChainFields}
           g == [key \in K |-> ChainFieldValue(chain, key[1])]
<1>3. ChainToValue(chain) = VObj(g)
  BY DEF ChainToValue, Fields, ChainFieldValue
<1>4. ASSUME NEW f \in ChainFields
      PROVE  Leaf(ChainFieldValue(chain, f)) \/ ChainFieldValue(chain, f) = VList(list)
  BY DEF ChainFieldValue, ChainFields, Leaf, VText, VInt
<1>5. \A k \in K : g[k] = ChainFieldValue(chain, k[1]) /\ k[1] \in ChainFields
  OBVIOUS
<1>6. g = [k \in K |-> g[k]]
  OBVIOUS
<1> HIDE DEF K, g, list
<1>7. \A k \in K : g[k] \in L[1 + 1] => of[1 + 1][g[k]] = g[k]
  <2> SUFFICES ASSUME NEW k \in K, g[k] \in L[2] PROVE of[2][g[k]] = g[k]
    BY <1>0
  <2>1. Leaf(g[k]) \/ g[k] = VList(list)
    BY <1>4, <1>5
  <2> QED BY <1>0, <1>2, <2>1, LeafKept
<1> QED BY <1>0, <1>3, <1>6, <1>7, WholeKept

\* The restored state has the chain that was stored.
LEMMA RestoredChain ==
  ASSUME NEW s, NEW chain, AuditChain \in DOMAIN s, s[AuditChain] = ChainToValue(chain)
  PROVE  Field(Restored(s), AuditChain) = ChainToValue(chain)
<1> DEFINE C == ChainToValue(chain)
<1>1. PICK j, json, val : RoundTrip(s, j, json, val)
  BY RestoredIs
<1>2. Rebuilding(VObj(s), json) /\ Rebuilding(j, val)
  BY <1>1, BothRebuild DEF RoundTrip
<1>3. /\ C \in Layers(VObj(s), MaxJsonDepth + 1)[1]
      /\ json[1][C] \in Layers(j, MaxJsonDepth + 1)[1]
  BY <1>1 DEF RoundTrip
<1>4. json[1][C] = C
  BY <1>2, <1>3, ChainKept
<1>5. val[1][C] = C
  BY <1>2, <1>3, <1>4, ChainKept
<1>6. AuditChain \in DOMAIN Restored(s) /\ Restored(s)[AuditChain] = val[1][json[1][s[AuditChain]]]
  BY <1>1 DEF RoundTrip
<1> QED BY <1>4, <1>5, <1>6 DEF Field

\* A chain that was written is read again.
LEMMA ChainSurvives ==
  ASSUME NEW chain \in Chains
  PROVE  ChainFromValue(ChainToValue(chain)) = chain /\ chain # Unreadable
<1> DEFINE v == ChainToValue(chain)
           list == [k \in DOMAIN chain.records |-> RecordToValue(chain.records[k])]
           At(f) == FieldOf(v, <<f>>)
<1>1. /\ chain.records \in Seq(Recs) /\ chain.logical_tick \in 0 .. 2 * IntLimit - 1
      /\ chain.version \in 0 .. VersionLimit - 1
      /\ chain = [records |-> chain.records, root_hash |-> chain.root_hash,
                  latest_hash |-> chain.latest_hash, created_at |-> chain.created_at,
                  updated_at |-> chain.updated_at, logical_tick |-> chain.logical_tick,
                  version |-> chain.version]
  BY DEF Chains
<1>2. /\ At("records") = VList(list)
      /\ At("root_hash") = VText(chain["root_hash"])
      /\ At("latest_hash") = VText(chain["latest_hash"])
      /\ At("created_at") = VInt(chain["created_at"])
      /\ At("updated_at") = VInt(chain["updated_at"])
      /\ At("version") = VInt(chain["version"])
      /\ At("logical_tick") = VInt(AsI64(chain["logical_tick"]))
  BY ChainStored DEF ChainFields, ChainFieldValue
<1>3. At("records").type = "list" /\ At("records").items = list
  BY <1>2 DEF VList
<1>4. /\ \A f \in {"root_hash", "latest_hash"} : IsText(At(f)) /\ At(f).bytes = chain[f]
      /\ \A f \in {"created_at", "updated_at", "version"} : At(f).type = "int" /\ At(f).n = chain[f]
      /\ At("logical_tick").type = "int" /\ At("logical_tick").n = AsI64(chain["logical_tick"])
  BY <1>2 DEF VText, VInt, IsText
<1>5. RecordsRead(list) = chain.records
  <2>1. \A k \in DOMAIN chain.records : chain.records[k] \in Recs
    BY <1>1
  <2>2. \A k \in DOMAIN chain.records : RecordFromValue(list[k]) = chain.records[k]
    BY <2>1, RecordSurvives
  <2>3. DOMAIN list = DOMAIN chain.records
    OBVIOUS
  <2> HIDE DEF list
  <2>4. RecordsRead(list) = [k \in DOMAIN chain.records |-> chain.records[k]]
    BY <2>2, <2>3 DEF RecordsRead
  <2>5. chain.records = [k \in DOMAIN chain.records |-> chain.records[k]]
    BY <1>1
  <2> QED BY <2>4, <2>5
<1>6. Unreadable \notin Range(chain.records)
  <2>1. DOMAIN Unreadable = {"unreadable"}
    BY DEF Unreadable
  <2>2. \A r \in Recs : "hash" \in DOMAIN r
    BY DEF Recs, Audit!Records
  <2>3. "hash" \notin {"unreadable"}
    OBVIOUS
  <2>4. \A r \in Recs : r # Unreadable
    BY <2>1, <2>2, <2>3
  <2> QED BY <1>1, <2>4 DEF Range
<1>7. AsU64(AsI64(chain.logical_tick)) = chain.logical_tick
  <2> DEFINE M == 2 * IntLimit
             n == chain.logical_tick
  <2>1. M \in Nat /\ M > 0 /\ n \in 0 .. M - 1
    BY <1>1, IntLimitAssumption
  <2> HIDE DEF M, n
  <2>2. n % M = n
    BY <2>1
  <2>3. (n - M) % M = n
    BY <2>1
  <2> QED BY <2>2, <2>3 DEF AsU64, AsI64, M, n
<1>8. chain.version % VersionLimit = chain.version
  BY <1>1, RecordAssumption
<1> HIDE DEF v, list
<1>9. ChainParses(v)
  BY <1>3, <1>4, <1>5, <1>6 DEF ChainParses
<1>10. ChainFromValue(v) = chain
  BY <1>1, <1>3, <1>4, <1>5, <1>7, <1>8, <1>9, ChainReadIs
<1>11. chain # Unreadable
  <2>1. DOMAIN Unreadable = {"unreadable"}
    BY DEF Unreadable
  <2>2. "records" \in DOMAIN chain
    BY DEF Chains
  <2>3. "records" \notin {"unreadable"}
    OBVIOUS
  <2> QED BY <2>1, <2>2, <2>3
<1> QED BY <1>10, <1>11 DEF v

-----------------------------------------------------------------------------
(* A round of the loop, on a state that is stored afterwards.              *)

\* The switch of the audit is not set.
Unswitched(s) == Field(s, Exec).type = "obj" => <<"audit_on">> \notin DOMAIN Field(s, Exec).fields

\* The chain after a round.
NewChain(s, before, after, tick) ==
  Audit!AppendRecord(ChainIn(s),
    Audit!NewRecord(ChainIn(s), <<1>>, AsI64(tick), before, after, <<2>>, AuditKey))

\* A round leaves the hashes of dispatch, and a record of them.
LEMMA RoundMakes ==
  ASSUME NEW s, Unswitched(s), NEW before, NEW after, NEW tick
  PROVE  Round(s, before, after, tick) =
           Put(RecordDispatchHashes(s, before, after), AuditChain,
               ChainToValue(NewChain(s, before, after, tick)))
<1> DEFINE exec == Field(s, Exec)
           e == IF exec.type = "obj" THEN exec.fields ELSE NoFields
           h0 == Put(NoFields, <<"before_hash">>, VText(before))
           hashes == Put(h0, <<"after_hash">>, VText(after))
           new == VObj(Put(e, <<"last_dispatch_hashes">>, VObj(hashes)))
           t == RecordDispatchHashes(s, before, after)
<1>1. t = Put(s, Exec, new)
  BY DEF RecordDispatchHashes
<1>2. /\ <<"last_dispatch_hashes">> # <<"audit_on">> /\ <<"before_hash">> # <<"after_hash">>
      /\ Exec # AuditChain
  BY DEF Exec, AuditChain
<1>3. \A f : VObj(f).type = "obj" /\ VObj(f).fields = f
  BY DEF VObj
<1>4. Field(t, Exec) = new /\ Field(t, AuditChain) = Field(s, AuditChain)
  <2> HIDE DEF new, t
  <2> QED BY <1>1, <1>2 DEF Field, Put
<1>5. ChainIn(t) = ChainIn(s)
  <2> HIDE DEF t
  <2> QED BY <1>4, Zenon DEF ChainIn
<1>6. FieldOf(new, <<"last_dispatch_hashes">>) = VObj(hashes)
  <2> HIDE DEF hashes, e
  <2> QED BY PutField
<1>7. FieldOf(new, <<"audit_on">>) # VBool(FALSE)
  <2>1. FieldOf(new, <<"audit_on">>) = FieldOf(VObj(e), <<"audit_on">>)
    <3> HIDE DEF hashes, e
    <3> QED BY <1>2, PutField
  <2>2. <<"audit_on">> \notin DOMAIN e
    BY DEF Unswitched, NoFields
  <2>3. FieldOf(VObj(e), <<"audit_on">>) = None
    <3> HIDE DEF e
    <3> QED BY <1>3, <2>2 DEF FieldOf, Field
  <2>4. None # VBool(FALSE)
    <3>1. None.type = "none" /\ VBool(FALSE).type = "bool"
      BY DEF None, VBool
    <3> QED BY <3>1
  <2> QED BY <2>1, <2>3, <2>4
<1>8. /\ FieldOf(VObj(hashes), <<"after_hash">>) = VText(after)
      /\ FieldOf(VObj(hashes), <<"before_hash">>) = VText(before)
  <2>1. FieldOf(VObj(h0), <<"before_hash">>) = VText(before)
    BY PutField
  <2> HIDE DEF h0
  <2> QED BY <1>2, <2>1, PutField
<1>9. VObj(hashes) # None
  <2>1. None.type = "none" /\ VObj(hashes).type = "obj"
    BY DEF None, VObj
  <2> HIDE DEF hashes
  <2> QED BY <2>1
<1> HIDE DEF new, t, hashes
<1>10. TracedHashes(t) = <<before, after>>
  <2>1. /\ IsText(VText(before)) /\ VText(before).bytes = before
        /\ IsText(VText(after)) /\ VText(after).bytes = after
    BY DEF VText, IsText
  <2> QED BY <1>4, <1>6, <1>8, <1>9, <2>1 DEF TracedHashes
<1>11. Round(s, before, after, tick) = TraceStep(t, tick, <<1>>, <<2>>)
  BY DEF Round, t
<1>12. TraceStep(t, tick, <<1>>, <<2>>) =
         Put(t, AuditChain, ChainToValue(NewChain(s, before, after, tick)))
  <2>1. TracedHashes(t)[1] = before /\ TracedHashes(t)[2] = after
    BY <1>10
  <2>2. FieldOf(Field(t, Exec), <<"audit_on">>) # VBool(FALSE)
    BY <1>4, <1>7
  <2> QED BY <1>5, <2>1, <2>2, Zenon DEF TraceStep, NewChain
<1> QED BY <1>11, <1>12 DEF t

\* Its record is signed, tells the two hashes, and follows the last one.
LEMMA RoundGood ==
  ASSUME NEW s, Good(ChainIn(s)), NEW before \in Audit!Texts, NEW after \in Audit!Texts,
         NEW tick \in 0 .. 2 * IntLimit - 1
  PROVE  /\ Good(NewChain(s, before, after, tick))
         /\ \E r : /\ NewChain(s, before, after, tick).records = Append(ChainIn(s).records, r)
                   /\ r.state_before_hash = before /\ r.state_after_hash = after
<1> DEFINE chain == ChainIn(s)
           r == Audit!NewRecord(chain, <<1>>, AsI64(tick), before, after, <<2>>, AuditKey)
<1>1. AsI64(tick) \in Int
  BY IntLimitAssumption DEF AsI64
<1>2. <<1>> \in Audit!Texts /\ <<2>> \in Audit!Texts
  BY ByteText
<1>3. chain \in Chains
  BY DEF Good
<1> HIDE DEF chain
<1> DEFINE stamp == AsI64(tick)
<1> HIDE DEF stamp
<1>4. /\ Signed(r) /\ r.previous_hash = chain.latest_hash
      /\ r.state_before_hash = before /\ r.state_after_hash = after
  <2>1. stamp \in Int /\ r = Audit!NewRecord(chain, <<1>>, stamp, before, after, <<2>>, AuditKey)
    BY <1>1 DEF stamp
  <2>2. AuditKey \in Audit!Texts
    BY RecordAssumption
  <2>3. Signed(Audit!NewRecord(chain, <<1>>, stamp, before, after, <<2>>, AuditKey))
    BY <1>2, <1>3, <2>1, NewSigned
  <2> QED BY <1>2, <1>3, <2>1, NewSigned
<1>5. NewChain(s, before, after, tick) = Audit!AppendRecord(chain, r)
  BY DEF NewChain, chain
<1>6. Good(chain)
  BY DEF chain
<1> HIDE DEF r
<1>7. /\ Good(Audit!AppendRecord(chain, r))
      /\ Audit!AppendRecord(chain, r).records = Append(chain.records, r)
  BY <1>4, <1>6, AppendGood
<1> QED BY <1>4, <1>5, <1>7 DEF chain

\* It does not touch what the hash of a state looks at, nor the switch.
LEMMA RoundLeaves ==
  ASSUME NEW s, Unswitched(s), NEW before, NEW after, NEW tick
  PROVE  LET t == Round(s, before, after, tick)
         IN  /\ BusinessSnapshot(t) = BusinessSnapshot(s)
             /\ AuditChain \in DOMAIN t
             /\ t[AuditChain] = ChainToValue(NewChain(s, before, after, tick))
             /\ Exec \in DOMAIN t
             /\ \E g : t[Exec] = VObj(g) /\ <<"audit_on">> \notin DOMAIN g
<1> DEFINE exec == Field(s, Exec)
           e == IF exec.type = "obj" THEN exec.fields ELSE NoFields
           hashes == Put(Put(NoFields, <<"before_hash">>, VText(before)),
                         <<"after_hash">>, VText(after))
           g == Put(e, <<"last_dispatch_hashes">>, VObj(hashes))
           C == ChainToValue(NewChain(s, before, after, tick))
           t == Round(s, before, after, tick)
<1>1. t = Put(Put(s, Exec, VObj(g)), AuditChain, C)
  BY RoundMakes DEF RecordDispatchHashes
<1>2. <<"audit_on">> \notin DOMAIN g
  BY DEF Unswitched, NoFields, Put
<1> HIDE DEF g, C, t
<1>3. /\ DOMAIN t = DOMAIN s \cup {Exec, AuditChain}
      /\ \A k \in DOMAIN s : k \notin SystemFields => t[k] = s[k]
      /\ t[AuditChain] = C /\ t[Exec] = VObj(g)
  BY <1>1 DEF Put, SystemFields, Exec, AuditChain
<1>4. DOMAIN t \ SystemFields = DOMAIN s \ SystemFields
  BY <1>3 DEF SystemFields
<1>5. Restrict(t, DOMAIN t \ SystemFields) = Restrict(s, DOMAIN s \ SystemFields)
  <2> DEFINE K == DOMAIN s \ SystemFields
  <2>1. \A k \in K : t[k] = s[k]
    BY <1>3
  <2> HIDE DEF K
  <2>2. Restrict(t, K) = Restrict(s, K)
    BY <2>1 DEF Restrict
  <2> QED BY <1>4, <2>2 DEF K
<1>6. BusinessSnapshot(t) = BusinessSnapshot(s)
  BY <1>5 DEF BusinessSnapshot
<1> QED BY <1>2, <1>3, <1>6 DEF C, t

\* What is stored and read has the same hash.
LEMMA RestoredSame ==
  ASSUME NEW s, NEW t, BusinessSnapshot(t) = BusinessSnapshot(s), Proper(BusinessSnapshot(s)),
         \A n \in 0 .. MaxHashDepth :
           \A w \in Layers(BusinessSnapshot(s), MaxHashDepth + 1)[n] : Lasting(w)
  PROVE  StateHash(Restored(t)) = StateHash(s)
<1> DEFINE K == DOMAIN t \ SystemFields
           b == BusinessSnapshot(s)
           c == VObj(Restrict(Restored(t), K))
<1>1. b = VObj(Restrict(t, K))
  BY DEF BusinessSnapshot
<1>2. Encode(c) = Encode(b)
  <2>1. K \in SUBSET DOMAIN t
    OBVIOUS
  <2> HIDE DEF K, b, c
  <2>2. c = VObj(Restrict(Restored(t), K))
    BY DEF c
  <2>3. /\ Proper(b)
        /\ \A n \in 0 .. MaxHashDepth : \A w \in Layers(b, MaxHashDepth + 1)[n] : Lasting(w)
    BY DEF b
  <2> QED BY <1>1, <2>1, <2>2, <2>3, EncodingKept
<1>3. BusinessSnapshot(Restored(t)) = c
  <2>1. PICK j, json, val : RoundTrip(t, j, json, val)
    BY RestoredIs
  <2>2. DOMAIN Restored(t) = DOMAIN t
    BY <2>1 DEF RoundTrip
  <2> QED BY <2>2 DEF BusinessSnapshot
<1> HIDE DEF b, c
<1>4. ContentHash(<<c>>) = ContentHash(<<b>>)
  <2>1. \A z : [k \in DOMAIN <<z>> |-> Encode(<<z>>[k])] = [k \in 1 .. 1 |-> Encode(z)]
    OBVIOUS
  <2>2. \A z : ContentHash(<<z>>) = FlattenSeq([k \in 1 .. 1 |-> Encode(z)])
    BY <2>1 DEF ContentHash
  <2> QED BY <1>2, <2>2
<1> QED BY <1>3, <1>4 DEF StateHash, b

\* The switch that was not set is not set in what is read.
LEMMA RestoredUnswitched ==
  ASSUME NEW t, Exec \in DOMAIN t, NEW g, t[Exec] = VObj(g), <<"audit_on">> \notin DOMAIN g
  PROVE  Unswitched(Restored(t))
<1>1. PICK j, json, val : RoundTrip(t, j, json, val)
  BY RestoredIs
<1>2. Rebuilding(VObj(t), json) /\ Rebuilding(j, val)
  BY <1>1, BothRebuild DEF RoundTrip
<1>3. 1 \in 0 .. MaxJsonDepth
  BY JsonAssumption, RecordAssumption
<1>4. \A f : VObj(f).type = "obj" /\ VObj(f).fields = f /\ Lasting(VObj(f))
  BY DEF VObj, Lasting
<1>5. /\ VObj(g) \in Layers(VObj(t), MaxJsonDepth + 1)[1]
      /\ json[1][VObj(g)] \in Layers(j, MaxJsonDepth + 1)[1]
      /\ Field(Restored(t), Exec) = val[1][json[1][VObj(g)]]
  BY <1>1 DEF RoundTrip, Field
<1>6. ASSUME NEW p, NEW f PROVE \E h : Rebuilt(VObj(f), p) = VObj(h) /\ DOMAIN h = DOMAIN f
  <2> DEFINE h == [k \in DOMAIN f |-> p[f[k]]]
  <2>1. Rebuilt(VObj(f), p) = VObj(h)
    BY <1>4 DEF Rebuilt
  <2>2. DOMAIN h = DOMAIN f
    OBVIOUS
  <2> HIDE DEF h
  <2> QED BY <2>1, <2>2
<1>7. json[1][VObj(g)] = Rebuilt(VObj(g), json[1 + 1])
  BY <1>2, <1>3, <1>4, <1>5 DEF Rebuilding
<1>8. PICK h : json[1][VObj(g)] = VObj(h) /\ DOMAIN h = DOMAIN g
  BY <1>6, <1>7
<1>9. val[1][VObj(h)] = Rebuilt(VObj(h), val[1 + 1])
  BY <1>2, <1>3, <1>4, <1>5, <1>8 DEF Rebuilding
<1>10. PICK i : val[1][VObj(h)] = VObj(i) /\ DOMAIN i = DOMAIN h
  BY <1>6, <1>9
<1> QED BY <1>4, <1>5, <1>8, <1>10 DEF Unswitched

\* A state that rules wrote has no chain, and no switch.
LEMMA WrittenFresh ==
  ASSUME NEW d, Proper(VObj(d))
  PROVE  ChainIn(d) = Audit!EmptyChain /\ Unswitched(d)
<1>1. VObj(d).type = "obj" /\ VObj(d).fields = d
  BY DEF VObj
<1>2. DOMAIN d \subseteq Words /\ \A k \in DOMAIN d : Proper(d[k])
  BY <1>1, FieldsProper
<1>3. AuditChain \notin Words /\ <<"audit_on">> \notin Words
  <2>1. \A w \in Words : \A k \in 1 .. Len(w) : w[k] \in DOMAIN Code
    BY DEF Words
  <2>2. /\ Len(AuditChain) = 1 /\ AuditChain[1] = "__audit_chain"
        /\ Len(<<"audit_on">>) = 1 /\ <<"audit_on">>[1] = "audit_on"
    BY DEF AuditChain
  <2>3. "__audit_chain" \notin DOMAIN Code /\ "audit_on" \notin DOMAIN Code
    BY RecordAssumption
  <2>4. 1 \in 1 .. 1
    OBVIOUS
  <2> QED BY <2>1, <2>2, <2>3, <2>4
<1>4. ChainIn(d) = Audit!EmptyChain
  <2>1. Field(d, AuditChain) = None
    BY <1>2, <1>3 DEF Field
  <2>2. None.type = "none"
    BY DEF None
  <2>3. \A k : FieldOf(None, k) = None
    BY <2>2 DEF FieldOf
  <2>4. ~ChainParses(None)
    BY <2>2, <2>3 DEF ChainParses
  <2>5. ChainFromValue(None) = Unreadable
    BY <2>4, ChainReadIs
  <2> QED BY <2>1, <2>5 DEF ChainIn
<1>5. Unswitched(d)
  <2>1. CASE Exec \in DOMAIN d
    <3>1. Field(d, Exec) = d[Exec] /\ Proper(d[Exec])
      BY <1>2, <2>1 DEF Field
    <3>2. d[Exec].type = "obj" => DOMAIN d[Exec].fields \subseteq Words
      BY <3>1, FieldsProper
    <3> QED BY <1>3, <3>1, <3>2 DEF Unswitched
  <2>2. CASE Exec \notin DOMAIN d
    BY <2>2 DEF Unswitched, Field, None
  <2> QED BY <2>1, <2>2
<1> QED BY <1>4, <1>5

\* The chain of a state that was stored after a round.
LEMMA RestoredChainIn ==
  ASSUME NEW t, NEW chain, Good(chain), AuditChain \in DOMAIN t, t[AuditChain] = ChainToValue(chain)
  PROVE  ChainIn(Restored(t)) = chain
<1>1. Field(Restored(t), AuditChain) = ChainToValue(chain)
  BY RestoredChain
<1>2. ChainFromValue(ChainToValue(chain)) = chain /\ chain # Unreadable
  BY ChainSurvives DEF Good
<1> QED BY <1>1, <1>2 DEF ChainIn

\* Two rounds on a state that rules wrote, stored after each.
LEMMA TwoRounds ==
  ASSUME NEW d, Proper(VObj(d)), NEW v \in Probes, NEW tick \in Ticks,
         Storable(VObj(d)), Storable(v),
         NEW written, written = Put(d, <<"a">>, v),
         NEW before, before = StateHash(d), NEW after, after = StateHash(written),
         NEW first, first = Round(written, before, after, tick),
         NEW restored, restored = Restored(first),
         NEW second, second = Round(restored, StateHash(restored), StateHash(restored), 0)
  PROVE  LET chain == ChainIn(Restored(second))
             records == chain.records
         IN  /\ Verified(chain)
             /\ Len(records) = 2
             /\ records[1].state_before_hash = before
             /\ records[1].state_after_hash = records[2].state_before_hash
             /\ records[2].state_after_hash = after
<1> DEFINE chain == ChainIn(Restored(second))
<1>1. Proper(VObj(written))
  <2>1. Proper(v)
    BY RecordAssumption, SoundProper
  <2>2. <<"a">> \in Words
    BY RecordAssumption DEF Words
  <2> QED BY <2>1, <2>2, PutProper
<1>2. before \in Audit!Texts /\ after \in Audit!Texts
  BY <1>1, StateHashText
<1>3. ChainIn(written) = Audit!EmptyChain /\ Unswitched(written)
  BY <1>1, WrittenFresh
<1>4. tick \in 0 .. 2 * IntLimit - 1 /\ 0 \in 0 .. 2 * IntLimit - 1
  BY RecordAssumption, IntLimitAssumption
<1> DEFINE c1 == NewChain(written, before, after, tick)
<1>5. PICK r1 : /\ Good(c1) /\ c1.records = Append(Audit!EmptyChain.records, r1)
                /\ r1.state_before_hash = before /\ r1.state_after_hash = after
  BY <1>2, <1>3, <1>4, EmptyGood, RoundGood
<1>6. /\ BusinessSnapshot(first) = BusinessSnapshot(written)
      /\ AuditChain \in DOMAIN first /\ first[AuditChain] = ChainToValue(c1)
      /\ Exec \in DOMAIN first
      /\ \E g : first[Exec] = VObj(g) /\ <<"audit_on">> \notin DOMAIN g
  <2> HIDE DEF c1
  <2> DEFINE t == Round(written, before, after, tick)
  <2>1. /\ BusinessSnapshot(t) = BusinessSnapshot(written)
        /\ AuditChain \in DOMAIN t
        /\ t[AuditChain] = ChainToValue(NewChain(written, before, after, tick))
        /\ Exec \in DOMAIN t
        /\ \E g : t[Exec] = VObj(g) /\ <<"audit_on">> \notin DOMAIN g
    BY <1>3, RoundLeaves
  <2> QED BY <2>1 DEF c1
<1>7. StateHash(restored) = after
  <2> DEFINE K == DOMAIN written \ SystemFields
             b == BusinessSnapshot(written)
  <2>1. b = VObj(Restrict(Put(d, <<"a">>, v), K)) /\ K \subseteq DOMAIN Put(d, <<"a">>, v)
    BY DEF BusinessSnapshot
  <2> HIDE DEF K
  <2>2. \A n \in 0 .. MaxHashDepth : \A w \in Layers(b, MaxHashDepth + 1)[n] : Lasting(w)
    <3> HIDE DEF b
    <3> QED BY <2>1, StoredLasts
  <2>3. Proper(BusinessSnapshot(written))
    BY <1>1, SnapshotProper
  <2> QED BY <1>6, <2>2, <2>3, RestoredSame
<1>8. Unswitched(restored)
  BY <1>6, RestoredUnswitched
<1>9. ChainIn(restored) = c1
  <2> HIDE DEF c1
  <2> QED BY <1>5, <1>6, RestoredChainIn
<1> HIDE DEF c1
<1> DEFINE c2 == NewChain(restored, after, after, 0)
<1>10. PICK r2 : /\ Good(c2) /\ c2.records = Append(c1.records, r2)
                 /\ r2.state_before_hash = after /\ r2.state_after_hash = after
  <2>1. Good(ChainIn(restored))
    BY <1>5, <1>9
  <2>2. 0 \in 0 .. 2 * IntLimit - 1
    BY <1>4
  <2>3. /\ Good(c2)
        /\ \E r : /\ c2.records = Append(ChainIn(restored).records, r)
                  /\ r.state_before_hash = after /\ r.state_after_hash = after
    BY <1>2, <2>1, <2>2, RoundGood
  <2> QED BY <1>9, <2>3
<1>11. AuditChain \in DOMAIN second /\ second[AuditChain] = ChainToValue(c2)
  <2>1. second = Round(restored, after, after, 0)
    BY <1>7
  <2> DEFINE t == Round(restored, after, after, 0)
  <2>2. /\ AuditChain \in DOMAIN t
        /\ t[AuditChain] = ChainToValue(NewChain(restored, after, after, 0))
    BY <1>8, RoundLeaves
  <2> QED BY <2>1, <2>2 DEF c2
<1> HIDE DEF c2
<1>12. chain = c2
  BY <1>10, <1>11, RestoredChainIn
<1>13. c2.records = Append(<<r1>>, r2)
  <2>1. Audit!EmptyChain.records = <<>>
    BY DEF Audit!EmptyChain
  <2>2. Append(<<>>, r1) = <<r1>>
    OBVIOUS
  <2> QED BY <1>5, <1>10, <2>1, <2>2
<1>14. /\ Len(Append(<<r1>>, r2)) = 2
       /\ Append(<<r1>>, r2)[1] = r1 /\ Append(<<r1>>, r2)[2] = r2
  <2>1. <<r1>> \in Seq({r1, r2}) /\ Len(<<r1>>) = 1 /\ <<r1>>[1] = r1
    OBVIOUS
  <2> QED BY <2>1
<1>15. Verified(c2)
  BY <1>10 DEF Good
<1> QED BY <1>5, <1>10, <1>12, <1>13, <1>14, <1>15

(* A state that is stored as JSON after every round, and continued with a  *)
(* new context, has one chain that verifies and leads from state to state, *)
(* and its last record tells the hash of the state that was read back      *)
(* (trace_step, to_value and from_value in audit.rs, value.rs).            *)
THEOREM StoredChainGoesOn == Spec => []StoredStateVerifies
<1>1. ASSUME DataInv, NEW v \in Probes, NEW tick \in Ticks, Storable(VObj(data)), Storable(v),
             NEW first \in {Round(Put(data, <<"a">>, v), StateHash(data),
                                  StateHash(Put(data, <<"a">>, v)), tick)},
             NEW restored \in {Restored(first)},
             NEW second \in {Round(restored, StateHash(restored), StateHash(restored), 0)}
      PROVE  LET chain == ChainIn(Restored(second))
                 records == chain.records
             IN  /\ Verified(chain)
                 /\ Len(records) = 2
                 /\ records[1].state_before_hash = StateHash(data)
                 /\ records[1].state_after_hash = records[2].state_before_hash
                 /\ records[2].state_after_hash = StateHash(Put(data, <<"a">>, v))
  <2> DEFINE written == Put(data, <<"a">>, v)
             before == StateHash(data)
             after == StateHash(written)
  <2>1. /\ Proper(VObj(data)) /\ first = Round(written, before, after, tick)
        /\ restored = Restored(first)
        /\ second = Round(restored, StateHash(restored), StateHash(restored), 0)
    BY <1>1 DEF DataInv
  <2> QED BY <1>1, <2>1, TwoRounds
<1>2. DataInv => StoredStateVerifies
  BY <1>1, Zenon DEF StoredStateVerifies
<1> QED BY <1>2, StateHoldsValues, PTL
=============================================================================
