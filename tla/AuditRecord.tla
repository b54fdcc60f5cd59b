------------------------------ MODULE AuditRecord ------------------------------
(***************************************************************************)
(* AuditRecord and AuditChainState (audit.rs): what a record of the audit  *)
(* chain signs, and how the two writers of the chain, trace_step           *)
(* (primitive/audit_ops.rs) and record_dispatch_expand                     *)
(* (instruction/registry.rs), derive and append one.                       *)
(*                                                                         *)
(* A text is a sequence of bytes, an optional text a sequence of at most   *)
(* one text; a number that is written with a fixed width is one byte.      *)
(* HMAC keeps the key and the message as they are: it tells its inputs     *)
(* apart.  The texts of the records of a chain are its own affair here;    *)
(* when records are written and rolled back is that of AuditTrail.         *)
(***************************************************************************)
EXTENDS Integers, Sequences

Texts == Seq(Int)
OptionalTexts == {<<>>} \cup {<<t>> : t \in Texts}
ExecutionResults == {"success", "failure", "skipped"}

Records ==
  [id : Texts, rule_id : Texts, timestamp : Int, state_before_hash : Texts,
   state_after_hash : Texts, change_summary : OptionalTexts,
   execution_result : ExecutionResults, error_message : OptionalTexts,
   hash : Texts, previous_hash : Texts, nonce : Texts, version : Int]

HmacSha256(key, message) == <<Len(key)>> \o key \o message

\* The hash of an empty chain, 64 zeros: no HMAC of a record.
Genesis == <<0>>

CurrentVersion == 3

-----------------------------------------------------------------------------
(* What a record signs.                                                    *)

\* Mutant of Sized: the fields follow each other without their lengths.
SizedPlain(text) == text

\* write_str
Sized(text) == <<Len(text)>> \o text

Optional(option) == IF option = <<>> THEN <<0>> ELSE <<1>> \o Sized(option[1])

ResultByte(result) ==
  CASE result = "success" -> 0
    [] result = "failure" -> 1
    [] result = "skipped" -> 2

\* compute_hash: of every field but the hash itself.
ComputeHash(r, key) ==
  HmacSha256(key,
    Sized(r.id) \o (Sized(r.nonce) \o (Sized(r.rule_id) \o (<<r.timestamp>> \o
    (Sized(r.state_before_hash) \o (Sized(r.state_after_hash) \o
    (Sized(r.previous_hash) \o (<<ResultByte(r.execution_result)>> \o
    (Optional(r.change_summary) \o (Optional(r.error_message) \o <<r.version>>))))))))))

Verify(r, key) == r.hash = ComputeHash(r, key)

\* content_hash of a string and an integer.
DeriveId(previous, tick) == <<4>> \o Sized(previous) \o <<2, tick>>

DeriveNonce(previous, tick, key) == HmacSha256(key, previous \o <<tick>>)

-----------------------------------------------------------------------------
(* Chains.                                                                 *)

EmptyChain ==
  [records |-> <<>>, root_hash |-> Genesis, latest_hash |-> Genesis,
   created_at |-> 0, updated_at |-> 0, logical_tick |-> 0, version |-> CurrentVersion]

\* AuditRecord::new for the successor of the last record of a chain.
NewRecord(chain, rule, tick, before, after, summary, key) ==
  LET r == [id |-> DeriveId(chain.latest_hash, tick), rule_id |-> rule, timestamp |-> tick,
            state_before_hash |-> before, state_after_hash |-> after,
            change_summary |-> <<summary>>, execution_result |-> "success",
            error_message |-> <<>>, hash |-> <<>>, previous_hash |-> chain.latest_hash,
            nonce |-> DeriveNonce(chain.latest_hash, tick, key),
            version |-> CurrentVersion]
  IN  [r EXCEPT !.hash = ComputeHash(r, key)]

\* The end of both writers.
AppendRecord(chain, r) ==
  LET first == chain.records = <<>>
  IN  [chain EXCEPT
         !.records = Append(@, r),
         !.root_hash = IF first THEN r.hash ELSE @,
         !.created_at = IF first THEN r.timestamp ELSE @,
         !.latest_hash = r.hash,
         !.updated_at = r.timestamp]

\* Every record verifies, and each names the hash of the one before it.
Sound(records, latest, key) ==
  LET n == Len(records)
  IN  /\ \A k \in 1 .. n :
           /\ Verify(records[k], key)
           /\ records[k].previous_hash = IF k = 1 THEN Genesis ELSE records[k - 1].hash
      /\ latest = IF n = 0 THEN Genesis ELSE records[n].hash
=============================================================================
