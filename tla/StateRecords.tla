----------------------------- MODULE StateRecords -----------------------------
(***************************************************************************)
(* States with the audit chain that is kept in them: which fields a state  *)
(* hash looks at (business_state_snapshot in state.rs), the hashes that    *)
(* dispatch leaves for trace_step (control/dispatch.rs), trace_step itself *)
(* (primitive/audit_ops.rs), and records and chains as values (to_value    *)
(* and from_value in audit.rs), which a host stores as JSON.               *)
(*                                                                         *)
(* A state is the function of its fields, as in StateOps.  The texts of    *)
(* records are bytes, and those of the data tokens; `exec` is the key      *)
(* __exec__.                                                               *)
(***************************************************************************)
EXTENDS StateOps, ValueJson

CONSTANTS
  Probes,        \* values that the properties store
  Ticks,         \* ticks of a context
  AuditKey,      \* DEFAULT_HMAC_KEY
  VersionLimit   \* 2^32 in the code: versions are 0 .. VersionLimit - 1

Audit == INSTANCE AuditRecord

\* Rules do not touch the audit chain, nor the switch of the audit; JSON goes
\* as deep as the hash, and deep enough for a chain and the dispatch hashes.
ASSUME RecordAssumption ==
  /\ Ticks \subseteq 0 .. 2 * IntLimit - 1
  /\ VersionLimit \in Nat /\ Audit!CurrentVersion < VersionLimit
  /\ AuditKey \in Audit!Texts
  /\ \A v \in Probes : Sound(v)
  /\ "a" \in DOMAIN Code /\ {"__audit_chain", "audit_on"} \cap DOMAIN Code = {}
  /\ MaxHashDepth <= MaxJsonDepth /\ 4 <= MaxJsonDepth

\* `as i64` and `as u64`
AsI64(n) == IF n < IntLimit THEN n ELSE n - 2 * IntLimit
AsU64(n) == n % (2 * IntLimit)

-----------------------------------------------------------------------------
(* Records and chains as values.                                           *)

\* A string that a record holds.
VText(bytes) == [type |-> "text", bytes |-> bytes]
IsText(v) == v.type = "text"

TextFields ==
  {"id", "rule_id", "state_before_hash", "state_after_hash", "hash", "previous_hash", "nonce"}
OptionalFields == {"change_summary", "error_message"}
RecordFields ==
  TextFields \cup OptionalFields \cup {"timestamp", "version", "execution_result"}

\* The object with the given fields.
Fields(names, Value(_)) == VObj([key \in {<<f>> : f \in names} |-> Value(key[1])])

\* AuditRecord::to_value: None leaves no field.
RecordToValue(r) ==
  LET Value(f) ==
        CASE f \in TextFields             -> VText(r[f])
          [] f \in OptionalFields         -> VText(r[f][1])
          [] f \in {"timestamp", "version"} -> VInt(r[f])
          [] f = "execution_result"       -> Text(r[f])
  IN  Fields({f \in RecordFields : f \in OptionalFields => r[f] # <<>>}, Value)

Unreadable == [unreadable |-> TRUE]

\* AuditRecord::from_value: what is no text reads as None where that may be.
RecordFromValue(v) ==
  LET At(f) == FieldOf(v, <<f>>)
      Read(f) ==
        CASE f \in TextFields       -> At(f).bytes
          [] f \in OptionalFields   -> IF IsText(At(f)) THEN <<At(f).bytes>> ELSE <<>>
          [] f = "timestamp"        -> At(f).n
          [] f = "version"          -> At(f).n % VersionLimit
          [] f = "execution_result" -> At(f).text[1]
  IN  IF /\ \A f \in TextFields : IsText(At(f))
         /\ At("timestamp").type = "int" /\ At("version").type = "int"
         /\ At("execution_result") \in {Text(e) : e \in Audit!ExecutionResults}
        THEN [f \in RecordFields |-> Read(f)]
        ELSE Unreadable

ChainFields ==
  {"records", "root_hash", "latest_hash", "created_at", "updated_at", "logical_tick", "version"}

\* AuditChainState::to_value
ChainToValue(chain) ==
  LET Value(f) ==
        CASE f \in {"root_hash", "latest_hash"} -> VText(chain[f])
          [] f \in {"created_at", "updated_at", "version"} -> VInt(chain[f])
          [] f = "logical_tick" -> VInt(AsI64(chain[f]))
          [] f = "records" -> VList([k \in DOMAIN chain[f] |-> RecordToValue(chain[f][k])])
  IN  Fields(ChainFields, Value)

\* AuditChainState::from_value: one unreadable record and nothing is read.
ChainFromValue(v) ==
  LET At(f) == FieldOf(v, <<f>>)
      records == [k \in DOMAIN At("records").items |-> RecordFromValue(At("records").items[k])]
  IN  IF /\ At("records").type = "list" /\ Unreadable \notin Range(records)
         /\ IsText(At("root_hash")) /\ IsText(At("latest_hash"))
         /\ \A f \in {"created_at", "updated_at", "version"} : At(f).type = "int"
        THEN [records |-> records,
              root_hash |-> At("root_hash").bytes, latest_hash |-> At("latest_hash").bytes,
              created_at |-> At("created_at").n, updated_at |-> At("updated_at").n,
              logical_tick |->
                IF At("logical_tick").type = "int" THEN AsU64(At("logical_tick").n) ELSE 0,
              version |-> At("version").n % VersionLimit]
        ELSE Unreadable

-----------------------------------------------------------------------------
(* Hashes of states, and trace_step.                                       *)

Exec == <<"exec">>
AuditChain == <<"__audit_chain">>
Provenance == <<"__parallel_provenance__">>

SystemFields == {Exec, AuditChain, <<"__audit_trace">>, Provenance}

\* business_state_snapshot
BusinessSnapshot(s) == VObj(Restrict(s, DOMAIN s \ SystemFields))

\* compute_dispatch_state_hash
StateHash(s) == ContentHash(<<BusinessSnapshot(s)>>)

\* record_dispatch_hashes; what update_exec_field does to the other fields of
\* __exec__ is in ExecFields.
RecordDispatchHashes(s, before, after) ==
  LET exec == Field(s, Exec)
      hashes == Put(Put(NoFields, <<"before_hash">>, VText(before)), <<"after_hash">>, VText(after))
  IN  Put(s, Exec, VObj(Put(IF exec.type = "obj" THEN exec.fields ELSE NoFields,
                            <<"last_dispatch_hashes">>, VObj(hashes))))

\* The hashes before and after that a record of trace_step tells: those of the
\* last dispatch, empty texts where they cannot be read, or the hash of the
\* state as it is, from which __audit_trace is not left out.
TracedHashes(s) ==
  LET hashes == FieldOf(Field(s, Exec), <<"last_dispatch_hashes">>)
      Read(name) == LET h == FieldOf(hashes, <<name>>) IN IF IsText(h) THEN h.bytes ELSE <<>>
      now == ContentHash(<<VObj(Restrict(s, DOMAIN s \ {Exec, AuditChain, Provenance}))>>)
  IN  IF hashes = None THEN <<now, now>> ELSE <<Read("before_hash"), Read("after_hash")>>

\* A chain that does not parse is begun anew.
ChainIn(s) ==
  LET chain == ChainFromValue(Field(s, AuditChain))
  IN  IF chain = Unreadable THEN Audit!EmptyChain ELSE chain

\* exec_trace_step with a tick of the context; rule and summary are bytes.
TraceStep(s, tick, rule, summary) ==
  LET chain == ChainIn(s)
      hashes == TracedHashes(s)
      r == Audit!NewRecord(chain, rule, AsI64(tick), hashes[1], hashes[2], summary, AuditKey)
  IN  IF FieldOf(Field(s, Exec), <<"audit_on">>) = VBool(FALSE)
        THEN s
        ELSE Put(s, AuditChain, ChainToValue(Audit!AppendRecord(chain, r)))

-----------------------------------------------------------------------------
(* Properties.                                                             *)

\* What a host reads back that has stored a state as JSON.
Restored(s) == FromJson(ToJson(VObj(s))).fields

Storable(v) ==
  \A w \in Inside(v, MaxJsonDepth) : w.type # "bytes" /\ (w.type = "float" => w.bits \notin NonFinite)

\* The end of a round of the loop: dispatch leaves its hashes, and trace_step.
Round(s, before, after, tick) ==
  TraceStep(RecordDispatchHashes(s, before, after), tick, <<1>>, <<2>>)

Verified(chain) == Audit!Sound(chain.records, chain.latest_hash, AuditKey)

(* A host that stores the state as JSON after every step, and starts from  *)
(* it with a new context, whose ticks begin again, goes on with the same   *)
(* chain: it verifies, its records lead from state to state without a gap, *)
(* and the last of them tells the hash of the state that was read back.    *)
(* Bytes and infinities excepted: what JSON cuts off, the hash cuts off.   *)
StoredStateVerifies ==
  \A v \in Probes, tick \in Ticks : Storable(VObj(data)) /\ Storable(v) =>
    LET written == Put(data, <<"a">>, v)
        before  == StateHash(data)
        after   == StateHash(written)
    IN  \A first \in {Round(written, before, after, tick)} :
        \A restored \in {Restored(first)} :
        \A second \in {Round(restored, StateHash(restored), StateHash(restored), 0)} :
          LET chain == ChainIn(Restored(second))
              records == chain.records
          IN  /\ Verified(chain)
              /\ Len(records) = 2
              /\ records[1].state_before_hash = before
              /\ records[1].state_after_hash = records[2].state_before_hash
              /\ records[2].state_after_hash = after

-----------------------------------------------------------------------------
(* Chains that were altered where they are stored.                         *)

\* The first record of a chain, and what two more runs make of it; with and
\* without an error message.
ChainsAbout(hash) ==
  LET Traced(chain, tick, message) ==
        LET r == Audit!NewRecord(chain, <<1, 2>>, tick, hash, hash, <<1>>, AuditKey)
            s == [r EXCEPT !.error_message = message]
        IN  Audit!AppendRecord(chain, [s EXCEPT !.hash = Audit!ComputeHash(s, AuditKey)])
      one == {Traced(Audit!EmptyChain, 0, message) : message \in {<<>>, <<<<>>>>, <<<<1>>>>}}
  IN  one \cup {Traced(Traced(chain, 1, <<>>), 0, <<>>) : chain \in one}

SignedOrder ==
  <<"id", "nonce", "rule_id", "state_before_hash", "state_after_hash", "previous_hash",
    "change_summary", "error_message">>

\* One field of a record set to another value, or left out.
FieldsAltered(fields) ==
  {Put(fields, <<f>>, v) : f \in TextFields \cup OptionalFields \cup {"timestamp", "version"},
                           v \in {VNull, VText(<<>>), VText(<<1>>), VInt(0), VInt(3 + VersionLimit)}}
    \cup {Put(fields, <<"execution_result">>, Text(e)) : e \in Audit!ExecutionResults \cup {"x"}}
    \cup {Restrict(fields, DOMAIN fields \ {key}) : key \in DOMAIN fields}

\* The last byte of a field moved to the front of the next text that is signed.
BytesMoved(fields) ==
  {LET f == fields[<<SignedOrder[k]>>].bytes
       g == fields[<<SignedOrder[k + 1]>>].bytes
   IN  Put(Put(fields, <<SignedOrder[k]>>, VText(Front(f))),
           <<SignedOrder[k + 1]>>, VText(<<Last(f)>> \o g)) :
     k \in {j \in 1 .. Len(SignedOrder) - 1 :
              /\ {<<SignedOrder[j]>>, <<SignedOrder[j + 1]>>} \subseteq DOMAIN fields
              /\ fields[<<SignedOrder[j]>>].bytes # <<>>}}

\* Records left out, repeated or exchanged, or one of them altered.
ItemsAltered(items) ==
  {RemoveAt(items, k) : k \in DOMAIN items}
    \cup {InsertAt(items, k, items[j]) : j, k \in DOMAIN items}
    \cup {[items EXCEPT ![j] = items[k], ![k] = items[j]] : j, k \in DOMAIN items}
    \cup UNION {{[items EXCEPT ![k] = VObj(fields)] :
                   fields \in FieldsAltered(items[k].fields) \cup BytesMoved(items[k].fields)} :
                  k \in DOMAIN items}

(* Whatever is altered in the records of a stored chain, as long as its    *)
(* latest hash is known: the chain does not parse, or verify says so, or   *)
(* what is read is what was written.  This includes bytes moved from one   *)
(* field to the next, None made the empty text, and other versions.  The   *)
(* chains are about the states a host starts with.                         *)
AlteredChainFails ==
  version = 0 => \A chain \in ChainsAbout(StateHash(data)) :
    LET stored == ChainToValue(chain)
    IN  \A items \in ItemsAltered(stored.fields[<<"records">>].items) :
          LET read == ChainFromValue(VObj(Put(stored.fields, <<"records">>, VList(items))))
          IN  read = Unreadable \/ read.records = chain.records \/ ~Verified(read)
=============================================================================
