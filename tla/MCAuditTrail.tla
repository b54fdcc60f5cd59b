--------------------------- MODULE MCAuditTrail ---------------------------
(* Instances of AuditTrail for TLC: the values of its constants. *)
EXTENDS AuditTrail, TLC

\* The HMAC of a record: different records have different hashes.
MCHashOf(r) == [hmac |-> r]

\* No definition tells one content from another.
MCSymmetry == Permutations(Contents)
=============================================================================
