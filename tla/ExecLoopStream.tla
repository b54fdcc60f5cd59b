--------------------------- MODULE ExecLoopStream ---------------------------
(***************************************************************************)
(* ExecLoop as an implementation of InstructionStream.                     *)
(*                                                                         *)
(* The current instruction is the head of the work list until its body has *)
(* run; the numbered instructions of the queue follow in queue order.      *)
(* The implementation holds for rule programs that never append behind an  *)
(* advance_instruction (DisciplinedSpec): NoSafeLoss says why those, and   *)
(* NothingLost is what fails for the others.                               *)
(***************************************************************************)
EXTENDS ExecLoop

\* The numbers in q, by position.  In a disciplined program the numbered
\* instructions stand before every advance, so these are all of them.
Numbers(q) ==
  LET n == Cardinality({j \in DOMAIN q : q[j].id # 0})
  IN  [k \in 1 .. n |-> q[k].id]

\* The part of the work list that is in __exec__.instruction.
Current ==
  IF instruction.id = 0 \/ instruction.id \in executed
    THEN <<>>
    ELSE <<instruction.id>>

Todo == Current \o Numbers(queue)

Outcome ==
  IF phase = "failed" \/ truncated THEN "aborted"
  ELSE IF halted THEN "stopped"
  ELSE IF ~running THEN "complete"
  ELSE IF phase = "done" THEN "aborted"
  ELSE "open"

Stream == INSTANCE InstructionStream
            WITH todo <- Todo, ran <- executed, count <- issued, outcome <- Outcome

\* Rule programs that append only while the queue holds no advance.
DisciplinedSpec == Init /\ [][Next /\ behind' = behind]_vars /\ WF_vars(LoopStep)

\* The inductive invariant the step mapping needs, beside LoopInv.
StreamInv ==
  /\ LoopInv
  /\ behind = {} /\ refused = {}
  /\ issued <= MaxIssued
  /\ truncated => phase = "done"
  /\ halted => ~running

(* The loop runs a disciplined program as an ordered work list: each       *)
(* instruction exactly once, in depth-first order for branches and first   *)
(* in first out for pushes, and it completes only with the list empty.     *)
ImplementsStream == Stream!Spec
=============================================================================
