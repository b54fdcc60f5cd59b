------------------------- MODULE InstructionStream -------------------------
(***************************************************************************)
(* What the self-driving loop promises a rule author: a work list.  Its    *)
(* head runs exactly once; the instructions it produces take their place   *)
(* either before everything that waits (the branch of evaluate_domain) or  *)
(* after it (push_instruction); the list is left unfinished only by an     *)
(* instruction that clears __running, or by giving up (an error, or the    *)
(* limit of rounds).  There is no advance_instruction here, no drain and   *)
(* no current instruction: they are how ExecLoop implements the list.      *)
(***************************************************************************)
EXTENDS Naturals, Sequences

CONSTANTS MaxIssued, MaxBatch

VARIABLES
  todo,    \* numbers of the instructions that wait, in the order they run
  ran,     \* numbers of the instructions that ran
  count,   \* how many instructions have been numbered
  outcome  \* "open", "complete", "stopped" or "aborted"

streamVars == <<todo, ran, count, outcome>>

Init ==
  /\ todo = <<1>>
  /\ ran = {}
  /\ count = 1
  /\ outcome = "open"

\* The head runs and produces n instructions, placed in front or at the back.
Run(n) ==
  LET new == [k \in 1 .. n |-> count + k]
  IN  /\ outcome = "open"
      /\ todo # <<>>
      /\ count + n <= MaxIssued
      /\ \/ todo' = new \o Tail(todo)
         \/ todo' = Tail(todo) \o new
      /\ ran' = ran \cup {Head(todo)}
      /\ count' = count + n
      /\ outcome' = "open"

\* The head runs and clears __running.
RunAndStop ==
  /\ outcome = "open"
  /\ todo # <<>>
  /\ todo' = Tail(todo)
  /\ ran' = ran \cup {Head(todo)}
  /\ outcome' = "stopped"
  /\ UNCHANGED count

\* Termination: only an empty list completes.
Complete ==
  /\ outcome = "open"
  /\ todo = <<>>
  /\ outcome' = "complete"
  /\ UNCHANGED <<todo, ran, count>>

\* An error discards the run, even one whose list was already finished; the
\* limit of rounds only ends an open one, which is also this action.
GiveUp ==
  /\ outcome # "aborted"
  /\ outcome' = "aborted"
  /\ UNCHANGED <<todo, ran, count>>

Next == (\E n \in 0 .. MaxBatch : Run(n)) \/ RunAndStop \/ Complete \/ GiveUp

Spec == Init /\ [][Next]_streamVars
=============================================================================
