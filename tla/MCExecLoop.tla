----------------------------- MODULE MCExecLoop -----------------------------
(* Instances of ExecLoop for TLC: the values of its constants. *)
EXTENDS ExecLoop

\* max_steps absent, 0, 1, 3 and above the cap.
MCSteps == {Absent, 0, 1, 3, 50}
=============================================================================
