-------------------------- MODULE MCExecLoopStream --------------------------
(* Instance of ExecLoopStream for TLC: the values of its constants. *)
EXTENDS ExecLoopStream

\* max_steps absent, 0, 1, 3 and above the cap.
MCSteps == {Absent, 0, 1, 3, 50}
=============================================================================
