------------------------ MODULE MCApprovalEscalation ------------------------
(* Small instances of ApprovalEscalation for TLC. *)
EXTENDS ApprovalEscalation

\* A request may expire while the clock runs, after the task is due, or not
\* as far as the clock can see.
WithinAndBeyond == {EndOfDay + 1, MaxTime + 1}
=============================================================================
