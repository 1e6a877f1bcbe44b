------------------------- MODULE MCWorkflowExecutor -------------------------
(* Small instances of WorkflowExecutor for TLC. *)
EXTENDS WorkflowExecutor, TLC

\* Workers are interchangeable in the safety runs.
WorkerSymmetry == Permutations(Workers)
=============================================================================
