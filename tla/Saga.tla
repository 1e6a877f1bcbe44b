-------------------------------- MODULE Saga --------------------------------
(***************************************************************************)
(* What the executor promises about the effects of one workflow, with no   *)
(* worker, lease, clock, crash or journal in sight: effects happen in the  *)
(* declared order, each at most once; the workflow either succeeds with    *)
(* all of them or is aborted at one step, and then the effects of the      *)
(* steps before it are undone, last one first, before it may close.        *)
(*                                                                         *)
(* One thing the code cannot rule out: a worker that lost its lease        *)
(* between its check and the provider call may still land the effect of    *)
(* the very step the workflow is aborted at, before the abort (Abort with  *)
(* the effect applied) or after it (LateApply).  Such an effect stays.     *)
(***************************************************************************)
EXTENDS WorkflowDeclaration

VARIABLES
  outcome,    \* "open", "aborted", "succeeded" or "compensated"
  abortedAt,  \* step the workflow was aborted at, 0 for none
  effect      \* "none", "applied" or "undone", by tool step

sagaVars == <<outcome, abortedAt, effect>>

SagaInit ==
  /\ outcome = "open"
  /\ abortedAt = 0
  /\ effect = [i \in ToolSteps |-> "none"]

ToolsBefore(i) == {j \in ToolSteps : j < i}

Set(i, value) == effect' = [effect EXCEPT ![i] = value]

Apply(i) ==
  /\ outcome = "open"
  /\ effect[i] = "none"
  /\ \A j \in ToolsBefore(i) : effect[j] = "applied"
  /\ Set(i, "applied")
  /\ UNCHANGED <<outcome, abortedAt>>

\* The effect of step i itself may already be there: another worker's, which
\* landed after the refusal that this abort records.
Abort(i) ==
  /\ outcome = "open"
  /\ effect[i] \in {"none", "applied"}
  /\ \A j \in ToolSteps : j > i => effect[j] = "none"
  /\ \A j \in ToolsBefore(i) : effect[j] = "applied"
  /\ outcome' = "aborted"
  /\ abortedAt' = i
  /\ UNCHANGED effect

Undo(i) ==
  /\ outcome = "aborted"
  /\ i < abortedAt
  /\ effect[i] = "applied"
  /\ \A j \in ToolsBefore(abortedAt) : j > i => effect[j] = "undone"
  /\ Set(i, "undone")
  /\ UNCHANGED <<outcome, abortedAt>>

LateApply(i) ==
  /\ i = abortedAt
  /\ effect[i] = "none"
  /\ Set(i, "applied")
  /\ UNCHANGED <<outcome, abortedAt>>

Succeed ==
  /\ outcome = "open"
  /\ \A i \in ToolSteps : effect[i] = "applied"
  /\ outcome' = "succeeded"
  /\ UNCHANGED <<abortedAt, effect>>

Close ==
  /\ outcome = "aborted"
  /\ \A j \in ToolsBefore(abortedAt) : effect[j] = "undone"
  /\ outcome' = "compensated"
  /\ UNCHANGED <<abortedAt, effect>>

SagaNext ==
  \/ \E i \in ToolSteps : Apply(i) \/ Abort(i) \/ Undo(i) \/ LateApply(i)
  \/ Succeed
  \/ Close

SagaSpec == SagaInit /\ [][SagaNext]_sagaVars
=============================================================================
