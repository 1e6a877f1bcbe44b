---------------------------- MODULE WorkflowStore ----------------------------
(***************************************************************************)
(* The durable rows of one workflow instance and the compare-and-swap      *)
(* transactions of PostgresWorkflowStateAdapter.  Every operator here is   *)
(* one database transaction.  Each transaction names a guard (the WHERE    *)
(* clause) and an effect (the SET clauses), so that the executor can tell  *)
(* an UPDATE that matched its row from one that returned no row.           *)
(*                                                                         *)
(* Timestamps are compared as the adapter compares them: with the time the *)
(* CALLER supplied, not with the clock of the database.                    *)
(***************************************************************************)
EXTENDS WorkflowDeclaration

CONSTANTS
  Workers,      \* identities a workflow lease may name
  NoWorker      \* the SQL NULL of lease_owner

ASSUME WorkersAssumption == NoWorker \notin Workers

VARIABLES
  status,   \* workflow_instances.status
  cursor,   \* workflow_instances.current_step: steps already completed
  owner,    \* workflow_instances.lease_owner
  expires,  \* workflow_instances.lease_expires_at (0 when the lease is NULL)
  steps     \* workflow_steps.status by step_index

storeVars == <<status, cursor, owner, expires, steps>>

WorkflowStatus ==
  {"pending", "running", "succeeded", "failed", "compensating", "compensated"}

StepStatus ==
  {"pending", "running", "succeeded", "failed", "compensating", "compensated"}

StoreTypeOK ==
  /\ status \in WorkflowStatus
  /\ cursor \in 0..NumSteps
  /\ owner \in Workers \cup {NoWorker}
  /\ expires \in Nat
  /\ steps \in [Steps -> StepStatus]

\* stage / stage_bounded_tool_plan: every step pending, no lease.
StoreInit ==
  /\ status = "pending"
  /\ cursor = 0
  /\ owner = NoWorker
  /\ expires = 0
  /\ steps = [i \in Steps |-> "pending"]

-----------------------------------------------------------------------------
(* Predicates of the WHERE clauses.                                        *)

LeaseLive(w, at) == owner = w /\ expires > at

RunningUnder(w, i, at) ==
  /\ status = "running"
  /\ LeaseLive(w, at)
  /\ cursor = i - 1

CompletedTools == {i \in ToolSteps : steps[i] = "succeeded"}

ReleaseLease == owner' = NoWorker /\ expires' = 0

KeepLease == UNCHANGED <<owner, expires>>

-----------------------------------------------------------------------------
(* CLAIM_WORKFLOW                                                          *)

\* Mutant: a FAILED or COMPENSATING workflow can be claimed again.
ClaimUnfinished(w, at) ==
  \/ status = "pending"
  \/ /\ status \in {"running", "failed", "compensating"}
     /\ LeaseLive(w, at) \/ (owner # NoWorker /\ expires <= at)

\* Mutant: a free workflow can be claimed whatever its status.
ClaimFree(w, at) ==
  \/ owner = NoWorker
  \/ status = "running" /\ (LeaseLive(w, at) \/ expires <= at)

\* Mutant: a running workflow can be claimed under a live lease of another.
ClaimAnyLease(w, at) == status \in {"pending", "running"}

\* Mutant: an expired lease cannot be taken over.
ClaimOwnLease(w, at) ==
  \/ status = "pending"
  \/ status = "running" /\ LeaseLive(w, at)

CanClaim(w, at) ==
  \/ status = "pending"
  \/ /\ status = "running"
     /\ \/ LeaseLive(w, at)
        \/ owner # NoWorker /\ expires <= at

Claim(w, at, until) ==
  /\ CanClaim(w, at)
  /\ status' = "running"
  /\ owner' = w
  /\ expires' = until
  /\ UNCHANGED <<cursor, steps>>

(* COMPLETE_GUARD_STEP and ADVANCE_WORKFLOW_AFTER_GUARD                    *)

CanCompleteGuard(w, i, at) ==
  /\ RunningUnder(w, i, at)
  /\ i \notin ToolSteps
  /\ steps[i] = "pending"

CompleteGuard(w, i, at) ==
  /\ CanCompleteGuard(w, i, at)
  /\ steps' = [steps EXCEPT ![i] = "succeeded"]
  /\ cursor' = i
  /\ UNCHANGED <<status, owner, expires>>

(* START_TOOL_STEP                                                         *)

CanStartTool(w, i, at) ==
  /\ RunningUnder(w, i, at)
  /\ i \in ToolSteps
  /\ steps[i] = "pending"

StartTool(w, i, at) ==
  /\ CanStartTool(w, i, at)
  /\ steps' = [steps EXCEPT ![i] = "running"]
  /\ UNCHANGED <<status, cursor, owner, expires>>

(* COMPLETE_TOOL_STEP and ADVANCE_WORKFLOW_AFTER_TOOL.  The key comparison *)
(* step.idempotency_key = :idempotency_key always holds here: the key is a *)
(* function of the workflow, the step and the step's stored input.         *)

CanFinishTool(w, i, at) ==
  /\ RunningUnder(w, i, at)
  /\ i \in ToolSteps
  /\ steps[i] = "running"

\* Mutant: the finishing UPDATE advances the one-based cursor past the end.
CompleteToolSkipping(w, i, at) ==
  /\ CanFinishTool(w, i, at)
  /\ steps' = [steps EXCEPT ![i] = "succeeded"]
  /\ \/ i < NumSteps /\ cursor' = i /\ UNCHANGED status /\ KeepLease
     \/ i = NumSteps /\ cursor' = i + 1 /\ status' = "succeeded" /\ ReleaseLease

CompleteTool(w, i, at) ==
  /\ CanFinishTool(w, i, at)
  /\ steps' = [steps EXCEPT ![i] = "succeeded"]
  /\ cursor' = i
  /\ \/ i < NumSteps /\ UNCHANGED status /\ KeepLease
     \/ i = NumSteps /\ status' = "succeeded" /\ ReleaseLease

(* FAIL_TOOL_STEP and FAIL_WORKFLOW_AFTER_TOOL: the lease is kept, it is   *)
(* what authorizes the unwinding.                                          *)

FailTool(w, i, at) ==
  /\ CanFinishTool(w, i, at)
  /\ steps' = [steps EXCEPT ![i] = "failed"]
  /\ status' = "failed"
  /\ UNCHANGED <<cursor, owner, expires>>

(* BEGIN_COMPENSATION: closes at once when no tool step succeeded.         *)

\* Mutant: the unwinding can be entered again, by anyone.
ReenterCompensation(w, at) ==
  status \in {"failed", "compensating"} /\ expires > at

CanBeginCompensation(w, at) == status = "failed" /\ LeaseLive(w, at)

\* Mutant: nothing to unwind is not closed at once.
BeginCompensationOpen(w, at) ==
  /\ CanBeginCompensation(w, at)
  /\ status' = "compensating"
  /\ UNCHANGED <<cursor, owner, expires, steps>>

BeginCompensation(w, at) ==
  /\ CanBeginCompensation(w, at)
  /\ \/ CompletedTools # {} /\ status' = "compensating" /\ KeepLease
     \/ CompletedTools = {} /\ status' = "compensated" /\ ReleaseLease
  /\ UNCHANGED <<cursor, steps>>

(* START_COMPENSATION_STEP                                                 *)

CanStartCompensation(w, i, at) ==
  /\ status = "compensating"
  /\ LeaseLive(w, at)
  /\ i \in CompletedTools

StartCompensation(w, i, at) ==
  /\ CanStartCompensation(w, i, at)
  /\ steps' = [steps EXCEPT ![i] = "compensating"]
  /\ UNCHANGED <<status, cursor, owner, expires>>

(* COMPLETE_COMPENSATION_STEP and, when finish, FINISH_COMPENSATION.  A    *)
(* finish that still finds a succeeded tool step raises and rolls the      *)
(* whole transaction back.                                                 *)

CanCompleteCompensation(w, i, finish, at) ==
  /\ status = "compensating"
  /\ LeaseLive(w, at)
  /\ i \in ToolSteps
  /\ steps[i] = "compensating"
  /\ finish => CompletedTools = {}

CompleteCompensation(w, i, finish, at) ==
  /\ CanCompleteCompensation(w, i, finish, at)
  /\ steps' = [steps EXCEPT ![i] = "compensated"]
  /\ \/ finish /\ status' = "compensated" /\ ReleaseLease
     \/ ~finish /\ UNCHANGED status /\ KeepLease
  /\ UNCHANGED cursor
=============================================================================
