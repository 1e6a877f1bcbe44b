---------------------------- MODULE PlanApproval ----------------------------
(***************************************************************************)
(* The approvals row of one immutable plan and the compare-and-swap        *)
(* transactions of PostgresPlanApprovalAdapter on it.  The plan hash never *)
(* changes once both rows are written, so it always matches.               *)
(***************************************************************************)
EXTENDS Naturals

CONSTANTS
  Original,   \* the plan's approver
  Backup      \* the approver's designated backup

ASSUME ApproversAssumption == Original # Backup

VARIABLES
  status,     \* approvals.status; "absent" before the INSERT
  approver,   \* approvals.approver_id
  expiry,     \* approvals.expires_at, and the plan's
  decider     \* who decided (for the properties: no row keeps it)

approvalVars == <<status, approver, expiry, decider>>

Approvers == {Original, Backup}

Verdicts == {"approved", "rejected"}

ApprovalTypeOK ==
  /\ status \in {"absent", "pending", "rerouted"} \cup Verdicts
  /\ approver \in Approvers
  /\ expiry \in Nat
  /\ decider \in Approvers \cup {"nobody"}

ApprovalInit ==
  /\ status = "absent"
  /\ approver = Original
  /\ expiry = 0
  /\ decider = "nobody"

-----------------------------------------------------------------------------
\* create_pending: the plan and its approval in one transaction.
CreatePending(until) ==
  /\ status = "absent"
  /\ status' = "pending"
  /\ expiry' = until
  /\ UNCHANGED <<approver, decider>>

Undecided == status \in {"pending", "rerouted"}

\* Mutant: the UPDATE does not compare the approver.
CanDecideAnyone(u, at) == Undecided /\ at < expiry

\* DECIDE_ACTIVE_APPROVAL
CanDecide(u, at) == Undecided /\ approver = u /\ at < expiry

Decide(u, verdict, at) ==
  /\ CanDecide(u, at)
  /\ status' = verdict
  /\ decider' = u
  /\ UNCHANGED <<approver, expiry>>

\* REROUTE_PENDING_APPROVAL
CanReroute(at) == status = "pending" /\ approver = Original /\ at < expiry

Reroute(at) ==
  /\ CanReroute(at)
  /\ status' = "rerouted"
  /\ approver' = Backup
  /\ UNCHANGED <<expiry, decider>>
=============================================================================
