----------------------------- MODULE Scheduler -----------------------------
(***************************************************************************)
(* The scheduled_tasks table and the transactions of                       *)
(* PostgresSchedulerAdapter on it, with the one transaction of the tool    *)
(* adapter that reaches the table from outside (CANCEL_ARRIVAL_CHECK), and *)
(* the dispatchers that poll it.                                           *)
(*                                                                         *)
(* A claim is not a row: the dispatcher keeps the copy of the task that    *)
(* claim_due returned, with the lease it was given.  Nothing in the table  *)
(* names the dispatcher.  All times are those the callers supply.          *)
(***************************************************************************)
EXTENDS Naturals, FiniteSets

CONSTANTS
  Tasks,          \* task ids
  Dispatchers,    \* processes that poll the table
  TaskLease,      \* lease_duration
  ClaimLimit      \* limit that callers pass to claim_due

ASSUME SchedulerAssumption ==
  /\ IsFiniteSet(Tasks)
  /\ TaskLease \in Nat \ {0}
  /\ ClaimLimit \in Nat \ {0}

VARIABLES
  taskStatus,     \* scheduled_tasks.status; "absent" before the INSERT
  dueAt,          \* scheduled_tasks.due_at
  leaseUntil,     \* scheduled_tasks.lease_expires_at (0 when NULL)
  claims          \* by dispatcher and task: lease of the copy it holds, or 0

tableVars == <<taskStatus, dueAt, leaseUntil>>
schedulerVars == <<tableVars, claims>>

TaskStatus == {"absent", "pending", "claimed", "succeeded", "cancelled"}

SchedulerTypeOK ==
  /\ taskStatus \in [Tasks -> TaskStatus]
  /\ dueAt \in [Tasks -> Nat]
  /\ leaseUntil \in [Tasks -> Nat]
  /\ claims \in [Dispatchers -> [Tasks -> Nat]]

SchedulerInit ==
  /\ taskStatus = [t \in Tasks |-> "absent"]
  /\ dueAt = [t \in Tasks |-> 0]
  /\ leaseUntil = [t \in Tasks |-> 0]
  /\ claims = [d \in Dispatchers |-> [t \in Tasks |-> 0]]

-----------------------------------------------------------------------------
\* schedule, and the INSERT of the arrival-check tool.  A replay of the same
\* key and input changes nothing, so it is no step.
Schedule(t, due) ==
  /\ taskStatus[t] = "absent"
  /\ taskStatus' = [taskStatus EXCEPT ![t] = "pending"]
  /\ dueAt' = [dueAt EXCEPT ![t] = due]
  /\ UNCHANGED <<leaseUntil, claims>>

\* Mutant: a claimed task is claimed again without waiting for its lease.
DueAnyLease(t, at) ==
  \/ taskStatus[t] = "pending" /\ dueAt[t] <= at
  \/ taskStatus[t] = "claimed"

\* Mutant: only tasks nobody has claimed before are due.
DueNeverClaimed(t, at) == taskStatus[t] = "pending" /\ dueAt[t] <= at

Due(t, at) ==
  \/ taskStatus[t] = "pending" /\ dueAt[t] <= at
  \/ taskStatus[t] = "claimed" /\ leaseUntil[t] <= at

\* The first ClaimLimit due tasks by due time; ids break ties, in an order
\* that means nothing, so any is allowed.
FirstDue(batch, at) ==
  LET due == {t \in Tasks : Due(t, at)} IN
  /\ batch \subseteq due
  /\ \A s \in batch, t \in due \ batch : dueAt[s] <= dueAt[t]
  /\ batch # due => Cardinality(batch) = ClaimLimit
  /\ Cardinality(batch) <= ClaimLimit

\* Mutant: the lease is counted backwards.
LeaseBehind(at) == at - TaskLease

LeaseFrom(at) == at + TaskLease

\* claim_due.  SKIP LOCKED passes over the rows of a concurrent transaction,
\* which this claim then follows: a claim, a completion or a cancellation.
ClaimDue(d, batch, at) ==
  /\ FirstDue(batch, at)
  /\ batch # {}
  /\ taskStatus' = [t \in Tasks |->
                      IF t \in batch THEN "claimed" ELSE taskStatus[t]]
  /\ leaseUntil' = [t \in Tasks |->
                      IF t \in batch THEN LeaseFrom(at) ELSE leaseUntil[t]]
  /\ claims' = [claims EXCEPT ![d] =
                  [t \in Tasks |-> IF t \in batch THEN LeaseFrom(at) ELSE @[t]]]
  /\ UNCHANGED dueAt

CanSucceed(t, at) == taskStatus[t] = "claimed" /\ leaseUntil[t] > at

\* mark_succeeded, by a dispatcher that is done with its copy.
MarkSucceeded(d, t, at) ==
  /\ claims[d][t] # 0
  /\ \/ /\ CanSucceed(t, at)
        /\ taskStatus' = [taskStatus EXCEPT ![t] = "succeeded"]
        /\ leaseUntil' = [leaseUntil EXCEPT ![t] = 0]
     \/ /\ ~CanSucceed(t, at)
        /\ UNCHANGED <<taskStatus, leaseUntil>>
  /\ claims' = [claims EXCEPT ![d][t] = 0]
  /\ UNCHANGED dueAt

\* A handler raised: the dispatcher has done with its copy, the row stays.
DropClaim(d, t) ==
  /\ claims[d][t] # 0
  /\ claims' = [claims EXCEPT ![d][t] = 0]
  /\ UNCHANGED tableVars

\* Mutant: a task that was claimed can still be cancelled.
CancelUnfinished(t) ==
  /\ taskStatus[t] \in {"pending", "claimed"}
  /\ taskStatus' = [taskStatus EXCEPT ![t] = "cancelled"]
  /\ UNCHANGED <<dueAt, leaseUntil, claims>>

\* CANCEL_ARRIVAL_CHECK, the reverse effect of scheduling an arrival check.
\* It is refused once the task was claimed.
CancelPending(t) ==
  /\ taskStatus[t] = "pending"
  /\ taskStatus' = [taskStatus EXCEPT ![t] = "cancelled"]
  /\ UNCHANGED <<dueAt, leaseUntil, claims>>

\* A dispatcher's process stops; its copies are gone, the rows stay claimed.
ForgetClaims(d) ==
  /\ claims' = [claims EXCEPT ![d] = [t \in Tasks |-> 0]]
  /\ UNCHANGED tableVars
=============================================================================
