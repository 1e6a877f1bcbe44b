---------------------------- MODULE SchedulerProofs ----------------------------
(***************************************************************************)
(* What the scheduler's transactions leave behind, for the proofs about    *)
(* the components that share its table.                                    *)
(***************************************************************************)
EXTENDS Scheduler, TLAPS

USE SchedulerAssumption

LEMMA DropType ==
  ASSUME SchedulerTypeOK, NEW d \in Dispatchers, NEW t \in Tasks, DropClaim(d, t)
  PROVE  SchedulerTypeOK'
BY DEF SchedulerTypeOK, DropClaim, tableVars

LEMMA ClaimDueType ==
  ASSUME SchedulerTypeOK, NEW d \in Dispatchers, NEW batch \in SUBSET Tasks,
         NEW at \in Nat, ClaimDue(d, batch, at)
  PROVE  SchedulerTypeOK'
<1>1. LeaseFrom(at) \in Nat
  BY DEF LeaseFrom
<1>2. taskStatus' \in [Tasks -> TaskStatus]
  BY DEF ClaimDue, SchedulerTypeOK, TaskStatus
<1>3. leaseUntil' \in [Tasks -> Nat]
  <2>1. leaseUntil' = [t \in Tasks |->
                        IF t \in batch THEN LeaseFrom(at) ELSE leaseUntil[t]]
    BY DEF ClaimDue
  <2> QED
    BY <1>1, <2>1 DEF SchedulerTypeOK
<1>4. claims' \in [Dispatchers -> [Tasks -> Nat]]
  <2>1. [t \in Tasks |-> IF t \in batch THEN LeaseFrom(at) ELSE claims[d][t]]
          \in [Tasks -> Nat]
    BY <1>1 DEF SchedulerTypeOK
  <2> QED
    BY <2>1 DEF ClaimDue, SchedulerTypeOK
<1> QED
  BY <1>2, <1>3, <1>4 DEF ClaimDue, SchedulerTypeOK

LEMMA MarkSucceededType ==
  ASSUME SchedulerTypeOK, NEW d \in Dispatchers, NEW t \in Tasks, NEW at,
         MarkSucceeded(d, t, at)
  PROVE  SchedulerTypeOK'
<1>1. /\ taskStatus' = [taskStatus EXCEPT ![t] = "succeeded"]
         /\ leaseUntil' = [leaseUntil EXCEPT ![t] = 0]
      => /\ taskStatus' \in [Tasks -> TaskStatus]
         /\ leaseUntil' \in [Tasks -> Nat]
  BY DEF SchedulerTypeOK, TaskStatus
<1>2. claims' \in [Dispatchers -> [Tasks -> Nat]]
  BY DEF MarkSucceeded, SchedulerTypeOK
<1> QED
  BY <1>1, <1>2 DEF MarkSucceeded, SchedulerTypeOK

LEMMA ScheduleType ==
  ASSUME SchedulerTypeOK, NEW t \in Tasks, NEW due \in Nat,
         Schedule(t, due) \/ CancelPending(t)
  PROVE  SchedulerTypeOK'
<1>1. taskStatus' \in [Tasks -> TaskStatus]
  BY DEF Schedule, CancelPending, SchedulerTypeOK, TaskStatus
<1>2. dueAt' \in [Tasks -> Nat]
  BY DEF Schedule, CancelPending, SchedulerTypeOK
<1> QED
  BY <1>1, <1>2 DEF Schedule, CancelPending, SchedulerTypeOK

LEMMA ForgetType ==
  ASSUME SchedulerTypeOK, NEW d \in Dispatchers, ForgetClaims(d)
  PROVE  SchedulerTypeOK'
BY DEF SchedulerTypeOK, ForgetClaims, tableVars
=============================================================================
