------------------------- MODULE ApprovalEscalation -------------------------
(***************************************************************************)
(* PlanApprovalService and ApprovalRoutingService for one request, driven  *)
(* by the scheduler: the request and its end-of-day escalation task are    *)
(* written one after the other; approvers decide; a dispatcher claims the  *)
(* task and hands the request to the backup when the original approver is  *)
(* away the next day.  Every service call reads the approval first and     *)
(* changes it by a compare-and-swap later.                                 *)
(*                                                                         *)
(* The dispatcher is external: the repository has the handler and the      *)
(* scheduler's claims, and leaves the loop between them to its deployment. *)
(***************************************************************************)
EXTENDS PlanApproval, Scheduler

CONSTANTS
  Escalation,     \* the id of the request's escalation task
  EndOfDay,       \* five o'clock on the day of the request
  Expiries,       \* expiry times that requests ask for
  MaxTime,        \* bound on the clock
  MaxLag,         \* bound on the age of the time a poll uses
  MaxCrashes      \* bound on dispatcher crashes

ASSUME EscalationAssumption ==
  /\ Escalation \in Tasks
  /\ EndOfDay \in Nat
  /\ Expiries \subseteq Nat
  /\ MaxTime \in Nat
  /\ MaxLag \in Nat
  /\ MaxCrashes \in Nat

VARIABLES
  request,    \* where request_pending is
  deciding,   \* the call each approver is in
  work,       \* what each dispatcher is doing
  drifted,    \* live source versions differ from the plan's
  away,       \* calendar: the original approver is away the next day
  backup,     \* identity: the backup is "none", "unable" or "able"
  now,
  crashes

officeVars == <<drifted, away, backup>>
timeVars == <<now, crashes>>
vars == <<approvalVars, schedulerVars, request, deciding, work, officeVars, timeVars>>

NoCall == [phase |-> "idle", verdict |-> "approved", at |-> 0]

DecideCall == [phase : {"idle", "deciding"}, verdict : Verdicts, at : Nat]

Work == [phase : {"idle", "loading", "consulting", "rerouting", "marking"},
         at : Nat]

Rest == [phase |-> "idle", at |-> 0]

TypeOK ==
  /\ ApprovalTypeOK
  /\ SchedulerTypeOK
  /\ request \in {"new", "persisted", "scheduled", "lost"}
  /\ deciding \in [Approvers -> DecideCall]
  /\ work \in [Dispatchers -> Work]
  /\ drifted \in BOOLEAN
  /\ away \in BOOLEAN
  /\ backup \in {"none", "unable", "able"}
  /\ now \in Nat
  /\ crashes \in Nat

Init ==
  /\ ApprovalInit
  /\ SchedulerInit
  /\ request = "new"
  /\ deciding = [u \in Approvers |-> NoCall]
  /\ work = [d \in Dispatchers |-> Rest]
  /\ drifted = FALSE
  /\ away \in BOOLEAN
  /\ backup \in {"none", "unable", "able"}
  /\ now = 0
  /\ crashes = 0

-----------------------------------------------------------------------------
(* request_pending: two transactions.                                      *)

PersistRequest(until) ==
  /\ request = "new"
  /\ until > now
  /\ CreatePending(until)
  /\ request' = "persisted"
  /\ UNCHANGED <<schedulerVars, deciding, work, officeVars, timeVars>>

ScheduleEscalation ==
  /\ request = "persisted"
  /\ Schedule(Escalation, EndOfDay)
  /\ request' = "scheduled"
  /\ UNCHANGED <<approvalVars, deciding, work, officeVars, timeVars>>

\* The requester stops in between.  Nobody can take the request up again: a
\* new call makes a new plan, and the console's decisions schedule nothing.
LoseRequest ==
  /\ request = "persisted"
  /\ request' = "lost"
  /\ UNCHANGED <<approvalVars, schedulerVars, deciding, work, officeVars, timeVars>>

-----------------------------------------------------------------------------
(* approve and reject.                                                     *)

\* Mutant: the source versions are not compared.
AcceptableStale(u, verdict) == CanDecide(u, now)

\* What approve and reject check of the row they load; approve compares the
\* plan's source versions with those its caller has read.
Acceptable(u, verdict) ==
  /\ CanDecide(u, now)
  /\ verdict = "approved" => ~drifted

CallDecide(u, verdict) ==
  /\ deciding[u].phase = "idle"
  /\ Acceptable(u, verdict)
  /\ deciding' = [deciding EXCEPT ![u] =
                    [phase |-> "deciding", verdict |-> verdict, at |-> now]]
  /\ UNCHANGED <<approvalVars, schedulerVars, request, work, officeVars, timeVars>>

CommitDecision(u) ==
  /\ deciding[u].phase = "deciding"
  /\ \/ Decide(u, deciding[u].verdict, deciding[u].at)
     \/ ~CanDecide(u, deciding[u].at) /\ UNCHANGED approvalVars
  /\ deciding' = [deciding EXCEPT ![u] = NoCall]
  /\ UNCHANGED <<schedulerVars, request, work, officeVars, timeVars>>

-----------------------------------------------------------------------------
(* The dispatcher and ApprovalRoutingService.handle_claimed_task.          *)

Idle(d) == work[d].phase = "idle"

Enter(d, phase) == work' = [work EXCEPT ![d].phase = phase]

Poll(d, batch, at) ==
  /\ Idle(d)
  /\ claims[d][Escalation] = 0
  /\ ClaimDue(d, batch, at)
  /\ UNCHANGED <<approvalVars, request, deciding, work, officeVars, timeVars>>

Handle(d) ==
  /\ Idle(d)
  /\ claims[d][Escalation] > now
  /\ dueAt[Escalation] <= now
  /\ work' = [work EXCEPT ![d] = [phase |-> "loading", at |-> now]]
  /\ UNCHANGED <<approvalVars, schedulerVars, request, deciding, officeVars, timeVars>>

HandleLate(d) ==
  /\ Idle(d)
  /\ claims[d][Escalation] <= now
  /\ DropClaim(d, Escalation)
  /\ UNCHANGED <<approvalVars, request, deciding, work, officeVars, timeVars>>

\* NOT_PENDING and EXPIRED end the call.
LoadApproval(d) ==
  /\ work[d].phase = "loading"
  /\ IF CanReroute(work[d].at) THEN Enter(d, "consulting") ELSE Enter(d, "marking")
  /\ UNCHANGED <<approvalVars, schedulerVars, request, deciding, officeVars, timeVars>>

\* Mutant: the backup's authority and limits are not looked at.
MayRerouteToAny == backup # "none" /\ away

\* What is read of the backup's identity and of the calendar.
MayReroute == backup = "able" /\ away

\* NO_BACKUP, BACKUP_NOT_AUTHORIZED and ORIGINAL_APPROVER_AVAILABLE end the
\* call too.
Consult(d) ==
  /\ work[d].phase = "consulting"
  /\ IF MayReroute THEN Enter(d, "rerouting") ELSE Enter(d, "marking")
  /\ UNCHANGED <<approvalVars, schedulerVars, request, deciding, officeVars, timeVars>>

\* REROUTED or RACE_LOST.
CommitReroute(d) ==
  /\ work[d].phase = "rerouting"
  /\ \/ Reroute(work[d].at)
     \/ ~CanReroute(work[d].at) /\ UNCHANGED approvalVars
  /\ Enter(d, "marking")
  /\ UNCHANGED <<schedulerVars, request, deciding, officeVars, timeVars>>

Mark(d, at) ==
  /\ work[d].phase = "marking"
  /\ at >= work[d].at
  /\ MarkSucceeded(d, Escalation, at)
  /\ work' = [work EXCEPT ![d] = Rest]
  /\ UNCHANGED <<approvalVars, request, deciding, officeVars, timeVars>>

-----------------------------------------------------------------------------
(* The environment.                                                        *)

Drift ==
  /\ ~drifted
  /\ drifted' = TRUE
  /\ UNCHANGED <<approvalVars, schedulerVars, request, deciding, work, away,
                 backup, timeVars>>

Tick ==
  /\ now < MaxTime
  /\ now' = now + 1
  /\ UNCHANGED <<approvalVars, schedulerVars, request, deciding, work,
                 officeVars, crashes>>

Crash(d) ==
  /\ crashes < MaxCrashes
  /\ claims[d][Escalation] # 0
  /\ crashes' = crashes + 1
  /\ ForgetClaims(d)
  /\ work' = [work EXCEPT ![d] = Rest]
  /\ UNCHANGED <<approvalVars, request, deciding, officeVars, now>>

-----------------------------------------------------------------------------
Continue(d) ==
  \/ Handle(d)
  \/ HandleLate(d)
  \/ LoadApproval(d)
  \/ Consult(d)
  \/ CommitReroute(d)

Earlier == {at \in 0..now : now - at <= MaxLag}

Next ==
  \/ \E until \in Expiries : PersistRequest(until)
  \/ ScheduleEscalation
  \/ LoseRequest
  \/ \E u \in Approvers :
       \/ \E verdict \in Verdicts : CallDecide(u, verdict)
       \/ CommitDecision(u)
  \/ \E d \in Dispatchers :
       \/ Continue(d)
       \/ \E batch \in SUBSET Tasks, at \in Earlier : Poll(d, batch, at)
       \/ \E at \in Earlier : Mark(d, at)
       \/ Crash(d)
  \/ Drift
  \/ Tick

Spec == Init /\ [][Next]_vars

\* The clock goes on, a requester that did not stop schedules the task, a
\* dispatcher polls with the time it is, and a handler that was entered goes
\* on.  Nothing is assumed of the approvers.
Fairness ==
  /\ WF_vars(Tick)
  /\ WF_vars(ScheduleEscalation)
  /\ \A d \in Dispatchers :
       /\ WF_vars(Continue(d))
       /\ WF_vars(Mark(d, now))
       /\ SF_vars(\E batch \in SUBSET Tasks : Poll(d, batch, now))

FairSpec == Spec /\ Fairness

-----------------------------------------------------------------------------
(* Safety.                                                                 *)

\* Whatever the race between the original approver, the backup and the
\* dispatchers, the request is one abstract decision.
D == INSTANCE Decision WITH
       verdict <- IF status \in Verdicts THEN status ELSE "open",
       addressee <- approver,
       by <- decider,
       mayDelegate <- away /\ backup = "able"

ImplementsDecision == D!DecisionSpec

\* A request whose sources changed while nobody was deciding is never
\* approved ("A later change ... causes approval or execution to stop").
WaitingAndStale ==
  drifted /\ Undecided /\ \A u \in Approvers : deciding[u].phase = "idle"

StalePlanNeverApproved == [](WaitingAndStale => [](status # "approved"))

-----------------------------------------------------------------------------
(* Liveness.                                                               *)

\* The bounded clock never sees the last lease run out.
OutlivesClock(t) == taskStatus[t] = "claimed" /\ leaseUntil[t] > MaxTime

Answered == status # "pending"

\* A scheduled request is answered or handed over, although dispatchers crash
\* and stall, when the approver is away, the backup may decide and there is
\* time left.
ScheduledEscalates ==
  (taskStatus[Escalation] = "pending" /\ MayReroute /\ expiry > MaxTime)
    ~> (Answered \/ OutlivesClock(Escalation))

-----------------------------------------------------------------------------
(* What the repository says of its escalation and the code does not keep.  *)

\* "At end of day, an unanswered request routes to the designated backup only
\* when the original approver is unavailable the following day."
UnansweredEscalates ==
  (status = "pending" /\ MayReroute /\ expiry > MaxTime)
    ~> (Answered \/ OutlivesClock(Escalation))
=============================================================================
