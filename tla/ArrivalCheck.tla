---------------------------- MODULE ArrivalCheck ----------------------------
(***************************************************************************)
(* TuesdayArrivalCheckService driven by the scheduler.  Each task asks     *)
(* whether the replacement purchase order of one workflow has arrived:     *)
(* a full receipt resolves the attention item the workflow began with,     *)
(* anything less opens a follow-up item, keyed by the order's version.     *)
(*                                                                         *)
(* A dispatcher claims a batch, then for each task calls the handler,      *)
(* which validates its copy, loads the item, reads the order and writes    *)
(* the consequence in separate transactions, and calls mark_succeeded.     *)
(* It is external: the repository has the handler and the scheduler's      *)
(* claims, and leaves the loop between them to its deployment and tests.   *)
(***************************************************************************)
EXTENDS Scheduler

CONSTANTS
  CheckDue,       \* due time of each task (next Tuesday at nine)
  Unreadable,     \* tasks whose order evidence makes the handler raise
  MaxVersion,     \* bound on the source version of an order
  MaxTime,        \* bound on the clock
  MaxLag,         \* bound on the age of the time a call uses
  MaxCrashes      \* bound on dispatcher crashes

ASSUME ArrivalAssumption ==
  /\ Tasks # {}
  /\ CheckDue \in [Tasks -> Nat]
  /\ Unreadable \subseteq Tasks
  /\ MaxVersion \in Nat \ {0}
  /\ MaxTime \in Nat
  /\ MaxLag \in Nat
  /\ MaxCrashes \in Nat

VARIABLES
  attention,  \* status of the original attention item, by task
  order,      \* the task's purchase order: how much is received, its version
  fullAt,     \* version at which the order was first fully received, or 0
  followups,  \* follow-up items by task and order version (a count)
  work,       \* what each dispatcher is doing
  now,        \* the business clock
  crashes     \* dispatchers stopped so far

orderVars == <<order, fullAt>>
itemVars == <<attention, followups>>
timeVars == <<now, crashes>>
vars == <<schedulerVars, itemVars, orderVars, work, timeVars>>

Versions == 1..MaxVersion

AttentionStatus ==
  {"open", "pending_approval", "in_progress", "resolved", "cancelled"}

Closed == {"resolved", "cancelled"}

Received == {"none", "partial", "full"}

Phases ==
  {"idle",       \* outside the handler
   "loading",    \* copy validated, about to load the attention item
   "reading",    \* about to read the purchase order
   "resolving",  \* full receipt seen, about to CAS the item
   "reopening",  \* no full receipt seen, about to insert the follow-up
   "marking"}    \* the handler returned, about to mark_succeeded

\* task is a task only while a handler is under way; version is the order's
\* version the handler has read.
Work == [phase : Phases, task : Tasks, at : Nat, seen : AttentionStatus,
         version : Versions]

Rest == [phase |-> "idle", task |-> CHOOSE t \in Tasks : TRUE, at |-> 0,
         seen |-> "open", version |-> 1]

TypeOK ==
  /\ SchedulerTypeOK
  /\ attention \in [Tasks -> AttentionStatus]
  /\ order \in [Tasks -> [received : Received, version : Versions]]
  /\ fullAt \in [Tasks -> 0..MaxVersion]
  /\ followups \in [Tasks -> [Versions -> Nat]]
  /\ work \in [Dispatchers -> Work]
  /\ now \in Nat
  /\ crashes \in Nat

Init ==
  /\ SchedulerInit
  /\ attention = [t \in Tasks |-> "open"]
  /\ order = [t \in Tasks |-> [received |-> "none", version |-> 1]]
  /\ fullAt = [t \in Tasks |-> 0]
  /\ followups = [t \in Tasks |-> [v \in Versions |-> 0]]
  /\ work = [d \in Dispatchers |-> Rest]
  /\ now = 0
  /\ crashes = 0

-----------------------------------------------------------------------------
Idle(d) == work[d].phase = "idle"

Holds(d) == {t \in Tasks : claims[d][t] # 0}

\* The handler goes on to another phase; it returns or raises.
Enter(d, phase) == work' = [work EXCEPT ![d].phase = phase]

Return(d) == work' = [work EXCEPT ![d] = Rest]

-----------------------------------------------------------------------------
(* The table's other users.                                                *)

\* The schedule_arrival_check effect of a workflow.
ScheduleCheck(t) ==
  /\ Schedule(t, CheckDue[t])
  /\ UNCHANGED <<itemVars, orderVars, work, timeVars>>

\* The workflow is unwound.
CancelCheck(t) ==
  /\ CancelPending(t)
  /\ UNCHANGED <<itemVars, orderVars, work, timeVars>>

-----------------------------------------------------------------------------
(* The dispatcher and TuesdayArrivalCheckService.handle_claimed_task.      *)

Poll(d, batch, at) ==
  /\ Idle(d)
  /\ Holds(d) = {}
  /\ ClaimDue(d, batch, at)
  /\ UNCHANGED <<itemVars, orderVars, work, timeVars>>

\* handle_claimed_task accepts a copy whose lease has not run out.
Handle(d, t) ==
  /\ Idle(d)
  /\ claims[d][t] > now
  /\ dueAt[t] <= now
  /\ work' = [work EXCEPT ![d] = [Rest EXCEPT !.phase = "loading",
                                              !.task = t, !.at = now]]
  /\ UNCHANGED <<schedulerVars, itemVars, orderVars, timeVars>>

\* It raises on a copy whose lease has run out.
HandleLate(d, t) ==
  /\ Idle(d)
  /\ claims[d][t] <= now
  /\ DropClaim(d, t)
  /\ UNCHANGED <<itemVars, orderVars, work, timeVars>>

LoadAttention(d) ==
  /\ work[d].phase = "loading"
  /\ LET seen == attention[work[d].task] IN
     \/ seen \in Closed /\ Enter(d, "marking")
     \/ seen \notin Closed
        /\ work' = [work EXCEPT ![d].phase = "reading", ![d].seen = seen]
  /\ UNCHANGED <<schedulerVars, itemVars, orderVars, timeVars>>

\* Mutant: any receipt counts as arrival.
ReadOrderGenerously(d) ==
  /\ work[d].phase = "reading"
  /\ LET t == work[d].task IN
     /\ \/ order[t].received # "none" /\ Enter(d, "resolving")
        \/ /\ order[t].received = "none"
           /\ work' = [work EXCEPT ![d].phase = "reopening",
                                   ![d].version = order[t].version]
     /\ UNCHANGED schedulerVars
  /\ UNCHANGED <<itemVars, orderVars, timeVars>>

\* Evidence that is missing or malformed makes the handler raise.
ReadOrder(d) ==
  /\ work[d].phase = "reading"
  /\ LET t == work[d].task IN
     \/ /\ t \in Unreadable
        /\ DropClaim(d, t)
        /\ Return(d)
     \/ /\ t \notin Unreadable
        /\ order[t].received = "full"
        /\ Enter(d, "resolving")
        /\ UNCHANGED schedulerVars
     \/ /\ t \notin Unreadable
        /\ order[t].received # "full"
        /\ work' = [work EXCEPT ![d].phase = "reopening",
                                ![d].version = order[t].version]
        /\ UNCHANGED schedulerVars
  /\ UNCHANGED <<itemVars, orderVars, timeVars>>

\* Mutant: a lost compare-and-swap is taken for a resolution.
ResolveRegardless(d) ==
  /\ work[d].phase = "resolving"
  /\ LET t == work[d].task IN
     IF attention[t] = work[d].seen
       THEN attention' = [attention EXCEPT ![t] = "resolved"]
       ELSE UNCHANGED attention
  /\ Enter(d, "marking")
  /\ UNCHANGED <<schedulerVars, followups, orderVars, timeVars>>

\* transition to RESOLVED: a compare-and-swap on the status that was loaded;
\* it raises when somebody else moved the item.
Resolve(d) ==
  /\ work[d].phase = "resolving"
  /\ LET t == work[d].task IN
     \/ /\ attention[t] = work[d].seen
        /\ attention' = [attention EXCEPT ![t] = "resolved"]
        /\ Enter(d, "marking")
        /\ UNCHANGED schedulerVars
     \/ /\ attention[t] # work[d].seen
        /\ DropClaim(d, t)
        /\ Return(d)
        /\ UNCHANGED attention
  /\ UNCHANGED <<followups, orderVars, timeVars>>

\* Mutant: no ON CONFLICT clause on the dedupe key.
ReopenAgain(d) ==
  /\ work[d].phase = "reopening"
  /\ followups' = [followups EXCEPT ![work[d].task][work[d].version] = @ + 1]
  /\ Enter(d, "marking")
  /\ UNCHANGED <<schedulerVars, attention, orderVars, timeVars>>

\* register_arrival_followup: one item per item, order and version.
Reopen(d) ==
  /\ work[d].phase = "reopening"
  /\ LET t == work[d].task
         v == work[d].version
     IN \/ followups[t][v] = 0 /\ followups' = [followups EXCEPT ![t][v] = 1]
        \/ followups[t][v] # 0 /\ UNCHANGED followups
  /\ Enter(d, "marking")
  /\ UNCHANGED <<schedulerVars, attention, orderVars, timeVars>>

\* The completion time was read at some moment since the handler was called.
Mark(d, at) ==
  /\ work[d].phase = "marking"
  /\ at >= work[d].at
  /\ MarkSucceeded(d, work[d].task, at)
  /\ Return(d)
  /\ UNCHANGED <<itemVars, orderVars, timeVars>>

-----------------------------------------------------------------------------
(* The environment.                                                        *)

\* Goods arrive; every change of an order raises its source version.
Receive(t) ==
  /\ t \notin Unreadable
  /\ order[t].version < MaxVersion
  /\ \E more \in Received :
       /\ <<order[t].received, more>> \in
            {<<"none", "partial">>, <<"none", "full">>, <<"partial", "full">>}
       /\ order' = [order EXCEPT ![t] = [received |-> more, version |-> @.version + 1]]
       /\ fullAt' = IF more = "full"
                      THEN [fullAt EXCEPT ![t] = order[t].version + 1] ELSE fullAt
  /\ UNCHANGED <<schedulerVars, itemVars, work, timeVars>>

\* Somebody else moves the item along its lifecycle, which nobody else
\* completes.  (The items and orders of unreadable tasks are left alone: their
\* handlers never get past them.)
MoveAttention(t) ==
  /\ t \notin Unreadable
  /\ \E next \in AttentionStatus :
       /\ <<attention[t], next>> \in
            {<<"open", "pending_approval">>, <<"pending_approval", "in_progress">>,
             <<"open", "cancelled">>, <<"pending_approval", "cancelled">>,
             <<"in_progress", "cancelled">>}
       /\ attention' = [attention EXCEPT ![t] = next]
  /\ UNCHANGED <<schedulerVars, followups, orderVars, work, timeVars>>

Tick ==
  /\ now < MaxTime
  /\ now' = now + 1
  /\ UNCHANGED <<schedulerVars, itemVars, orderVars, work, crashes>>

\* A dispatcher's process stops.
Crash(d) ==
  /\ crashes < MaxCrashes
  /\ Holds(d) # {}
  /\ crashes' = crashes + 1
  /\ ForgetClaims(d)
  /\ Return(d)
  /\ UNCHANGED <<itemVars, orderVars, now>>

-----------------------------------------------------------------------------
Continue(d) ==
  \/ \E t \in Tasks : Handle(d, t) \/ HandleLate(d, t)
  \/ LoadAttention(d)
  \/ ReadOrder(d)
  \/ Resolve(d)
  \/ Reopen(d)

\* A call may use a time that was read some time before it.
Earlier == {at \in 0..now : now - at <= MaxLag}

Next ==
  \/ \E d \in Dispatchers :
       \/ Continue(d)
       \/ \E batch \in SUBSET Tasks, at \in Earlier : Poll(d, batch, at)
       \/ \E at \in Earlier : Mark(d, at)
       \/ Crash(d)
  \/ \E t \in Tasks :
       ScheduleCheck(t) \/ CancelCheck(t) \/ Receive(t) \/ MoveAttention(t)
  \/ Tick

Spec == Init /\ [][Next]_vars

\* The clock goes on, a dispatcher polls with the time it is, and a handler
\* that was entered goes on.
Fairness ==
  /\ WF_vars(Tick)
  /\ \A d \in Dispatchers :
       /\ WF_vars(Continue(d))
       /\ WF_vars(Mark(d, now))
       /\ SF_vars(\E batch \in SUBSET Tasks : Poll(d, batch, now))

FairSpec == Spec /\ Fairness

-----------------------------------------------------------------------------
(* Safety.                                                                 *)

\* A task is leased to one dispatcher at a time: no two hold copies of it
\* whose leases are both still running.
LeasedOnce ==
  \A t \in Tasks, d, e \in Dispatchers :
    claims[d][t] > now /\ claims[e][t] > now => d = e

\* Follow-ups are opened for what the order's records say: at most one for a
\* version, and for no version from the one that shows the full receipt on,
\* however stale the handler that opens it (arrival_check.py: "without
\* inferring a receipt from an expected delivery date").
FollowupsWarranted ==
  \A t \in Tasks, v \in Versions :
    /\ followups[t][v] <= 1
    /\ followups[t][v] = 1 /\ fullAt[t] # 0 => v < fullAt[t]

\* Only a full receipt resolves the item a workflow began with.
ResolvedMeansReceived ==
  \A t \in Tasks : attention[t] = "resolved" => order[t].received = "full"

\* No task is closed without its consequence, although completion names no
\* owner: the item is closed or a follow-up is open.
ClosedHadConsequence ==
  \A t \in Tasks :
    taskStatus[t] = "succeeded" =>
      attention[t] \in Closed \/ \E v \in Versions : followups[t][v] > 0

\* A check that the unwinding cancelled was never begun and never will be.
CancelledIsQuiet ==
  \A t \in Tasks :
    taskStatus[t] = "cancelled" =>
      /\ attention[t] # "resolved"
      /\ \A v \in Versions : followups[t][v] = 0
      /\ \A d \in Dispatchers : claims[d][t] = 0

-----------------------------------------------------------------------------
(* Liveness.                                                               *)

\* A scheduled check is done or cancelled in the end, although dispatchers
\* crash and stall and a task that can never be handled is claimed for ever,
\* unless it is left under a lease that the bounded clock never sees run out.
OutlivesClock(t) == taskStatus[t] = "claimed" /\ leaseUntil[t] > MaxTime

ChecksEnd ==
  \A t \in Tasks \ Unreadable :
    taskStatus[t] = "pending"
      ~> taskStatus[t] \in {"succeeded", "cancelled"} \/ OutlivesClock(t)
=============================================================================
