-------------------------- MODULE ArrivalCheckProofs --------------------------
(***************************************************************************)
(* Theorems about ArrivalCheck, for every set of tasks and dispatchers,    *)
(* every lease length, batch size and lag, and any number of crashes,      *)
(* receipts and order versions.                                            *)
(***************************************************************************)
EXTENDS ArrivalCheck, SchedulerProofs

USE SchedulerAssumption, ArrivalAssumption

-----------------------------------------------------------------------------
(* Type correctness.                                                       *)

LEMMA RestType == Rest \in Work /\ Rest.phase = "idle"
<1>1. (CHOOSE t \in Tasks : TRUE) \in Tasks
  OBVIOUS
<1> QED
  BY <1>1 DEF Rest, Work, Phases, AttentionStatus, Versions

LEMMA InitType == Init => TypeOK
BY RestType DEF Init, SchedulerInit, TypeOK, SchedulerTypeOK, TaskStatus,
   AttentionStatus, Received, Versions

\* A time that a call may use.
LEMMA EarlierTime ==
  ASSUME now \in Nat, NEW at \in Earlier
  PROVE  at \in Nat /\ at <= now
BY DEF Earlier

LEMMA EnterType ==
  ASSUME work \in [Dispatchers -> Work], NEW d \in Dispatchers,
         NEW phase \in Phases, Enter(d, phase)
  PROVE  work' \in [Dispatchers -> Work]
BY DEF Enter, Work

LEMMA ReturnType ==
  ASSUME work \in [Dispatchers -> Work], NEW d \in Dispatchers, Return(d)
  PROVE  work' \in [Dispatchers -> Work]
BY RestType DEF Return

LEMMA ReadingType ==
  ASSUME work \in [Dispatchers -> Work], NEW d \in Dispatchers,
         NEW v \in Versions,
         work' = [work EXCEPT ![d].phase = "reopening", ![d].version = v]
  PROVE  work' \in [Dispatchers -> Work]
BY DEF Work, Phases

LEMMA LoadingType ==
  ASSUME work \in [Dispatchers -> Work], NEW d \in Dispatchers,
         NEW item \in AttentionStatus,
         work' = [work EXCEPT ![d].phase = "reading", ![d].seen = item]
  PROVE  work' \in [Dispatchers -> Work]
BY DEF Work, Phases

\* What a handler has noted of its item, and of the order.
LEMMA AfterLoading ==
  ASSUME work \in [Dispatchers -> Work], NEW d \in Dispatchers, NEW item,
         work' = [work EXCEPT ![d].phase = "reading", ![d].seen = item]
  PROVE  /\ work'[d].phase = "reading" /\ work'[d].task = work[d].task
         /\ \A e \in Dispatchers \ {d} : work'[e] = work[e]
BY DEF Work

LEMMA AfterReading ==
  ASSUME work \in [Dispatchers -> Work], NEW d \in Dispatchers, NEW version,
         work' = [work EXCEPT ![d].phase = "reopening", ![d].version = version]
  PROVE  /\ work'[d].phase = "reopening" /\ work'[d].task = work[d].task
         /\ work'[d].version = version
         /\ \A e \in Dispatchers \ {d} : work'[e] = work[e]
BY DEF Work

\* The steps of a handler.
LEMMA ContinueType ==
  ASSUME TypeOK, NEW d \in Dispatchers, Continue(d)
  PROVE  TypeOK'
<1> USE DEF TypeOK
<1>0. work[d] \in Work /\ work[d].task \in Tasks /\ work[d].version \in Versions
  BY DEF Work
<1>1. ASSUME NEW t \in Tasks, Handle(d, t)
      PROVE  TypeOK'
  <2>1. work' \in [Dispatchers -> Work]
    BY <1>1, RestType DEF Handle, Work, Phases
  <2> QED
    BY <1>1, <2>1 DEF Handle, schedulerVars, tableVars, SchedulerTypeOK, itemVars,
       orderVars, timeVars
<1>2. ASSUME NEW t \in Tasks, HandleLate(d, t)
      PROVE  TypeOK'
  BY <1>2, DropType DEF HandleLate, itemVars, orderVars, timeVars
<1>3. CASE LoadAttention(d)
  <2>1. work' \in [Dispatchers -> Work]
    <3>1. attention[work[d].task] \in AttentionStatus
      BY <1>0
    <3>2. CASE Enter(d, "marking")
      BY <3>2, EnterType DEF Phases
    <3>3. CASE work' = [work EXCEPT ![d].phase = "reading",
                                    ![d].seen = attention[work[d].task]]
      BY <3>1, <3>3, LoadingType
    <3> QED
      BY <1>3, <3>2, <3>3 DEF LoadAttention
  <2> QED
    BY <1>3, <2>1 DEF LoadAttention, schedulerVars, tableVars, SchedulerTypeOK,
       itemVars, orderVars, timeVars
<1>4. CASE ReadOrder(d)
  <2> DEFINE t == work[d].task
  <2>1. UNCHANGED <<itemVars, orderVars, timeVars>>
    BY <1>4 DEF ReadOrder
  <2>2. CASE DropClaim(d, t) /\ Return(d)
    BY <1>0, <2>1, <2>2, DropType, ReturnType DEF itemVars, orderVars, timeVars
  <2>3. CASE Enter(d, "resolving") /\ UNCHANGED schedulerVars
    BY <2>1, <2>3, EnterType DEF schedulerVars, tableVars, SchedulerTypeOK,
       itemVars, orderVars, timeVars, Phases
  <2>4. CASE /\ work' = [work EXCEPT ![d].phase = "reopening",
                                     ![d].version = order[t].version]
             /\ UNCHANGED schedulerVars
    <3>1. order[t].version \in Versions
      BY <1>0
    <3>2. work' \in [Dispatchers -> Work]
      BY <2>4, <3>1, ReadingType
    <3> QED
      BY <2>1, <2>4, <3>2 DEF schedulerVars, tableVars, SchedulerTypeOK,
         itemVars, orderVars, timeVars
  <2> QED
    BY <1>4, <2>2, <2>3, <2>4 DEF ReadOrder
<1>5. CASE Resolve(d)
  <2>1. UNCHANGED <<followups, orderVars, timeVars>>
    BY <1>5 DEF Resolve
  <2>2. attention' \in [Tasks -> AttentionStatus]
    BY <1>5 DEF Resolve, AttentionStatus
  <2>3. work' \in [Dispatchers -> Work] /\ SchedulerTypeOK'
    <3>1. CASE Enter(d, "marking") /\ UNCHANGED schedulerVars
      BY <3>1, EnterType DEF schedulerVars, tableVars, SchedulerTypeOK, Phases
    <3>2. CASE DropClaim(d, work[d].task) /\ Return(d)
      BY <1>0, <3>2, DropType, ReturnType
    <3> QED
      BY <1>5, <3>1, <3>2 DEF Resolve
  <2> QED
    BY <2>1, <2>2, <2>3 DEF orderVars, timeVars
<1>6. CASE Reopen(d)
  <2>1. followups' \in [Tasks -> [Versions -> Nat]]
    <3>1. CASE followups' = [followups EXCEPT ![work[d].task][work[d].version] = 1]
      BY <1>0, <3>1
    <3> QED
      BY <1>6, <3>1 DEF Reopen
  <2>2. work' \in [Dispatchers -> Work]
    BY <1>6, EnterType DEF Reopen, Phases
  <2> QED
    BY <1>6, <2>1, <2>2 DEF Reopen, schedulerVars, tableVars, SchedulerTypeOK,
       orderVars, timeVars
<1> QED
  BY <1>1, <1>2, <1>3, <1>4, <1>5, <1>6 DEF Continue

\* The other steps.
LEMMA StepType ==
  ASSUME TypeOK, [Next]_vars
  PROVE  TypeOK'
<1> USE DEF TypeOK
<1>1. ASSUME NEW d \in Dispatchers, NEW batch \in SUBSET Tasks, NEW at \in Earlier,
             Poll(d, batch, at)
      PROVE  TypeOK'
  <2>1. SchedulerTypeOK'
    BY <1>1, EarlierTime, ClaimDueType DEF Poll
  <2> QED
    BY <1>1, <2>1 DEF Poll, itemVars, orderVars, timeVars
<1>2. ASSUME NEW d \in Dispatchers, NEW at \in Earlier, Mark(d, at)
      PROVE  TypeOK'
  <2>1. work[d].task \in Tasks
    BY DEF Work
  <2>2. SchedulerTypeOK'
    BY <1>2, <2>1, MarkSucceededType DEF Mark
  <2> QED
    BY <1>2, <2>2, ReturnType DEF Mark, itemVars, orderVars, timeVars
<1>3. ASSUME NEW d \in Dispatchers, Crash(d)
      PROVE  TypeOK'
  BY <1>3, ReturnType DEF Crash, ForgetClaims, SchedulerTypeOK, tableVars,
     itemVars, orderVars
<1>4. ASSUME NEW t \in Tasks, ScheduleCheck(t) \/ CancelCheck(t)
      PROVE  TypeOK'
  <2>1. SchedulerTypeOK'
    BY <1>4, ScheduleType DEF ScheduleCheck, CancelCheck
  <2> QED
    BY <1>4, <2>1 DEF ScheduleCheck, CancelCheck, itemVars, orderVars, timeVars
<1>5. ASSUME NEW t \in Tasks, Receive(t)
      PROVE  TypeOK'
  <2>1. order[t].version \in Nat /\ order[t].version + 1 \in Versions
    BY <1>5 DEF Receive, Versions
  <2>2. PICK more \in Received :
          /\ order' = [order EXCEPT ![t] = [received |-> more, version |-> @.version + 1]]
          /\ fullAt' = IF more = "full"
                         THEN [fullAt EXCEPT ![t] = order[t].version + 1] ELSE fullAt
    BY <1>5 DEF Receive
  <2>3. order' \in [Tasks -> [received : Received, version : Versions]]
    BY <2>1, <2>2
  <2>4. fullAt' \in [Tasks -> 0..MaxVersion]
    <3>1. order[t].version + 1 \in 0..MaxVersion
      BY <2>1 DEF Versions
    <3> QED
      BY <2>2, <3>1
  <2> QED
    BY <1>5, <2>3, <2>4 DEF Receive, schedulerVars, tableVars, SchedulerTypeOK,
       itemVars, timeVars
<1>6. ASSUME NEW t \in Tasks, MoveAttention(t)
      PROVE  TypeOK'
  BY <1>6 DEF MoveAttention, schedulerVars, tableVars, SchedulerTypeOK,
     orderVars, timeVars
<1>7. CASE Tick
  BY <1>7 DEF Tick, schedulerVars, tableVars, SchedulerTypeOK, itemVars, orderVars
<1>8. CASE UNCHANGED vars
  BY <1>8 DEF vars, schedulerVars, tableVars, SchedulerTypeOK, itemVars,
     orderVars, timeVars
<1> QED
  BY <1>1, <1>2, <1>3, <1>4, <1>5, <1>6, <1>7, <1>8, ContinueType DEF Next

\* Every state has the types of TypeOK.
THEOREM TypeCorrect == Spec => []TypeOK
BY InitType, StepType, PTL DEF Spec

-----------------------------------------------------------------------------
(* What a step does to the dispatchers.                                    *)

LEMMA AfterEnter ==
  ASSUME TypeOK, NEW d \in Dispatchers, NEW phase, Enter(d, phase)
  PROVE  /\ work'[d].phase = phase /\ work'[d].task = work[d].task
         /\ \A e \in Dispatchers \ {d} : work'[e] = work[e]
BY DEF TypeOK, Enter, Work

LEMMA AfterReturn ==
  ASSUME TypeOK, NEW d \in Dispatchers, Return(d)
  PROVE  /\ work'[d].phase = "idle"
         /\ \A e \in Dispatchers \ {d} : work'[e] = work[e]
BY RestType DEF TypeOK, Return

\* A dispatcher that drops a copy loses that one only.
LEMMA AfterDrop ==
  ASSUME TypeOK, NEW d \in Dispatchers, NEW t \in Tasks, DropClaim(d, t)
  PROVE  /\ claims'[d][t] = 0
         /\ \A e \in Dispatchers, s \in Tasks :
              ~(e = d /\ s = t) => claims'[e][s] = claims[e][s]
         /\ UNCHANGED <<taskStatus, dueAt, leaseUntil>>
<1>1. claims' = [claims EXCEPT ![d][t] = 0]
  BY DEF DropClaim
<1>2. claims \in [Dispatchers -> [Tasks -> Nat]]
  BY DEF TypeOK, SchedulerTypeOK
<1>3. claims'[d][t] = 0
  BY <1>1, <1>2
<1>4. \A e \in Dispatchers, s \in Tasks :
        ~(e = d /\ s = t) => claims'[e][s] = claims[e][s]
  BY <1>1, <1>2
<1> QED
  BY <1>3, <1>4 DEF DropClaim, tableVars

-----------------------------------------------------------------------------
(* Leases.                                                                 *)

\* A copy whose lease is running is the only such copy, and it is the row's
\* lease unless an older copy's completion closed the row.
LeaseInv ==
  \A t \in Tasks, d \in Dispatchers :
    claims[d][t] > now =>
      /\ taskStatus[t] \in {"claimed", "succeeded"}
      /\ taskStatus[t] = "claimed" => leaseUntil[t] = claims[d][t]
      /\ \A e \in Dispatchers : claims[e][t] > now => e = d

\* A step that takes copies away and leaves the rows alone.
LEMMA LeaseSame ==
  ASSUME TypeOK, LeaseInv, UNCHANGED <<taskStatus, leaseUntil>>, now' \in Nat,
         now' >= now,
         \A e \in Dispatchers, s \in Tasks :
           claims'[e][s] = claims[e][s] \/ claims'[e][s] = 0
  PROVE  LeaseInv'
<1>1. \A e \in Dispatchers, s \in Tasks :
        claims'[e][s] > now' =>
          claims[e][s] > now /\ claims'[e][s] = claims[e][s]
  <2> SUFFICES ASSUME NEW e \in Dispatchers, NEW s \in Tasks, claims'[e][s] > now'
               PROVE  claims[e][s] > now /\ claims'[e][s] = claims[e][s]
    OBVIOUS
  <2>1. claims[e][s] \in Nat /\ now \in Nat
    BY DEF TypeOK, SchedulerTypeOK
  <2> QED
    BY <2>1
<1> QED
  BY <1>1 DEF LeaseInv

LEMMA LeasePoll ==
  ASSUME TypeOK, LeaseInv, NEW d \in Dispatchers, NEW batch \in SUBSET Tasks,
         NEW at \in Earlier, Poll(d, batch, at)
  PROVE  LeaseInv'
<1>1. /\ now' = now /\ now \in Nat /\ at \in Nat /\ at <= now
      /\ claims \in [Dispatchers -> [Tasks -> Nat]]
      /\ leaseUntil \in [Tasks -> Nat]
  BY EarlierTime DEF Poll, timeVars, TypeOK, SchedulerTypeOK
<1>2. \A t \in batch : Due(t, at)
  BY DEF Poll, ClaimDue, FirstDue
\* Nobody's lease is running on a task that is due.
<1>3. \A t \in batch, e \in Dispatchers : ~(claims[e][t] > now)
  BY <1>1, <1>2 DEF Due, LeaseInv
<1>4. \A t \in Tasks : /\ taskStatus'[t] = IF t \in batch THEN "claimed" ELSE taskStatus[t]
                       /\ leaseUntil'[t] = IF t \in batch THEN LeaseFrom(at) ELSE leaseUntil[t]
  BY DEF Poll, ClaimDue
<1>5. \A e \in Dispatchers, t \in Tasks :
        claims'[e][t] = IF e = d /\ t \in batch THEN LeaseFrom(at) ELSE claims[e][t]
  BY <1>1 DEF Poll, ClaimDue
<1>6. ASSUME NEW t \in Tasks, NEW e \in Dispatchers, claims'[e][t] > now', t \in batch
      PROVE  e = d /\ taskStatus'[t] = "claimed" /\ leaseUntil'[t] = claims'[e][t]
  BY <1>1, <1>3, <1>4, <1>5, <1>6
<1>7. ASSUME NEW t \in Tasks, t \notin batch
      PROVE  /\ taskStatus'[t] = taskStatus[t] /\ leaseUntil'[t] = leaseUntil[t]
             /\ \A e \in Dispatchers : claims'[e][t] = claims[e][t]
  BY <1>4, <1>5, <1>7
<1> QED
  BY <1>1, <1>6, <1>7 DEF LeaseInv

LEMMA LeaseMark ==
  ASSUME TypeOK, LeaseInv, NEW d \in Dispatchers, NEW at, Mark(d, at)
  PROVE  LeaseInv'
<1> DEFINE t == work[d].task
<1>1. /\ now' = now /\ now \in Nat /\ t \in Tasks
      /\ claims \in [Dispatchers -> [Tasks -> Nat]]
      /\ claims' = [claims EXCEPT ![d][t] = 0]
  BY DEF Mark, MarkSucceeded, timeVars, TypeOK, SchedulerTypeOK, Work
<1>2. \A e \in Dispatchers, s \in Tasks :
        claims'[e][s] = claims[e][s] \/ claims'[e][s] = 0
  BY <1>1
<1>3. CASE UNCHANGED <<taskStatus, leaseUntil>>
  BY <1>1, <1>2, <1>3, LeaseSame
<1>4. CASE /\ taskStatus' = [taskStatus EXCEPT ![t] = "succeeded"]
           /\ leaseUntil' = [leaseUntil EXCEPT ![t] = 0]
  <2>1. /\ taskStatus'[t] = "succeeded"
        /\ \A s \in Tasks \ {t} : /\ taskStatus'[s] = taskStatus[s]
                                  /\ leaseUntil'[s] = leaseUntil[s]
    BY <1>1, <1>4 DEF TypeOK, SchedulerTypeOK
  <2>2. \A e \in Dispatchers, s \in Tasks :
          claims'[e][s] > now' =>
            claims[e][s] > now /\ claims'[e][s] = claims[e][s]
    BY <1>1, <1>2
  <2> QED
    BY <2>1, <2>2 DEF LeaseInv
<1> QED
  BY <1>3, <1>4 DEF Mark, MarkSucceeded

LEMMA LeaseStep ==
  ASSUME TypeOK, LeaseInv, [Next]_vars
  PROVE  LeaseInv'
<1>1. ASSUME NEW d \in Dispatchers, Continue(d)
      PROVE  LeaseInv'
  <2>1. UNCHANGED schedulerVars \/ \E t \in Tasks : DropClaim(d, t)
    <3>1. work[d].task \in Tasks
      BY DEF TypeOK, Work
    <3> QED
      BY <1>1, <3>1 DEF Continue, Handle, HandleLate, LoadAttention, ReadOrder,
         Resolve, Reopen
  <2>2. now' = now /\ now \in Nat
    BY <1>1 DEF Continue, Handle, HandleLate, LoadAttention, ReadOrder,
       Resolve, Reopen, timeVars, TypeOK
  <2>3. CASE UNCHANGED schedulerVars
    BY <2>2, <2>3, LeaseSame DEF schedulerVars, tableVars
  <2>4. CASE \E t \in Tasks : DropClaim(d, t)
    BY <2>2, <2>4, AfterDrop, LeaseSame
  <2> QED
    BY <2>1, <2>3, <2>4
<1>2. ASSUME NEW d \in Dispatchers, Crash(d)
      PROVE  LeaseInv'
  <2>1. \A e \in Dispatchers, s \in Tasks :
          claims'[e][s] = claims[e][s] \/ claims'[e][s] = 0
    BY <1>2 DEF Crash, ForgetClaims, TypeOK, SchedulerTypeOK
  <2> QED
    BY <1>2, <2>1, LeaseSame DEF Crash, ForgetClaims, tableVars, TypeOK
<1>3. ASSUME NEW t \in Tasks, ScheduleCheck(t) \/ CancelCheck(t)
      PROVE  LeaseInv'
  \* Nobody holds a running copy of a task that was not claimed.
  <2>1. /\ now' = now /\ UNCHANGED <<claims, leaseUntil>>
        /\ taskStatus[t] \in {"absent", "pending"}
        /\ \A s \in Tasks \ {t} : taskStatus'[s] = taskStatus[s]
    BY <1>3 DEF ScheduleCheck, Schedule, CancelCheck, CancelPending, timeVars,
       TypeOK, SchedulerTypeOK
  <2>2. \A e \in Dispatchers : ~(claims[e][t] > now)
    BY <2>1 DEF LeaseInv
  <2> QED
    BY <2>1, <2>2 DEF LeaseInv
<1>4. ASSUME NEW t \in Tasks, Receive(t) \/ MoveAttention(t)
      PROVE  LeaseInv'
  BY <1>4, LeaseSame DEF Receive, MoveAttention, schedulerVars, tableVars, timeVars,
     TypeOK
<1>5. CASE Tick
  BY <1>5, LeaseSame DEF Tick, schedulerVars, tableVars, TypeOK
<1>6. CASE UNCHANGED vars
  BY <1>6, LeaseSame DEF vars, schedulerVars, tableVars, timeVars, TypeOK
<1> QED
  BY <1>1, <1>2, <1>3, <1>4, <1>5, <1>6, LeasePoll, LeaseMark DEF Next

\* A task is leased to one dispatcher at a time, whatever old copies the
\* others still hold and whenever they complete them.
THEOREM OneLeaseAtATime == Spec => []LeasedOnce
<1>1. Init => LeaseInv
  BY DEF Init, SchedulerInit, LeaseInv
<1>2. TypeOK /\ LeaseInv /\ [Next]_vars => LeaseInv'
  BY LeaseStep
<1>3. LeaseInv => LeasedOnce
  BY DEF LeaseInv, LeasedOnce
<1> QED
  BY <1>1, <1>2, <1>3, TypeCorrect, PTL DEF Spec

-----------------------------------------------------------------------------
(* Copies, and the tasks that were never claimed.                          *)

\* A dispatcher in a handler holds its copy of the task.
HandlingInv ==
  \A d \in Dispatchers : work[d].phase # "idle" => claims[d][work[d].task] # 0

\* Nobody has a copy of a task that was not claimed, and it has no consequence.
QuietInv ==
  \A t \in Tasks :
    taskStatus[t] \in {"absent", "pending", "cancelled"} =>
      /\ attention[t] # "resolved"
      /\ \A v \in Versions : followups[t][v] = 0
      /\ \A d \in Dispatchers : claims[d][t] = 0

\* A dispatcher in the middle of a handler changes no copy but its own.
LEMMA HandlingContinue ==
  ASSUME TypeOK, HandlingInv, NEW d \in Dispatchers, Continue(d)
  PROVE  HandlingInv'
<1> DEFINE t == work[d].task
<1>0. t \in Tasks
  BY DEF TypeOK, Work
<1>1. ASSUME NEW s \in Tasks, Handle(d, s)
      PROVE  HandlingInv'
  <2>1. claims[d][s] # 0 /\ claims' = claims
    BY <1>1 DEF Handle, TypeOK, SchedulerTypeOK, schedulerVars
  <2>2. /\ work'[d].task = s
        /\ \A e \in Dispatchers \ {d} : work'[e] = work[e]
    BY <1>1 DEF Handle, Rest, TypeOK
  <2> QED
    BY <2>1, <2>2 DEF HandlingInv
<1>2. ASSUME NEW s \in Tasks, HandleLate(d, s)
      PROVE  HandlingInv'
  <2>1. \A e \in Dispatchers \ {d} : work[e].task \in Tasks
    BY DEF TypeOK, Work
  <2>2. DropClaim(d, s) /\ work[d].phase = "idle" /\ work' = work
    BY <1>2 DEF HandleLate, Idle
  <2> QED
    BY <2>1, <2>2, AfterDrop DEF HandlingInv
<1>3. CASE DropClaim(d, t) /\ Return(d)
  <2>1. \A e \in Dispatchers \ {d} : work[e].task \in Tasks
    BY DEF TypeOK, Work
  <2> QED
    BY <1>0, <1>3, <2>1, AfterDrop, AfterReturn DEF HandlingInv
\* It goes on with the same task.
<1>4. CASE /\ work[d].phase # "idle" /\ UNCHANGED schedulerVars
           /\ work'[d].task = t
           /\ \A e \in Dispatchers \ {d} : work'[e] = work[e]
  BY <1>4 DEF HandlingInv, schedulerVars
<1>5. ASSUME LoadAttention(d) \/ ReadOrder(d) \/ Resolve(d) \/ Reopen(d),
             ~(DropClaim(d, t) /\ Return(d))
      PROVE  HandlingInv'
  <2>1. work[d].phase # "idle" /\ UNCHANGED schedulerVars
    BY <1>5 DEF LoadAttention, ReadOrder, Resolve, Reopen
  <2>2. CASE \E phase \in Phases : Enter(d, phase)
    BY <1>4, <2>1, <2>2, AfterEnter
  <2>3. CASE work' = [work EXCEPT ![d].phase = "reading", ![d].seen = attention[t]]
    BY <1>4, <2>1, <2>3, AfterLoading DEF TypeOK
  <2>4. CASE work' = [work EXCEPT ![d].phase = "reopening",
                                  ![d].version = order[t].version]
    BY <1>4, <2>1, <2>4, AfterReading DEF TypeOK
  <2> QED
    BY <1>5, <2>2, <2>3, <2>4
       DEF LoadAttention, ReadOrder, Resolve, Reopen, Phases
<1> QED
  BY <1>1, <1>2, <1>3, <1>5 DEF Continue

LEMMA HandlingStep ==
  ASSUME TypeOK, HandlingInv, [Next]_vars
  PROVE  HandlingInv'
<1>0. \A e \in Dispatchers : work[e].task \in Tasks
  BY DEF TypeOK, Work
<1>1. ASSUME NEW d \in Dispatchers, NEW batch \in SUBSET Tasks, NEW at \in Earlier,
             Poll(d, batch, at)
      PROVE  HandlingInv'
  <2>1. \A e \in Dispatchers \ {d} : claims'[e] = claims[e]
    BY <1>1 DEF Poll, ClaimDue, TypeOK, SchedulerTypeOK
  <2> QED
    BY <1>1, <2>1 DEF Poll, Idle, HandlingInv
<1>2. ASSUME NEW d \in Dispatchers, NEW at, Mark(d, at)
      PROVE  HandlingInv'
  <2>1. \A e \in Dispatchers \ {d} : claims'[e] = claims[e]
    BY <1>2 DEF Mark, MarkSucceeded, TypeOK, SchedulerTypeOK
  <2> QED
    BY <1>2, <2>1, AfterReturn DEF Mark, HandlingInv
<1>3. ASSUME NEW d \in Dispatchers, Crash(d)
      PROVE  HandlingInv'
  <2>1. \A e \in Dispatchers \ {d} : claims'[e] = claims[e]
    BY <1>3 DEF Crash, ForgetClaims, TypeOK, SchedulerTypeOK
  <2> QED
    BY <1>3, <2>1, AfterReturn DEF Crash, HandlingInv
<1>4. CASE UNCHANGED <<claims, work>>
  BY <1>4 DEF HandlingInv
<1>5. ASSUME NEW t \in Tasks,
             ScheduleCheck(t) \/ CancelCheck(t) \/ Receive(t) \/ MoveAttention(t)
      PROVE  UNCHANGED <<claims, work>>
  BY <1>5 DEF ScheduleCheck, Schedule, CancelCheck, CancelPending, Receive,
     MoveAttention, schedulerVars
<1>6. Tick \/ UNCHANGED vars => UNCHANGED <<claims, work>>
  BY DEF Tick, vars, schedulerVars
<1> QED
  BY <1>1, <1>2, <1>3, <1>4, <1>5, <1>6, HandlingContinue DEF Next

\* A step that makes no consequence and takes copies away at most.
LEMMA QuietSame ==
  ASSUME QuietInv, UNCHANGED followups,
         \A t \in Tasks : attention'[t] = "resolved" => attention[t] = "resolved",
         \A t \in Tasks : taskStatus'[t] \in {"absent", "pending", "cancelled"} =>
                            taskStatus[t] \in {"absent", "pending", "cancelled"},
         \A e \in Dispatchers, s \in Tasks :
           claims'[e][s] = claims[e][s] \/ claims'[e][s] = 0
  PROVE  QuietInv'
BY DEF QuietInv

\* A consequence is that of a task somebody holds.
LEMMA QuietContinue ==
  ASSUME TypeOK, HandlingInv, QuietInv, NEW d \in Dispatchers, Continue(d)
  PROVE  QuietInv'
<1> DEFINE t == work[d].task
<1>0. t \in Tasks /\ work[d].version \in Versions
  BY DEF TypeOK, Work
<1>1. CASE \/ \E s \in Tasks : Handle(d, s) \/ HandleLate(d, s)
           \/ LoadAttention(d) \/ ReadOrder(d)
  <2>1. UNCHANGED itemVars
    BY <1>1 DEF Handle, HandleLate, LoadAttention, ReadOrder
  <2>2. UNCHANGED schedulerVars \/ \E s \in Tasks : DropClaim(d, s)
    BY <1>0, <1>1 DEF Handle, HandleLate, LoadAttention, ReadOrder
  <2>3. CASE UNCHANGED schedulerVars
    BY <2>1, <2>3, QuietSame DEF schedulerVars, tableVars, itemVars
  <2>4. CASE \E s \in Tasks : DropClaim(d, s)
    BY <2>1, <2>4, AfterDrop, QuietSame DEF itemVars
  <2> QED
    BY <2>2, <2>3, <2>4
<1>2. CASE Resolve(d)
  <2>1. CASE DropClaim(d, t) /\ UNCHANGED attention
    BY <1>0, <1>2, <2>1, AfterDrop, QuietSame DEF Resolve
  <2>2. CASE attention' = [attention EXCEPT ![t] = "resolved"] /\ UNCHANGED schedulerVars
    <3>1. claims[d][t] # 0
      BY <1>2 DEF Resolve, HandlingInv
    <3>2. \A s \in Tasks \ {t} : attention'[s] = attention[s]
      BY <2>2 DEF TypeOK
    <3> QED
      BY <1>0, <1>2, <2>2, <3>1, <3>2 DEF Resolve, QuietInv, schedulerVars, tableVars
  <2> QED
    BY <1>2, <2>1, <2>2 DEF Resolve
<1>3. CASE Reopen(d)
  <2>1. claims[d][t] # 0
    BY <1>3 DEF Reopen, HandlingInv
  <2>2. \A s \in Tasks \ {t} : followups'[s] = followups[s]
    BY <1>0, <1>3 DEF Reopen, TypeOK
  <2> QED
    BY <1>0, <1>3, <2>1, <2>2 DEF Reopen, QuietInv, schedulerVars, tableVars
<1> QED
  BY <1>1, <1>2, <1>3 DEF Continue

LEMMA QuietStep ==
  ASSUME TypeOK, HandlingInv, QuietInv, [Next]_vars
  PROVE  QuietInv'
<1>1. ASSUME NEW d \in Dispatchers, NEW batch \in SUBSET Tasks, NEW at \in Earlier,
             Poll(d, batch, at)
      PROVE  QuietInv'
  <2>1. \A t \in batch : taskStatus'[t] = "claimed"
    BY <1>1 DEF Poll, ClaimDue
  <2>2. \A t \in Tasks \ batch :
          /\ taskStatus'[t] = taskStatus[t]
          /\ \A e \in Dispatchers : claims'[e][t] = claims[e][t]
    BY <1>1 DEF Poll, ClaimDue, TypeOK, SchedulerTypeOK
  <2> QED
    BY <1>1, <2>1, <2>2 DEF Poll, QuietInv, itemVars
<1>2. ASSUME NEW d \in Dispatchers, NEW at, Mark(d, at)
      PROVE  QuietInv'
  <2>1. work[d].task \in Tasks
    BY DEF TypeOK, Work
  <2>2. \A e \in Dispatchers, s \in Tasks :
          claims'[e][s] = claims[e][s] \/ claims'[e][s] = 0
    BY <1>2, <2>1 DEF Mark, MarkSucceeded, TypeOK, SchedulerTypeOK
  <2>3. \A s \in Tasks : taskStatus'[s] = taskStatus[s] \/ taskStatus'[s] = "succeeded"
    BY <1>2, <2>1 DEF Mark, MarkSucceeded, TypeOK, SchedulerTypeOK
  <2> QED
    BY <1>2, <2>2, <2>3, QuietSame DEF Mark, itemVars
<1>3. ASSUME NEW d \in Dispatchers, Crash(d)
      PROVE  QuietInv'
  <2>1. \A e \in Dispatchers, s \in Tasks :
          claims'[e][s] = claims[e][s] \/ claims'[e][s] = 0
    BY <1>3 DEF Crash, ForgetClaims, TypeOK, SchedulerTypeOK
  <2> QED
    BY <1>3, <2>1, QuietSame DEF Crash, ForgetClaims, tableVars, itemVars
<1>4. ASSUME NEW t \in Tasks, ScheduleCheck(t) \/ CancelCheck(t)
      PROVE  QuietInv'
  <2>1. /\ taskStatus[t] \in {"absent", "pending"}
        /\ \A s \in Tasks \ {t} : taskStatus'[s] = taskStatus[s]
        /\ UNCHANGED <<claims, attention, followups>>
    BY <1>4 DEF ScheduleCheck, Schedule, CancelCheck, CancelPending, itemVars,
       TypeOK, SchedulerTypeOK
  <2> QED
    BY <2>1, QuietSame
<1>5. ASSUME NEW t \in Tasks, Receive(t) \/ MoveAttention(t)
      PROVE  QuietInv'
  <2>1. \A s \in Tasks : attention'[s] = "resolved" => attention[s] = "resolved"
    BY <1>5 DEF Receive, MoveAttention, itemVars, TypeOK
  <2>2. UNCHANGED <<schedulerVars, followups>>
    BY <1>5 DEF Receive, MoveAttention, itemVars
  <2> QED
    BY <2>1, <2>2, QuietSame DEF schedulerVars, tableVars
<1>6. CASE Tick \/ UNCHANGED vars
  BY <1>6, QuietSame DEF Tick, vars, schedulerVars, tableVars, itemVars
<1> QED
  BY <1>1, <1>2, <1>3, <1>4, <1>5, <1>6, QuietContinue DEF Next

\* The reverse effect of scheduling a check and a dispatcher that takes it
\* exclude each other: a cancelled check has had no consequence and will have
\* none, because nobody holds it.
THEOREM CancelledStaysQuiet == Spec => []CancelledIsQuiet
<1>1. Init => HandlingInv /\ QuietInv
  BY RestType DEF Init, SchedulerInit, HandlingInv, QuietInv
<1>2. TypeOK /\ HandlingInv /\ QuietInv /\ [Next]_vars => HandlingInv' /\ QuietInv'
  BY HandlingStep, QuietStep
<1>3. QuietInv => CancelledIsQuiet
  BY DEF QuietInv, CancelledIsQuiet
<1> QED
  BY <1>1, <1>2, <1>3, TypeCorrect, PTL DEF Spec

-----------------------------------------------------------------------------
(* Receipts.                                                               *)

\* fullAt tells of the full receipt, which nothing takes back.
FullInv ==
  \A t \in Tasks : fullAt[t] # 0 <=> order[t].received = "full"

\* A handler that is about to resolve has seen the full receipt.
ReceiptInv ==
  /\ \A t \in Tasks : attention[t] = "resolved" => order[t].received = "full"
  /\ \A d \in Dispatchers :
       work[d].phase = "resolving" => order[work[d].task].received = "full"

\* A version that the order has had, and that was no full receipt.
Short(t, v) ==
  v <= order[t].version /\ (fullAt[t] # 0 => v < fullAt[t])

\* A follow-up, and one that is about to be opened, is for such a version.
FollowupInv ==
  /\ \A t \in Tasks, v \in Versions :
       followups[t][v] <= 1 /\ (followups[t][v] = 1 => Short(t, v))
  /\ \A d \in Dispatchers :
       work[d].phase = "reopening" => Short(work[d].task, work[d].version)

\* What was done for a task.
Consequence(t) ==
  attention[t] \in Closed \/ \E v \in Versions : followups[t][v] > 0

\* A handler that has returned has had its consequence.
ConsequenceInv ==
  /\ \A t \in Tasks : taskStatus[t] = "succeeded" => Consequence(t)
  /\ \A d \in Dispatchers : work[d].phase = "marking" => Consequence(work[d].task)

HandlerInv == FullInv /\ ReceiptInv /\ FollowupInv /\ ConsequenceInv

\* A step that leaves orders and consequences alone, and puts a handler at
\* most into a phase that has found nothing out yet.
LEMMA HandlerSame ==
  ASSUME HandlerInv, UNCHANGED <<itemVars, orderVars>>,
         \A t \in Tasks : taskStatus'[t] = "succeeded" => taskStatus[t] = "succeeded",
         \A d \in Dispatchers :
           work'[d] = work[d] \/ work'[d].phase \in {"idle", "loading", "reading"}
  PROVE  HandlerInv'
<1> USE DEF itemVars, orderVars
<1>1. FullInv' /\ ReceiptInv'
  BY DEF HandlerInv, FullInv, ReceiptInv
<1>2. FollowupInv'
  BY DEF HandlerInv, FollowupInv, Short
<1>3. ConsequenceInv'
  BY DEF HandlerInv, ConsequenceInv, Consequence
<1> QED
  BY <1>1, <1>2, <1>3 DEF HandlerInv

LEMMA HandlerContinue ==
  ASSUME TypeOK, HandlerInv, NEW d \in Dispatchers, Continue(d)
  PROVE  HandlerInv'
<1> DEFINE t == work[d].task
           v == work[d].version
<1>0. t \in Tasks /\ v \in Versions
  BY DEF TypeOK, Work
<1>1. ASSUME NEW s \in Tasks, Handle(d, s) \/ HandleLate(d, s)
      PROVE  HandlerInv'
  <2>1. \A e \in Dispatchers : work'[e] = work[e] \/ work'[e].phase = "loading"
    BY <1>1 DEF Handle, HandleLate, Rest, TypeOK
  <2> QED
    BY <1>1, <2>1, HandlerSame
       DEF Handle, HandleLate, DropClaim, schedulerVars, tableVars
\* It raises.
<1>2. CASE Return(d) /\ UNCHANGED <<itemVars, orderVars, taskStatus>>
  BY <1>2, AfterReturn, HandlerSame
<1>3. CASE LoadAttention(d)
  <2>1. UNCHANGED <<itemVars, orderVars, taskStatus>>
    BY <1>3 DEF LoadAttention, schedulerVars, tableVars
  <2>2. CASE work' = [work EXCEPT ![d].phase = "reading", ![d].seen = attention[t]]
    <3>1. \A e \in Dispatchers : work'[e] = work[e] \/ work'[e].phase = "reading"
      BY <2>2, AfterLoading DEF TypeOK
    <3> QED
      BY <2>1, <3>1, HandlerSame
  <2>3. CASE Enter(d, "marking") /\ attention[t] \in Closed
    <3>1. /\ work'[d].phase = "marking" /\ work'[d].task = t
          /\ \A e \in Dispatchers \ {d} : work'[e] = work[e]
      BY <2>3, AfterEnter
    <3>2. FullInv' /\ ReceiptInv' /\ FollowupInv'
      BY <2>1, <3>1 DEF HandlerInv, FullInv, ReceiptInv, FollowupInv, Short,
         itemVars, orderVars
    <3>3. ConsequenceInv'
      BY <2>1, <2>3, <3>1 DEF HandlerInv, ConsequenceInv, Consequence, itemVars
    <3> QED
      BY <3>2, <3>3 DEF HandlerInv
  <2> QED
    BY <1>3, <2>2, <2>3 DEF LoadAttention
<1>4. CASE ReadOrder(d)
  <2>1. UNCHANGED <<itemVars, orderVars, taskStatus>>
    BY <1>4 DEF ReadOrder, DropClaim, schedulerVars, tableVars
  <2>2. CASE Enter(d, "resolving") /\ order[t].received = "full"
    <3>1. /\ work'[d].phase = "resolving" /\ work'[d].task = t
          /\ \A e \in Dispatchers \ {d} : work'[e] = work[e]
      BY <2>2, AfterEnter
    <3>2. FullInv' /\ FollowupInv' /\ ConsequenceInv'
      BY <2>1, <3>1 DEF HandlerInv, FullInv, FollowupInv, Short, ConsequenceInv,
         Consequence, itemVars, orderVars
    <3>3. ReceiptInv'
      BY <2>1, <2>2, <3>1 DEF HandlerInv, ReceiptInv, itemVars, orderVars
    <3> QED
      BY <3>2, <3>3 DEF HandlerInv
  <2>3. CASE /\ order[t].received # "full"
             /\ work' = [work EXCEPT ![d].phase = "reopening",
                                     ![d].version = order[t].version]
    <3>1. /\ work'[d].phase = "reopening" /\ work'[d].task = t
          /\ work'[d].version = order[t].version
          /\ \A e \in Dispatchers \ {d} : work'[e] = work[e]
      BY <2>3, AfterReading DEF TypeOK
    <3>2. FullInv' /\ ReceiptInv' /\ ConsequenceInv'
      BY <2>1, <3>1 DEF HandlerInv, FullInv, ReceiptInv, ConsequenceInv,
         Consequence, itemVars, orderVars
    \* The order as it was read is no full receipt.
    <3>3. Short(t, order[t].version)
      <4>1. order[t].received # "full"
        BY <2>3
      <4>2. fullAt[t] = 0
        BY <1>0, <4>1 DEF HandlerInv, FullInv
      <4>3. order[t].version \in Nat
        BY <1>0 DEF TypeOK, Versions
      <4> QED
        BY <4>2, <4>3 DEF Short
    <3>4. FollowupInv'
      BY <2>1, <3>1, <3>3 DEF HandlerInv, FollowupInv, Short, itemVars, orderVars
    <3> QED
      BY <3>2, <3>4 DEF HandlerInv
  <2> QED
    BY <1>2, <1>4, <2>1, <2>2, <2>3 DEF ReadOrder
<1>5. CASE Resolve(d)
  <2>1. UNCHANGED <<followups, orderVars, taskStatus>>
    BY <1>5 DEF Resolve, DropClaim, schedulerVars, tableVars
  <2>2. CASE Return(d) /\ UNCHANGED attention
    BY <1>2, <2>1, <2>2 DEF itemVars
  <2>3. CASE attention' = [attention EXCEPT ![t] = "resolved"] /\ Enter(d, "marking")
    <3>1. /\ work'[d].phase = "marking" /\ work'[d].task = t
          /\ \A e \in Dispatchers \ {d} : work'[e] = work[e]
      BY <2>3, AfterEnter
    <3>2. /\ attention'[t] = "resolved"
          /\ \A s \in Tasks \ {t} : attention'[s] = attention[s]
      BY <1>0, <2>3 DEF TypeOK
    <3>3. FullInv' /\ FollowupInv'
      BY <2>1, <3>1 DEF HandlerInv, FullInv, FollowupInv, Short, orderVars
    <3>4. ReceiptInv'
      BY <1>0, <1>5, <2>1, <3>1, <3>2 DEF Resolve, HandlerInv, ReceiptInv, orderVars
    <3>5. \A s \in Tasks : (Consequence(s) \/ s = t) => Consequence(s)'
      BY <2>1, <3>2 DEF Consequence, Closed
    <3>6. \A e \in Dispatchers : work[e].task \in Tasks
      BY DEF TypeOK, Work
    <3>7. ConsequenceInv'
      BY <1>0, <2>1, <3>1, <3>2, <3>5, <3>6 DEF HandlerInv, ConsequenceInv, Consequence
    <3> QED
      BY <3>3, <3>4, <3>7 DEF HandlerInv
  <2> QED
    BY <1>5, <2>2, <2>3 DEF Resolve
<1>6. CASE Reopen(d)
  <2>1. UNCHANGED <<attention, orderVars, taskStatus>>
    BY <1>6 DEF Reopen, schedulerVars, tableVars
  <2>2. /\ work'[d].phase = "marking" /\ work'[d].task = t
        /\ \A e \in Dispatchers \ {d} : work'[e] = work[e]
    BY <1>6, AfterEnter DEF Reopen
  <2>3. /\ followups'[t][v] = IF followups[t][v] = 0 THEN 1 ELSE followups[t][v]
        /\ \A s \in Tasks, u \in Versions :
             ~(s = t /\ u = v) => followups'[s][u] = followups[s][u]
    BY <1>0, <1>6 DEF Reopen, TypeOK
  <2>4. \A s \in Tasks, u \in Versions : followups[s][u] \in Nat
    BY DEF TypeOK
  <2>5. FullInv' /\ ReceiptInv'
    BY <2>1, <2>2 DEF HandlerInv, FullInv, ReceiptInv, orderVars
  <2>6. FollowupInv'
    <3>1. Short(t, v)
      BY <1>6 DEF Reopen, HandlerInv, FollowupInv
    <3>2. \A s \in Tasks, u \in Versions :
            followups'[s][u] <= 1 /\ (followups'[s][u] = 1 => Short(s, u))
      BY <1>0, <2>3, <2>4, <3>1 DEF HandlerInv, FollowupInv
    <3>3. \A e \in Dispatchers : work'[e].phase = "reopening" =>
            Short(work'[e].task, work'[e].version)
      BY <2>2 DEF HandlerInv, FollowupInv
    <3> QED
      BY <2>1, <3>2, <3>3 DEF FollowupInv, Short, orderVars
  <2>7. ConsequenceInv'
    <3>1. \A s \in Tasks : (Consequence(s) \/ s = t) => Consequence(s)'
      BY <1>0, <2>1, <2>3, <2>4 DEF Consequence
    <3>2. \A e \in Dispatchers : work[e].task \in Tasks
      BY DEF TypeOK, Work
    <3> QED
      BY <1>0, <2>1, <2>2, <3>1, <3>2 DEF HandlerInv, ConsequenceInv, Consequence
  <2> QED
    BY <2>5, <2>6, <2>7 DEF HandlerInv
<1> QED
  BY <1>1, <1>3, <1>4, <1>5, <1>6 DEF Continue

LEMMA HandlerStep ==
  ASSUME TypeOK, HandlerInv, [Next]_vars
  PROVE  HandlerInv'
<1>0. \A e \in Dispatchers : work[e].task \in Tasks /\ work[e].version \in Versions
  BY DEF TypeOK, Work
<1>1. ASSUME NEW d \in Dispatchers, NEW batch \in SUBSET Tasks, NEW at \in Earlier,
             Poll(d, batch, at)
      PROVE  HandlerInv'
  BY <1>1, HandlerSame DEF Poll, ClaimDue
<1>2. ASSUME NEW d \in Dispatchers, NEW at, Mark(d, at)
      PROVE  HandlerInv'
  <2> DEFINE t == work[d].task
  <2>1. /\ UNCHANGED <<itemVars, orderVars>> /\ work[d].phase = "marking" /\ Return(d)
        /\ \A s \in Tasks \ {t} : taskStatus'[s] = taskStatus[s]
    BY <1>0, <1>2 DEF Mark, MarkSucceeded, TypeOK, SchedulerTypeOK
  <2>2. /\ work'[d].phase = "idle"
        /\ \A e \in Dispatchers \ {d} : work'[e] = work[e]
    BY <2>1, AfterReturn
  <2>3. FullInv' /\ ReceiptInv' /\ FollowupInv'
    BY <2>1, <2>2 DEF HandlerInv, FullInv, ReceiptInv, FollowupInv, Short,
       itemVars, orderVars
  <2>4. Consequence(t)
    BY <2>1 DEF HandlerInv, ConsequenceInv
  <2>5. ConsequenceInv'
    BY <2>1, <2>2, <2>4 DEF HandlerInv, ConsequenceInv, Consequence, itemVars
  <2> QED
    BY <2>3, <2>5 DEF HandlerInv
<1>3. ASSUME NEW d \in Dispatchers, Crash(d)
      PROVE  HandlerInv'
  BY <1>3, AfterReturn, HandlerSame DEF Crash, ForgetClaims, tableVars
<1>4. ASSUME NEW t \in Tasks, ScheduleCheck(t) \/ CancelCheck(t)
      PROVE  HandlerInv'
  <2>1. \A s \in Tasks : taskStatus'[s] = "succeeded" => taskStatus[s] = "succeeded"
    BY <1>4 DEF ScheduleCheck, Schedule, CancelCheck, CancelPending, TypeOK,
       SchedulerTypeOK
  <2> QED
    BY <1>4, <2>1, HandlerSame DEF ScheduleCheck, CancelCheck
<1>5. ASSUME NEW t \in Tasks, Receive(t)
      PROVE  HandlerInv'
  <2>1. UNCHANGED <<schedulerVars, itemVars, work>>
    BY <1>5 DEF Receive
  <2>2. /\ order[t].received # "full" /\ order[t].version \in Nat
        /\ order'[t].version = order[t].version + 1
        /\ fullAt'[t] = IF order'[t].received = "full"
                          THEN order[t].version + 1 ELSE fullAt[t]
        /\ \A s \in Tasks \ {t} : order'[s] = order[s] /\ fullAt'[s] = fullAt[s]
    BY <1>5 DEF Receive, TypeOK, Versions
  <2>3. FullInv'
    BY <2>2 DEF HandlerInv, FullInv
  <2>4. ReceiptInv'
    BY <1>0, <2>1, <2>2 DEF HandlerInv, ReceiptInv, itemVars
  \* The new version is above all those there were.
  <2>5. \A s \in Tasks, u \in Versions : Short(s, u) => Short(s, u)'
    <3> SUFFICES ASSUME NEW s \in Tasks, NEW u \in Versions, Short(s, u)
                 PROVE  Short(s, u)'
      OBVIOUS
    <3>1. u \in Nat /\ fullAt[t] = 0
      BY <2>2 DEF HandlerInv, FullInv, Versions
    <3>2. CASE s = t
      <4>1. u <= order[t].version
        BY <3>2 DEF Short
      <4>2. u < order[t].version + 1 /\ u <= order'[t].version
        BY <2>2, <3>1, <4>1
      <4> QED
        BY <2>2, <3>1, <3>2, <4>2 DEF Short
    <3>3. CASE s # t
      BY <2>2, <3>3 DEF Short
    <3> QED
      BY <3>2, <3>3
  <2>6. FollowupInv'
    <3>1. \A e \in Dispatchers : work[e].phase = "reopening" =>
            Short(work[e].task, work[e].version)'
      BY <1>0, <2>1, <2>5 DEF HandlerInv, FollowupInv, Short
    <3> QED
      BY <2>1, <2>5, <3>1 DEF HandlerInv, FollowupInv, itemVars, Short
  <2>7. ConsequenceInv'
    BY <2>1 DEF HandlerInv, ConsequenceInv, Consequence, itemVars, schedulerVars, tableVars
  <2> QED
    BY <2>3, <2>4, <2>6, <2>7 DEF HandlerInv
<1>6. ASSUME NEW t \in Tasks, MoveAttention(t)
      PROVE  HandlerInv'
  <2>1. /\ UNCHANGED <<schedulerVars, followups, orderVars, work>>
        /\ attention[t] \notin Closed /\ attention'[t] # "resolved"
        /\ \A s \in Tasks \ {t} : attention'[s] = attention[s]
    BY <1>6 DEF MoveAttention, Closed, TypeOK
  <2>2. FullInv' /\ ReceiptInv' /\ FollowupInv'
    BY <2>1 DEF HandlerInv, FullInv, ReceiptInv, FollowupInv, Short, orderVars
  <2>3. \A s \in Tasks : Consequence(s) => Consequence(s)'
    BY <2>1 DEF Consequence
  <2>4. ConsequenceInv'
    BY <1>0, <2>1, <2>3 DEF HandlerInv, ConsequenceInv, Consequence, schedulerVars, tableVars
  <2> QED
    BY <2>2, <2>4 DEF HandlerInv
<1>7. CASE Tick \/ UNCHANGED vars
  BY <1>7, HandlerSame DEF Tick, vars, schedulerVars, tableVars
<1> QED
  BY <1>1, <1>2, <1>3, <1>4, <1>5, <1>6, <1>7, HandlerContinue DEF Next

LEMMA InitHandler == Init => HandlerInv
BY RestType DEF Init, SchedulerInit, HandlerInv, FullInv, ReceiptInv, FollowupInv,
   ConsequenceInv, Consequence, Short, Versions

LEMMA HandlersStayTrue == Spec => []HandlerInv
<1>1. TypeOK /\ HandlerInv /\ [Next]_vars => HandlerInv'
  BY HandlerStep
<1> QED
  BY <1>1, InitHandler, TypeCorrect, PTL DEF Spec

\* A follow-up is opened once for a version, and only for one that came before
\* the full receipt, however long its handler stalled after reading the order.
THEOREM FollowupsStayWarranted == Spec => []FollowupsWarranted
<1>1. HandlerInv => FollowupsWarranted
  BY DEF HandlerInv, FollowupInv, FollowupsWarranted, Short
<1> QED
  BY <1>1, HandlersStayTrue, PTL

\* Only a full receipt resolves an item.
THEOREM ResolutionIsEarned == Spec => []ResolvedMeansReceived
<1>1. HandlerInv => ResolvedMeansReceived
  BY DEF HandlerInv, ReceiptInv, ResolvedMeansReceived
<1> QED
  BY <1>1, HandlersStayTrue, PTL

\* A closed task has had its consequence, whoever closed it.
THEOREM ClosingIsEarned == Spec => []ClosedHadConsequence
<1>1. HandlerInv => ClosedHadConsequence
  BY DEF HandlerInv, ConsequenceInv, Consequence, ClosedHadConsequence
<1> QED
  BY <1>1, HandlersStayTrue, PTL
=============================================================================
