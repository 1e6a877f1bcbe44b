----------------------- MODULE ApprovalEscalationProofs -----------------------
(***************************************************************************)
(* Theorems about ApprovalEscalation, for every set of tasks and           *)
(* dispatchers, every lease, end of day and expiry, and any number of      *)
(* crashes: the request is one decision, and a plan that went stale before *)
(* anybody began to decide is not approved.                                *)
(***************************************************************************)
EXTENDS ApprovalEscalation, SchedulerProofs

USE SchedulerAssumption, ApproversAssumption, EscalationAssumption

-----------------------------------------------------------------------------
(* Type correctness.                                                       *)

LEMMA InitType == Init => TypeOK
<1> SUFFICES ASSUME Init PROVE TypeOK
  OBVIOUS
<1>1. ApprovalTypeOK
  BY DEF Init, ApprovalInit, ApprovalTypeOK, Approvers
<1>2. SchedulerTypeOK
  BY DEF Init, SchedulerInit, SchedulerTypeOK, TaskStatus
<1>3. deciding \in [Approvers -> DecideCall]
  BY DEF Init, NoCall, DecideCall, Verdicts
<1>4. work \in [Dispatchers -> Work]
  BY DEF Init, Rest, Work
<1> QED
  BY <1>1, <1>2, <1>3, <1>4 DEF Init, TypeOK

\* A time that a call may use.
LEMMA EarlierTime ==
  ASSUME now \in Nat, NEW at \in Earlier
  PROVE  at \in Nat
BY DEF Earlier

LEMMA EnterType ==
  ASSUME work \in [Dispatchers -> Work], NEW d \in Dispatchers,
         NEW phase \in {"idle", "loading", "consulting", "rerouting", "marking"},
         Enter(d, phase)
  PROVE  work' \in [Dispatchers -> Work]
BY DEF Enter, Work

LEMMA RestType ==
  ASSUME work \in [Dispatchers -> Work], NEW d \in Dispatchers,
         work' = [work EXCEPT ![d] = Rest]
  PROVE  work' \in [Dispatchers -> Work]
BY DEF Rest, Work

\* The calls of the requester and of the approvers.
LEMMA CallType ==
  ASSUME TypeOK,
         \/ \E until \in Expiries : PersistRequest(until)
         \/ ScheduleEscalation
         \/ LoseRequest
         \/ \E u \in Approvers :
              \/ \E verdict \in Verdicts : CallDecide(u, verdict)
              \/ CommitDecision(u)
  PROVE  TypeOK'
<1> USE DEF TypeOK
<1>1. ASSUME NEW until \in Expiries, PersistRequest(until)
      PROVE  TypeOK'
  BY <1>1 DEF PersistRequest, CreatePending, ApprovalTypeOK, SchedulerTypeOK,
     schedulerVars, tableVars, officeVars, timeVars
<1>2. CASE ScheduleEscalation
  <2>1. SchedulerTypeOK'
    BY <1>2, ScheduleType DEF ScheduleEscalation
  <2> QED
    BY <1>2, <2>1 DEF ScheduleEscalation, approvalVars, ApprovalTypeOK, officeVars,
       timeVars
<1>3. CASE LoseRequest
  BY <1>3 DEF LoseRequest, approvalVars, ApprovalTypeOK, schedulerVars, tableVars,
     SchedulerTypeOK, officeVars, timeVars
<1>4. ASSUME NEW u \in Approvers, NEW verdict \in Verdicts, CallDecide(u, verdict)
      PROVE  TypeOK'
  <2>1. deciding' \in [Approvers -> DecideCall]
    BY <1>4 DEF CallDecide, DecideCall
  <2> QED
    BY <1>4, <2>1 DEF CallDecide, approvalVars, ApprovalTypeOK, schedulerVars,
       tableVars, SchedulerTypeOK, officeVars, timeVars
<1>5. ASSUME NEW u \in Approvers, CommitDecision(u)
      PROVE  TypeOK'
  <2>1. deciding' \in [Approvers -> DecideCall]
    BY <1>5 DEF CommitDecision, NoCall, DecideCall, Verdicts
  <2>2. ApprovalTypeOK'
    <3>1. deciding[u].verdict \in Verdicts
      BY DEF DecideCall
    <3>2. CASE Decide(u, deciding[u].verdict, deciding[u].at)
      BY <3>1, <3>2 DEF Decide, ApprovalTypeOK
    <3>3. CASE UNCHANGED approvalVars
      BY <3>3 DEF approvalVars, ApprovalTypeOK
    <3> QED
      BY <1>5, <3>2, <3>3 DEF CommitDecision
  <2> QED
    BY <1>5, <2>1, <2>2 DEF CommitDecision, schedulerVars, tableVars,
       SchedulerTypeOK, officeVars, timeVars
<1> QED
  BY <1>1, <1>2, <1>3, <1>4, <1>5

\* The steps of a handler.
LEMMA ContinueType ==
  ASSUME TypeOK, NEW d \in Dispatchers, Continue(d)
  PROVE  TypeOK'
<1> USE DEF TypeOK
<1>1. CASE Handle(d)
  <2>1. work' \in [Dispatchers -> Work]
    BY <1>1 DEF Handle, Work
  <2> QED
    BY <1>1, <2>1 DEF Handle, approvalVars, ApprovalTypeOK, schedulerVars,
       tableVars, SchedulerTypeOK, officeVars, timeVars
<1>2. CASE HandleLate(d)
  <2>1. SchedulerTypeOK'
    BY <1>2, DropType DEF HandleLate
  <2> QED
    BY <1>2, <2>1 DEF HandleLate, approvalVars, ApprovalTypeOK, officeVars, timeVars
<1>3. CASE LoadApproval(d) \/ Consult(d)
  <2>1. work' \in [Dispatchers -> Work]
    BY <1>3, EnterType DEF LoadApproval, Consult
  <2> QED
    BY <1>3, <2>1 DEF LoadApproval, Consult, approvalVars, ApprovalTypeOK,
       schedulerVars, tableVars, SchedulerTypeOK, officeVars, timeVars
<1>4. CASE CommitReroute(d)
  <2>1. work' \in [Dispatchers -> Work]
    BY <1>4, EnterType DEF CommitReroute
  <2>2. ApprovalTypeOK'
    BY <1>4 DEF CommitReroute, Reroute, approvalVars, ApprovalTypeOK, Approvers
  <2> QED
    BY <1>4, <2>1, <2>2 DEF CommitReroute, schedulerVars, tableVars,
       SchedulerTypeOK, officeVars, timeVars
<1> QED
  BY <1>1, <1>2, <1>3, <1>4 DEF Continue

LEMMA StepType ==
  ASSUME TypeOK, [Next]_vars
  PROVE  TypeOK'
<1> USE DEF TypeOK
<1>1. ASSUME NEW d \in Dispatchers, NEW batch \in SUBSET Tasks, NEW at \in Earlier,
             Poll(d, batch, at)
      PROVE  TypeOK'
  <2>1. SchedulerTypeOK'
    BY <1>1, EarlierTime, ClaimDueType DEF Poll
  <2> QED
    BY <1>1, <2>1 DEF Poll, approvalVars, ApprovalTypeOK, officeVars, timeVars
<1>2. ASSUME NEW d \in Dispatchers, NEW at \in Earlier, Mark(d, at)
      PROVE  TypeOK'
  <2>1. SchedulerTypeOK'
    BY <1>2, MarkSucceededType DEF Mark
  <2>2. work' \in [Dispatchers -> Work]
    BY <1>2, RestType DEF Mark
  <2> QED
    BY <1>2, <2>1, <2>2 DEF Mark, approvalVars, ApprovalTypeOK, officeVars, timeVars
<1>3. ASSUME NEW d \in Dispatchers, Crash(d)
      PROVE  TypeOK'
  <2>1. SchedulerTypeOK'
    BY <1>3, ForgetType DEF Crash
  <2>2. work' \in [Dispatchers -> Work]
    BY <1>3, RestType DEF Crash
  <2> QED
    BY <1>3, <2>1, <2>2 DEF Crash, approvalVars, ApprovalTypeOK, officeVars
<1>4. CASE Drift \/ Tick \/ UNCHANGED vars
  <2>1. ApprovalTypeOK' /\ SchedulerTypeOK'
    BY <1>4 DEF Drift, Tick, vars, approvalVars, ApprovalTypeOK, schedulerVars,
       tableVars, SchedulerTypeOK
  <2>2. drifted' \in BOOLEAN
    BY <1>4, Zenon DEF Drift, Tick, vars, officeVars
  <2>3. now' \in Nat
    <3>1. now' = now \/ now' = now + 1
      BY <1>4 DEF Drift, Tick, vars, timeVars
    <3> QED
      BY <3>1
  <2> QED
    BY <1>4, <2>1, <2>2, <2>3 DEF Drift, Tick, vars, officeVars, timeVars
<1>5. ASSUME \E u \in Approvers :
               \/ \E verdict \in Verdicts : CallDecide(u, verdict)
               \/ CommitDecision(u)
      PROVE  TypeOK'
  BY <1>5, CallType
<1>6. CASE \/ \E until \in Expiries : PersistRequest(until)
           \/ ScheduleEscalation
           \/ LoseRequest
  BY <1>6, CallType
<1>7. ASSUME NEW d \in Dispatchers, Continue(d)
      PROVE  TypeOK'
  BY <1>7, ContinueType
<1> QED
  <2> HIDE DEF TypeOK
  <2> QED
    BY <1>1, <1>2, <1>3, <1>4, <1>5, <1>6, <1>7 DEF Next

\* Every state is well typed.
THEOREM TypeCorrect == Spec => []TypeOK
<1>1. TypeOK /\ [Next]_vars => TypeOK'
  BY StepType
<1> QED
  BY <1>1, InitType, PTL DEF Spec

-----------------------------------------------------------------------------
(* One decision.                                                           *)

\* A handler that is about to hand the request over has been told that it
\* may; calendar and identity do not change afterwards.
MayInv ==
  /\ TypeOK
  /\ \A d \in Dispatchers : work[d].phase = "rerouting" => MayReroute

LEMMA InitMay == Init => MayInv
BY InitType DEF Init, MayInv, Rest

LEMMA MayStep ==
  ASSUME MayInv, [Next]_vars
  PROVE  MayInv'
<1> USE DEF MayInv
<1>0. TypeOK'
  BY StepType
<1>1. UNCHANGED <<away, backup>>
  <2>1. ASSUME NEW d \in Dispatchers, Continue(d)
        PROVE  UNCHANGED <<away, backup>>
    BY <2>1 DEF Continue, Handle, HandleLate, LoadApproval, Consult, CommitReroute,
       officeVars
  <2> QED
    BY <2>1 DEF Next, PersistRequest, ScheduleEscalation, LoseRequest, CallDecide,
       CommitDecision, Poll, Mark, Crash, Drift, Tick, vars, officeVars
<1>2. ASSUME NEW d \in Dispatchers, work'[d].phase = "rerouting",
             ~ MayReroute
      PROVE  FALSE
  <2> USE DEF TypeOK
  <2>0. work[d].phase # "rerouting"
    BY <1>2
  <2>1. UNCHANGED work => FALSE
    BY <1>2, <2>0
  <2>2. ASSUME NEW e \in Dispatchers, work' = [work EXCEPT ![e] = Rest]
        PROVE  FALSE
    BY <1>2, <2>0, <2>2 DEF Rest
  <2>3. ASSUME NEW e \in Dispatchers,
               NEW phase \in {"loading", "consulting", "marking"}, Enter(e, phase)
        PROVE  FALSE
    BY <1>2, <2>0, <2>3 DEF Enter, Work
  <2>4. ASSUME NEW e \in Dispatchers, Handle(e)
        PROVE  FALSE
    BY <1>2, <2>0, <2>4 DEF Handle, Work
  <2>5. ASSUME NEW e \in Dispatchers, Continue(e)
        PROVE  FALSE
    BY <1>2, <2>1, <2>3, <2>4, <2>5 DEF Continue, HandleLate, LoadApproval, Consult,
       CommitReroute
  <2> QED
    BY <2>1, <2>2, <2>5 DEF Next, PersistRequest, ScheduleEscalation, LoseRequest,
       CallDecide, CommitDecision, Poll, Mark, Crash, Drift, Tick, vars
<1> QED
  BY <1>0, <1>1, <1>2 DEF MayReroute

\* Every step is a hand-over, a verdict, or nothing to the abstract decision.
LEMMA DecisionStep ==
  ASSUME MayInv, [Next]_vars
  PROVE  [D!Delegate \/ D!Conclude]_(D!decisionVars)
<1> USE DEF MayInv, TypeOK
<1>1. ASSUME UNCHANGED approvalVars
      PROVE  UNCHANGED D!decisionVars
  BY <1>1 DEF approvalVars, D!decisionVars
<1>2. ASSUME NEW until \in Expiries, PersistRequest(until)
      PROVE  UNCHANGED D!decisionVars
  BY <1>2 DEF PersistRequest, CreatePending, D!decisionVars, Verdicts
<1>3. ASSUME NEW u \in Approvers, NEW verdict \in Verdicts, NEW at,
             Decide(u, verdict, at)
      PROVE  D!Conclude
  BY <1>3 DEF Decide, CanDecide, Undecided, D!Conclude, Verdicts
<1>4. ASSUME NEW u \in Approvers, CommitDecision(u)
      PROVE  D!Conclude \/ UNCHANGED D!decisionVars
  <2>1. deciding[u].verdict \in Verdicts
    BY DEF DecideCall
  <2> QED
    BY <1>1, <1>3, <1>4, <2>1 DEF CommitDecision
<1>5. ASSUME NEW d \in Dispatchers, CommitReroute(d)
      PROVE  D!Delegate \/ UNCHANGED D!decisionVars
  <2>1. CASE Reroute(work[d].at)
    <3>1. MayReroute
      BY <1>5 DEF CommitReroute
    <3> QED
      BY <2>1, <3>1 DEF Reroute, CanReroute, MayReroute, D!Delegate, Verdicts
  <2> QED
    BY <1>1, <1>5, <2>1 DEF CommitReroute
<1>6. ASSUME NEW d \in Dispatchers, Continue(d)
      PROVE  D!Delegate \/ UNCHANGED D!decisionVars
  BY <1>1, <1>5, <1>6 DEF Continue, Handle, HandleLate, LoadApproval, Consult
<1> QED
  BY <1>1, <1>2, <1>4, <1>6 DEF Next, ScheduleEscalation, LoseRequest, CallDecide,
     Poll, Mark, Crash, Drift, Tick, vars

\* Whoever decides, hands over, is late or stops, and in whatever order: the
\* request gets one verdict, from the person it is addressed to at that
\* moment, and it is handed over at most once, before the verdict, and only
\* when its approver is away and the backup may decide.
THEOREM RequestIsOneDecision == Spec => ImplementsDecision
<1>1. Init => D!DecisionInit
  BY DEF Init, ApprovalInit, D!DecisionInit, Verdicts
<1>2. MayInv /\ [Next]_vars => MayInv'
  BY MayStep
<1>3. MayInv /\ [Next]_vars => [D!Delegate \/ D!Conclude]_(D!decisionVars)
  BY DecisionStep
<1> QED
  BY <1>1, <1>2, <1>3, InitMay, PTL DEF Spec, ImplementsDecision, D!DecisionSpec

-----------------------------------------------------------------------------
(* Stale plans.                                                            *)

\* What is left once the sources have changed with nobody deciding: the only
\* decisions under way are refusals.
OnlyRefusals ==
  /\ TypeOK
  /\ drifted
  /\ status # "approved"
  /\ \A u \in Approvers :
       deciding[u].phase = "deciding" => deciding[u].verdict # "approved"

LEMMA RefusalStep ==
  ASSUME OnlyRefusals, [Next]_vars
  PROVE  OnlyRefusals'
<1> USE DEF OnlyRefusals, TypeOK
<1>0. TypeOK'
  BY StepType
<1>1. ASSUME NEW u \in Approvers, NEW verdict \in Verdicts, CallDecide(u, verdict)
      PROVE  OnlyRefusals'
  <2>1. verdict # "approved"
    BY <1>1 DEF CallDecide, Acceptable
  <2> QED
    BY <1>0, <1>1, <2>1 DEF CallDecide, approvalVars, officeVars, DecideCall
<1>2. ASSUME NEW u \in Approvers, CommitDecision(u)
      PROVE  OnlyRefusals'
  <2>1. status' # "approved"
    BY <1>2 DEF CommitDecision, Decide, approvalVars
  <2>2. \A v \in Approvers :
          deciding'[v].phase = "deciding" => deciding'[v].verdict # "approved"
    BY <1>2 DEF CommitDecision, NoCall, DecideCall
  <2> QED
    BY <1>0, <1>2, <2>1, <2>2 DEF CommitDecision, officeVars
<1>3. ASSUME NEW until \in Expiries, PersistRequest(until)
      PROVE  OnlyRefusals'
  BY <1>0, <1>3 DEF PersistRequest, CreatePending, officeVars
<1>4. ASSUME NEW d \in Dispatchers, Continue(d)
      PROVE  OnlyRefusals'
  BY <1>0, <1>4 DEF Continue, Handle, HandleLate, LoadApproval, Consult,
     CommitReroute, Reroute, approvalVars, officeVars
<1> QED
  BY <1>0, <1>1, <1>2, <1>3, <1>4 DEF Next, ScheduleEscalation, LoseRequest, Poll,
     Mark, Crash, Drift, Tick, vars, approvalVars, officeVars

\* A request whose sources changed while nobody was deciding is never
\* approved, by the original approver or by the backup it is handed to.
THEOREM StalePlansStayUnapproved == Spec => StalePlanNeverApproved
<1>1. TypeOK /\ WaitingAndStale => OnlyRefusals
  BY DEF WaitingAndStale, OnlyRefusals, Undecided
<1>2. OnlyRefusals /\ [Next]_vars => OnlyRefusals'
  BY RefusalStep
<1>3. OnlyRefusals => status # "approved"
  BY DEF OnlyRefusals
<1> QED
  BY <1>1, <1>2, <1>3, TypeCorrect, PTL DEF Spec, StalePlanNeverApproved
=============================================================================
