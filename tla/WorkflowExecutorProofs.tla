----------------------- MODULE WorkflowExecutorProofs -----------------------
(***************************************************************************)
(* Theorems about WorkflowExecutor, for every number of workers, steps and *)
(* crashes, every lease length and every choice of refusals.               *)
(***************************************************************************)
EXTENDS WorkflowExecutor, TLAPS

USE StepsAssumption, WorkersAssumption, JournalAssumption, ExecutorAssumption

-----------------------------------------------------------------------------
(* Helpers on calls keep the type of call.                                 *)

LEMMA ReturnType ==
  ASSUME call \in [Workers -> Call], NEW w \in Workers, Return(w)
  PROVE  call' \in [Workers -> Call]
BY DEF Return, Call, IdleCall, Phases

LEMMA EnterType ==
  ASSUME call \in [Workers -> Call], NEW w \in Workers,
         NEW phase \in Phases, NEW step \in 0..NumSteps, Enter(w, phase, step)
  PROVE  call' \in [Workers -> Call]
BY DEF Enter, Call

LEMMA AfterReturn ==
  ASSUME call \in [Workers -> Call], NEW w \in Workers, Return(w)
  PROVE  /\ call'[w] = IdleCall
         /\ \A v \in Workers : v # w => call'[v] = call[v]
BY DEF Return

LEMMA AfterEnter ==
  ASSUME call \in [Workers -> Call], NEW w \in Workers, NEW phase, NEW step,
         Enter(w, phase, step)
  PROVE  /\ call'[w].phase = phase /\ call'[w].step = step
         /\ \A v \in Workers : v # w => call'[v] = call[v]
BY DEF Enter, Call

LEMMA AfterOpen ==
  ASSUME call \in [Workers -> Call], NEW w \in Workers, NEW phase, NEW step,
         Open(w, phase, step)
  PROVE  /\ call'[w].phase = phase /\ call'[w].step = step /\ call'[w].at = now
         /\ \A v \in Workers : v # w => call'[v] = call[v]
BY DEF Open, IdleCall

LEMMA AfterOpenClaim ==
  ASSUME call \in [Workers -> Call], NEW w \in Workers, NEW term, NEW forTool,
         OpenClaim(w, term, forTool)
  PROVE  /\ call'[w].phase = "checking" /\ call'[w].at = now
         /\ \A v \in Workers : v # w => call'[v] = call[v]
BY DEF OpenClaim

LEMMA OpenType ==
  ASSUME call \in [Workers -> Call], now \in Nat, NEW w \in Workers,
         NEW phase \in Phases, NEW step \in 0..NumSteps, Open(w, phase, step)
  PROVE  call' \in [Workers -> Call]
<1>1. IdleCall \in Call
  BY DEF IdleCall, Call, Phases
<1>2. [IdleCall EXCEPT !.phase = phase, !.at = now, !.step = step] \in Call
  BY <1>1 DEF Call
<1> QED
  BY <1>2 DEF Open

LEMMA OpenClaimType ==
  ASSUME call \in [Workers -> Call], now \in Nat, NEW w \in Workers,
         NEW term \in LeaseTerms, NEW forTool \in BOOLEAN,
         OpenClaim(w, term, forTool)
  PROVE  call' \in [Workers -> Call]
<1>1. term \in Nat /\ now + term \in Nat
  OBVIOUS
<1> QED
  BY <1>1 DEF OpenClaim, Call, Phases

-----------------------------------------------------------------------------
(* The transactions of the store and of the journal keep their types.      *)

LEMMA StoreType ==
  ASSUME StoreTypeOK, NEW w \in Workers, NEW i \in 0..NumSteps, NEW at \in Nat,
         NEW until \in Nat, NEW finish \in BOOLEAN,
         \/ Claim(w, at, until)
         \/ CompleteGuard(w, i, at)
         \/ StartTool(w, i, at)
         \/ CompleteTool(w, i, at)
         \/ FailTool(w, i, at)
         \/ BeginCompensation(w, at)
         \/ StartCompensation(w, i, at)
         \/ CompleteCompensation(w, i, finish, at)
         \/ UNCHANGED storeVars
  PROVE  StoreTypeOK'
<1>0. \A s \in StepStatus : [steps EXCEPT ![i] = s] \in [Steps -> StepStatus]
  BY DEF StoreTypeOK
<1> USE <1>0 DEF StoreTypeOK, WorkflowStatus, StepStatus
<1>1. CASE Claim(w, at, until)
  BY <1>1 DEF Claim
<1>2. CASE CompleteGuard(w, i, at)
  BY <1>2 DEF CompleteGuard
<1>3. CASE StartTool(w, i, at)
  BY <1>3 DEF StartTool
<1>4. CASE CompleteTool(w, i, at)
  BY <1>4 DEF CompleteTool, KeepLease, ReleaseLease
<1>5. CASE FailTool(w, i, at)
  BY <1>5 DEF FailTool
<1>6. CASE BeginCompensation(w, at)
  BY <1>6 DEF BeginCompensation, KeepLease, ReleaseLease
<1>7. CASE StartCompensation(w, i, at)
  BY <1>7 DEF StartCompensation
<1>8. CASE CompleteCompensation(w, i, finish, at)
  BY <1>8 DEF CompleteCompensation, KeepLease, ReleaseLease
<1>9. CASE UNCHANGED storeVars
  BY <1>9 DEF storeVars
<1> QED
  BY <1>1, <1>2, <1>3, <1>4, <1>5, <1>6, <1>7, <1>8, <1>9

LEMMA JournalType ==
  ASSUME JournalTypeOK, NEW i \in 0..NumSteps,
         \/ ApplyEffect(i)
         \/ ReverseEffect(i)
         \/ UNCHANGED journalVars
  PROVE  JournalTypeOK'
BY DEF JournalTypeOK, ApplyEffect, ReverseEffect, journalVars

-----------------------------------------------------------------------------
(* Type correctness.                                                       *)

LEMMA InitType == Init => TypeOK
<1>1. IdleCall \in Call
  BY DEF IdleCall, Call, Phases
<1>2. StoreInit => StoreTypeOK
  BY DEF StoreInit, StoreTypeOK, WorkflowStatus, StepStatus, Steps
<1>3. JournalInit => JournalTypeOK
  BY DEF JournalInit, JournalTypeOK
<1>4. Init => call \in [Workers -> Call]
  BY <1>1 DEF Init
<1>5. Init => held \in [Workers -> 0..NumSteps]
  BY DEF Init
<1>6. Init => approved \in BOOLEAN /\ drifted \in BOOLEAN
  BY Zenon DEF Init
<1>7. Init => now \in Nat /\ crashes \in Nat
  BY DEF Init
<1>8. Init => StoreInit /\ JournalInit
  BY DEF Init
<1> QED
  BY <1>2, <1>3, <1>4, <1>5, <1>6, <1>7, <1>8 DEF TypeOK

\* Every call opens in a state of the right type.
LEMMA OpenCallType ==
  ASSUME TypeOK, NEW w \in Workers, OpenCall(w)
  PROVE  TypeOK'
<1> USE DEF TypeOK
<1>1. /\ StoreTypeOK' /\ JournalTypeOK'
      /\ held' \in [Workers -> 0..NumSteps]
      /\ approved' \in BOOLEAN /\ drifted' \in BOOLEAN
      /\ now' \in Nat /\ crashes' \in Nat
  <2>1. UNCHANGED <<storeVars, journalVars, envVars>>
    BY DEF OpenCall, CallClaim, CallBegin, CallGuard, CallContinue,
           CallExecute, CallCompensate
  <2>2. held' \in [Workers -> 0..NumSteps]
    <3>1. CASE CallContinue(w)
      <4>1. NextStartedTool => cursor + 1 \in 0..NumSteps
        BY DEF NextStartedTool, StoreTypeOK
      <4> QED
        BY <3>1, <4>1 DEF CallContinue
    <3>2. CASE ~CallContinue(w)
      BY <3>2 DEF OpenCall, CallClaim, CallBegin, CallGuard, CallExecute,
                  CallCompensate
    <3> QED
      BY <3>1, <3>2
  <2>3. StoreTypeOK' /\ JournalTypeOK'
    BY <2>1 DEF StoreTypeOK, JournalTypeOK, storeVars, journalVars
  <2> QED
    BY <2>1, <2>2, <2>3 DEF envVars
<1>2. call' \in [Workers -> Call]
  <2>0. cursor + 1 \in 0..NumSteps \/ ~NextPending
    BY DEF NextPending, StoreTypeOK
  <2>1. ASSUME NEW term \in LeaseTerms, CallClaim(w, term)
        PROVE  call' \in [Workers -> Call]
    BY <2>1, OpenClaimType DEF CallClaim
  <2>2. ASSUME NEW term \in LeaseTerms, CallBegin(w, term)
        PROVE  call' \in [Workers -> Call]
    BY <2>2, OpenClaimType DEF CallBegin
  <2>3. CASE CallGuard(w)
    BY <2>0, <2>3, OpenType DEF CallGuard, Phases
  <2>4. CASE CallContinue(w)
    BY <2>0, <2>4, OpenType DEF CallContinue, Phases
  <2>5. CASE CallExecute(w)
    BY <2>5, OpenType DEF CallExecute, Phases
  <2>6. CASE CallCompensate(w)
    BY <2>6, OpenType DEF CallCompensate, Phases
  <2> QED
    BY <2>1, <2>2, <2>3, <2>4, <2>5, <2>6 DEF OpenCall
<1> QED
  BY <1>1, <1>2

\* A step inside a call touches the rows or the journal, never the clock.
LEMMA ContinueType ==
  ASSUME TypeOK, NEW w \in Workers, Continue(w)
  PROVE  TypeOK'
<1> DEFINE c == call[w]
<1> USE DEF TypeOK
<1>0. /\ c.at \in Nat /\ c.until \in Nat /\ c.step \in 0..NumSteps
      /\ cursor \in 0..NumSteps
  BY DEF Call, StoreTypeOK
<1>00. call[w].phase \in Phases
  BY DEF Call
<1>1. /\ JournalTypeOK'
      /\ approved' \in BOOLEAN
      /\ now' \in Nat /\ crashes' \in Nat
  <2>1. CASE InvokeTool(w) \/ InvokeReversal(w)
    <3>1. JournalTypeOK'
      BY <1>0, <2>1, JournalType
         DEF InvokeTool, InvokeReversal, ReplayEffect, RefuseEffect,
             ReplayReversal, RefuseReversal
    <3> QED
      BY <2>1, <3>1 DEF InvokeTool, InvokeReversal
  <2>2. CASE ~(InvokeTool(w) \/ InvokeReversal(w))
    <3>1. UNCHANGED <<journalVars, envVars>>
      BY <2>2 DEF Continue, CheckClaim, CommitClaim, CommitGuard, CommitStart,
                  CommitCompletion, CommitFailure, CommitUnwind,
                  CommitReverseStart, CommitReverseEnd
    <3> QED
      BY <3>1 DEF journalVars, envVars, JournalTypeOK
  <2> QED
    BY <2>1, <2>2
<1>2. drifted' \in BOOLEAN
  <2>1. \/ UNCHANGED drifted
        \/ drifted' = (drifted \/ c.step \in VersionedTools)
    BY DEF Continue, CheckClaim, CommitClaim, CommitGuard, CommitStart,
           CommitCompletion, CommitFailure, CommitUnwind, CommitReverseStart,
           CommitReverseEnd, InvokeTool, InvokeReversal, envVars
  <2> QED
    BY <2>1, Zenon DEF TypeOK
<1>3. StoreTypeOK'
  <2>1. CASE CheckClaim(w) \/ InvokeTool(w) \/ InvokeReversal(w)
    BY <2>1 DEF CheckClaim, InvokeTool, InvokeReversal, StoreTypeOK, storeVars
  <2>2. CASE CommitClaim(w)
    BY <1>0, <2>2, StoreType DEF CommitClaim, storeVars, StoreTypeOK
  <2>3. CASE CommitGuard(w)
    BY <1>0, <2>3, StoreType DEF CommitGuard
  <2>4. CASE CommitStart(w)
    BY <1>0, <2>4, StoreType DEF CommitStart, storeVars, StoreTypeOK
  <2>5. CASE CommitCompletion(w)
    BY <1>0, <2>5, StoreType DEF CommitCompletion, storeVars, StoreTypeOK
  <2>6. CASE CommitFailure(w)
    BY <1>0, <2>6, StoreType DEF CommitFailure, storeVars, StoreTypeOK
  <2>7. CASE CommitUnwind(w)
    BY <1>0, <2>7, StoreType DEF CommitUnwind
  <2>8. CASE CommitReverseStart(w)
    BY <1>0, <2>8, StoreType DEF CommitReverseStart, Steps
  <2>9. CASE CommitReverseEnd(w)
    BY <1>0, <2>9, StoreType DEF CommitReverseEnd
  <2> QED
    BY <2>1, <2>2, <2>3, <2>4, <2>5, <2>6, <2>7, <2>8, <2>9 DEF Continue
<1>4. (NextPending \/ NextStartedTool) => cursor + 1 \in 0..NumSteps
  BY <1>0 DEF NextPending, NextStartedTool
<1>6. held' \in [Workers -> 0..NumSteps]
  BY <1>0, <1>4
     DEF Continue, CheckClaim, CommitClaim, CommitGuard, CommitStart,
         CommitCompletion, CommitFailure, CommitUnwind, CommitReverseStart,
         CommitReverseEnd, InvokeTool, InvokeReversal
<1>7. call' \in [Workers -> Call]
  <2>1. CASE Return(w)
    BY <2>1, ReturnType
  <2>2. CASE \E phase \in Phases, step \in 0..NumSteps : Enter(w, phase, step)
    BY <2>2, EnterType
  <2>3. \/ Return(w)
        \/ \E phase \in Phases, step \in 0..NumSteps : Enter(w, phase, step)
    BY <1>0, <1>4
       DEF Continue, CheckClaim, CommitClaim, CommitGuard, CommitStart,
           CommitCompletion, CommitFailure, CommitUnwind, CommitReverseStart,
           CommitReverseEnd, InvokeTool, InvokeReversal, Phases, Steps
  <2> QED
    BY <2>1, <2>2, <2>3
<1> QED
  BY <1>1, <1>2, <1>3, <1>6, <1>7, Zenon DEF TypeOK

\* TypeOK is an invariant: every value every variable ever takes is one the
\* rows, the journal or a call can hold.
THEOREM TypeCorrect == Spec => []TypeOK
<1>1. Init => TypeOK
  BY InitType
<1>2. TypeOK /\ [Next]_vars => TypeOK'
  <2> SUFFICES ASSUME TypeOK, [Next]_vars PROVE TypeOK'
    OBVIOUS
  <2>1. ASSUME NEW w \in Workers, OpenCall(w) PROVE TypeOK'
    BY <2>1, OpenCallType
  <2>2. ASSUME NEW w \in Workers, Continue(w) PROVE TypeOK'
    BY <2>2, ContinueType
  <2>3. ASSUME NEW w \in Workers, Crash(w) PROVE TypeOK'
    <3>1. call' \in [Workers -> Call]
      BY <2>3, ReturnType DEF Crash, TypeOK
    <3>2. held' \in [Workers -> 0..NumSteps] /\ crashes' \in Nat
      BY <2>3 DEF Crash, TypeOK
    <3> QED
      BY <2>3, <3>1, <3>2
         DEF Crash, TypeOK, StoreTypeOK, JournalTypeOK, storeVars, journalVars
  <2>4. CASE Approve \/ Drift
    <3>1. approved' \in BOOLEAN /\ drifted' \in BOOLEAN
      BY <2>4, Zenon DEF Approve, Drift, TypeOK
    <3> QED
      BY <2>4, <3>1
         DEF Approve, Drift, TypeOK, StoreTypeOK, JournalTypeOK, storeVars,
             journalVars
  <2>5. CASE Tick
    BY <2>5 DEF Tick, TypeOK, StoreTypeOK, JournalTypeOK, storeVars, journalVars
  <2>6. CASE UNCHANGED vars
    BY <2>6 DEF vars, TypeOK, StoreTypeOK, JournalTypeOK, storeVars,
                journalVars, envVars
  <2> QED
    BY <2>1, <2>2, <2>3, <2>4, <2>5, <2>6 DEF Next
<1> QED
  BY <1>1, <1>2, PTL DEF Spec

-----------------------------------------------------------------------------
(* Every step of the executor is, for the rows, one transaction of the     *)
(* store or nothing at all.                                                *)

Transaction(w, i, at, until, finish) ==
  \/ Claim(w, at, until)
  \/ CompleteGuard(w, i, at)
  \/ StartTool(w, i, at)
  \/ CompleteTool(w, i, at)
  \/ FailTool(w, i, at)
  \/ BeginCompensation(w, at)
  \/ StartCompensation(w, i, at)
  \/ CompleteCompensation(w, i, finish, at)

SomeTransaction ==
  \E w \in Workers, i \in 0..NumSteps, at \in Nat, until \in Nat,
     finish \in BOOLEAN : Transaction(w, i, at, until, finish)

LEMMA StepsAreTransactions ==
  ASSUME TypeOK, [Next]_vars
  PROVE  SomeTransaction \/ UNCHANGED storeVars
<1>1. ASSUME NEW w \in Workers, Continue(w)
      PROVE  SomeTransaction \/ UNCHANGED storeVars
  <2> DEFINE c == call[w]
  <2>0. c.at \in Nat /\ c.until \in Nat /\ c.step \in 0..NumSteps
    BY DEF Call, TypeOK
  <2> USE <2>0 DEF Transaction
  <2>1. CASE CheckClaim(w) \/ InvokeTool(w) \/ InvokeReversal(w)
    BY <2>1 DEF CheckClaim, InvokeTool, InvokeReversal
  <2>2. CASE CommitClaim(w)
    BY <2>2 DEF CommitClaim, SomeTransaction, storeVars
  <2>3. CASE CommitGuard(w)
    BY <2>3 DEF CommitGuard, SomeTransaction
  <2>4. CASE CommitStart(w)
    BY <2>4 DEF CommitStart, SomeTransaction, storeVars
  <2>5. CASE CommitCompletion(w)
    BY <2>5 DEF CommitCompletion, SomeTransaction, storeVars
  <2>6. CASE CommitFailure(w)
    BY <2>6 DEF CommitFailure, SomeTransaction, storeVars
  <2>7. CASE CommitUnwind(w)
    BY <2>7 DEF CommitUnwind, SomeTransaction
  <2>8. CASE CommitReverseStart(w)
    BY <2>8 DEF CommitReverseStart, SomeTransaction
  <2>9. CASE CommitReverseEnd(w)
    BY <2>9 DEF CommitReverseEnd, SomeTransaction
  <2> QED
    BY <1>1, <2>1, <2>2, <2>3, <2>4, <2>5, <2>6, <2>7, <2>8, <2>9 DEF Continue
<1>2. ASSUME NEW w \in Workers, OpenCall(w) \/ Crash(w)
      PROVE  UNCHANGED storeVars
  BY <1>2 DEF OpenCall, CallClaim, CallBegin, CallGuard, CallContinue,
              CallExecute, CallCompensate, Crash
<1>3. CASE Approve \/ Drift \/ Tick \/ UNCHANGED vars
  BY <1>3 DEF Approve, Drift, Tick, vars
<1> QED
  BY <1>1, <1>2, <1>3 DEF Next

-----------------------------------------------------------------------------
(* The rows of the workflow.                                               *)

LEMMA RowsTransaction ==
  ASSUME StoreTypeOK, RowsConsistent,
         NEW w \in Workers, NEW i \in 0..NumSteps, NEW at \in Nat,
         NEW until \in Nat, NEW finish \in BOOLEAN,
         Transaction(w, i, at, until, finish)
  PROVE  RowsConsistent'
<1> USE DEF StoreTypeOK, RowsConsistent, PriorSucceeded, Steps
<1>1. CASE Claim(w, at, until)
  BY <1>1 DEF Claim, CanClaim
<1>2. CASE CompleteGuard(w, i, at)
  BY <1>2 DEF CompleteGuard, CanCompleteGuard, RunningUnder, LeaseLive
<1>3. CASE StartTool(w, i, at)
  BY <1>3 DEF StartTool, CanStartTool, RunningUnder, LeaseLive
<1>4. CASE CompleteTool(w, i, at)
  BY <1>4 DEF CompleteTool, CanFinishTool, RunningUnder, LeaseLive, KeepLease,
              ReleaseLease
<1>5. CASE FailTool(w, i, at)
  BY <1>5 DEF FailTool, CanFinishTool, RunningUnder, LeaseLive
<1>6. CASE BeginCompensation(w, at)
  BY <1>6 DEF BeginCompensation, CanBeginCompensation, KeepLease, ReleaseLease
<1>7. CASE StartCompensation(w, i, at)
  BY <1>7 DEF StartCompensation, CanStartCompensation, CompletedTools
<1>8. CASE CompleteCompensation(w, i, finish, at)
  BY <1>8 DEF CompleteCompensation, CanCompleteCompensation, KeepLease,
              ReleaseLease
<1> QED
  BY <1>1, <1>2, <1>3, <1>4, <1>5, <1>6, <1>7, <1>8 DEF Transaction

\* The step rows and the cursor tell one story in every reachable state: no
\* interleaving of the compare-and-swaps produces rows the executor rejects.
THEOREM RowsStayConsistent == Spec => []RowsConsistent
<1>1. Init => RowsConsistent
  BY DEF Init, StoreInit, RowsConsistent, PriorSucceeded, Steps
<1>2. TypeOK /\ RowsConsistent /\ [Next]_vars => RowsConsistent'
  <2> SUFFICES ASSUME TypeOK, RowsConsistent, [Next]_vars
               PROVE  RowsConsistent'
    OBVIOUS
  <2>1. CASE SomeTransaction
    BY <2>1, RowsTransaction DEF SomeTransaction, TypeOK
  <2>2. CASE UNCHANGED storeVars
    BY <2>2 DEF storeVars, RowsConsistent, PriorSucceeded
  <2> QED
    BY <2>1, <2>2, StepsAreTransactions
<1> QED
  BY <1>1, <1>2, TypeCorrect, PTL DEF Spec

-----------------------------------------------------------------------------
(* The provider journal.                                                   *)

\* The counters and the two journal rows of a key move together.
JournalInv ==
  \A i \in ToolSteps :
    /\ applied[i] = (IF journal[i] = "absent" THEN 0 ELSE 1)
    /\ reversed[i] = (IF reversal[i] = "absent" THEN 0 ELSE 1)
    /\ reversal[i] = "succeeded" <=> journal[i] = "compensated"

LEMMA JournalInductive ==
  ASSUME TypeOK, JournalInv, [Next]_vars
  PROVE  JournalInv'
<1>1. ASSUME NEW w \in Workers, InvokeTool(w) PROVE JournalInv'
  <2>1. PICK i \in 0..NumSteps : ApplyEffect(i) \/ UNCHANGED journalVars
    BY <1>1 DEF InvokeTool, ReplayEffect, RefuseEffect, TypeOK, Call
  <2> QED
    BY <2>1 DEF ApplyEffect, journalVars, JournalInv, TypeOK, JournalTypeOK
<1>2. ASSUME NEW w \in Workers, InvokeReversal(w) PROVE JournalInv'
  <2>1. PICK i \in 0..NumSteps : ReverseEffect(i) \/ UNCHANGED journalVars
    BY <1>2 DEF InvokeReversal, ReplayReversal, RefuseReversal, TypeOK, Call
  <2> QED
    BY <2>1 DEF ReverseEffect, journalVars, JournalInv, TypeOK, JournalTypeOK
<1>3. CASE UNCHANGED journalVars
  BY <1>3 DEF journalVars, JournalInv
<1>4. ASSUME NEW w \in Workers, Continue(w), ~InvokeTool(w), ~InvokeReversal(w)
      PROVE  UNCHANGED journalVars
  BY <1>4 DEF Continue, CheckClaim, CommitClaim, CommitGuard, CommitStart,
              CommitCompletion, CommitFailure, CommitUnwind,
              CommitReverseStart, CommitReverseEnd
<1>5. ASSUME NEW w \in Workers, OpenCall(w) \/ Crash(w)
      PROVE  UNCHANGED journalVars
  BY <1>5 DEF OpenCall, CallClaim, CallBegin, CallGuard, CallContinue,
              CallExecute, CallCompensate, Crash
<1>6. CASE Approve \/ Drift \/ Tick \/ UNCHANGED vars
  BY <1>3, <1>6 DEF Approve, Drift, Tick, vars
<1> QED
  BY <1>1, <1>2, <1>3, <1>4, <1>5, <1>6 DEF Next

LEMMA JournalInvariant == Spec => []JournalInv
<1>1. Init => JournalInv
  BY DEF Init, JournalInit, JournalInv
<1>2. TypeOK /\ JournalInv /\ [Next]_vars => JournalInv'
  BY JournalInductive
<1> QED
  BY <1>1, <1>2, TypeCorrect, PTL DEF Spec

\* However many workers retry, crash and take over, the business effect of a
\* step is committed at most once and reversed at most once.
THEOREM EffectsHappenOnce == Spec => []AtMostOnceEffects
<1>1. TypeOK /\ JournalInv => AtMostOnceEffects
  BY DEF TypeOK, JournalTypeOK, JournalInv, AtMostOnceEffects
<1> QED
  BY <1>1, TypeCorrect, JournalInvariant, PTL

-----------------------------------------------------------------------------
(* Approval.                                                               *)

\* Once past the check of claim a call proves that the plan was approved, and
\* so does a workflow that left PENDING.
ApprovalInv ==
  /\ status # "pending" => approved
  /\ \A w \in Workers : call[w].phase \notin {"idle", "checking"} => approved
  /\ EffectsApproved

LEMMA ApprovalInductive ==
  ASSUME TypeOK, ApprovalInv, [Next]_vars
  PROVE  ApprovalInv'
<1> USE DEF ApprovalInv, EffectsApproved, TypeOK, JournalTypeOK
<1>1. ASSUME NEW w \in Workers, OpenCall(w) PROVE ApprovalInv'
  <2>1. UNCHANGED <<storeVars, journalVars, envVars>>
    BY <1>1 DEF OpenCall, CallClaim, CallBegin, CallGuard, CallContinue,
                CallExecute, CallCompensate
  <2>2. \A v \in Workers : v # w => call'[v] = call[v]
    BY <1>1 DEF OpenCall, CallClaim, CallBegin, CallGuard, CallContinue,
                CallExecute, CallCompensate, Open, OpenClaim
  <2>3. call'[w].phase \in {"idle", "checking"} \/ status # "pending"
    BY <1>1 DEF OpenCall, CallClaim, CallBegin, CallGuard, CallContinue,
                CallExecute, CallCompensate, OpenClaim, Idle
  <2> QED
    BY <2>1, <2>2, <2>3 DEF storeVars, journalVars, envVars
<1>2. ASSUME NEW w \in Workers, CheckClaim(w) PROVE ApprovalInv'
  <2>1. UNCHANGED <<storeVars, journalVars, envVars>>
    BY <1>2 DEF CheckClaim
  <2>2. \A v \in Workers : v # w => call'[v] = call[v]
    BY <1>2 DEF CheckClaim, Enter, Return
  <2>3. call'[w].phase = "idle" \/ approved
    BY <1>2 DEF CheckClaim, Return, IdleCall, Revalidated
  <2> QED
    BY <2>1, <2>2, <2>3 DEF storeVars, journalVars, envVars
<1>3. ASSUME NEW w \in Workers, Continue(w), ~CheckClaim(w) PROVE ApprovalInv'
  <2>1. approved /\ approved'
    BY <1>3 DEF Continue, CommitClaim, CommitGuard, CommitStart, InvokeTool,
                CommitCompletion, CommitFailure, CommitUnwind,
                CommitReverseStart, InvokeReversal, CommitReverseEnd, envVars
  <2> QED
    BY <2>1
<1>4. ASSUME NEW w \in Workers, Crash(w) PROVE ApprovalInv'
  BY <1>4 DEF Crash, Return, IdleCall, storeVars, journalVars
<1>5. CASE Approve
  BY <1>5 DEF Approve
<1>6. CASE Drift \/ Tick \/ UNCHANGED vars
  BY <1>6 DEF Drift, Tick, vars, storeVars, journalVars, envVars
<1> QED
  BY <1>1, <1>2, <1>3, <1>4, <1>5, <1>6 DEF Next

\* No path through claims, resumptions and takeovers commits an effect of a
\* plan that was never approved.
THEOREM EffectsAreApproved == Spec => []EffectsApproved
<1>1. Init => ApprovalInv
  BY DEF Init, StoreInit, JournalInit, IdleCall, ApprovalInv, EffectsApproved
<1>2. TypeOK /\ ApprovalInv /\ [Next]_vars => ApprovalInv'
  BY ApprovalInductive
<1>3. ApprovalInv => EffectsApproved
  BY DEF ApprovalInv
<1> QED
  BY <1>1, <1>2, <1>3, TypeCorrect, PTL DEF Spec

-----------------------------------------------------------------------------
(* Workflow rows against provider journal.                                 *)

\* What a call in flight knows, however long it has been stalled: the step it
\* executes was durably started, a completion has an effect behind it, and a
\* reversal a step that is being compensated.
CallKnows(c) ==
  /\ c.phase = "executing" => c.step \in ToolSteps /\ steps[c.step] # "pending"
  /\ c.phase = "completing" => c.step \in ToolSteps /\ journal[c.step] # "absent"
  /\ c.phase = "undoing" =>
       c.step \in ToolSteps /\ steps[c.step] \in {"compensating", "compensated"}
  /\ c.phase = "closing" =>
       c.step \in ToolSteps /\ journal[c.step] = "compensated"

CallsInv == \A w \in Workers : CallKnows(call[w])

LedgerInv == LedgerAgrees /\ CallsInv

\* A transaction of the store may move the step rows only forwards.
LEMMA StepsMoveForward ==
  ASSUME StoreTypeOK, SomeTransaction \/ UNCHANGED storeVars, NEW i \in Steps
  PROVE  /\ steps[i] # "pending" => steps'[i] # "pending"
         /\ steps[i] \in {"compensating", "compensated"}
              => steps'[i] \in {"compensating", "compensated"}
<1>1. CASE UNCHANGED storeVars
  BY <1>1 DEF storeVars
<1>2. CASE SomeTransaction
  <2>1. PICK w \in Workers, j \in 0..NumSteps, at \in Nat, until \in Nat,
             finish \in BOOLEAN : Transaction(w, j, at, until, finish)
    BY <1>2 DEF SomeTransaction
  <2>2. \/ UNCHANGED steps
        \/ /\ steps[j] = "pending"
           /\ steps' = [steps EXCEPT ![j] = "succeeded"]
        \/ /\ steps[j] = "pending"
           /\ steps' = [steps EXCEPT ![j] = "running"]
        \/ /\ steps[j] = "running"
           /\ \/ steps' = [steps EXCEPT ![j] = "succeeded"]
              \/ steps' = [steps EXCEPT ![j] = "failed"]
        \/ steps' = [steps EXCEPT ![j] = "compensating"]
        \/ steps' = [steps EXCEPT ![j] = "compensated"]
    BY <2>1
       DEF Transaction, Claim, CompleteGuard, CanCompleteGuard, StartTool,
           CanStartTool, CompleteTool, CanFinishTool, FailTool,
           BeginCompensation, StartCompensation, CompleteCompensation
  <2> QED
    BY <2>2 DEF StoreTypeOK
<1> QED
  BY <1>1, <1>2

LEMMA ToolsAreSteps == ToolSteps \subseteq Steps
BY DEF Steps

\* So do the rows of the journal.
LEMMA JournalMovesForward ==
  ASSUME TypeOK, [Next]_vars, NEW i \in ToolSteps
  PROVE  /\ journal[i] # "absent" => journal'[i] # "absent"
         /\ journal[i] = "compensated" => journal'[i] = "compensated"
<1> USE DEF TypeOK, JournalTypeOK
<1>1. ASSUME NEW w \in Workers, InvokeTool(w) \/ InvokeReversal(w)
      PROVE  \/ UNCHANGED journal
             \/ \E j : journal[j] = "absent" /\ journal' = [journal EXCEPT ![j] = "succeeded"]
             \/ \E j : journal' = [journal EXCEPT ![j] = "compensated"]
  BY <1>1 DEF InvokeTool, InvokeReversal, ApplyEffect, ReplayEffect,
              RefuseEffect, ReverseEffect, ReplayReversal, RefuseReversal,
              journalVars
<1>2. ASSUME NEW w \in Workers, Continue(w), ~InvokeTool(w), ~InvokeReversal(w)
      PROVE  UNCHANGED journal
  BY <1>2 DEF Continue, CheckClaim, CommitClaim, CommitGuard, CommitStart,
              CommitCompletion, CommitFailure, CommitUnwind,
              CommitReverseStart, CommitReverseEnd, journalVars
<1>3. ASSUME NEW w \in Workers, OpenCall(w) \/ Crash(w)
      PROVE  UNCHANGED journal
  BY <1>3 DEF OpenCall, CallClaim, CallBegin, CallGuard, CallContinue,
              CallExecute, CallCompensate, Crash, journalVars
<1>4. CASE Approve \/ Drift \/ Tick \/ UNCHANGED vars
  BY <1>4 DEF Approve, Drift, Tick, vars, journalVars
<1> QED
  BY <1>1, <1>2, <1>3, <1>4 DEF Next

\* A call that is not touched goes on knowing what it knew.
LEMMA StillKnows ==
  ASSUME TypeOK, [Next]_vars, NEW c, CallKnows(c)
  PROVE  /\ c.phase = "executing" => c.step \in ToolSteps /\ steps'[c.step] # "pending"
         /\ c.phase = "completing" => c.step \in ToolSteps /\ journal'[c.step] # "absent"
         /\ c.phase = "undoing" =>
              c.step \in ToolSteps /\ steps'[c.step] \in {"compensating", "compensated"}
         /\ c.phase = "closing" =>
              c.step \in ToolSteps /\ journal'[c.step] = "compensated"
<1>1. ASSUME NEW i \in ToolSteps
      PROVE  /\ steps[i] # "pending" => steps'[i] # "pending"
             /\ steps[i] \in {"compensating", "compensated"}
                  => steps'[i] \in {"compensating", "compensated"}
  BY StepsAreTransactions, StepsMoveForward DEF TypeOK, Steps
<1> QED
  BY <1>1, JournalMovesForward DEF CallKnows

LEMMA LedgerContinue ==
  ASSUME TypeOK, JournalInv, LedgerInv, NEW w \in Workers, Continue(w)
  PROVE  LedgerInv'
<1>0. /\ Next
      /\ call[w].step \in 0..NumSteps
      /\ \A v \in Workers : v # w => call'[v] = call[v]
  BY DEF Next, TypeOK, Call, Continue, CheckClaim, CommitClaim, CommitGuard,
         CommitStart, InvokeTool, CommitCompletion, CommitFailure,
         CommitUnwind, CommitReverseStart, InvokeReversal, CommitReverseEnd,
         Enter, Return
<1>1. \A v \in Workers : v # w => CallKnows(call[v])'
  BY <1>0, StillKnows DEF LedgerInv, CallsInv, CallKnows
<1>2. SUFFICES LedgerAgrees' /\ CallKnows(call[w])'
  BY <1>1 DEF LedgerInv, CallsInv
<1> DEFINE i == call[w].step
           Keeps == CallKnows(call[w])'
<1>3. CallKnows(call[w]) /\ LedgerAgrees
  BY DEF LedgerInv, CallsInv
<1>4. Return(w) => Keeps
  BY AfterReturn DEF CallKnows, IdleCall, TypeOK
<1>5. ASSUME NEW phase, NEW step, Enter(w, phase, step),
             phase \notin {"executing", "completing", "undoing", "closing"}
      PROVE  Keeps
  BY <1>5, AfterEnter DEF CallKnows, TypeOK
<1> USE DEF LedgerAgrees, TypeOK, StoreTypeOK, JournalTypeOK
<1>6. CASE CheckClaim(w)
  BY <1>3, <1>4, <1>5, <1>6 DEF CheckClaim, storeVars, journalVars
<1>7. CASE CommitClaim(w)
  BY <1>3, <1>4, <1>5, <1>7 DEF CommitClaim, Claim, storeVars, journalVars
<1>8. CASE CommitGuard(w)
  <2>1. /\ UNCHANGED journal
        /\ \/ UNCHANGED steps
           \/ i \notin ToolSteps /\ steps' = [steps EXCEPT ![i] = "succeeded"]
    BY <1>8 DEF CommitGuard, CompleteGuard, CanCompleteGuard, storeVars,
                journalVars
  <2>2. LedgerAgrees'
    BY <1>3, <2>1, ToolsAreSteps
  <2> QED
    BY <1>4, <1>8, <2>2 DEF CommitGuard
<1>9. CASE CommitStart(w)
  <2>1. /\ UNCHANGED journal
        /\ \/ UNCHANGED steps
           \/ steps[i] = "pending" /\ steps' = [steps EXCEPT ![i] = "running"]
    BY <1>9 DEF CommitStart, StartTool, CanStartTool, storeVars, journalVars
  <2>2. LedgerAgrees'
    BY <1>3, <2>1, ToolsAreSteps
  <2> QED
    BY <1>4, <1>9, <2>2 DEF CommitStart
<1>10. CASE InvokeTool(w)
  <2>1. UNCHANGED steps /\ call[w].phase = "executing"
    BY <1>10 DEF InvokeTool, storeVars
  <2>2. i \in ToolSteps /\ steps[i] # "pending"
    BY <1>3, <2>1 DEF CallKnows
  <2>3. CASE ApplyEffect(i) /\ Enter(w, "completing", i)
    <3>1. LedgerAgrees'
      BY <1>3, <2>1, <2>2, <2>3, ToolsAreSteps DEF ApplyEffect
    <3>2. journal'[i] # "absent"
      BY <2>2, <2>3 DEF ApplyEffect
    <3> QED
      BY <2>2, <2>3, <3>1, <3>2, AfterEnter DEF CallKnows
  <2>4. CASE ReplayEffect(i) /\ Enter(w, "completing", i)
    <3>1. UNCHANGED journal /\ journal[i] = "succeeded"
      BY <2>4 DEF ReplayEffect, journalVars
    <3> QED
      BY <1>3, <2>1, <2>2, <2>4, <3>1, AfterEnter DEF CallKnows
  <2>5. CASE RefuseEffect(i) /\ Enter(w, "failing", i)
    <3>1. UNCHANGED journal
      BY <2>5 DEF RefuseEffect, journalVars
    <3> QED
      BY <1>3, <1>5, <2>1, <2>5, <3>1
  <2> QED
    BY <1>10, <2>3, <2>4, <2>5 DEF InvokeTool
<1>11. CASE CommitCompletion(w)
  <2>1. /\ UNCHANGED journal /\ Return(w)
        /\ i \in ToolSteps /\ journal[i] # "absent"
    BY <1>3, <1>11 DEF CommitCompletion, CallKnows, journalVars
  <2>2. \/ UNCHANGED steps
        \/ steps[i] = "running" /\ steps' = [steps EXCEPT ![i] = "succeeded"]
    BY <1>11 DEF CommitCompletion, CompleteTool, CanFinishTool, storeVars
  <2>3. LedgerAgrees'
    BY <1>3, <2>1, <2>2, ToolsAreSteps
  <2> QED
    BY <1>4, <2>1, <2>3
<1>12. CASE CommitFailure(w)
  <2>1. /\ UNCHANGED journal
        /\ \/ UNCHANGED steps
           \/ steps[i] = "running" /\ steps' = [steps EXCEPT ![i] = "failed"]
    BY <1>12 DEF CommitFailure, FailTool, CanFinishTool, storeVars, journalVars
  <2>2. LedgerAgrees'
    BY <1>3, <2>1, ToolsAreSteps
  <2> QED
    BY <1>4, <1>5, <1>12, <2>2 DEF CommitFailure
<1>13. CASE CommitUnwind(w)
  <2>1. UNCHANGED <<steps, journal>>
    BY <1>13 DEF CommitUnwind, BeginCompensation, storeVars, journalVars
  <2> QED
    BY <1>3, <1>4, <1>5, <1>13, <2>1 DEF CommitUnwind
<1>14. CASE CommitReverseStart(w)
  <2>1. CASE UNCHANGED storeVars /\ Return(w)
    BY <1>3, <1>4, <1>14, <2>1 DEF CommitReverseStart, storeVars, journalVars
  <2>2. ASSUME NEW j \in ToolSteps, StartCompensation(w, j, call[w].at),
               Enter(w, "undoing", j)
        PROVE  LedgerAgrees' /\ Keeps
    <3>1. /\ UNCHANGED journal
          /\ steps[j] = "succeeded"
          /\ steps' = [steps EXCEPT ![j] = "compensating"]
      BY <1>14, <2>2 DEF CommitReverseStart, StartCompensation,
                         CanStartCompensation, CompletedTools, journalVars
    <3>2. LedgerAgrees' /\ steps'[j] = "compensating"
      BY <1>3, <3>1, ToolsAreSteps
    <3> QED
      BY <2>2, <3>2, AfterEnter DEF CallKnows
  <2> QED
    BY <1>14, <2>1, <2>2 DEF CommitReverseStart
<1>15. CASE InvokeReversal(w)
  <2>1. UNCHANGED steps /\ call[w].phase = "undoing"
    BY <1>15 DEF InvokeReversal, storeVars
  <2>2. i \in ToolSteps /\ steps[i] \in {"compensating", "compensated"}
    BY <1>3, <2>1 DEF CallKnows
  <2>3. CASE ReverseEffect(i) /\ Enter(w, "closing", i)
    <3>1. LedgerAgrees' /\ journal'[i] = "compensated"
      BY <1>3, <2>1, <2>2, <2>3, ToolsAreSteps DEF ReverseEffect
    <3> QED
      BY <2>2, <2>3, <3>1, AfterEnter DEF CallKnows
  <2>4. CASE ReplayReversal(i) /\ Enter(w, "closing", i)
    <3>1. UNCHANGED journal /\ journal[i] = "compensated"
      BY <2>2, <2>4 DEF ReplayReversal, journalVars, JournalInv
    <3> QED
      BY <1>3, <2>1, <2>2, <2>4, <3>1, AfterEnter DEF CallKnows
  <2>5. CASE RefuseReversal(i) /\ Return(w)
    BY <1>3, <1>4, <2>1, <2>5 DEF RefuseReversal, journalVars
  <2> QED
    BY <1>15, <2>3, <2>4, <2>5 DEF InvokeReversal
<1>16. CASE CommitReverseEnd(w)
  <2>1. /\ UNCHANGED journal
        /\ i \in ToolSteps /\ journal[i] = "compensated"
    BY <1>3, <1>16 DEF CommitReverseEnd, CallKnows, journalVars
  <2>2. \/ UNCHANGED steps
        \/ steps' = [steps EXCEPT ![i] = "compensated"]
    BY <1>16 DEF CommitReverseEnd, CompleteCompensation, storeVars
  <2>3. LedgerAgrees'
    BY <1>3, <2>1, <2>2, ToolsAreSteps
  <2> QED
    BY <1>4, <1>5, <1>16, <2>3 DEF CommitReverseEnd
<1> QED
  BY <1>6, <1>7, <1>8, <1>9, <1>10, <1>11, <1>12, <1>13, <1>14, <1>15, <1>16
     DEF Continue

LEMMA LedgerInvariant == Spec => []LedgerInv
<1>1. Init => LedgerInv
  BY DEF Init, StoreInit, JournalInit, IdleCall, LedgerInv, LedgerAgrees,
         CallsInv, CallKnows, Steps
<1>2. TypeOK /\ JournalInv /\ LedgerInv /\ [Next]_vars => LedgerInv'
  <2> SUFFICES ASSUME TypeOK, JournalInv, LedgerInv, [Next]_vars
               PROVE  LedgerInv'
    OBVIOUS
  <2> USE DEF LedgerInv, LedgerAgrees, CallsInv
  <2>1. ASSUME NEW w \in Workers, Continue(w) PROVE LedgerInv'
    BY <2>1, LedgerContinue
  <2>2. ASSUME NEW w \in Workers, OpenCall(w) PROVE LedgerInv'
    <3>1. UNCHANGED <<storeVars, journalVars>>
      BY <2>2 DEF OpenCall, CallClaim, CallBegin, CallGuard, CallContinue,
                  CallExecute, CallCompensate
    <3>2. \A v \in Workers : v # w => CallKnows(call[v])'
      <4>1. \A v \in Workers : v # w => call'[v] = call[v]
        BY <2>2 DEF OpenCall, CallClaim, CallBegin, CallGuard, CallContinue,
                    CallExecute, CallCompensate, Open, OpenClaim, TypeOK
      <4> QED
        BY <3>1, <4>1 DEF storeVars, journalVars, CallKnows
    <3>3. CallKnows(call[w])'
      <4>1. ASSUME NEW term, CallClaim(w, term) \/ CallBegin(w, term)
            PROVE  CallKnows(call[w])'
        BY <4>1, AfterOpenClaim DEF CallClaim, CallBegin, TypeOK, CallKnows
      <4>2. CASE CallGuard(w) \/ CallCompensate(w)
        BY <4>2, AfterOpen DEF CallGuard, CallCompensate, TypeOK, CallKnows
      <4>3. CASE CallContinue(w)
        <5>1. CASE Open(w, "starting", cursor + 1)
          BY <5>1, AfterOpen DEF TypeOK, CallKnows
        <5>2. CASE UNCHANGED call
          BY <3>1, <5>2 DEF storeVars, journalVars, CallKnows
        <5> QED
          BY <4>3, <5>1, <5>2 DEF CallContinue
      <4>4. CASE CallExecute(w)
        <5>1. /\ Open(w, "executing", held[w])
              /\ held[w] \in ToolSteps /\ steps[held[w]] = "running"
          BY <4>4 DEF CallExecute, NextStartedTool
        <5> QED
          BY <3>1, <5>1, AfterOpen DEF TypeOK, CallKnows, storeVars
      <4> QED
        BY <2>2, <4>1, <4>2, <4>3, <4>4 DEF OpenCall
    <3> QED
      BY <3>1, <3>2, <3>3 DEF storeVars, journalVars
  <2>3. ASSUME NEW w \in Workers, Crash(w) PROVE LedgerInv'
    BY <2>3 DEF Crash, Return, IdleCall, storeVars, journalVars, TypeOK,
                CallKnows
  <2>4. CASE Approve \/ Drift \/ Tick \/ UNCHANGED vars
    BY <2>4 DEF Approve, Drift, Tick, vars, storeVars, journalVars, CallKnows
  <2> QED
    BY <2>1, <2>2, <2>3, <2>4 DEF Next
<1> QED
  BY <1>1, <1>2, TypeCorrect, JournalInvariant, PTL DEF Spec

\* What the rows say happened, happened at the provider, and nothing else did:
\* a completed step has its effect, a compensated one was reversed, a step
\* that was never started has no effect.
THEOREM LedgerStaysTrue == Spec => []LedgerAgrees
<1>1. LedgerInv => LedgerAgrees
  BY DEF LedgerInv
<1> QED
  BY <1>1, LedgerInvariant, PTL

-----------------------------------------------------------------------------
(* One worker unwinds.                                                     *)

\* A worker inside the compensation loop owns the workflow it unwinds.
UnwindersInv ==
  \A w \in Workers :
    call[w].phase \in {"reversing", "undoing", "closing"} =>
      status = "compensating" /\ owner = w

LEMMA UnwindersInvariant == Spec => []UnwindersInv
<1>1. Init => UnwindersInv
  BY DEF Init, IdleCall, UnwindersInv
<1>2. TypeOK /\ UnwindersInv /\ [Next]_vars => UnwindersInv'
  <2> SUFFICES ASSUME TypeOK, UnwindersInv, [Next]_vars
               PROVE  UnwindersInv'
    OBVIOUS
  <2> DEFINE Loop == {"reversing", "undoing", "closing"}
  <2>1. ASSUME NEW w \in Workers, Continue(w) PROVE UnwindersInv'
    <3>1. \A v \in Workers : v # w => call'[v] = call[v]
      BY <2>1 DEF TypeOK, Continue, CheckClaim, CommitClaim, CommitGuard,
                  CommitStart, InvokeTool, CommitCompletion, CommitFailure,
                  CommitUnwind, CommitReverseStart, InvokeReversal,
                  CommitReverseEnd, Enter, Return
    <3>2. status = "compensating" /\ owner # w => UNCHANGED <<status, owner>>
      BY <2>1 DEF Continue, CheckClaim, CommitClaim, Claim, CanClaim,
                  CommitGuard, CompleteGuard, CanCompleteGuard, CommitStart,
                  StartTool, CanStartTool, InvokeTool, CommitCompletion,
                  CompleteTool, CanFinishTool, CommitFailure, FailTool,
                  RunningUnder, CommitUnwind, BeginCompensation,
                  CanBeginCompensation, CommitReverseStart, StartCompensation,
                  InvokeReversal, CommitReverseEnd, CompleteCompensation,
                  CanCompleteCompensation, LeaseLive, storeVars
    <3>3. call'[w].phase \in Loop => status' = "compensating" /\ owner' = w
      <4>1. Return(w) => call'[w].phase \notin Loop
        BY AfterReturn DEF TypeOK, IdleCall
      <4>2. ASSUME NEW phase, NEW step, Enter(w, phase, step), phase \notin Loop
            PROVE  call'[w].phase \notin Loop
        BY <4>2, AfterEnter DEF TypeOK
      <4>3. CASE \/ CheckClaim(w) \/ CommitClaim(w) \/ CommitGuard(w)
                 \/ CommitStart(w) \/ InvokeTool(w) \/ CommitCompletion(w)
                 \/ CommitFailure(w)
        BY <4>1, <4>2, <4>3
           DEF CheckClaim, CommitClaim, CommitGuard, CommitStart, InvokeTool,
               CommitCompletion, CommitFailure
      <4>4. CASE CommitUnwind(w)
        BY <4>1, <4>4 DEF CommitUnwind, BeginCompensation,
                          CanBeginCompensation, LeaseLive, KeepLease
      <4>5. CASE CommitReverseStart(w) \/ InvokeReversal(w)
        BY <4>1, <4>5 DEF CommitReverseStart, StartCompensation,
                          InvokeReversal, storeVars, UnwindersInv
      <4>6. CASE CommitReverseEnd(w)
        BY <4>1, <4>6 DEF CommitReverseEnd, CompleteCompensation, KeepLease,
                          UnwindersInv
      <4> QED
        BY <2>1, <4>3, <4>4, <4>5, <4>6 DEF Continue
    <3> QED
      BY <3>1, <3>2, <3>3 DEF UnwindersInv
  <2>2. ASSUME NEW w \in Workers, OpenCall(w) \/ Crash(w) PROVE UnwindersInv'
    <3>1. UNCHANGED storeVars
      BY <2>2 DEF OpenCall, CallClaim, CallBegin, CallGuard, CallContinue,
                  CallExecute, CallCompensate, Crash
    <3>2. \A v \in Workers : v # w => call'[v] = call[v]
      BY <2>2 DEF OpenCall, CallClaim, CallBegin, CallGuard, CallContinue,
                  CallExecute, CallCompensate, Crash, Return, Open, OpenClaim,
                  TypeOK
    <3>3. call'[w] = call[w] \/ call'[w].phase \notin Loop
      <4>1. ASSUME NEW term, CallClaim(w, term) \/ CallBegin(w, term)
            PROVE  call'[w].phase \notin Loop
        BY <4>1, AfterOpenClaim DEF CallClaim, CallBegin, TypeOK
      <4>2. CASE CallGuard(w) \/ CallCompensate(w) \/ CallExecute(w)
        BY <4>2, AfterOpen DEF CallGuard, CallCompensate, CallExecute, TypeOK
      <4>3. CASE CallContinue(w)
        BY <4>3, AfterOpen DEF CallContinue, TypeOK
      <4>4. CASE Crash(w)
        BY <4>4, AfterReturn DEF Crash, TypeOK, IdleCall
      <4> QED
        BY <2>2, <4>1, <4>2, <4>3, <4>4 DEF OpenCall
    <3> QED
      BY <3>1, <3>2, <3>3 DEF storeVars, UnwindersInv
  <2>3. CASE Approve \/ Drift \/ Tick \/ UNCHANGED vars
    BY <2>3 DEF Approve, Drift, Tick, vars, storeVars, UnwindersInv
  <2> QED
    BY <2>1, <2>2, <2>3 DEF Next
<1> QED
  BY <1>1, <1>2, TypeCorrect, PTL DEF Spec

\* Two workers never walk the reverse steps of one workflow at the same time.
THEOREM SingleUnwinder == Spec => []OneUnwinder
<1>1. UnwindersInv => OneUnwinder
  BY DEF UnwindersInv, OneUnwinder
<1> QED
  BY <1>1, UnwindersInvariant, PTL

-----------------------------------------------------------------------------
(* Leases and final states.                                                *)

\* A call compares leases with a time that is not in the future.
ClockInv ==
  /\ \A w \in Workers : call[w].at <= now
  /\ status = "pending" => owner = NoWorker

LEMMA ClockInvariant == Spec => []ClockInv
<1>1. Init => ClockInv
  BY DEF Init, StoreInit, IdleCall, ClockInv
<1>2. TypeOK /\ ClockInv /\ [Next]_vars => ClockInv'
  <2> SUFFICES ASSUME TypeOK, ClockInv, [Next]_vars PROVE ClockInv'
    OBVIOUS
  <2>1. status' = "pending" => owner' = NoWorker
    <3>1. CASE SomeTransaction
      BY <3>1 DEF SomeTransaction, Transaction, Claim, CompleteGuard,
                  CanCompleteGuard, StartTool, CanStartTool, CompleteTool,
                  CanFinishTool, RunningUnder, FailTool, BeginCompensation,
                  StartCompensation, CanStartCompensation,
                  CompleteCompensation, CanCompleteCompensation
    <3>2. CASE UNCHANGED storeVars
      BY <3>2 DEF storeVars, ClockInv
    <3> QED
      BY <3>1, <3>2, StepsAreTransactions
  <2>2. ASSUME NEW w \in Workers, Continue(w) \/ Crash(w)
        PROVE  \A v \in Workers : call'[v].at <= now'
    <3>1. UNCHANGED now
      BY <2>2 DEF Crash, Continue, CheckClaim, CommitClaim, CommitGuard,
                  CommitStart, InvokeTool, CommitCompletion, CommitFailure,
                  CommitUnwind, CommitReverseStart, InvokeReversal,
                  CommitReverseEnd, envVars
    <3>2. Return(w) \/ \E phase, step : Enter(w, phase, step)
      BY <2>2 DEF Crash, Continue, CheckClaim, CommitClaim, CommitGuard,
                  CommitStart, InvokeTool, CommitCompletion, CommitFailure,
                  CommitUnwind, CommitReverseStart, InvokeReversal,
                  CommitReverseEnd
    <3>3. CASE Return(w)
      BY <3>1, <3>3, AfterReturn DEF ClockInv, TypeOK, IdleCall
    <3>4. CASE \E phase, step : Enter(w, phase, step)
      BY <3>1, <3>4 DEF ClockInv, TypeOK, Enter, Call
    <3> QED
      BY <3>2, <3>3, <3>4
  <2>3. ASSUME NEW w \in Workers, OpenCall(w)
        PROVE  \A v \in Workers : call'[v].at <= now'
    <3>1. UNCHANGED now
      BY <2>3 DEF OpenCall, CallClaim, CallBegin, CallGuard, CallContinue,
                  CallExecute, CallCompensate, envVars
    <3>2. \/ \E term, forTool : OpenClaim(w, term, forTool)
          \/ \E phase, step : Open(w, phase, step)
          \/ UNCHANGED call
      BY <2>3 DEF OpenCall, CallClaim, CallBegin, CallGuard, CallContinue,
                  CallExecute, CallCompensate
    <3>3. CASE \E term, forTool : OpenClaim(w, term, forTool)
      <4>1. /\ call'[w].at = now
            /\ \A v \in Workers : v # w => call'[v] = call[v]
        BY <3>3, AfterOpenClaim DEF TypeOK
      <4> QED
        BY <3>1, <4>1 DEF ClockInv, TypeOK
    <3>4. CASE \E phase, step : Open(w, phase, step)
      <4>1. /\ call'[w].at = now
            /\ \A v \in Workers : v # w => call'[v] = call[v]
        BY <3>4, AfterOpen DEF TypeOK
      <4> QED
        BY <3>1, <4>1 DEF ClockInv, TypeOK
    <3>5. CASE UNCHANGED call
      BY <3>1, <3>5 DEF ClockInv
    <3> QED
      BY <3>2, <3>3, <3>4, <3>5
  <2>4. CASE Approve \/ Drift \/ Tick \/ UNCHANGED vars
    <3>1. UNCHANGED call /\ now' \in {now, now + 1}
      BY <2>4 DEF Approve, Drift, Tick, vars, envVars
    <3>2. now \in Nat /\ \A w \in Workers : call[w].at \in Nat
      BY DEF TypeOK, Call
    <3>3. \A w \in Workers : call'[w].at <= now'
      BY <3>1, <3>2 DEF ClockInv
    <3> QED
      BY <2>1, <3>3 DEF ClockInv
  <2> QED
    BY <2>1, <2>2, <2>3, <2>4 DEF Next, ClockInv
<1> QED
  BY <1>1, <1>2, TypeCorrect, PTL DEF Spec

\* A worker that holds a lease loses it to another one only after the lease
\* ran out, although claims carry timestamps their callers read earlier.
THEOREM LeaseTakeover == Spec => TakeoverAfterExpiry
<1>1. TypeOK /\ ClockInv /\ [Next]_vars =>
        (owner # NoWorker /\ owner' \notin {owner, NoWorker} => expires <= now)
  <2> SUFFICES ASSUME TypeOK, ClockInv, [Next]_vars, owner # NoWorker,
                      owner' \notin {owner, NoWorker}
               PROVE  expires <= now
    OBVIOUS
  <2>1. PICK w \in Workers : Continue(w)
    BY DEF Next, OpenCall, CallClaim, CallBegin, CallGuard, CallContinue,
           CallExecute, CallCompensate, Crash, Approve, Drift, Tick, vars,
           storeVars
  <2>2. Claim(w, call[w].at, call[w].until)
    BY <2>1 DEF Continue, CheckClaim, CommitClaim, CommitGuard, CompleteGuard,
                CommitStart, StartTool, InvokeTool, CommitCompletion,
                CompleteTool, CommitFailure, FailTool, CommitUnwind,
                BeginCompensation, CommitReverseStart, StartCompensation,
                InvokeReversal, CommitReverseEnd, CompleteCompensation,
                KeepLease, ReleaseLease, storeVars
  <2>3. expires <= call[w].at
    BY <2>2 DEF Claim, CanClaim, LeaseLive, ClockInv
  <2> QED
    BY <2>3 DEF ClockInv, TypeOK, StoreTypeOK, Call
<1> QED
  BY <1>1, TypeCorrect, ClockInvariant, PTL DEF Spec, TakeoverAfterExpiry

\* A finished workflow never changes again, however late a stalled worker's
\* completion, failure or compensation arrives.
THEOREM FinishedStaysFinal == Spec => FinishedIsFinal
<1>1. TypeOK /\ [Next]_vars =>
        (status \in {"succeeded", "compensated"} => UNCHANGED storeVars)
  <2> SUFFICES ASSUME TypeOK, [Next]_vars, status \in {"succeeded", "compensated"}
               PROVE  ~SomeTransaction
    BY StepsAreTransactions
  <2> QED
    BY DEF SomeTransaction, Transaction, Claim, CanClaim, CompleteGuard,
           CanCompleteGuard, StartTool, CanStartTool, CompleteTool,
           CanFinishTool, RunningUnder, FailTool, BeginCompensation,
           CanBeginCompensation, StartCompensation, CanStartCompensation,
           CompleteCompensation, CanCompleteCompensation
<1> QED
  BY <1>1, TypeCorrect, PTL DEF Spec, FinishedIsFinal
=============================================================================
