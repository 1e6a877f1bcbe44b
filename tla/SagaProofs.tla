------------------------------ MODULE SagaProofs ------------------------------
(***************************************************************************)
(* The executor implements the abstract saga: seen through the journal and *)
(* the status, every step of its workers, crashes and takeovers is a step  *)
(* of Saga or none.  With it, what the executor promises about plans whose *)
(* source records changed before they were started.                        *)
(***************************************************************************)
EXTENDS WorkflowExecutorProofs

USE StepsAssumption, WorkersAssumption, JournalAssumption, ExecutorAssumption

-----------------------------------------------------------------------------
(* The order of the unwinding.                                             *)

\* The reverse steps are walked from the last to the first, one at a time.
UnwindOrder ==
  \A j, k \in ToolSteps :
    j < k /\ k <= cursor /\ steps[j] # "succeeded" => steps[k] = "compensated"

\* Where a worker in the compensation loop stands.
LoopKnows(c) ==
  /\ c.phase = "reversing" => \A i \in ToolSteps : steps[i] # "compensating"
  /\ c.phase \in {"undoing", "closing"} =>
       c.step \in ToolSteps /\ steps[c.step] = "compensating"

UnwindingInv ==
  /\ \A i \in ToolSteps : steps[i] = "compensating" => journal[i] # "absent"
  /\ status = "pending" => \A i \in Steps : steps[i] = "pending"
  /\ UnwindOrder
  /\ \A w \in Workers : LoopKnows(call[w])

\* What the theorems of WorkflowExecutorProofs establish of every state.
ExecutorInv ==
  /\ TypeOK /\ RowsConsistent /\ JournalInv /\ LedgerInv /\ UnwindersInv

LEMMA ExecutorInvariant == Spec => []ExecutorInv
BY TypeCorrect, RowsStayConsistent, JournalInvariant, LedgerInvariant,
   UnwindersInvariant, PTL DEF ExecutorInv

LEMMA OrderTransaction ==
  ASSUME StoreTypeOK, StoreTypeOK', RowsConsistent, RowsConsistent', UnwindOrder,
         SomeTransaction,
         \A w \in Workers, i \in Steps, at \in Nat :
           StartCompensation(w, i, at) =>
             /\ i \in ToolSteps
             /\ \A j \in ToolSteps : j > i => steps[j] # "succeeded"
             /\ \A j \in ToolSteps : steps[j] # "compensating"
  PROVE  UnwindOrder'
<1>1. PICK w \in Workers, i \in 0..NumSteps, at \in Nat, until \in Nat,
           finish \in BOOLEAN : Transaction(w, i, at, until, finish)
  BY DEF SomeTransaction
<1>2. CASE status' \in {"pending", "running", "succeeded", "failed"}
  <2>1. \A j \in 1..cursor' : steps'[j] = "succeeded"
    BY <1>2 DEF RowsConsistent, PriorSucceeded
  <2> QED
    BY <2>1 DEF UnwindOrder, StoreTypeOK
<1>3. CASE BeginCompensation(w, at)
  BY <1>3 DEF BeginCompensation, UnwindOrder
<1>4. CASE StartCompensation(w, i, at)
  <2>1. /\ steps[i] = "succeeded" /\ i \in ToolSteps
        /\ steps' = [steps EXCEPT ![i] = "compensating"] /\ cursor' = cursor
    BY <1>4 DEF StartCompensation, CanStartCompensation, CompletedTools
  <2>2. \A j \in ToolSteps : j > i => steps[j] # "succeeded"
    BY <1>4, <2>1 DEF Steps
  <2>3. \A j \in ToolSteps : steps[j] # "compensating"
    BY <1>4, <2>1 DEF Steps
  <2>4. \A j \in ToolSteps : j > i /\ j <= cursor => steps[j] = "compensated"
    BY <2>2, <2>3 DEF RowsConsistent, Steps
  <2> QED
    BY <2>1, <2>4 DEF UnwindOrder, StoreTypeOK, Steps
<1>5. CASE CompleteCompensation(w, i, finish, at)
  <2>1. /\ steps[i] = "compensating" /\ i \in ToolSteps
        /\ steps' = [steps EXCEPT ![i] = "compensated"] /\ cursor' = cursor
    BY <1>5 DEF CompleteCompensation, CanCompleteCompensation
  <2> QED
    BY <2>1 DEF UnwindOrder, StoreTypeOK, Steps
<1>6. CASE ~BeginCompensation(w, at) /\ ~StartCompensation(w, i, at)
           /\ ~CompleteCompensation(w, i, finish, at)
  <2>1. status' \in {"pending", "running", "succeeded", "failed"}
    BY <1>1, <1>6 DEF Transaction, Claim, CompleteGuard, CanCompleteGuard, StartTool,
            CanStartTool, CompleteTool, CanFinishTool, RunningUnder, FailTool
  <2> QED
    BY <1>2, <2>1
<1> QED
  BY <1>1, <1>3, <1>4, <1>5, <1>6

\* Only a worker in the loop starts a reverse step, and it takes the last one.
LEMMA ReverseStart ==
  ASSUME TypeOK, UnwindingInv, [Next]_vars,
         NEW w \in Workers, NEW i \in Steps, NEW at \in Nat,
         StartCompensation(w, i, at)
  PROVE  /\ i \in ToolSteps
         /\ \A j \in ToolSteps : j > i => steps[j] # "succeeded"
         /\ \A j \in ToolSteps : steps[j] # "compensating"
<1> USE DEF TypeOK, StoreTypeOK
<1>1. /\ i \in ToolSteps /\ steps[i] = "succeeded" /\ steps'[i] = "compensating"
      /\ \A j \in Steps : j # i => steps'[j] = steps[j]
  BY DEF StartCompensation, CanStartCompensation, CompletedTools
<1>2. PICK v \in Workers : Continue(v)
  BY <1>1 DEF Next, OpenCall, CallClaim, CallBegin, CallGuard, CallContinue,
              CallExecute, CallCompensate, Crash, Approve, Drift, Tick, vars,
              storeVars
<1>3. CommitReverseStart(v)
  BY <1>1, <1>2
     DEF Continue, CheckClaim, CommitClaim, Claim, CommitGuard, CompleteGuard,
         CommitStart, StartTool, InvokeTool, CommitCompletion, CompleteTool,
         CommitFailure, FailTool, CommitUnwind, BeginCompensation,
         InvokeReversal, CommitReverseEnd, CompleteCompensation, storeVars
<1>4. PICK k \in ToolSteps : LastCompleted(k) /\ StartCompensation(v, k, call[v].at)
  BY <1>1, <1>3 DEF CommitReverseStart, storeVars
<1>5. k = i
  BY <1>1, <1>4, ToolsAreSteps DEF StartCompensation
<1>6. \A j \in ToolSteps : j > i => steps[j] # "succeeded"
  BY <1>4, <1>5 DEF LastCompleted, CompletedTools
<1>7. \A j \in ToolSteps : steps[j] # "compensating"
  BY <1>3 DEF CommitReverseStart, UnwindingInv, LoopKnows
<1> QED
  BY <1>1, <1>6, <1>7

LEMMA OrderInductive ==
  ASSUME TypeOK, TypeOK', RowsConsistent, RowsConsistent', UnwindingInv, [Next]_vars
  PROVE  UnwindOrder'
<1>1. CASE SomeTransaction
  <2>1. \A w \in Workers, i \in Steps, at \in Nat :
           StartCompensation(w, i, at) =>
             /\ i \in ToolSteps
             /\ \A j \in ToolSteps : j > i => steps[j] # "succeeded"
             /\ \A j \in ToolSteps : steps[j] # "compensating"
    BY ReverseStart
  <2> QED
    BY <1>1, <2>1, OrderTransaction DEF TypeOK, UnwindingInv
<1>2. CASE UNCHANGED storeVars
  BY <1>2 DEF UnwindingInv, UnwindOrder, storeVars
<1> QED
  BY <1>1, <1>2, StepsAreTransactions

\* A pending workflow is one no worker has touched.
LEMMA PendingTransaction ==
  ASSUME StoreTypeOK, SomeTransaction \/ UNCHANGED storeVars,
         status = "pending" => \A i \in Steps : steps[i] = "pending"
  PROVE  status' = "pending" => \A i \in Steps : steps'[i] = "pending"
<1>1. CASE UNCHANGED storeVars
  BY <1>1 DEF storeVars
<1>2. CASE SomeTransaction
  BY <1>2 DEF SomeTransaction, Transaction, Claim, CompleteGuard,
              CanCompleteGuard, StartTool, CanStartTool, CompleteTool,
              CanFinishTool, RunningUnder, FailTool, BeginCompensation,
              StartCompensation, CanStartCompensation, CompleteCompensation,
              CanCompleteCompensation
<1> QED
  BY <1>1, <1>2

\* A step that is being compensated has had its effect.
LEMMA CompensatingTransaction ==
  ASSUME TypeOK, LedgerAgrees, UnwindingInv, [Next]_vars, NEW i \in ToolSteps,
         steps'[i] = "compensating"
  PROVE  journal'[i] # "absent"
<1>1. journal[i] # "absent"
  <2>1. steps[i] \in {"succeeded", "compensating"}
    <3>1. CASE UNCHANGED storeVars
      BY <3>1 DEF storeVars
    <3>2. CASE SomeTransaction
      <4>1. PICK w \in Workers, j \in 0..NumSteps, at \in Nat, until \in Nat,
                 finish \in BOOLEAN : Transaction(w, j, at, until, finish)
        BY <3>2 DEF SomeTransaction
      <4> QED
        BY <4>1, ToolsAreSteps
           DEF TypeOK, StoreTypeOK, Transaction, Claim, CompleteGuard,
               StartTool, CompleteTool, FailTool, BeginCompensation,
               StartCompensation, CanStartCompensation, CompletedTools,
               CompleteCompensation
    <3> QED
      BY <3>1, <3>2, StepsAreTransactions
  <2> QED
    BY <2>1 DEF LedgerAgrees, UnwindingInv
<1> QED
  BY <1>1, JournalMovesForward

\* Nobody but its owner moves a workflow that is being unwound.
LEMMA OthersLeaveAlone ==
  ASSUME status = "compensating", NEW w \in Workers, owner # w, Continue(w)
  PROVE  UNCHANGED storeVars
BY DEF Continue, CheckClaim, CommitClaim, Claim, CanClaim, CommitGuard,
       CompleteGuard, CanCompleteGuard, CommitStart, StartTool, CanStartTool,
       InvokeTool, CommitCompletion, CompleteTool, CanFinishTool,
       CommitFailure, FailTool, RunningUnder, CommitUnwind, BeginCompensation,
       CanBeginCompensation, CommitReverseStart, StartCompensation,
       CanStartCompensation, InvokeReversal, CommitReverseEnd,
       CompleteCompensation, CanCompleteCompensation, LeaseLive, storeVars

LEMMA LoopContinue ==
  ASSUME TypeOK, RowsConsistent, UnwindersInv, UnwindingInv,
         NEW w \in Workers, Continue(w)
  PROVE  \A v \in Workers : LoopKnows(call[v])'
<1> USE DEF TypeOK, StoreTypeOK
<1> DEFINE Loop == {"reversing", "undoing", "closing"}
<1>1. \A v \in Workers : v # w => call'[v] = call[v]
  BY DEF Continue, CheckClaim, CommitClaim, CommitGuard, CommitStart,
         InvokeTool, CommitCompletion, CommitFailure, CommitUnwind,
         CommitReverseStart, InvokeReversal, CommitReverseEnd, Enter, Return
<1>2. ASSUME NEW v \in Workers, v # w PROVE LoopKnows(call[v])'
  <2>1. CASE call[v].phase \in Loop
    <3>1. UNCHANGED steps
      BY <1>2, <2>1, OthersLeaveAlone DEF UnwindersInv, storeVars
    <3> QED
      BY <1>1, <1>2, <3>1 DEF UnwindingInv, LoopKnows
  <2>2. CASE call[v].phase \notin Loop
    BY <1>1, <1>2, <2>2 DEF LoopKnows
  <2> QED
    BY <2>1, <2>2
<1>3. LoopKnows(call[w])'
  <2> DEFINE Keeps == LoopKnows(call[w])'
  <2>0. LoopKnows(call[w]) /\ UnwindOrder
    BY DEF UnwindingInv
  <2>1. Return(w) => Keeps
    BY AfterReturn DEF LoopKnows, IdleCall
  <2>2. ASSUME NEW phase, NEW step, Enter(w, phase, step), phase \notin Loop
        PROVE  Keeps
    BY <2>2, AfterEnter DEF LoopKnows
  <2>3. CASE \/ CheckClaim(w) \/ CommitClaim(w) \/ CommitGuard(w)
             \/ CommitStart(w) \/ InvokeTool(w) \/ CommitCompletion(w)
             \/ CommitFailure(w)
    BY <2>1, <2>2, <2>3
       DEF CheckClaim, CommitClaim, CommitGuard, CommitStart, InvokeTool,
           CommitCompletion, CommitFailure
  <2>4. CASE CommitUnwind(w)
    <3>1. CASE Return(w)
      BY <2>1, <3>1
    <3>2. CASE status = "failed" /\ UNCHANGED steps /\ Enter(w, "reversing", 0)
      <4>1. \A i \in ToolSteps : steps[i] # "compensating"
        BY <3>2, ToolsAreSteps DEF RowsConsistent, PriorSucceeded, Steps
      <4> QED
        BY <3>2, <4>1, AfterEnter DEF LoopKnows
    <3> QED
      BY <2>4, <3>1, <3>2 DEF CommitUnwind, BeginCompensation, CanBeginCompensation
  <2>5. CASE CommitReverseStart(w)
    <3>1. CASE Return(w)
      BY <2>1, <3>1
    <3>2. ASSUME NEW i \in ToolSteps, StartCompensation(w, i, call[w].at),
                 Enter(w, "undoing", i)
          PROVE  Keeps
      BY <3>2, AfterEnter, ToolsAreSteps DEF LoopKnows, StartCompensation
    <3> QED
      BY <2>5, <3>1, <3>2 DEF CommitReverseStart
  <2>6. CASE InvokeReversal(w)
    <3>1. CASE Return(w)
      BY <2>1, <3>1
    <3>2. CASE Enter(w, "closing", call[w].step)
      BY <2>0, <2>6, <3>2, AfterEnter DEF InvokeReversal, LoopKnows, storeVars
    <3> QED
      BY <2>6, <3>1, <3>2 DEF InvokeReversal
  <2>7. CASE CommitReverseEnd(w)
    <3>1. CASE Return(w)
      BY <2>1, <3>1
    <3>2. CASE /\ \E finish \in BOOLEAN :
                    CompleteCompensation(w, call[w].step, finish, call[w].at)
               /\ Enter(w, "reversing", 0)
      <4> DEFINE i == call[w].step
      <4>1. /\ i \in ToolSteps /\ steps[i] = "compensating"
            /\ steps' = [steps EXCEPT ![i] = "compensated"]
        BY <3>2 DEF CompleteCompensation, CanCompleteCompensation
      <4>2. \A j \in ToolSteps : steps[j] = "compensating" => j <= cursor
        BY ToolsAreSteps DEF RowsConsistent, Steps
      <4>3. \A j \in ToolSteps : j # i => steps[j] # "compensating"
        <5>1. \A j \in ToolSteps : j \in Nat
          BY ToolsAreSteps DEF Steps
        <5> HIDE DEF i
        <5>2. \A j \in ToolSteps : steps[j] = "compensating" /\ j < i => FALSE
          BY <2>0, <4>1, <4>2 DEF UnwindOrder
        <5>3. \A j \in ToolSteps : steps[j] = "compensating" /\ i < j => FALSE
          BY <2>0, <4>1, <4>2 DEF UnwindOrder
        <5> QED
          BY <4>1, <5>1, <5>2, <5>3
      <4>4. \A j \in ToolSteps : steps'[j] # "compensating"
        BY <4>1, <4>3, ToolsAreSteps
      <4> QED
        BY <3>2, <4>4, AfterEnter DEF LoopKnows
    <3> QED
      BY <2>7, <3>1, <3>2 DEF CommitReverseEnd
  <2> QED
    BY <2>3, <2>4, <2>5, <2>6, <2>7 DEF Continue
<1> QED
  BY <1>2, <1>3

\* A call that is opened or cut short is not in the loop.
LEMMA LoopElsewhere ==
  ASSUME TypeOK, UnwindingInv, NEW w \in Workers, OpenCall(w) \/ Crash(w)
  PROVE  \A v \in Workers : LoopKnows(call[v])'
<1> DEFINE Loop == {"reversing", "undoing", "closing"}
<1>1. UNCHANGED steps
  BY DEF OpenCall, CallClaim, CallBegin, CallGuard, CallContinue, CallExecute,
         CallCompensate, Crash, storeVars
<1>2. \A v \in Workers : v # w => call'[v] = call[v]
  BY DEF OpenCall, CallClaim, CallBegin, CallGuard, CallContinue, CallExecute,
         CallCompensate, Crash, Return, Open, OpenClaim, TypeOK
<1>3. call'[w] = call[w] \/ call'[w].phase \notin Loop
  <2>1. ASSUME NEW term, CallClaim(w, term) \/ CallBegin(w, term)
        PROVE  call'[w].phase \notin Loop
    BY <2>1, AfterOpenClaim DEF CallClaim, CallBegin, TypeOK
  <2>2. CASE CallGuard(w) \/ CallCompensate(w) \/ CallExecute(w)
    BY <2>2, AfterOpen DEF CallGuard, CallCompensate, CallExecute, TypeOK
  <2>3. CASE CallContinue(w)
    BY <2>3, AfterOpen DEF CallContinue, TypeOK
  <2>4. CASE Crash(w)
    BY <2>4, AfterReturn DEF Crash, TypeOK, IdleCall
  <2> QED
    BY <2>1, <2>2, <2>3, <2>4 DEF OpenCall
<1> QED
  BY <1>1, <1>2, <1>3 DEF UnwindingInv, LoopKnows

\* The reverse steps are walked in order, one at a time, however the unwinding
\* is interrupted.
LEMMA UnwindingInvariant == Spec => []UnwindingInv
<1>1. Init => UnwindingInv
  BY ToolsAreSteps DEF Init, StoreInit, JournalInit, IdleCall, UnwindingInv,
                       UnwindOrder, LoopKnows, Steps
<1>2. ExecutorInv /\ ExecutorInv' /\ UnwindingInv /\ [Next]_vars => UnwindingInv'
  <2> SUFFICES ASSUME ExecutorInv, ExecutorInv', UnwindingInv, [Next]_vars
               PROVE  UnwindingInv'
    OBVIOUS
  <2> USE DEF ExecutorInv
  <2>1. \A i \in ToolSteps : steps'[i] = "compensating" => journal'[i] # "absent"
    BY CompensatingTransaction DEF LedgerInv
  <2>2. status' = "pending" => \A i \in Steps : steps'[i] = "pending"
    <3>1. status = "pending" => \A i \in Steps : steps[i] = "pending"
      BY DEF UnwindingInv
    <3> QED
      BY <3>1, StepsAreTransactions, PendingTransaction DEF TypeOK
  <2>3. UnwindOrder'
    BY OrderInductive
  <2>4. \A v \in Workers : LoopKnows(call[v])'
    <3>1. ASSUME NEW w \in Workers, Continue(w)
          PROVE  \A v \in Workers : LoopKnows(call[v])'
      BY <3>1, LoopContinue
    <3>2. ASSUME NEW w \in Workers, OpenCall(w) \/ Crash(w)
          PROVE  \A v \in Workers : LoopKnows(call[v])'
      BY <3>2, LoopElsewhere
    <3>3. CASE Approve \/ Drift \/ Tick \/ UNCHANGED vars
      BY <3>3 DEF Approve, Drift, Tick, vars, storeVars, UnwindingInv, LoopKnows
    <3> QED
      BY <3>1, <3>2, <3>3 DEF Next
  <2> QED
    BY <2>1, <2>2, <2>3, <2>4 DEF UnwindingInv
<1> QED
  BY <1>1, <1>2, ExecutorInvariant, PTL DEF Spec

-----------------------------------------------------------------------------
(* The refinement mapping.                                                 *)

Outcome == OutcomeOf[status]

AbortedAt == IF \E i \in Steps : steps[i] = "failed"
               THEN CHOOSE i \in Steps : steps[i] = "failed" ELSE 0

Effect == [i \in ToolSteps |-> EffectOf[journal[i]]]

\* The variables of Saga, stated in those of the executor.
MappedVars == <<Outcome, AbortedAt, Effect>>

\* The failed step is the one after the cursor.
LEMMA FailedStep ==
  ASSUME StoreTypeOK, RowsConsistent
  PROVE  AbortedAt = IF status \in {"failed", "compensating", "compensated"}
                     THEN cursor + 1 ELSE 0
<1> USE DEF StoreTypeOK, RowsConsistent, Steps
<1>1. \A i \in Steps : steps[i] = "failed" => i = cursor + 1
  OBVIOUS
<1>2. (\E i \in Steps : steps[i] = "failed")
        <=> status \in {"failed", "compensating", "compensated"}
  BY <1>1
<1>3. CASE \E i \in Steps : steps[i] = "failed"
  <2>1. (CHOOSE i \in Steps : steps[i] = "failed") = cursor + 1
    BY <1>1, <1>3
  <2> QED
    BY <1>2, <1>3, <2>1 DEF AbortedAt
<1>4. CASE ~\E i \in Steps : steps[i] = "failed"
  BY <1>2, <1>4 DEF AbortedAt
<1> QED
  BY <1>3, <1>4

\* Each action of Saga, in the executor's terms.
LEMMA MappedActions ==
  /\ \A i \in ToolSteps :
       /\ Outcome = "open"
       /\ Effect[i] = "none"
       /\ \A j \in ToolSteps : j < i => Effect[j] = "applied"
       /\ Effect' = [Effect EXCEPT ![i] = "applied"]
       /\ Outcome' = Outcome /\ AbortedAt' = AbortedAt
       => S!SagaNext
  /\ \A i \in ToolSteps :
       /\ Outcome = "open"
       /\ Effect[i] \in {"none", "applied"}
       /\ \A j \in ToolSteps : j > i => Effect[j] = "none"
       /\ \A j \in ToolSteps : j < i => Effect[j] = "applied"
       /\ Outcome' = "aborted" /\ AbortedAt' = i /\ Effect' = Effect
       => S!SagaNext
  /\ \A i \in ToolSteps :
       /\ Outcome = "aborted" /\ i < AbortedAt /\ Effect[i] = "applied"
       /\ \A j \in ToolSteps : j < AbortedAt /\ j > i => Effect[j] = "undone"
       /\ Effect' = [Effect EXCEPT ![i] = "undone"]
       /\ Outcome' = Outcome /\ AbortedAt' = AbortedAt
       => S!SagaNext
  /\ \A i \in ToolSteps :
       /\ i = AbortedAt /\ Effect[i] = "none"
       /\ Effect' = [Effect EXCEPT ![i] = "applied"]
       /\ Outcome' = Outcome /\ AbortedAt' = AbortedAt
       => S!SagaNext
  /\ /\ Outcome = "open" /\ \A i \in ToolSteps : Effect[i] = "applied"
     /\ Outcome' = "succeeded" /\ AbortedAt' = AbortedAt /\ Effect' = Effect
     => S!SagaNext
  /\ /\ Outcome = "aborted"
     /\ \A j \in ToolSteps : j < AbortedAt => Effect[j] = "undone"
     /\ Outcome' = "compensated" /\ AbortedAt' = AbortedAt /\ Effect' = Effect
     => S!SagaNext
BY DEF Outcome, AbortedAt, Effect, S!SagaNext, S!Apply, S!Abort, S!Undo,
       S!LateApply, S!Succeed, S!Close, S!Set, S!ToolsBefore

LEMMA MappedInit == Init => S!SagaInit
BY DEF Init, StoreInit, JournalInit, S!SagaInit, OutcomeOf, EffectOf

LEMMA MappedStutter == MappedVars' = MappedVars => UNCHANGED S!sagaVars
BY DEF MappedVars, Outcome, AbortedAt, Effect, S!sagaVars

-----------------------------------------------------------------------------
(* Step simulation.                                                        *)

Matched == S!SagaNext \/ MappedVars' = MappedVars

LEMMA EffectValues ==
  ASSUME JournalTypeOK, NEW i \in ToolSteps
  PROVE  /\ Effect[i] = "none" <=> journal[i] = "absent"
         /\ Effect[i] = "applied" <=> journal[i] = "succeeded"
         /\ Effect[i] = "undone" <=> journal[i] = "compensated"
BY DEF Effect, EffectOf, JournalTypeOK

LEMMA OutcomeValues ==
  ASSUME StoreTypeOK
  PROVE  /\ Outcome = "open" <=> status \in {"pending", "running"}
         /\ Outcome = "aborted" <=> status \in {"failed", "compensating"}
         /\ Outcome = "succeeded" <=> status = "succeeded"
         /\ Outcome = "compensated" <=> status = "compensated"
BY DEF Outcome, OutcomeOf, StoreTypeOK, WorkflowStatus

\* The transactions of the store leave the effects alone: they may settle the
\* outcome, and then the journal holds what the saga asks for.
LEMMA RowsStep ==
  ASSUME ExecutorInv, ExecutorInv', UnwindingInv, UNCHANGED journal,
         NEW w \in Workers, NEW i \in 0..NumSteps, NEW at \in Nat,
         NEW until \in Nat, NEW finish \in BOOLEAN,
         Transaction(w, i, at, until, finish)
  PROVE  Matched
<1> USE DEF ExecutorInv, TypeOK
<1>0. /\ Effect' = Effect
      /\ AbortedAt = IF status \in {"failed", "compensating", "compensated"}
                     THEN cursor + 1 ELSE 0
      /\ AbortedAt' = IF status' \in {"failed", "compensating", "compensated"}
                      THEN cursor' + 1 ELSE 0
      /\ cursor \in 0..NumSteps
      /\ \A j \in ToolSteps : j \in 1..NumSteps
  <2>1. AbortedAt = IF status \in {"failed", "compensating", "compensated"}
                    THEN cursor + 1 ELSE 0
    BY FailedStep
  <2>2. (StoreTypeOK /\ RowsConsistent
           => AbortedAt = IF status \in {"failed", "compensating", "compensated"}
                          THEN cursor + 1 ELSE 0)'
    BY FailedStep, PTL
  <2> QED
    BY <2>1, <2>2, ToolsAreSteps DEF Effect, StoreTypeOK, Steps
<1>1. CASE \/ Claim(w, at, until) \/ CompleteGuard(w, i, at) \/ StartTool(w, i, at)
           \/ CompleteTool(w, i, at) /\ i # NumSteps
  <2>1. status \in {"pending", "running"} /\ status' = "running"
    BY <1>1 DEF Claim, CanClaim, CompleteGuard, CanCompleteGuard, StartTool,
                CanStartTool, CompleteTool, CanFinishTool, RunningUnder
  <2> QED
    BY <1>0, <2>1 DEF Matched, MappedVars, Outcome, OutcomeOf
<1>2. CASE CompleteTool(w, i, at) /\ i = NumSteps
  <2>1. status = "running" /\ status' = "succeeded"
    BY <1>2 DEF CompleteTool, CanFinishTool, RunningUnder
  <2>2. cursor' = NumSteps /\ PriorSucceeded'
    BY <2>1 DEF RowsConsistent
  <2>3. \A j \in ToolSteps : journal[j] = "succeeded"
    BY <1>0, <2>2 DEF PriorSucceeded, LedgerInv, LedgerAgrees
  <2>4. \A j \in ToolSteps : Effect[j] = "applied"
    BY <2>3, EffectValues
  <2> QED
    BY <1>0, <2>1, <2>4, MappedActions DEF Matched, Outcome, OutcomeOf
<1>3. CASE FailTool(w, i, at)
  <2>1. /\ status = "running" /\ status' = "failed" /\ UNCHANGED cursor
        /\ i \in ToolSteps /\ i = cursor + 1 /\ steps[i] = "running"
    BY <1>0, <1>3 DEF FailTool, CanFinishTool, RunningUnder
  <2>2. journal[i] # "compensated"
    BY <2>1 DEF LedgerInv, LedgerAgrees
  <2>3. \A j \in ToolSteps : j > i => journal[j] = "absent"
    BY <1>0, <2>1 DEF RowsConsistent, LedgerInv, LedgerAgrees, Steps
  <2>4. \A j \in ToolSteps : j < i => journal[j] = "succeeded"
    BY <1>0, <2>1 DEF RowsConsistent, PriorSucceeded, LedgerInv, LedgerAgrees
  <2>5. /\ Effect[i] \in {"none", "applied"}
        /\ \A j \in ToolSteps : j > i => Effect[j] = "none"
        /\ \A j \in ToolSteps : j < i => Effect[j] = "applied"
    BY <2>1, <2>2, <2>3, <2>4, EffectValues DEF JournalTypeOK
  <2>6. Outcome = "open" /\ Outcome' = "aborted" /\ AbortedAt' = i
    BY <1>0, <2>1 DEF Outcome, OutcomeOf
  <2> QED
    BY <1>0, <2>1, <2>5, <2>6, MappedActions DEF Matched
<1>4. CASE BeginCompensation(w, at)
  <2>1. status = "failed" /\ UNCHANGED cursor
    BY <1>4 DEF BeginCompensation, CanBeginCompensation
  <2>2. CASE status' = "compensating"
    BY <1>0, <2>1, <2>2 DEF Matched, MappedVars, Outcome, OutcomeOf
  <2>3. CASE CompletedTools = {} /\ status' = "compensated"
    <3>1. AbortedAt = cursor + 1 /\ AbortedAt' = AbortedAt
      BY <1>0, <2>1, <2>3
    <3>2. \A j \in ToolSteps : ~(j < AbortedAt)
      BY <1>0, <2>1, <2>3, <3>1
         DEF RowsConsistent, PriorSucceeded, CompletedTools
    <3> QED
      BY <1>0, <2>1, <2>3, <3>1, <3>2, MappedActions DEF Matched, Outcome, OutcomeOf
  <2> QED
    BY <1>4, <2>2, <2>3 DEF BeginCompensation
<1>5. CASE \/ StartCompensation(w, i, at)
           \/ CompleteCompensation(w, i, finish, at) /\ ~finish
  <2>1. status = "compensating" /\ UNCHANGED <<status, cursor>>
    BY <1>5 DEF StartCompensation, CanStartCompensation, CompleteCompensation,
                CanCompleteCompensation
  <2> QED
    BY <1>0, <2>1 DEF Matched, MappedVars, Outcome
<1>6. CASE CompleteCompensation(w, i, finish, at) /\ finish
  <2>1. /\ status = "compensating" /\ status' = "compensated" /\ UNCHANGED cursor
        /\ i \in ToolSteps /\ steps[i] = "compensating" /\ CompletedTools = {}
        /\ steps' = [steps EXCEPT ![i] = "compensated"]
    BY <1>6 DEF CompleteCompensation, CanCompleteCompensation
  <2>2. AbortedAt = cursor + 1 /\ AbortedAt' = AbortedAt
    BY <1>0, <2>1
  <2>3. ASSUME NEW j \in ToolSteps, j < AbortedAt
        PROVE  Effect[j] = "undone"
    <3>1. j <= cursor /\ i <= cursor
      BY <1>0, <2>1, <2>2, <2>3 DEF RowsConsistent, Steps
    <3>2. steps[j] \in {"compensating", "compensated"}
      BY <1>0, <2>1, <3>1 DEF RowsConsistent, Steps, CompletedTools
    <3>3. j # i => steps[j] = "compensated"
      <4>1. CASE i < j
        BY <2>1, <3>1, <4>1 DEF UnwindingInv, UnwindOrder
      <4>2. CASE j < i
        BY <2>1, <3>1, <3>2, <4>2 DEF UnwindingInv, UnwindOrder
      <4> QED
        BY <1>0, <2>1, <4>1, <4>2
    <3>4. steps'[j] = "compensated"
      BY <1>0, <2>1, <3>3 DEF StoreTypeOK, Steps
    <3>5. journal[j] = "compensated"
      BY <3>4 DEF LedgerInv, LedgerAgrees
    <3> QED
      BY <3>5, EffectValues
  <2> QED
    BY <1>0, <2>1, <2>2, <2>3, MappedActions DEF Matched, Outcome, OutcomeOf
<1> QED
  BY <1>1, <1>2, <1>3, <1>4, <1>5, <1>6 DEF Transaction

\* An effect the provider commits is the saga's next one, or the late one of
\* the step the workflow was aborted at.
LEMMA EffectStep ==
  ASSUME ExecutorInv, UnwindingInv, UNCHANGED storeVars,
         NEW i \in ToolSteps, steps[i] # "pending", ApplyEffect(i)
  PROVE  Matched
<1> USE DEF ExecutorInv, TypeOK
<1>1. /\ journal[i] = "absent" /\ Effect[i] = "none"
      /\ Effect' = [Effect EXCEPT ![i] = "applied"]
  BY EffectValues DEF ApplyEffect, Effect, EffectOf, JournalTypeOK
<1>2. Outcome' = Outcome /\ AbortedAt' = AbortedAt
  BY DEF storeVars, Outcome, AbortedAt
<1>3. i = cursor + 1 /\ i \in 1..NumSteps /\ cursor \in 0..NumSteps
  <2>1. steps[i] \notin {"succeeded", "compensating", "compensated"}
    BY <1>1 DEF LedgerInv, LedgerAgrees, UnwindingInv
  <2> QED
    BY <2>1, ToolsAreSteps DEF RowsConsistent, StoreTypeOK, Steps
<1>4. CASE status \in {"pending", "running"}
  <2>1. \A j \in ToolSteps : j < i => journal[j] = "succeeded"
    BY <1>3, <1>4, ToolsAreSteps
       DEF RowsConsistent, PriorSucceeded, LedgerInv, LedgerAgrees, Steps
  <2>2. \A j \in ToolSteps : j < i => Effect[j] = "applied"
    BY <2>1, EffectValues
  <2> QED
    BY <1>1, <1>2, <1>4, <2>2, MappedActions, OutcomeValues DEF Matched
<1>5. CASE status \in {"failed", "compensating", "compensated"}
  <2>1. AbortedAt = i
    BY <1>3, <1>5, FailedStep
  <2> QED
    BY <1>1, <1>2, <2>1, MappedActions DEF Matched
<1>6. status # "succeeded"
  BY <1>3 DEF RowsConsistent
<1> QED
  BY <1>4, <1>5, <1>6 DEF StoreTypeOK, WorkflowStatus

\* A reverse effect the provider commits undoes the last effect still there.
LEMMA ReverseStep ==
  ASSUME ExecutorInv, UnwindingInv, UNCHANGED storeVars, status = "compensating",
         NEW i \in ToolSteps, steps[i] = "compensating", ReverseEffect(i)
  PROVE  Matched
<1> USE DEF ExecutorInv, TypeOK
<1>1. /\ Effect[i] = "applied" /\ Effect' = [Effect EXCEPT ![i] = "undone"]
  BY EffectValues DEF ReverseEffect, Effect, EffectOf, JournalTypeOK
<1>2. Outcome' = Outcome /\ AbortedAt' = AbortedAt
  BY DEF storeVars, Outcome, AbortedAt
<1>3. /\ i <= cursor /\ cursor \in 0..NumSteps /\ AbortedAt = cursor + 1
      /\ \A j \in ToolSteps : j \in 1..NumSteps
  BY ToolsAreSteps, FailedStep DEF RowsConsistent, StoreTypeOK, Steps
<1>4. \A j \in ToolSteps : j < AbortedAt /\ j > i => journal[j] = "compensated"
  BY <1>3 DEF UnwindingInv, UnwindOrder, LedgerInv, LedgerAgrees
<1>5. \A j \in ToolSteps : j < AbortedAt /\ j > i => Effect[j] = "undone"
  BY <1>4, EffectValues
<1>6. i < AbortedAt /\ Outcome = "aborted"
  BY <1>3, OutcomeValues
<1> QED
  BY <1>1, <1>2, <1>5, <1>6, MappedActions DEF Matched

\* Every step of the executor is a step of the saga or changes nothing of it.
LEMMA StepsMatch ==
  ASSUME ExecutorInv, ExecutorInv', UnwindingInv, [Next]_vars
  PROVE  Matched
<1> USE DEF ExecutorInv
<1>1. ASSUME UNCHANGED <<storeVars, journalVars>> PROVE Matched
  BY <1>1 DEF storeVars, journalVars, Matched, MappedVars, Outcome, AbortedAt,
              Effect
<1>2. CASE UNCHANGED journalVars
  <2>1. CASE SomeTransaction
    BY <1>2, <2>1, RowsStep DEF SomeTransaction, journalVars
  <2> QED
    BY <1>1, <1>2, <2>1, StepsAreTransactions
<1>3. ASSUME NEW w \in Workers, InvokeTool(w) PROVE Matched
  <2> DEFINE i == call[w].step
  <2>1. UNCHANGED storeVars /\ i \in ToolSteps /\ steps[i] # "pending"
    BY <1>3 DEF InvokeTool, LedgerInv, CallsInv, CallKnows
  <2>2. ApplyEffect(i) \/ UNCHANGED journalVars
    BY <1>3 DEF InvokeTool, ReplayEffect, RefuseEffect
  <2> QED
    BY <1>2, <2>1, <2>2, EffectStep
<1>4. ASSUME NEW w \in Workers, InvokeReversal(w) PROVE Matched
  <2> DEFINE i == call[w].step
  <2>1. /\ UNCHANGED storeVars /\ status = "compensating"
        /\ i \in ToolSteps /\ steps[i] = "compensating"
    BY <1>4 DEF InvokeReversal, UnwindersInv, UnwindingInv, LoopKnows
  <2>2. ReverseEffect(i) \/ UNCHANGED journalVars
    BY <1>4 DEF InvokeReversal, ReplayReversal, RefuseReversal
  <2> QED
    BY <1>2, <2>1, <2>2, ReverseStep
<1>5. ASSUME NEW w \in Workers, Continue(w), ~InvokeTool(w), ~InvokeReversal(w)
      PROVE  UNCHANGED journalVars
  BY <1>5 DEF Continue, CheckClaim, CommitClaim, CommitGuard, CommitStart,
              CommitCompletion, CommitFailure, CommitUnwind,
              CommitReverseStart, CommitReverseEnd
<1>6. ASSUME NEW w \in Workers, OpenCall(w) \/ Crash(w)
      PROVE  UNCHANGED journalVars
  BY <1>6 DEF OpenCall, CallClaim, CallBegin, CallGuard, CallContinue,
              CallExecute, CallCompensate, Crash
<1>7. CASE Approve \/ Drift \/ Tick \/ UNCHANGED vars
  BY <1>2, <1>7 DEF Approve, Drift, Tick, vars
<1> QED
  BY <1>2, <1>3, <1>4, <1>5, <1>6, <1>7 DEF Next

\* Crashes, stalls, takeovers and retries are invisible to a reader of the
\* journal and the status: effects happen in order, each once, and a workflow
\* that is aborted closes only when every effect before is undone, last first.
THEOREM ExecutorImplementsSaga == Spec => ImplementsSaga
<1>1. Init => S!SagaInit
  BY MappedInit
<1>2. ExecutorInv /\ ExecutorInv' /\ UnwindingInv /\ [Next]_vars
        => S!SagaNext \/ UNCHANGED S!sagaVars
  BY StepsMatch, MappedStutter DEF Matched
<1> QED
  BY <1>1, <1>2, ExecutorInvariant, UnwindingInvariant, PTL
     DEF Spec, ImplementsSaga, S!SagaSpec

-----------------------------------------------------------------------------
(* Plans that went stale while they waited.                                *)

\* Nothing is under way and every entry compares the source versions.
LEMMA StaleStaysWaiting ==
  ASSUME LiveVersions, TypeOK, WaitingAndStale, [Next]_vars
  PROVE  WaitingAndStale'
<1> USE DEF WaitingAndStale, Idle
<1>1. ASSUME NEW w \in Workers, OpenCall(w) PROVE FALSE
  BY <1>1 DEF OpenCall, CallClaim, CallBegin, CallGuard, CallContinue,
              CallExecute, CallCompensate, VersionsMatch, Runnable
<1>2. ASSUME NEW w \in Workers, Continue(w) PROVE FALSE
  BY <1>2 DEF Continue, CheckClaim, CommitClaim, CommitGuard, CommitStart,
              InvokeTool, CommitCompletion, CommitFailure, CommitUnwind,
              CommitReverseStart, InvokeReversal, CommitReverseEnd
<1>3. ASSUME NEW w \in Workers, Crash(w) PROVE WaitingAndStale'
  BY <1>3 DEF Crash, Return, IdleCall, storeVars, TypeOK
<1>4. CASE Approve \/ Drift \/ Tick \/ UNCHANGED vars
  BY <1>4 DEF Approve, Drift, Tick, vars, envVars, storeVars
<1> QED
  BY <1>1, <1>2, <1>3, <1>4 DEF Next

\* A plan whose source records changed before any worker started it is never
\* started, when callers report the versions they read: no later claim, first
\* tool or resumption gets past the comparison, so no effect is committed.
THEOREM StalePlansNeverRun ==
  ASSUME LiveVersions PROVE Spec => StalePlanNeverRuns
<1>1. TypeOK /\ WaitingAndStale /\ [Next]_vars => WaitingAndStale'
  BY StaleStaysWaiting
<1>2. ExecutorInv /\ UnwindingInv /\ WaitingAndStale
        => status = "pending" /\ \A i \in ToolSteps : applied[i] = 0
  BY ToolsAreSteps DEF ExecutorInv, UnwindingInv, WaitingAndStale, LedgerInv,
                       LedgerAgrees, JournalInv, Steps
<1> QED
  BY <1>1, <1>2, TypeCorrect, ExecutorInvariant, UnwindingInvariant, PTL
     DEF Spec, StalePlanNeverRuns
=============================================================================
