-------------------------- MODULE WorkflowExecutor --------------------------
(***************************************************************************)
(* ScenarioAWorkflowExecutor: several workers call its public methods for  *)
(* one workflow.  A method is a sequence of separate transactions (load    *)
(* and validate, store compare-and-swap, provider effect, ...), so each    *)
(* worker carries the local state of the call it is in, and other workers, *)
(* the clock and a crash may come between any two of its steps.            *)
(*                                                                         *)
(* Every method takes its timestamps and the observed source versions as   *)
(* arguments, so both are read when the call is opened and used until it   *)
(* returns.  A call that is rejected before it changed anything is not     *)
(* modelled: it is a stuttering step.                                      *)
(***************************************************************************)
EXTENDS WorkflowStore, ToolJournal, FiniteSets

CONSTANTS
  VersionedTools,     \* effects that bump a source version the plan binds
  LiveVersions,       \* TRUE: callers pass the versions they read now;
                      \* FALSE: they pass back the versions the plan captured
  LeaseTerms,         \* lease lengths callers ask for
  ApprovalExpiry,     \* expires_at of the plan and of its approval
  SourcesChange,      \* TRUE: others may change the records the plan binds
  MaxTime,            \* bound on the clock
  MaxCrashes          \* bound on worker crashes

ASSUME ExecutorAssumption ==
  /\ VersionedTools \subseteq ToolSteps
  /\ LiveVersions \in BOOLEAN
  /\ LeaseTerms \subseteq Nat \ {0}
  /\ ApprovalExpiry \in Nat
  /\ SourcesChange \in BOOLEAN
  /\ MaxTime \in Nat
  /\ MaxCrashes \in Nat

VARIABLES
  call,      \* the executor call each worker is in
  held,      \* step of the StartedToolExecution a worker holds, 0 for none
  approved,  \* the plan's approval row has status APPROVED
  drifted,   \* live source versions differ from plan.source_versions
  now,       \* the business clock
  crashes    \* calls interrupted so far

envVars == <<approved, drifted, now, crashes>>
vars == <<storeVars, journalVars, call, held, envVars>>

Phases ==
  {"idle",        \* outside every method
   "checking",    \* claim: about to load and revalidate
   "claiming",    \* claim: revalidated, about to CAS the claim
   "guarding",    \* advance_next_guard: validated, about to CAS
   "starting",    \* begin_next_tool: about to CAS tool.started
   "executing",   \* execute_started_tool: about to call the provider
   "completing",  \* the provider answered, about to CAS the completion
   "failing",     \* the provider refused, about to CAS the failure
   "unwinding",   \* compensate_failed_workflow: about to CAS its start
   "reversing",   \* compensation loop: about to CAS a reverse step's start
   "undoing",     \* about to call the provider's reverse effect
   "closing"}     \* reversed, about to CAS the step's compensation

Call == [phase : Phases, at : Nat, until : Nat, step : 0..NumSteps,
         forTool : BOOLEAN]

IdleCall ==
  [phase |-> "idle", at |-> 0, until |-> 0, step |-> 0, forTool |-> FALSE]

TypeOK ==
  /\ StoreTypeOK
  /\ JournalTypeOK
  /\ call \in [Workers -> Call]
  /\ held \in [Workers -> 0..NumSteps]
  /\ approved \in BOOLEAN
  /\ drifted \in BOOLEAN
  /\ now \in Nat
  /\ crashes \in Nat

Init ==
  /\ StoreInit
  /\ JournalInit
  /\ call = [w \in Workers |-> IdleCall]
  /\ held = [w \in Workers |-> 0]
  /\ approved = FALSE
  /\ drifted = FALSE
  /\ now = 0
  /\ crashes = 0

-----------------------------------------------------------------------------
(* Helpers on calls.                                                       *)

Idle(w) == call[w].phase = "idle"

Open(w, phase, step) ==
  call' = [call EXCEPT ![w] = [IdleCall EXCEPT !.phase = phase, !.at = now,
                                               !.step = step]]

OpenClaim(w, term, forTool) ==
  call' = [call EXCEPT ![w] = [phase |-> "checking", at |-> now,
                               until |-> now + term, step |-> 0,
                               forTool |-> forTool]]

Enter(w, phase, step) ==
  call' = [call EXCEPT ![w].phase = phase, ![w].step = step]

\* The method returns or raises.
Return(w) == call' = [call EXCEPT ![w] = IdleCall]

VersionsMatch == LiveVersions => ~drifted

-----------------------------------------------------------------------------
(* Validation of a loaded snapshot.                                        *)

PriorSucceeded == \A i \in 1..cursor : steps[i] = "succeeded"

NextPending ==
  /\ cursor < NumSteps
  /\ PriorSucceeded
  /\ \A i \in (cursor + 1)..NumSteps : steps[i] = "pending"

NextStartedTool ==
  /\ cursor < NumSteps
  /\ PriorSucceeded
  /\ cursor + 1 \in ToolSteps
  /\ steps[cursor + 1] = "running"
  /\ \A i \in (cursor + 2)..NumSteps : steps[i] = "pending"

Runnable == status \in {"pending", "running"}

-----------------------------------------------------------------------------
(* claim                                                                   *)

CallClaim(w, term) ==
  /\ Idle(w)
  /\ VersionsMatch
  /\ OpenClaim(w, term, FALSE)
  /\ UNCHANGED <<storeVars, journalVars, held, envVars>>

\* Mutant: the approval's status is not looked at.
RevalidatedUnapproved(at) == at < ApprovalExpiry /\ Runnable

Revalidated(at) ==
  /\ approved
  /\ at < ApprovalExpiry
  /\ Runnable

CheckClaim(w) ==
  /\ call[w].phase = "checking"
  /\ \/ /\ Revalidated(call[w].at)
        /\ NextPending \/ NextStartedTool
        /\ Enter(w, "claiming", 0)
     \/ /\ ~(Revalidated(call[w].at) /\ (NextPending \/ NextStartedTool))
        /\ Return(w)
  /\ UNCHANGED <<storeVars, journalVars, held, envVars>>

\* The claim's own transaction returns the snapshot that begin_next_tool goes
\* on with: it stops at a guard (keeping the lease it took) and resumes a tool
\* that was already started.
CommitClaim(w) ==
  /\ call[w].phase = "claiming"
  /\ \/ /\ Claim(w, call[w].at, call[w].until)
        /\ \/ /\ ~call[w].forTool \/ ~(NextPending \/ NextStartedTool)
              /\ Return(w) /\ UNCHANGED held
           \/ /\ call[w].forTool /\ NextPending
              /\ cursor + 1 \notin ToolSteps
              /\ Return(w) /\ UNCHANGED held
           \/ /\ call[w].forTool /\ NextPending
              /\ cursor + 1 \in ToolSteps
              /\ Enter(w, "starting", cursor + 1) /\ UNCHANGED held
           \/ /\ call[w].forTool /\ NextStartedTool
              /\ held' = [held EXCEPT ![w] = cursor + 1]
              /\ Return(w)
     \/ /\ ~CanClaim(w, call[w].at)
        /\ Return(w)
        /\ UNCHANGED <<storeVars, held>>
  /\ UNCHANGED <<journalVars, envVars>>

-----------------------------------------------------------------------------
(* advance_next_guard                                                      *)

CallGuard(w) ==
  /\ Idle(w)
  /\ Runnable
  /\ NextPending
  /\ cursor + 1 \notin ToolSteps
  /\ status = "running" /\ LeaseLive(w, now)
  /\ Open(w, "guarding", cursor + 1)
  /\ UNCHANGED <<storeVars, journalVars, held, envVars>>

CommitGuard(w) ==
  /\ call[w].phase = "guarding"
  /\ \/ CompleteGuard(w, call[w].step, call[w].at)
     \/ /\ ~CanCompleteGuard(w, call[w].step, call[w].at)
        /\ UNCHANGED storeVars
  /\ Return(w)
  /\ UNCHANGED <<journalVars, held, envVars>>

-----------------------------------------------------------------------------
(* begin_next_tool                                                         *)

\* Mutant: the source versions are not compared on this entry.
CallBeginUnchecked(w, term) ==
  /\ Idle(w)
  /\ CompletedTools = {}
  /\ OpenClaim(w, term, TRUE)
  /\ UNCHANGED <<storeVars, journalVars, held, envVars>>

\* No tool of this workflow completed yet: go through the whole of claim.
CallBegin(w, term) ==
  /\ Idle(w)
  /\ CompletedTools = {}
  /\ VersionsMatch
  /\ OpenClaim(w, term, TRUE)
  /\ UNCHANGED <<storeVars, journalVars, held, envVars>>

\* A tool completed: only the caller's live lease is required, and neither
\* the approval nor the source versions are looked at again.
CallContinue(w) ==
  /\ Idle(w)
  /\ CompletedTools # {}
  /\ status = "running" /\ LeaseLive(w, now)
  /\ \/ /\ NextPending /\ cursor + 1 \in ToolSteps
        /\ Open(w, "starting", cursor + 1)
        /\ UNCHANGED held
     \/ /\ NextStartedTool
        /\ held' = [held EXCEPT ![w] = cursor + 1]
        /\ UNCHANGED call
  /\ UNCHANGED <<storeVars, journalVars, envVars>>

CommitStart(w) ==
  /\ call[w].phase = "starting"
  /\ \/ /\ StartTool(w, call[w].step, call[w].at)
        /\ held' = [held EXCEPT ![w] = call[w].step]
     \/ /\ ~CanStartTool(w, call[w].step, call[w].at)
        /\ UNCHANGED <<storeVars, held>>
  /\ Return(w)
  /\ UNCHANGED <<journalVars, envVars>>

-----------------------------------------------------------------------------
(* execute_started_tool                                                    *)

CallExecute(w) ==
  /\ Idle(w)
  /\ held[w] # 0
  /\ Runnable /\ NextStartedTool
  /\ held[w] = cursor + 1
  /\ status = "running" /\ LeaseLive(w, now)
  /\ Open(w, "executing", held[w])
  /\ UNCHANGED <<storeVars, journalVars, held, envVars>>

\* The provider's transaction.  Nothing of the workflow row is read again.
InvokeTool(w) ==
  /\ call[w].phase = "executing"
  /\ LET i == call[w].step IN
     \/ /\ ApplyEffect(i)
        /\ drifted' = (drifted \/ i \in VersionedTools)
        /\ Enter(w, "completing", i)
     \/ /\ ReplayEffect(i)
        /\ Enter(w, "completing", i)
        /\ UNCHANGED drifted
     \/ /\ RefuseEffect(i)
        /\ Enter(w, "failing", i)
        /\ UNCHANGED drifted
  /\ UNCHANGED <<storeVars, held, approved, now, crashes>>

CommitCompletion(w) ==
  /\ call[w].phase = "completing"
  /\ \/ /\ CompleteTool(w, call[w].step, call[w].at)
        /\ held' = [held EXCEPT ![w] = 0]
     \/ /\ ~CanFinishTool(w, call[w].step, call[w].at)
        /\ UNCHANGED <<storeVars, held>>
  /\ Return(w)
  /\ UNCHANGED <<journalVars, envVars>>

\* The failure is recorded and, in the same call and with the same timestamp,
\* compensate_failed_workflow begins.
CommitFailure(w) ==
  /\ call[w].phase = "failing"
  /\ \/ /\ FailTool(w, call[w].step, call[w].at)
        /\ held' = [held EXCEPT ![w] = 0]
        /\ Enter(w, "unwinding", 0)
     \/ /\ ~CanFinishTool(w, call[w].step, call[w].at)
        /\ Return(w)
        /\ UNCHANGED <<storeVars, held>>
  /\ UNCHANGED <<journalVars, envVars>>

-----------------------------------------------------------------------------
(* compensate_failed_workflow                                              *)

\* A caller may also open the compensation of a workflow left in FAILED.
CallCompensate(w) ==
  /\ Idle(w)
  /\ status = "failed"
  /\ Open(w, "unwinding", 0)
  /\ UNCHANGED <<storeVars, journalVars, held, envVars>>

CommitUnwind(w) ==
  /\ call[w].phase = "unwinding"
  /\ \/ /\ BeginCompensation(w, call[w].at)
        /\ IF CompletedTools = {} THEN Return(w)
                                  ELSE Enter(w, "reversing", 0)
     \/ /\ ~CanBeginCompensation(w, call[w].at)
        /\ Return(w)
        /\ UNCHANGED storeVars
  /\ UNCHANGED <<journalVars, held, envVars>>

\* Mutant: the loop walks the steps forwards.
FirstCompleted(i) == i \in CompletedTools /\ \A j \in CompletedTools : j >= i

\* The next succeeded tool step in reverse order.
LastCompleted(i) == i \in CompletedTools /\ \A j \in CompletedTools : j <= i

CommitReverseStart(w) ==
  /\ call[w].phase = "reversing"
  /\ \/ \E i \in ToolSteps :
          /\ LastCompleted(i)
          /\ StartCompensation(w, i, call[w].at)
          /\ Enter(w, "undoing", i)
     \/ /\ ~\E i \in ToolSteps :
            LastCompleted(i) /\ CanStartCompensation(w, i, call[w].at)
        /\ Return(w)
        /\ UNCHANGED storeVars
  /\ UNCHANGED <<journalVars, held, envVars>>

\* Mutant: a refused reverse effect is passed over.
InvokeReversalRegardless(w) ==
  /\ call[w].phase = "undoing"
  /\ LET i == call[w].step IN
     \/ ReverseEffect(i) /\ drifted' = (drifted \/ i \in VersionedTools)
     \/ (ReplayReversal(i) \/ RefuseReversal(i)) /\ UNCHANGED drifted
  /\ Enter(w, "closing", call[w].step)
  /\ UNCHANGED <<storeVars, held, approved, now, crashes>>

\* A refused reverse effect raises out of the method: nothing records it.
InvokeReversal(w) ==
  /\ call[w].phase = "undoing"
  /\ LET i == call[w].step IN
     \/ /\ ReverseEffect(i)
        /\ drifted' = (drifted \/ i \in VersionedTools)
        /\ Enter(w, "closing", i)
     \/ /\ ReplayReversal(i)
        /\ Enter(w, "closing", i)
        /\ UNCHANGED drifted
     \/ /\ RefuseReversal(i)
        /\ Return(w)
        /\ UNCHANGED drifted
  /\ UNCHANGED <<storeVars, held, approved, now, crashes>>

CommitReverseEnd(w) ==
  /\ call[w].phase = "closing"
  /\ LET finish == CompletedTools = {} IN
     \/ /\ CompleteCompensation(w, call[w].step, finish, call[w].at)
        /\ IF finish THEN Return(w) ELSE Enter(w, "reversing", 0)
     \/ /\ ~CanCompleteCompensation(w, call[w].step, finish, call[w].at)
        /\ Return(w)
        /\ UNCHANGED storeVars
  /\ UNCHANGED <<journalVars, held, envVars>>

-----------------------------------------------------------------------------
(* The environment.                                                        *)

\* PlanApprovalService.approve, which checks the source versions once.
Approve ==
  /\ ~approved
  /\ now < ApprovalExpiry
  /\ VersionsMatch
  /\ approved' = TRUE
  /\ UNCHANGED <<storeVars, journalVars, call, held, drifted, now, crashes>>

\* A source record the plan binds changes for a reason of its own.
Drift ==
  /\ SourcesChange
  /\ ~drifted
  /\ drifted' = TRUE
  /\ UNCHANGED <<storeVars, journalVars, call, held, approved, now, crashes>>

Tick ==
  /\ now < MaxTime
  /\ now' = now + 1
  /\ UNCHANGED <<storeVars, journalVars, call, held, approved, drifted, crashes>>

\* A call is cut short between two of its transactions: the worker's process
\* stops, and a restarted worker of the same name begins outside every method
\* holding nothing; or the database raises out of the method (as the crash
\* injector of the tests does), and the caller still holds what it held.
Crash(w) ==
  /\ crashes < MaxCrashes
  /\ crashes' = crashes + 1
  /\ \/ /\ ~Idle(w) \/ held[w] # 0
        /\ held' = [held EXCEPT ![w] = 0]
     \/ /\ ~Idle(w)
        /\ UNCHANGED held
  /\ Return(w)
  /\ UNCHANGED <<storeVars, journalVars, approved, drifted, now>>

-----------------------------------------------------------------------------
Continue(w) ==
  \/ CheckClaim(w)
  \/ CommitClaim(w)
  \/ CommitGuard(w)
  \/ CommitStart(w)
  \/ InvokeTool(w)
  \/ CommitCompletion(w)
  \/ CommitFailure(w)
  \/ CommitUnwind(w)
  \/ CommitReverseStart(w)
  \/ InvokeReversal(w)
  \/ CommitReverseEnd(w)

OpenCall(w) ==
  \/ \E term \in LeaseTerms : CallClaim(w, term) \/ CallBegin(w, term)
  \/ CallGuard(w)
  \/ CallContinue(w)
  \/ CallExecute(w)
  \/ CallCompensate(w)

Next ==
  \/ \E w \in Workers : OpenCall(w) \/ Continue(w) \/ Crash(w)
  \/ Approve
  \/ Drift
  \/ Tick

Spec == Init /\ [][Next]_vars

\* The call a caller that keeps the workflow going makes next: the next step
\* under its live lease, the unwinding of a failure, the first tool (which
\* claims), or a claim when it has no live lease.
FirstToolIsNext == Runnable /\ CompletedTools = {} /\ cursor + 1 \in ToolSteps

Proceed(w) ==
  \/ CallGuard(w)
  \/ CallContinue(w)
  \/ CallExecute(w)
  \/ CallCompensate(w)
  \/ \E term \in LeaseTerms :
       \/ /\ FirstToolIsNext
          /\ ~(held[w] = cursor + 1 /\ LeaseLive(w, now))
          /\ CallBegin(w, term)
       \/ /\ Runnable /\ ~FirstToolIsNext
          /\ ~LeaseLive(w, now)
          /\ CallClaim(w, term)

\* A call that was entered goes on, the approver decides, and a caller makes
\* its next call again as long as it keeps becoming possible.
Fairness ==
  /\ WF_vars(Approve)
  /\ \A w \in Workers : WF_vars(Continue(w)) /\ SF_vars(Proceed(w))

FairSpec == Spec /\ Fairness

-----------------------------------------------------------------------------
(* Safety.                                                                 *)

\* One stable key per step: whatever retries, restarts and takeovers there
\* are, the business effect of a step is committed at most once, its reverse
\* effect at most once, and never without the effect (PostgresToolAdapter's
\* journal, DESIGN.md "leaves exactly one replacement order").
AtMostOnceEffects ==
  \A i \in ToolSteps : applied[i] <= 1 /\ reversed[i] <= applied[i]

\* The step rows and the cursor always tell one story: the steps up to the
\* cursor are behind the workflow, exactly the next one can be in flight or
\* failed, and the later ones are untouched.  The executor rejects rows that
\* do not; no interleaving of its own transactions may produce them.
RowsConsistent ==
  /\ \A i \in Steps :
       /\ i <= cursor => steps[i] \in {"succeeded", "compensating", "compensated"}
       /\ i > cursor + 1 => steps[i] = "pending"
       /\ i = cursor + 1 => steps[i] \in {"pending", "running", "failed"}
  /\ status = "pending" => cursor = 0
  /\ status = "succeeded" <=> cursor = NumSteps
  /\ status \in {"pending", "running", "succeeded", "failed"} => PriorSucceeded
  /\ status \in {"failed", "compensating", "compensated"}
       <=> cursor < NumSteps /\ steps[cursor + 1] = "failed"
  /\ status \in {"running", "failed", "compensating"} <=> owner # NoWorker

\* Workflow rows and provider journal are written by different transactions,
\* with crashes and takeovers between them.  A completed step really had its
\* effect, a compensated step had it reversed, and a step that was never
\* started has none: no effect runs ahead of its durable tool.started.
LedgerAgrees ==
  \A i \in ToolSteps :
    /\ steps[i] = "succeeded" => journal[i] = "succeeded"
    /\ steps[i] = "compensated" => journal[i] = "compensated"
    /\ steps[i] = "pending" => journal[i] = "absent"
    /\ journal[i] = "compensated" => steps[i] \in {"compensating", "compensated"}

\* Only the worker that took the workflow into COMPENSATING unwinds it: two
\* workers never walk the reverse steps at the same time.
OneUnwinder ==
  \A v, w \in Workers :
    (/\ call[v].phase \in {"reversing", "undoing", "closing"}
     /\ call[w].phase \in {"reversing", "undoing", "closing"}) => v = w

\* No effect, on any path through claims, resumptions and takeovers, for a
\* plan whose approval was never granted.
EffectsApproved == \A i \in ToolSteps : applied[i] > 0 => approved

\* A lease changes hands only once it has run out by the real clock, although
\* the store compares it with a time some caller read earlier.
TakeoverAfterExpiry ==
  [][owner # NoWorker /\ owner' \notin {owner, NoWorker} => expires <= now]_vars

\* A finished workflow never changes again, however late a stalled worker's
\* completion, failure or compensation arrives.
FinishedIsFinal ==
  [][(status \in {"succeeded", "compensated"}) => UNCHANGED storeVars]_vars

\* A plan whose source records changed while it waited, with no call under
\* way, is never started: callers that report what they read are refused at
\* every entry (DESIGN.md: "causes approval or execution to stop rather than
\* applying a stale recommendation").
WaitingAndStale == drifted /\ status = "pending" /\ \A w \in Workers : Idle(w)

StalePlanNeverRuns ==
  [](WaitingAndStale => [](status = "pending" /\ \A i \in ToolSteps : applied[i] = 0))

-----------------------------------------------------------------------------
(* The executor implements the saga.                                       *)

OutcomeOf ==
  [pending |-> "open", running |-> "open", failed |-> "aborted",
   compensating |-> "aborted", succeeded |-> "succeeded",
   compensated |-> "compensated"]

EffectOf == [absent |-> "none", succeeded |-> "applied", compensated |-> "undone"]

S == INSTANCE Saga WITH
       outcome <- OutcomeOf[status],
       abortedAt <- IF \E i \in Steps : steps[i] = "failed"
                      THEN CHOOSE i \in Steps : steps[i] = "failed" ELSE 0,
       effect <- [i \in ToolSteps |-> EffectOf[journal[i]]]

\* Seen through the journal and the workflow's status alone, every execution
\* with crashes, stalls and takeovers is one of the abstract saga.
ImplementsSaga == S!SagaSpec

-----------------------------------------------------------------------------
(* Liveness.                                                               *)

\* An approved plan's workflow succeeds although a worker crashes and leases
\* run out at any point (restart recovery).
Recovers == approved ~> status = "succeeded"

\* An approved plan's workflow succeeds or a tool is refused for good, although
\* a worker crashes and leases run out at any point.
RunsOrFails ==
  approved ~> status \in {"succeeded", "failed", "compensating", "compensated"}

\* A refusal ends with every completed effect compensated when the call that
\* recorded it, still under its own lease, is not cut short.
ContinuedFailureUnwinds ==
  (/\ crashes = MaxCrashes
   /\ \E w \in Workers :
        call[w].phase = "unwinding" /\ CanBeginCompensation(w, call[w].at))
  ~> status = "compensated"

\* A terminal tool failure ends with every completed effect compensated.
FailureUnwinds == status = "failed" ~> status = "compensated"
=============================================================================
