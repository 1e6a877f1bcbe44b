# Harmony enterprise agent: TLA+ models, checks and proofs

The repository (`src/`) is a Python program that watches an ERP for supply
problems, proposes a plan with the help of a language model, lets a person
approve the plan, and then carries it out as a durable workflow of external
effects that can be retried and compensated. This directory holds the models of
the parts of it that concurrency, time and failure make hard, the TLC
configurations that check them, and theorems about them checked by TLAPS.

Paths below are relative to `src/src/enterprise_agent/` unless they start with
`src/`.

## 1. Inventory

| Component | State it keeps | Operations | Interacts with |
| --- | --- | --- | --- |
| Declared workflows (`application/workflows.py`, `application/bounded_tool_plan.py`) | none; immutable declarations | `declared_workflow` | staged by `workflow_state`, re-read by the executor |
| Workflow store (`adapters/workflow_state.py`, `application/workflow_state.py`) | `workflow_instances`, `workflow_steps` | stage, claim, complete guard, start / complete / fail tool, begin / start / complete compensation: one transaction each, all compare-and-swap | called by the executor, staged by the demos |
| Workflow executor (`application/workflow_executor.py`) | none; local state of a call, and the `StartedToolExecution` its caller holds | `claim`, `advance_next_guard`, `begin_next_tool`, `execute_started_tool`, `compensate_failed_workflow` | store, approvals, identity, tool boundary, audit, each in a transaction of its own |
| External tool boundary (`adapters/tools.py`) | `tool_invocations` journal; purchase orders, lots, allocations, messages, scheduled tasks | `execute`, `compensate`: journal row and effect in one transaction, with row locks | called by the executor |
| Plan approvals (`application/approvals.py`, `adapters/plan_approvals.py`) | plan and approval rows | `request_pending(_plan)`, `approve`, `reject`, `reroute` | scheduler (escalation task), executor (reads), local decisions |
| Approval routing (`application/approval_routing.py`) | none | route, `schedule_escalation`, `handle_claimed_task` | approvals, identity, calendar, scheduler, audit |
| Scheduler (`adapters/scheduler.py`) | `scheduled_tasks` | `schedule`, `claim_due` (`FOR UPDATE SKIP LOCKED`), `mark_succeeded` | approval routing, arrival check, tool boundary |
| Arrival check (`application/arrival_check.py`) | none | `handle_claimed_task` | scheduler, ERP reader, attention, audit |
| Attention queue (`domain/attention.py`, `adapters/attention.py`) | `attention_items` | register (deduplicated by signal), transition (compare-and-swap), follow-up | detectors, arrival check, local review |
| Detection (`application/{stockout,supplier_risk,quality_hold}.py`) | none | `evaluate`: reads, guards, triggers | providers, attention |
| Providers (`adapters/providers.py`) | reads the source tables | `query`: one SELECT per record type | detectors, assemblers |
| Contexts (`application/{context,quality_context,scenario_c_context}.py`) | none | `assemble` | providers |
| Candidates and gates (`application/{candidates,gate}.py`, `application/scenario_{b,c}_control.py`) | none | rank, decide, request | planning, approvals |
| Planning (`application/planning.py`, `adapters/{claude,openai,openrouter}.py`) | none | schemas; `generate`: request, envelope, failure category | language-model services |
| Local decisions (`application/local_decisions.py`) | none | `availability`, `decide` with its rebuilt evidence | approvals, providers, audit |
| Local review (`application/local_review.py`, `adapters/local_review.py`), operator status | none | queue, decision form, audit page | approvals, audit |
| Audit (`adapters/audit.py`, `application/audit_*.py`) | append-only `audit_events` | `append`, `events_for_run`, `latest_run_for_plan`; narrative of a run | everything |
| Demos (`application/{guided_demo,live_demo,scenario_c_demo,local_*}.py`, `seed.py`) | none; what they stage | reset, seed, run a guided or a live case | all of the above |
| Web console (`web.py`) | signing key and cookie of the forms | pages, decisions, demo control | local review, local decisions, demos |
| Clock (`adapters/clock.py`) | `demo_clock` | `now`, `advance` | supplies every timestamp |
| Usage (`llm_usage.py`, `llm_setup.py`), evaluation, CLI, terminal, migrations | a configuration file | summaries, dialogue, rendering, schema | the services above |

The executor's methods, `claim_due`, `mark_succeeded` and both
`handle_claimed_task` have no caller under `src/src/`; the repository's tests
are their only callers. The models let any caller call any of them at any time,
within what the methods themselves accept.

### What is hard, and what makes each component correct

* **Executor and store.** A method is a sequence of separate transactions; a
  worker may stall or stop between any two, its lease may run out, another
  worker may take the workflow over, and every timestamp it uses was read
  before it started. Correct means: each effect once, in order, only when
  approved; rows, journal and lease tell one story; failure unwinds completely,
  last effect first; a finished workflow stays as it is; an approved one
  finishes.
* **Tool boundary.** One stable key per step makes retries harmless; effects of
  different workflows meet in one order or lot under READ COMMITTED, lock rows
  in orders that cross, and are refused when the record has moved on. Correct
  means: at most one effect and one reversal per key, quantities conserved, an
  original order replaced once, every workflow at an end.
* **Approvals and routing.** A decision, an expiry and an escalation race for
  one row; the escalation's task is written in another transaction than the
  approval. Correct means: one decision, by the person it is addressed to,
  before it expires, on sources that have not changed; a waiting approval is
  escalated.
* **Scheduler and arrival check.** Tasks are leased and closed without an
  ownership token; a worker may stall or stop in between, and what a handler
  read may have changed when it writes. Correct means: one lease at a time; a
  task is closed only with its consequence, which happens once and fits the
  order's records; a due task is handled; a cancelled one never is.
* **Detection, planning, decisions.** Evidence is read row by row, at detection,
  at planning and again at approval, without locks and perhaps on another day;
  the model's answer may be anything. Correct means: what is approved stood on
  one real state and fits what it is for in it; a refusal as stale is true;
  only a whole answer becomes a plan.
* **Demos, review desk, audit.** Two processes empty and fill one database over
  fixed run identifiers; events are appended after the transactions they report.
  Correct means: one plan per signal, a staged workflow its approver can answer,
  a ledger that never contradicts an approval, pages that open to those they
  are for.

`PROJECT.json` lists these as hazards, each at its line, with the properties
that cover them.

## 2. Modules

| Module | Models |
| --- | --- |
| `WorkflowDeclaration` | a declaration: `NumSteps` steps, of which `ToolSteps` have an external effect |
| `WorkflowStore` | the rows of one workflow and every compare-and-swap transaction on them: `Can...` is the WHERE clause, the operator of the same name the whole transaction |
| `ToolJournal` | the `tool_invocations` rows of that workflow and how often each effect was really committed |
| `WorkflowExecutor` | several workers calling the executor's methods on that workflow; clock, approval, changing sources, crashes |
| `Saga` | the abstract specification: what the effects of one workflow look like from outside |
| `ErpRecords` | the ERP tables and every effect and reverse effect of the tool adapter on them: checks, writes, and the result a compensation reads |
| `ErpEffects` | several workflows whose effects meet in those tables; row locks, deadlocks, refusals, compensation |
| `Scheduler` | the `scheduled_tasks` rows, the transactions on them, and the copies that dispatchers hold |
| `ArrivalCheck` | `Scheduler` with dispatchers that run `TuesdayArrivalCheckService`, the attention items, and orders that are received meanwhile |
| `PlanApproval` | one approval row and the compare-and-swap statements on it |
| `ApprovalEscalation` | `PlanApproval` and `Scheduler` with `PlanApprovalService` and `ApprovalRoutingService`: requester, two approvers, dispatchers |
| `Decision` | the abstract specification: what one approval promises |
| `Sources` | the rows of the source systems, the providers' SELECTs, and other users' changes |
| `Detection` | the three detectors: evidence to triggers, and the evidence they reject |
| `Context` | the three context assemblers |
| `Recommendation` | schemas, supplier candidates, the gates and controls, tool calls |
| `ModelAnswer` | the three providers' envelopes and the adapters' failure categories |
| `Planning` | all of these with `PlanApproval`: one live run and the console's decision on its plan |
| `ReviewRecords` | the rows demos write and the review pages read, with their foreign keys; the ledger; who may read what |
| `ReviewDesk` | demos of two processes, transaction by transaction, and the console with its forms and decisions |
| `MCWorkflowExecutor`, `MCErpEffects`, `MCArrivalCheck`, `MCApprovalEscalation`, `MCPlanning`, `MCReviewDesk` | the instances for TLC |
| `WorkflowExecutorProofs`, `SagaProofs`, `ErpEffectsProofs`, `SchedulerProofs`, `ArrivalCheckProofs`, `ApprovalEscalationProofs`, `PlanningProofs`, `ReviewDeskProofs` | theorems and lemmas with their proofs |

`PlanApproval` and `Scheduler` are each used by two systems and written once.
The executor and the effects are two levels of the same thing: `WorkflowExecutor`
shows that one workflow calls its tools in order, once, through crashes and
takeovers, whatever the tools answer; `ErpEffects` takes that for granted and
shows what the answers are when several workflows meet.

### State

| Variable | In the code |
| --- | --- |
| `status`, `cursor`, `owner`, `expires` | `workflow_instances.status`, `current_step`, `lease_owner`, `lease_expires_at` |
| `steps` | `workflow_steps.status` by `step_index` |
| `journal`, `reversal` | `tool_invocations.status` of the step's effect and of its compensation |
| `applied`, `reversed` | no row: counts of what was committed to the ERP tables, never read by an action |
| `call` | the method a worker is in, and its arguments `at`, `until` |
| `held` | the `StartedToolExecution` that `begin_next_tool` returned and its caller keeps |
| `approved` | `approvals.status = approved` |
| `drifted` | the live source versions differ from `plan.source_versions` |
| `now`, `crashes` | the business clock; a bound on interruptions |
| `erp` | `purchase_orders`, `quality_lots`, `production_allocations`, `production_orders`, `messages`, the workflows' arrival tasks; `late`: the replacement would now arrive too late |
| `result` | `tool_invocations.result` by workflow and step |
| `mode`, `at` (ErpEffects) | the workflow's status, and the tool step it is in |
| `locked`, `seen` | the open transaction: how many of its row locks it has, and the snapshot of its shortage query |
| `taskStatus`, `dueAt`, `leaseUntil` | `scheduled_tasks.status`, `due_at`, `lease_expires_at` |
| `claims` | no row: the lease in the copy of a task that `claim_due` returned to a dispatcher |
| `attention`, `followups` (ArrivalCheck) | `attention_items.status` of the original item; the number of follow-up items by their dedupe key (item, order, version) |
| `order`, `fullAt` | `purchase_orders.received_quantity` against `ordered_quantity`, and `source_version`; the version of the full receipt (history) |
| `PlanApproval`'s `status`, `approver`, `expiry` | `approvals.status`, `approver_id`, `expires_at` |
| `decider` | no row: who decided (history) |
| `request`, `deciding`, `work` | local state of `request_pending`, of `approve`/`reject`, and of `handle_claimed_task` |
| `away`, `backup` | the calendar's and the identity adapter's answers |
| `rows` | the source tables, a record per row with the columns the program decides by |
| `query`, `dquery` | what a run, or a decision, still has to read and what it has read |
| `trigger`, `ctx`, `answer`, `plan` (Planning) | the values of those names in the run; `plan` is the stored plan |
| `uttered`, `saw`, `during` | no row: what the model did, the rows when the decision began, and the rows there were at some moment of the decision (history) |
| `resets`, `seeded`, `day` | how often the tables were emptied, whether the seed is there, `demo_clock` |
| `attention`, `approval`, `workflows`, `tasks`, `ledger` (ReviewRecords) | the rows of `attention_items`, `plans` with `approvals`, `workflow_instances`, `scheduled_tasks`, `audit_events` |
| `demo` | no row: a demo's remaining transactions, the items it was first to register, and how it ended; `alone` is history |
| `actor`, `form`, `post` | `LOCAL_REVIEW_ACTOR_ID`, the form whose cookie and token still work, the decision being handled |

### Actions

A public method becomes one opening action (`Call...`: the reads and checks that
precede its first transaction) and one `Commit...`/`Invoke...` action per
transaction. `claim` is `CallClaim`, `CheckClaim` (its load and revalidation)
and `CommitClaim`; `begin_next_tool` is `CallBegin` (which goes through `claim`)
or `CallContinue` (when a tool has completed), then `CommitStart`;
`execute_started_tool` is `CallExecute`, `InvokeTool`, then `CommitCompletion`
or `CommitFailure`; `compensate_failed_workflow` is `CallCompensate` (or the
tail of `CommitFailure`), `CommitUnwind`, and the loop `CommitReverseStart`,
`InvokeReversal`, `CommitReverseEnd`. Loads that only precede a check of the
same call are merged with it when nothing later in the call relies on them: the
compare-and-swap that follows checks the same facts again. `Crash` ends a call
between any two transactions, with the process (which loses `held`) or with an
exception (which does not, as with `DeterministicCrashInjector`).

Timestamps: `at` is read when the call opens and used in every transaction of
the call, as in the code; `until` is `at` plus the lease length asked for.

The handlers follow the same scheme. `ArrivalCheck`: `Handle` (validation of
the claimed copy; `HandleLate` when it raises), `LoadAttention`, `ReadOrder`,
then `Resolve` or `Reopen`, then the dispatcher's `Mark`. `ApprovalEscalation`:
`PersistRequest` and `ScheduleEscalation` are the two transactions of
`request_pending`; `CallDecide` and `CommitDecision` the check and the statement
of `approve` and `reject`; `Handle`, `LoadApproval`, `Consult` and
`CommitReroute` those of `handle_claimed_task`; `Mark` the completion. A handler
that raises drops its copy and leaves the row to its lease.

In `ErpEffects` a call of the adapter is a transaction: `Lock` takes the next row
of its statements, in their order, and waits while another transaction has it;
`Commit` and `Compensate` check what is left and write effect and journal row at
once; `Refuse`, `GetStuck` and `RollBack` are a refused effect, a refused
reversal and a deadlock victim.

In `Planning` each SELECT is an action (`ReadNext`, `RereadNext`), and each
computation on what was read is one (`Detect`, `AssembleContext`, `Ask`,
`Request`, `AuditRequest`, `Stage`; `Rebuild`, `CommitApprove`, `RefuseStale`).
In `ReviewDesk` each transaction of a demo is one (`Reset`, `SeedRows`,
`RegisterSignal`, ..., `Announce`; the request's three events are `ReportPlan`,
`ReportGate` and `ReportRequest`), and a decision is `Decide`, `CommitDecision`
and `RecordDecision`, any of which a `Restart` of the console can follow.

### Abstractions

Executor:

* One workflow. Rows of different workflows meet only in the ERP tables and in
  no statement of the store.
* The tool boundary's refusals are a nondeterministic choice for the steps in
  `FallibleTools` and `FallibleReversals`; `ErpEffects` has the reasons for them.
  A key's row that would stay `started` is rolled back with the effect and so
  never seen.
* The idempotency key is a function of the step. Stored rows match the
  declaration, the plan's hash matches the approval, and the actor keeps its
  scopes: the executor rejects a call otherwise, which is a stuttering step.
* Audit events, results, errors and attempt counts are left out.
* A call that is refused before it changed anything is a stuttering step.

Effects:

* Parts and plants always match, quantities are small integers, and a plan is
  the sequence of its tool steps. The date that a replacement must meet is one
  flag that turns once.
* Tools on purchase orders and messages lock one row, or rows no other
  transaction waits for while it holds one; they are one action.
* PostgreSQL picks a deadlock victim: either of the two may be rolled back, and
  its call is made again, as the executor's caller may.

Scheduler, arrival check, escalation:

* The dispatch loop (`Poll`, `Mark`, and stopping in between) is external: the
  repository has the scheduler and the handlers, and only tests connect them. A
  dispatcher polls when it holds nothing, handles what it holds in any order,
  and completes what a handler returned from, whatever the outcome.
* `SKIP LOCKED` is modelled as a claim that follows the transactions whose rows
  it passes over. A row that is passed over although its transaction rolls back
  is due again at the next poll.
* In `ArrivalCheck` one item and one order belong to each task. Orders are only
  received, never taken back. Nobody but the arrival check resolves an item.
* In `ApprovalEscalation` the gate has accepted the plan, hashes match (the rows
  are immutable), and the out-of-office answer does not change during the run.
  `request_pending_plan`, which scenarios B and C use, schedules no escalation
  at all; `request_pending` here is the variant with an escalation scheduler.

Planning:

* Days are the unit of time. An approval window of four hours ends with the day
  it began in (`Window`).
* The set of rows that a query returns, not their order or wording. Prompts,
  transports and the text of rationales are left out; a document is its outcome
  and the fields the gate reads.
* Production orders, messages and calendar events have no version of their own
  (the providers report 1), so a change of their content alone does not make a
  plan stale. `ApprovedOnHeldEvidence` therefore speaks of versioned rows. The
  day production starts is part of the signal, which is rebuilt at approval:
  `ApprovedPlanFits` asks it of the row (`PlannedFor`).
* A reallocation may name the production order that gives the material up
  (`Optional`); the schema checks that it is another one, and neither the gate nor
  the coverage check looks at it.
* `AuditRequest` is the first of the request's three events; from it on the plan
  has a run, and `Stop` may follow before the others are written.
* The live run passes its own context's versions to the gate as the current
  ones; the comparison that counts is the one at approval.
* `Stop` is enabled only between the request and the staging, where something
  durable is left half done.

Review desk:

* `Stories` says what each process may be asked to stage. A selection names no
  case twice (`select_guided_demo_cases` refuses it; a live demo has one case).
  Identifiers are fresh
  in the code: an item here is the number of the reset it came after and its
  signal. Run identifiers are the program's own constants, and two live
  processes share them.
* The browser keeps one cookie, so at most one form works; `LoseForm` stands for
  its expiry and for pages that replace it without writing anything. The
  console's POST handlers block, so it does one thing at a time.
* An assembler's two events of what it saw (`context.gathered`,
  `evidence.observed`) name the same item and no plan, and nothing asks which of
  them is there: they are one.
* What detectors and assemblers find in the seed is fixed on its first day; on a
  later one they may find too little, nondeterministically.
* `scheduled_tasks` names its approval in a payload without a foreign key, so a
  task survives its approval. No dispatcher runs on the demo database.

## 3. Runs

`tlc -config <name>.cfg <module>`, with the MC module that `PROJECT.json` names
for the run. Every cfg turns the deadlock check off because the system really
stops: a finished workflow accepts no call, a demo ends, and the clock is
bounded.

| Run | Question | Result |
| --- | --- | --- |
| `executor_safety` | Do rows, journal, lease and effects stay consistent, and is every execution one of the saga, with two workers, stalls past the lease, a crash, refused effects and refused reversals? | holds; about 190,000 states up to symmetry |
| `executor_sources` | Is a plan that went stale while waiting refused on every way in, when callers report what they read? | holds |
| `executor_recovery` | Does an approved workflow finish or meet a refusal, and does a refusal whose call is not cut short end compensated, through a crash and leases that run out? | holds when callers pass back the versions the plan captured |
| `failure_stuck` | Does every terminal failure end compensated when a worker may crash once? | no |
| `restart_stuck` | Does an approved workflow finish when callers report the versions they read? | no |
| `erp_effects` | With up to three workflows whose reroutes, holds, moves and shortage notices meet in one order or one lot: are quantities conserved, lots never overdrawn, an original closed only for a replacement, notices corrected, and does each workflow settle although transactions deadlock? | holds |
| `arrival_check` | With dispatchers that stall, crash and meet a task nobody can handle, while goods arrive and the workflow is unwound: is a check leased once, closed only with its consequence, free of follow-ups the records do not warrant, quiet when cancelled, and done in the end? | holds; about 365,000 states |
| `approval_escalation` | Are two approvers and two dispatchers on one request still one decision, by its addressee at that moment, never on sources that had changed before anybody began to decide; and is a scheduled request answered or handed over? | holds; about 126,000 states |
| `escalation_lost` | Is every unanswered request handed over when its approver is away? | no |
| `planning` | In each scenario, with rows that change under every read, a model that answers anything and a date that changes: did what is approved stand on one real state and fit what it is for in it, is a stale refusal true, is a plan only ever a whole answer, and does an undisturbed plan get its verdict? | holds; about 505,000 states |
| `review_desk` | With two processes running demos over each other, stopping anywhere, and decisions in between: one plan per signal, every staged workflow answerable, a ledger that contradicts no approval, no failure of a demo left alone? | holds; about 1,080,000 states |
| `audit_unreadable` | Can whoever finds an approval in the queue open the audit page of its run? | no |

### The disagreements

* `failure_stuck`: `compensate_failed_workflow` wants `FAILED` under the live
  lease that the failing call left behind, and no statement takes over a
  `FAILED` or `COMPENSATING` workflow. One crash is enough to leave completed
  effects in place.
* `restart_stuck`: the first effect raises a source version that the plan binds.
  `begin_next_tool` skips the comparison for the live lease owner only; a
  restart after the lease has run out has to `claim`, and is refused.
* `escalation_lost`: the approval and its escalation task are two transactions.
  A requester that stops in between leaves an approval nobody will escalate,
  and nothing looks for such approvals.
* `audit_unreadable`: the page of a run opens only to somebody who may see all
  its events, and an attention item is seen through a plan that answers it. A
  live quality-hold run registers a second item, for a lot nothing can cover,
  that never gets a plan; so nobody can open the page its result links to.

### What holds, and what it does not say

* The lease is checked at the start of `execute_started_tool` and not in the
  provider's transaction: a worker that stalls in between commits the effect
  when its lease has run out, possibly after another worker took the workflow
  over. The journal key keeps the effect single (`AtMostOnceEffects`), but if
  the other worker's own attempt was refused and the workflow aborted, the late
  effect stays: `Saga` shows this exactly, as `LateApply`, and as `Abort` with
  the effect applied.
* `mark_succeeded` names the task and not the claim: a dispatcher whose lease
  has run out completes the task under another's lease. `ClosedHadConsequence`
  shows why this does no harm: it has been through the handler too.
* `StalePlanNeverApproved` is about changes that happen while nobody is inside
  `approve`: the versions are compared by the caller's snapshot and not by the
  statement, so a change after the comparison does not stop that decision (the
  executor compares again before the first effect: `StalePlanNeverRuns`).
* `ApprovedOnHeldEvidence` and, for versioned rows, `ApprovedPlanFits` speak of the
  moment the approver pressed the button, not of the moment the row is written.
  The production order, which has no version, was as `ApprovedPlanFits` says at
  some moment between the two.
* `ApprovedPlanFits` does not say that a replacement will arrive in time. The
  candidate filter counts the supplier's lead time from the day of detection,
  and nothing between detection and approval counts again: a plan detected on
  one day and approved on the next may be late by one. `create_replacement_po`
  refuses it then by the clock, which is `late` in `ErpEffects`.
* Whether production is still committed is asked of a held order only (scenario
  C): the assemblers of A and B do not look, so a reroute or a reallocation may be
  approved for production that was cancelled after detection. Of a reported
  shortage, `ApprovedPlanFits` says no more than that production starts when the
  trigger says.
* An arrival check that a dispatcher has claimed refuses the reverse effect, and
  the unwinding of its workflow stops there. That is a refused reversal like
  others (`LedgerAgrees` of the executor); `CancelledIsQuiet` is about the other
  outcome, a check that was cancelled and must not be handled.
* `ContinuedFailureUnwinds` leaves out the calls that a crash cuts short;
  `failure_stuck` shows what becomes of those.
* A shortage query reads the allocations of the moment it began and lots as they
  are when it has waited for them, so a notice may name a quantity that was
  never true. `NoticesTrue` covers what a notice does promise: it is corrected
  when its workflow is undone.
* `LedgerAgrees` of the review desk is one direction: a decision whose console
  stops before its event stands without one. It ties a verdict to the run that
  recommended its plan, not to the request's own event: the first of the request's
  three events is enough for the approver to see the plan, so a quick decision
  may be in the ledger before `approval.requested`, or without it if the demo
  stopped in between.

### Bounds

Executor. Two workers suffice for a stalled worker and the one that takes over;
three tool steps for an unwinding with a completed, a compensating and a
compensated step at once; `NumSteps = 4` puts a guard in front, as `po_reroute:v1`
does. `MaxTime` is larger than the shortest lease, so that a lease runs out, is
taken over and runs out again, and `ApprovalExpiry` is inside the clock's range
in the safety run and outside it in the liveness runs. One crash reaches every
place a second crash could: all it leaves behind is durable state and a `held`
token. The theorems below have no such bounds.

Effects. One lot, two production orders and one original are the least for moves
that cross and for two that compete; each situation of `MCErpEffects` makes one
kind of conflict, with a third workflow where the second has to meet somebody
while it unwinds. One outside change (`MaxDisturbances`) is enough to make any
one check fail at any point.

Dispatchers. Two are a late one and the one that claims after it. In
`arrival_check` the clock runs to 3 with a lease of 1, so a task due at 1 is
claimed, runs out and is claimed again; the unreadable task is due first, so
that it competes for every claim (`ClaimLimit = 1`). An order reaches version 2,
the least that separates a follow-up from the receipt it must not outlive. Calls
use a time at most `MaxLag = 1` old, a whole lease. In `approval_escalation`,
requests expire at 2, inside the handling of a task due at 1, or beyond the
clock. Liveness says nothing of a task whose last lease runs out only after the
bounded clock (`OutlivesClock`).

Planning. Each scenario has its rows twice where it must choose (two suppliers
that could deliver and one too slow, a spare lot and another that may be
released), at most one row of a kind that changes, and `MaxEdits = 2`: one change
before and one after any read, or one that undoes the effect of another. The
model may answer as asked, against the policy, against the schema, twice, in
part, or not at all. The date changes once, which ends the approval window.

Review desk. Two processes, of which one serves the console; two resets, so that
two demos overlap or one meets another's leftovers; one change of date. Stories
cover both scenarios that stage one item and the one that stages two, guided and
live, and a reset that stages nothing.

### Fairness

`FairSpec` of the executor assumes that a call goes on (`WF` of `Continue(w)`:
straight-line code with no wait on another worker), that the approver eventually
decides (`WF` of `Approve`), and that each worker's caller makes its next call
again if it keeps becoming possible (`SF` of `Proceed(w)`). Strong fairness is
needed because a lease running out or another worker's progress disables a call
and enables another. `Proceed` asks of callers only what the tests' callers do:
claim without a live lease, continue with one, and open the unwinding of a
failed workflow. No fairness is assumed of `Tick`, `Drift`, or `Crash`, nor of a
claim that the caller has no reason to make. A restarted worker comes back under
its own name.

In `ErpEffects` each workflow goes on (`SF` of `Progress(w)`: another's lock
disables its step, and the database wakes it up), and a transaction that again
and again could have its next row gets it (`SF` of `LockAnother(w, k)`: PostgreSQL
queues the waiters of a row). Nothing is assumed of other users.

In `ArrivalCheck` and `ApprovalEscalation` the clock goes on (`WF` of `Tick`: a
lease that never runs out protects a crashed claim for ever), an entered
handler goes on and its task is marked with the current time (`WF`), and a
dispatcher that again and again could claim something polls with the current
time (`SF`, because other dispatchers' claims disable it). These are assumptions
on the external dispatchers. A requester that has not stopped goes on; nothing
is assumed of approvers, of goods, of other users of an item, or of crashes.
`SF` of a poll does not say which task is claimed: that a task nobody can handle
does not starve the others follows from its own lease.

In `Planning` a run goes on until it ends or its process stops (`WF` of `Run`;
`Stop` disables it), and an approver begins, goes on and tries again when told to
(`WF` of `Decides`); neither waits for anybody. `ReviewDesk` is checked for safety
only.

## 4. Theorems

Every invariant and every action property that a passing run checks is also a
theorem here, and both refinements (`Saga`, `Decision`) are. The theorems hold for
every value of the constants that satisfies the modules' named assumptions, so
the bounds of the models, being constants, are included:

* any finite or infinite set of workers, dispatchers and tasks (at least one
  task), any declaration, clock, lease, crash count, choice of refusals, expiry
  and end of day;
* in `ErpEffects` any number of workflows, lots and production orders (finite
  sets, disjoint from each other where one table has them in one column), any
  seeded rows, and any plans whose calls satisfy the tools' input models and
  which the planners can produce: the reroute of scenario A, or a sequence of
  bounded actions (`SituationsAssumption`);
* in `Planning` any seed and any rows that may arrive, as long as versions are
  positive (migration 0003), keys are primary keys and every production order has
  a start (a column), and any utterances of the model;
* in `ReviewDesk` any finite set of processes, any stories over the three cases
  in which no case is named twice, any number of resets and days.

`WorkflowExecutorProofs`:

* `TypeCorrect`: `Spec => []TypeOK`.
* `RowsStayConsistent`: `RowsConsistent` is inductive together with the types.
  Every store operator is one case; the operators of the executor are folded
  into `SomeTransaction` first, so that each transaction is treated once and not
  once per calling phase.
* `EffectsHappenOnce`: the strengthening `JournalInv` ties the counters to the
  journal's status (`applied[i] = 1` exactly when the row is not absent, and
  `reversed[i] = 1` exactly when it is compensated).
* `EffectsAreApproved`: `ApprovalInv` says that whatever a call, a held token or
  a row has got past the revalidation implies the approval.
* `LedgerStaysTrue`: `LedgerInv` with `CallsInv`, which says what each phase of a
  call knows about the journal (a worker that is completing has a succeeded
  journal row, one that is closing a compensated one, whoever else has acted in
  the meantime).
* `SingleUnwinder`: `UnwindersInv`: an unwinding call exists only while the
  workflow is compensating (or closed), and the one transaction into that
  status turns a failed row.
* `LeaseTakeover`: `ClockInv`: no call's timestamp is ahead of the clock.
* `FinishedStaysFinal`: no guard of the store accepts a finished status.

`SagaProofs`:

* `ExecutorImplementsSaga`: initial states map to initial states, and every step
  of the executor is the abstract step that `Matched` names for it or a
  stutter. Beside the invariants of `WorkflowExecutorProofs` it needs
  `UnwindingInv`: reverse steps are walked from the last to the first
  (`UnwindOrder`), a step being reversed has a journal row, and a worker in the
  compensation loop is at the step it thinks it is at.
* `StalePlansNeverRun`, under the hypothesis `LiveVersions`: callers pass the
  versions they read, not the versions the plan captured. With the latter there
  is nothing to compare, which `executor_recovery` relies on. A waiting plan whose
  sources changed is opened by no call, so the state is kept by every step; that
  nothing was applied follows from `LedgerInv` and `UnwindingInv`.

`ErpEffectsProofs`:

* `TypeCorrect`: not inductive without `Typed`, which says what each journal row
  holds and (`Phase`) that the rows not yet undone are exactly those the workflow
  has come past: below `at` while it runs, up to `at` while it unwinds.
* `LotsStayCovered`: the sum of the allocations of a lot is taken over a set of
  any size, so `SumUpdate` comes first (changing a function in one place
  changes its sum by the difference; the fold is unfolded along the finite set).
  `LocksInv` says that two transactions never hold one row and that what a
  transaction checked of its locked rows still holds at its commit. `StockInv` is
  what makes reversals safe: an allocation's id is never used twice, and a row
  that still has the id and version a result names has the quantity the effect
  left in it (`Links`), so a reversal that passes its version check takes back
  exactly what was given.
* `BooksAlwaysBalance`: each effect and reversal moves the same quantity between
  the lot's free stock and the two allocations, from the same invariants.
* `SupplyAlwaysKept`: `SupplyInv`. A cancelled original is cancelled by one journal
  row of one workflow, whose replacement stands exactly as long as its creation is
  in the journal; the order of the reroute's steps and the reverse order of
  its reversals close the gap.
* `NoticesAlwaysTrue`: `NoticesInv` says how far a workflow's notices and
  corrections have come: no correction before its notice's step is unwound, and
  every one after.

`SchedulerProofs` has the scheduler's lemmas, which both users of it cite: what
each transaction on the tasks does to the types.

`ArrivalCheckProofs`:

* `TypeCorrect`.
* `OneLeaseAtATime`: `LeasedOnce` is not inductive, because `claim_due` looks at
  the row and not at the copies. `LeaseInv` says that a copy whose lease still
  runs is the row's: the row is claimed until that very time, or the task has
  succeeded.
* `CancelledStaysQuiet`: `HandlingInv` (who handles a task has a copy of it) and
  `QuietInv` (a task that is absent, pending or cancelled has no copy and no
  consequence): the reverse effect takes only pending tasks.
* `FollowupsStayWarranted`, `ResolutionIsEarned`, `ClosingIsEarned`: one invariant
  of four parts. `FullInv` ties the history variable to the order's row,
  `ReceiptInv` and `FollowupInv` say what a handler knows from the read it made
  however long ago (a full receipt stays full; the version it read was a version
  of the order and was short), and `ConsequenceInv` that who is marking a task,
  and every succeeded task, has its consequence in the tables.

`ApprovalEscalationProofs`:

* `TypeCorrect`.
* `RequestIsOneDecision`: `ApprovalEscalation` implements `Decision`. Initial
  states map to initial states, and each transaction on the approval's row is
  the abstract step of the same name or a stutter. The invariant it needs,
  `MayInv`, is that a handler about to hand the request over was told, by
  calendar and identity, that it may.
* `StalePlansStayUnapproved`: no approver's call that is past its comparison
  began after the change, so all that remains are refusals (`OnlyRefusals`),
  which every step keeps.

`ReviewDeskProofs`:

* `TypeCorrect`: with `DemosInv` (what a demo has still to do is a sequence of
  known moves), `ResetsInv` (resets made and resets still owed by running demos
  do not exceed the bound) and `DeskInv`. It includes that every reference
  between rows can be followed.
* `SignalsGetOnePlan`: `RightInv`. Registering an item that was not there yet
  gives a demo the right to plan for it; no two processes ever have it for the
  same item, and a plan belongs to a process that had it. A reset numbers all
  all later items anew, so old rights are for items that cannot be planned for.
* `StagedCanBeAnswered` and `LedgerAlwaysAgrees`: `TodoInv` (what a demo still has
  to do is in the order of `Rank`, the seed directly follows the reset and the
  recommendation's event its request, and a case that goes on is registered and
  requested in the same list) and `RequestInv`: the demo that goes on to stage a
  plan has recorded its recommendation under its own run; every event about a
  plan is of the run that recommended it; a decision being handled is about a
  present plan, in the verdict it has committed, or about one that is gone for
  good; and a verdict in the ledger is the approval's status by its own approver.
* `LoneDemosNeverFail`: `AloneInv`. A demo that nobody disturbed since it began is
  the only one running, the tables hold what it put there and nothing else, and
  each of its remaining transactions has its foreign keys already or still has
  the transaction that makes them before it in its list.

`PlanningProofs`:

* `TypeCorrect`, with `PhaseInv` (what the run has at each of its places).
* `OnlyWholeAnswers`: `AnswerInv` (an answer that is judged is the one document of
  a finished utterance, and has the scenario's schema) and `PlanInv` (the plan is
  what the gate passed).
* `ApprovedWasHeld`: `VersionsInv`, a versioned row is what it was as long as its
  version is. It ranges over every row that the program or the history remembers,
  and other users' edits keep it because they keep keys and increment versions.
  `OrderInv`: the plan's evidence was read before the decision began, and what the
  decision reads is read after. A row that both have in one version was
  therefore there, unchanged, when the approver pressed the button, although no
  two of the reads saw one state of the database.
* `ApprovedPlansFit`: `ContextInv` ties what the context names to its evidence; with
  `ApprovedWasHeld` and the gate's checks of `Recommendation` the plan fits the
  versioned rows of that moment. For the production order, `DuringInv` says that
  whatever the decision has read and rebuilt is of rows there were while it went
  on, and `SignalInv` that the attention item keeps the trigger's signal; the
  comparison of signals at the end then gives the trigger's start to a row that
  was really there (`PlannedInv`).
* `StaleIsTrue`: `StillInv`. While nobody has changed anything, each SELECT finds
  what the same SELECT found in the run (`Progress`), the rebuilt trigger is the
  detector's, and so the rebuilt context is the plan's: the comparison cannot
  fail.

Only model-checked are the liveness properties: `RunsOrFails` and
`ContinuedFailureUnwinds` of the executor, `Settles` of `ErpEffects`, `ChecksEnd` of
`ArrivalCheck`, `ScheduledEscalates` of `ApprovalEscalation`, and
`UnchangedIsDecided` of `Planning`. They need fairness and `ENABLED`, which the
prover does not support.

## 5. Plan

Done: executor, store, journal and saga; approvals, routing and escalation;
scheduler and arrival check; effects on the ERP records; detection, contexts,
gates, provider answers and local decisions; demos, review desk and audit; the
theorems above.

Left: `WorkflowExecutor` with `ErpEffects` in one instance, so that a late effect
(`LateApply` of `Saga`) meets other workflows' records.

## Not modelled

* The matching of stored workflow rows against the declaration, actor and scope
  checks of the executor: their failure is a call that changes nothing.
* The audit events of workflow transitions. Each is appended after its
  transaction and lost in a crash between the two; the repository promises no
  more.
* Calendar arithmetic in time zones: the end of the business day, next Tuesday
  at nine. A resumed step computes it from stored values only.
* `llm_usage.py` and `llm_setup.py` (summaries of telemetry and events, a dialogue
  over a configuration file), `application/llm_evaluation.py` (reads and reports,
  writes nothing to the database).
* Redaction of audit payloads and the narrative of a run, HTML, terminal output,
  command-line parsing, configuration, smoke tests: they keep no state and take
  no decision that the components above do not.
* The rest of the seed's rows and the migrations, which are data and schema; the
  foreign keys and unique keys the models depend on are part of their guards.
