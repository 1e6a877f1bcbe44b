---------------------------- MODULE ReviewRecords ----------------------------
(***************************************************************************)
(* The rows that demos write and the review console reads: attention items *)
(* with their plans, approvals, workflows and escalation tasks, and the    *)
(* append-only audit ledger.  A row is created with the foreign keys it    *)
(* names, or its transaction fails.                                        *)
(*                                                                         *)
(* Identifiers are fresh in the code.  Here an item is <<n, signal>>, where *)
(* n counts the resets, and a plan is the item it answers with the process *)
(* that made it.                                                           *)
(***************************************************************************)
EXTENDS Naturals, FiniteSets

CONSTANTS
  Processes,    \* the processes that run demos
  MaxResets,    \* bound on the number of resets
  LastDay       \* bound on the clock, in days

ASSUME RecordsAssumption == {MaxResets, LastDay} \subseteq Nat

VARIABLES
  resets,       \* how often the tables were emptied
  seeded,       \* the seed's rows are there: users, sources, clock
  day,          \* the demo clock's date
  attention,    \* attention_items
  approval,     \* plans, each with its approvals row
  workflows,    \* the plans that have a workflow_instances row
  tasks,        \* the plans that have an escalation task
  ledger        \* audit_events

tableVars == <<attention, approval, workflows, tasks, ledger>>
recordVars == <<resets, seeded, day, tableVars>>

\* What the detectors find in the seed.  Scenario B has a second held lot that
\* no released lot can cover.
Signals == {"A", "B", "B-uncovered", "C"}

Items == (0..MaxResets) \X Signals

Item(signal) == <<resets, signal>>

PlanIds == [item : Items, by : Processes]

Plans == DOMAIN approval

Requester(p) == IF p.item[2] = "B" THEN "Quinn" ELSE "Dana"

Approver(p) == IF p.item[2] = "B" THEN "Priya" ELSE "Dana"

People == {"Dana", "Quinn", "Priya"}

Verdicts == {"approved", "rejected"}

\* Mutant: neither the check nor the UPDATE looks at the status.
UndecidedOrNot(p) == TRUE

Undecided(p) == approval[p].status = "pending"

\* An audit event; a nullable reference is a set of at most one.
Event(kind, run, items, plans, who) ==
  [kind |-> kind, run |-> run, items |-> items, plans |-> plans, who |-> who]

\* Its foreign keys.
Resolves(e) ==
  /\ e.items \subseteq attention
  /\ e.plans \subseteq Plans
  /\ e.who # {} => seeded

RecordsTypeOK ==
  /\ resets \in 0..MaxResets
  /\ seeded \in BOOLEAN
  /\ day \in 0..LastDay
  /\ attention \subseteq Items
  /\ approval \in [Plans -> [status : {"pending"} \cup Verdicts, expires : 1..(LastDay + 1)]]
  /\ Plans \subseteq PlanIds
  /\ \A p \in Plans : p.item \in attention
  /\ workflows \subseteq Plans
  /\ tasks \subseteq PlanIds
  /\ \A e \in ledger : Resolves(e)
  /\ Plans # {} => seeded

RecordsInit ==
  /\ resets = 0
  /\ seeded = FALSE
  /\ day = 0
  /\ attention = {}
  /\ approval = [p \in {} |-> {}]
  /\ workflows = {}
  /\ tasks = {}
  /\ ledger = {}

-----------------------------------------------------------------------------
(* Transactions.                                                           *)

\* Mutant: attention_items is missing from the TRUNCATE.
TruncateButAttention ==
  /\ resets' = resets + 1
  /\ seeded' = FALSE
  /\ approval' = [p \in {} |-> {}]
  /\ workflows' = {}
  /\ tasks' = {}
  /\ ledger' = {}
  /\ attention' = {<<resets + 1, i[2]>> : i \in attention}
  /\ day' = 0

\* reset_database: every table in one TRUNCATE.
Truncate ==
  /\ resets' = resets + 1
  /\ seeded' = FALSE
  /\ day' = 0
  /\ attention' = {}
  /\ approval' = [p \in {} |-> {}]
  /\ workflows' = {}
  /\ tasks' = {}
  /\ ledger' = {}

\* seed_database: fails on its first primary key when the seed is there.
Seed ==
  /\ ~seeded
  /\ seeded' = TRUE
  /\ UNCHANGED <<resets, day, tableVars>>

\* PostgresAttentionAdapter.register: the item, unless its signal has one,
\* and the event that says which.
Register(run, signal) ==
  LET item == Item(signal)
      kind == IF item \in attention THEN "deduplicated" ELSE "detected"
  IN  /\ attention' = attention \cup {item}
      /\ ledger' = ledger \cup {Event(kind, run, {item}, {}, {})}
      /\ UNCHANGED <<resets, seeded, day, approval, workflows, tasks>>

\* An event in a transaction of its own.
Record(e) ==
  /\ Resolves(e)
  /\ ledger' = ledger \cup {e}
  /\ UNCHANGED <<resets, seeded, day, attention, approval, workflows, tasks>>

\* create_pending: plan and approval, four hours wide.
CreatePending(p) ==
  /\ p.item \in attention
  /\ seeded
  /\ approval' = [q \in Plans \cup {p} |->
                    IF q = p THEN [status |-> "pending", expires |-> day + 1]
                             ELSE approval[q]]
  /\ UNCHANGED <<resets, seeded, day, attention, workflows, tasks, ledger>>

\* Mutant: workflow_instances.plan_id is no foreign key.
StageWorkflowUnbound(p) ==
  /\ workflows' = workflows \cup {p}
  /\ UNCHANGED <<resets, seeded, day, attention, approval, tasks, ledger>>

StageWorkflow(p) ==
  /\ p \in Plans
  /\ workflows' = workflows \cup {p}
  /\ UNCHANGED <<resets, seeded, day, attention, approval, tasks, ledger>>

\* A task names its approval in its payload, not by a foreign key.
ScheduleTask(p) ==
  /\ tasks' = tasks \cup {p}
  /\ UNCHANGED <<resets, seeded, day, attention, approval, workflows, ledger>>

\* The compare-and-swap of approve and reject.
CanDecide(p) == p \in Plans /\ Undecided(p) /\ day < approval[p].expires

DecidePlan(p, verdict) ==
  /\ CanDecide(p)
  /\ approval' = [approval EXCEPT ![p].status = verdict]
  /\ UNCHANGED <<resets, seeded, day, attention, workflows, tasks, ledger>>

\* clock.advance
AdvanceDay ==
  /\ seeded
  /\ day < LastDay
  /\ day' = day + 1
  /\ UNCHANGED <<resets, seeded, tableVars>>

-----------------------------------------------------------------------------
(* What a person may read.                                                 *)

\* events_for_run
EventsOf(run) == {e \in ledger : e.run = run}

\* latest_run_for_plan; all events that name a plan are of one run.
RunsOf(p) == {e.run : e \in {e \in ledger : p \in e.plans}}

\* _actor_can_view_plan
CanViewPlan(u, p) == p \in Plans /\ u \in {Requester(p), Approver(p)}

\* can_view_attention
CanViewItem(u, item) == \E p \in Plans : p.item = item /\ CanViewPlan(u, p)

\* _can_view_audit_event: by any resource it names, else by its actor.
CanViewEvent(u, e) ==
  \/ \E p \in e.plans : CanViewPlan(u, p)
  \/ \E item \in e.items : CanViewItem(u, item)
  \/ e.plans \cup e.items = {} /\ u \in e.who

\* The audit page: there is something, and every event may be seen.
CanReadRun(u, run) ==
  /\ EventsOf(run) # {}
  /\ \A e \in EventsOf(run) : CanViewEvent(u, e)

\* read_status_for_actor
PendingFor(u) == {p \in Plans : Undecided(p) /\ u \in {Requester(p), Approver(p)}}
=============================================================================
