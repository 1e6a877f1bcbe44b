------------------------------ MODULE Planning ------------------------------
(***************************************************************************)
(* One planning run of run_live_demo, from the detector's first read to    *)
(* the staged plan, and the console's decision on that plan, while other   *)
(* users change the sources and the clock moves.                           *)
(*                                                                         *)
(* No read holds a lock and no two share a snapshot.  What keeps the       *)
(* decision sound is that it reads everything again: the approval rebuilds *)
(* the trigger and the context from current rows and compares all versions *)
(* with the plan's, then moves the approval by a compare-and-swap.         *)
(***************************************************************************)
EXTENDS ModelAnswer, PlanApproval

CONSTANTS
  Seed(_),          \* the rows each scenario starts from
  Scenarios,        \* the scenarios that run
  Watched,          \* the production order scenario B is run for
  Utterances(_),    \* what a model may do when asked about a scenario
  LastDay           \* bound on the clock, in days

ASSUME PlanningAssumption ==
  /\ LastDay \in Nat
  /\ Scenarios \subseteq {"A", "B", "C"}
  /\ \A s \in Scenarios :
       /\ \A r \in Seed(s) : IsRow(r)
       /\ \A e, f \in Seed(s) : SameKey(e, f) => e = f
       /\ \A u \in Utterances(s) : u.kind \in Kinds

VARIABLES
  scenario,
  day,          \* the demo clock's date
  pc,           \* where the run is
  query,        \* the run's reads
  since,        \* detected_at
  trigger,      \* the detector's signal
  attention,    \* the attention item registered for it
  ctx,          \* the assembled context
  answer,       \* what the adapter made of the model's utterance
  uttered,      \* what the model did (for the properties)
  plan,         \* the immutable plan
  audited,      \* an audit event names the plan
  staged,       \* the plan has a workflow
  dpc,          \* where the decision is
  dquery,       \* the decision's reads
  dtrigger,     \* the trigger it has rebuilt
  verdict,      \* what the approver was last told
  saw,          \* the rows when the decision began (for the properties)
  during        \* the rows there were at some moment of the decision (likewise)

runVars == <<pc, query, since, trigger, attention, ctx, answer, uttered, plan,
             audited, staged>>
decisionVars == <<dpc, dquery, dtrigger, verdict, saw, during>>
vars == <<scenario, day, sourceVars, runVars, decisionVars, approvalVars>>

Nothing == [none |-> TRUE]

NoQuery == Query(<< >>)

Ended == {"closed", "failed", "stopped", "done"}

TypeOK ==
  /\ scenario \in Scenarios
  /\ day \in 0..LastDay
  /\ edits \in 0..MaxEdits
  /\ pc \in {"detecting", "assembling", "asking", "judging", "created", "audited"} \cup Ended
  /\ since \in 0..day
  /\ \A e \in query.seen \cup dquery.seen \cup saw : e.version \in Nat \ {0}
  /\ trigger # Nothing => trigger.versions # {} /\ trigger.day = since
  /\ ctx # Nothing => VersionsOf(ctx.evidence) # {}
  /\ plan # Nothing <=> status # "absent"
  /\ {audited, staged} \subseteq BOOLEAN
  /\ staged => audited
  /\ dpc \in {"idle", "rebuilding", "reassembling"}
  /\ dpc = "idle" => dquery = NoQuery
  /\ verdict \in {"none", "stale", "conflict"} \cup Verdicts
  /\ ApprovalTypeOK

Init ==
  /\ scenario \in Scenarios
  /\ rows = Seed(scenario)
  /\ edits = 0
  /\ day = 0
  /\ pc = "detecting"
  /\ query = Query(DetectionReads(scenario))
  /\ since = 0
  /\ trigger = Nothing
  /\ attention = Nothing
  /\ ctx = Nothing
  /\ answer = Nothing
  /\ uttered = Nothing
  /\ plan = Nothing
  /\ audited = FALSE
  /\ staged = FALSE
  /\ dpc = "idle"
  /\ dquery = NoQuery
  /\ dtrigger = Nothing
  /\ verdict = "none"
  /\ saw = {}
  /\ during = {}
  /\ ApprovalInit

-----------------------------------------------------------------------------
(* The run: detector, context, model, gate, request.                       *)

\* One SELECT of the detector's or the assembler's queries.
ReadNext ==
  /\ pc \in {"detecting", "assembling"}
  /\ ~Finished(query)
  /\ query' = Read(query, since)
  /\ UNCHANGED <<scenario, day, sourceVars, pc, since, trigger, attention, ctx,
                 answer, uttered, plan, audited, staged, decisionVars, approvalVars>>

\* The one new risk the run goes on with.
Taken(found) ==
  IF scenario = "B" THEN {t \in found : t.order = Watched}
                    ELSE {t \in found : found = {t}}

\* evaluate, then register in a transaction of its own.
Detect ==
  /\ pc = "detecting"
  /\ Finished(query)
  /\ ~Rejected(scenario, query.seen)
  /\ \E t \in Taken(Detected(scenario, query.seen, since)) :
       /\ trigger' = t
       /\ attention' = [signal |-> Signal(t), versions |-> t.versions, day |-> t.day]
  /\ pc' = "assembling"
  /\ query' = Query(AssemblyReads(scenario))
  /\ UNCHANGED <<scenario, day, sourceVars, since, ctx, answer, uttered, plan,
                 audited, staged, decisionVars, approvalVars>>

\* What the run can still choose from: it stops when there is nothing.
Options(c) ==
  CASE scenario = "A" -> Candidates(c)
    [] scenario = "B" -> c.alternatives
    [] scenario = "C" -> c.evidence

Contexts(signal, evidence) == Assemble(scenario, attention, signal, evidence)

AssembleContext ==
  /\ pc = "assembling"
  /\ Finished(query)
  /\ ctx' \in {c \in Contexts(trigger, query.seen) : Options(c) # {}}
  /\ pc' = "asking"
  /\ query' = NoQuery
  /\ UNCHANGED <<scenario, day, sourceVars, since, trigger, attention, answer,
                 uttered, plan, audited, staged, decisionVars, approvalVars>>

\* An error ends the run: nothing is at risk, the evidence is ambiguous, a
\* record changed or is gone, or no option is left.
Abandon ==
  /\ Finished(query)
  /\ \/ /\ pc = "detecting"
        /\ \/ Rejected(scenario, query.seen)
           \/ Taken(Detected(scenario, query.seen, since)) = {}
     \/ /\ pc = "assembling"
        /\ \A c \in Contexts(trigger, query.seen) : Options(c) = {}
  /\ pc' = "failed"
  /\ query' = NoQuery
  /\ UNCHANGED <<scenario, day, sourceVars, since, trigger, attention, ctx,
                 answer, uttered, plan, audited, staged, decisionVars, approvalVars>>

\* generate, through the adapter of the configured provider.
Ask(provider, u) ==
  /\ pc = "asking"
  /\ uttered' = u
  /\ answer' = Generated(provider, scenario, u)
  /\ pc' = IF answer'.status = "succeeded" THEN "judging" ELSE "failed"
  /\ UNCHANGED <<scenario, day, sourceVars, query, since, trigger, attention, ctx,
                 plan, audited, staged, decisionVars, approvalVars>>

Window == 1     \* _APPROVAL_WINDOW, in days: a plan expires when the date changes

\* The gate passes its own context's versions as the current ones.
Decision == Gate(scenario, ctx, answer.doc, VersionsOf(ctx.evidence))

\* request_pending: the gate, then plan and approval in one transaction.
Request ==
  /\ pc = "judging"
  /\ Decision = "PENDING"
  /\ plan' = [doc |-> answer.doc, evidence |-> ctx.evidence, order |-> ctx.order.id,
              approver |-> ctx.approver]
  /\ CreatePending(day + Window)
  /\ pc' = "created"
  /\ UNCHANGED <<scenario, day, sourceVars, query, since, trigger, attention, ctx,
                 answer, uttered, audited, staged, decisionVars>>

\* No action, manual review, or denied by policy: nothing is written.
Close ==
  /\ pc = "judging"
  /\ Decision # "PENDING"
  /\ pc' = "closed"
  /\ UNCHANGED <<scenario, day, sourceVars, query, since, trigger, attention, ctx,
                 answer, uttered, plan, audited, staged, decisionVars, approvalVars>>

\* The request's audit events, which name the plan.
AuditRequest ==
  /\ pc = "created"
  /\ audited' = TRUE
  /\ pc' = "audited"
  /\ UNCHANGED <<scenario, day, sourceVars, query, since, trigger, attention, ctx,
                 answer, uttered, plan, staged, decisionVars, approvalVars>>

\* Stage the workflow; the escalation task that follows is scheduled apart.
Stage ==
  /\ pc = "audited"
  /\ staged' = TRUE
  /\ pc' = "done"
  /\ UNCHANGED <<scenario, day, sourceVars, query, since, trigger, attention, ctx,
                 answer, uttered, plan, audited, decisionVars, approvalVars>>

\* The process stops; nothing resumes a run.
Stop ==
  /\ pc \in {"created", "audited"}
  /\ pc' = "stopped"
  /\ UNCHANGED <<scenario, day, sourceVars, query, since, trigger, attention, ctx,
                 answer, uttered, plan, audited, staged, decisionVars, approvalVars>>

-----------------------------------------------------------------------------
(* LocalApprovalDecisionService.decide by the plan's approver, who may     *)
(* have the page open twice.                                               *)

\* Mutant: the plan must have its workflow.
DecidableStaged == Undecided /\ staged

\* The approval is active and its plan has an audit run.
Decidable == Undecided /\ audited

BeginApprove ==
  /\ dpc = "idle"
  /\ Decidable
  /\ dpc' = "rebuilding"
  /\ dquery' = Query(DetectionReads(scenario))
  /\ saw' = rows
  /\ during' = rows
  /\ UNCHANGED <<scenario, day, sourceVars, runVars, dtrigger, verdict, approvalVars>>

\* Mutant: the rebuilt trigger is raised today.
DetectedToday(item) == day

\* The rebuilt trigger was raised when the attention item was.
DetectedOn(item) == item.day

RereadNext ==
  /\ dpc # "idle"
  /\ ~Finished(dquery)
  /\ dquery' = Read(dquery, DetectedOn(attention))
  /\ UNCHANGED <<scenario, day, sourceVars, runVars, dpc, dtrigger, verdict, saw, during,
                 approvalVars>>

\* The detector's trigger made again from current rows: their part, start and
\* supplier, the versions and the day of the attention item.
RebuiltA(item, evidence) ==
  {TriggerA(s.part, p, VersionIn(item.versions, "inventory"), item.versions,
            DetectedOn(item)) :
     s \in Single(evidence, "inventory", IdIn(item.versions, "inventory")),
     p \in Single(evidence, "production_order", plan.order)}

RebuiltB(item, evidence) ==
  {TriggerB(l.part, p, item.versions, DetectedOn(item)) :
     l \in {l \in Single(evidence, "quality_lot", IdIn(item.versions, "quality_lot")) :
              \E a \in Single(evidence, "production_allocation",
                             IdIn(item.versions, "production_allocation")) :
                a.order = plan.order},
     p \in Single(evidence, "production_impact", plan.order)}

RebuiltC(item, evidence) ==
  {TriggerC(o.part, p, b.supplier, item.versions, DetectedOn(item)) :
     b \in Single(evidence, "supplier_risk_bulletin",
                  IdIn(item.versions, "supplier_risk_bulletin")),
     o \in Single(evidence, "purchase_order", IdIn(item.versions, "purchase_order")),
     p \in Single(evidence, "production_order", plan.order)}

Rebuilt(item, evidence) ==
  CASE scenario = "A" -> RebuiltA(item, evidence)
    [] scenario = "B" -> RebuiltB(item, evidence)
    [] scenario = "C" -> RebuiltC(item, evidence)

Rebuild ==
  /\ dpc = "rebuilding"
  /\ Finished(dquery)
  /\ dtrigger' \in Rebuilt(attention, dquery.seen)
  /\ dpc' = "reassembling"
  /\ dquery' = Query(AssemblyReads(scenario))
  /\ UNCHANGED <<scenario, day, sourceVars, runVars, verdict, saw, during, approvalVars>>

\* Mutant: a context that can be assembled is taken for the plan's.
SomeContext(item, t, evidence) == Assemble(scenario, item, t, evidence) # {}

\* The context assembled now binds the versions the plan binds, no more and
\* no fewer.
Fresh(item, t, evidence) ==
  \E c \in Assemble(scenario, item, t, evidence) :
    VersionsOf(c.evidence) = VersionsOf(plan.evidence)

\* Mutant: the reads are not given up.
TellOnly(what) ==
  /\ verdict' = what
  /\ dpc' = "idle"
  /\ dtrigger' = Nothing
  /\ UNCHANGED <<scenario, day, sourceVars, runVars, dquery, saw, during>>

Tell(what) ==
  /\ verdict' = what
  /\ dpc' = "idle"
  /\ dquery' = NoQuery
  /\ dtrigger' = Nothing
  /\ UNCHANGED <<scenario, day, sourceVars, runVars, saw, during>>

\* The evidence is gone or differs.
RefuseStale ==
  /\ Finished(dquery)
  /\ \/ dpc = "rebuilding" /\ Rebuilt(attention, dquery.seen) = {}
     \/ dpc = "reassembling" /\ ~Fresh(attention, dtrigger, dquery.seen)
  /\ UNCHANGED approvalVars
  /\ Tell("stale")

\* The compare-and-swap, or the row is no longer what was loaded.
CommitApprove ==
  /\ dpc = "reassembling"
  /\ Finished(dquery)
  /\ Fresh(attention, dtrigger, dquery.seen)
  /\ \/ Decide(Original, "approved", day) /\ Tell("approved")
     \/ ~CanDecide(Original, day) /\ UNCHANGED approvalVars /\ Tell("conflict")

\* Rejecting rereads nothing; an approval in another tab may be under way.
Reject ==
  /\ Decidable
  /\ Decide(Original, "rejected", day)
  /\ verdict' = "rejected"
  /\ UNCHANGED <<scenario, day, sourceVars, runVars, dpc, dquery, dtrigger, saw, during>>

-----------------------------------------------------------------------------
\* What neither other users nor the clock touch.
Outside ==
  UNCHANGED <<scenario, runVars, dpc, dquery, dtrigger, verdict, saw, approvalVars>>

SourceChanges ==
  /\ Edit \/ Arrive
  /\ during' = IF dpc = "idle" THEN during ELSE during \cup rows'
  /\ UNCHANGED day
  /\ Outside

Tick ==
  /\ day < LastDay
  /\ day' = day + 1
  /\ UNCHANGED <<sourceVars, during>>
  /\ Outside

Run ==
  \/ ReadNext \/ Detect \/ AssembleContext \/ Abandon
  \/ \E provider \in Providers, u \in Utterances(scenario) : Ask(provider, u)
  \/ Request \/ Close \/ AuditRequest \/ Stage

Decides == BeginApprove \/ RereadNext \/ Rebuild \/ RefuseStale \/ CommitApprove

Next == Run \/ Decides \/ Stop \/ Reject \/ SourceChanges \/ Tick

Spec == Init /\ [][Next]_vars

\* A process that was started goes on; an approver who is told to try again
\* does.
FairSpec == Spec /\ WF_vars(Run) /\ WF_vars(Decides)

-----------------------------------------------------------------------------
\* A refusal is true: approving fails as stale only when some source row was
\* changed or added since the run began, never because time passed or because
\* the reads of the run and of the decision interleave differently.
NoFalseStale == verdict = "stale" => edits > 0

\* An approval stands on one real state of the systems: every versioned row
\* the planner was shown was there, unchanged, at the moment the approver
\* pressed the button, though planner and approval read row by row.
ApprovedOnHeldEvidence ==
  status = "approved" =>
    \A e \in plan.evidence : e.type \in Versioned => e \in saw

\* The production order the plan is for, as it was at moments of the decision,
\* with production to start on the very day the risk was raised about.
PlannedFor ==
  {p \in during : /\ p.type = "production_order"
                  /\ p.id = plan.order
                  /\ p.start = trigger.start}

\* An approved plan fits what it is for.  Its production order still started
\* on the day the risk was raised about, at some moment of the decision; the
\* version of a production order never tells, only the rebuilt signal does.
\* And by the rows there were when the decision began: a reroute replaces
\* exactly what is outstanding of an order still outstanding, by an approved
\* supplier of the same part who is fast enough counted from the day the risk
\* was detected, as the candidates are chosen (that too many days have passed
\* since, only the tool call notices); a released lot covers exactly what a
\* held lot was to supply; a hold is on the open order of a supplier at risk,
\* for production that is committed.
ApprovedPlanFits ==
  status = "approved" =>
    LET doc == plan.doc
        at(type, id) == {e \in saw : e.type = type /\ e.id = id}
    IN  /\ PlannedFor # {}
        /\ doc.outcome = "ENTER_WORKFLOW" =>
             \E s \in at("supplier", doc.supplier),
                o \in at("purchase_order", doc.purchase),
                p \in PlannedFor :
               /\ s.approved /\ s.id # o.supplier /\ s.part = o.part
               /\ since + s.lead <= p.start
               /\ o.status \in Outstanding
               /\ o.ordered - o.received = doc.quantity
        /\ doc.outcome = "REALLOCATE_AND_NOTIFY" =>
             \E lot \in at("quality_lot", doc.lot), a \in saw, held \in saw :
               /\ lot.status = "released"
               /\ lot.quantity - lot.allocated >= doc.quantity
               /\ held.type = "quality_lot" /\ held.status = "held"
               /\ held.part = lot.part
               /\ a.type = "production_allocation" /\ a.lot = held.id
               /\ a.order = doc.to /\ a.quantity = doc.quantity
        /\ doc.outcome = "HOLD_AND_NOTIFY" =>
             \E o \in at("purchase_order", doc.purchase), b \in saw, p \in PlannedFor :
               /\ o.status = "open" /\ o.version = doc.version
               /\ b.type = "supplier_risk_bulletin" /\ b.supplier = o.supplier
               /\ b.status = "active" /\ b.superseded_by = "none"
               /\ p.status \in Committed

\* A refusal, a cut-off or an ambiguous answer never becomes a plan, whatever
\* text came with it and whichever provider sent it: the plan is the one
\* document of an utterance the model finished.
WholeAnswersOnly ==
  plan # Nothing =>
    /\ uttered.kind = "whole"
    /\ Len(uttered.texts) = 1
    /\ plan.doc = uttered.texts[1].doc

\* A plan put to review whose sources stay as they are is not left in limbo:
\* its approver gets a verdict recorded, the plan expires, or the run had
\* stopped before the request had an audit run.
UnchangedIsDecided ==
  pc = "created" ~>
    (~Undecided \/ edits > 0 \/ day >= expiry \/ (pc = "stopped" /\ ~audited))
=============================================================================
