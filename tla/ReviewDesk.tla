----------------------------- MODULE ReviewDesk -----------------------------
(***************************************************************************)
(* The local review console and the demos that fill it.  A demo empties    *)
(* the database, seeds it and stages its cases, one transaction at a time; *)
(* the console and the command line can each run one, and either may stop  *)
(* anywhere.  The console also shows the records to the configured person  *)
(* and takes that person's decisions.                                      *)
(*                                                                         *)
(* The browser holds one cookie, and a form is accepted only with the      *)
(* cookie its own page set, under the key of the running console: of all   *)
(* tabs at most one has a form that still works.                           *)
(***************************************************************************)
EXTENDS ReviewRecords, Sequences

CONSTANTS
  Console,        \* the process that serves the review pages
  Stories         \* what each process may be asked to stage

\* A selection names no case twice, or it is refused.
ASSUME DeskAssumption ==
  /\ IsFiniteSet(Processes) /\ Console \in Processes
  /\ \A x \in Processes : \A story \in Stories[x] :
       /\ story.live \in BOOLEAN /\ story.cases \in Seq({"A", "B", "C"})
       /\ \A m, n \in 1..Len(story.cases) :
            m # n => story.cases[m] # story.cases[n]

VARIABLES
  demo,     \* the demo of each process
  actor,    \* LOCAL_REVIEW_ACTOR_ID of the running console
  form,     \* the form that works: none, the demo page's or an approval's
  post      \* the decision being handled, if any

vars == <<recordVars, demo, actor, form, post>>

NoForm == << >>
DemoForm == <<"demo">>
ApprovalForm(p) == <<"approval", p>>

\* The request's audit events, which name the plan.
Reports(c) == << <<"recommend", c>>, <<"allow", c>>, <<"confirm", c>> >>

\* Mutant: the workflow is staged before the request is recorded.
StagedFirst(live, c) ==
  << <<"request", c>> >>
    \o (IF live \/ c = "C" THEN << <<"stage", c>> >> ELSE << >>) \o Reports(c)

StagingSteps(live, c) ==
  << <<"request", c>> >> \o Reports(c)
    \o IF live \/ c = "C" THEN << <<"stage", c>> >> ELSE << >>

\* The transactions of one case in their order.  Guided cases use a canned
\* answer and, except for C, stage no workflow; live ones ask a model and
\* schedule an escalation.
CaseSteps(live, c) ==
  << <<"detect", c>>, <<"register", c>> >>
    \o (IF c = "B" THEN << <<"register", "B-uncovered">> >> ELSE << >>)
    \o << <<"gather", c>> >>
    \o (IF live THEN << <<"ask", c>> >> ELSE << >>)
    \o StagingSteps(live, c)
    \o (IF live THEN << <<"schedule", c>>, <<"announce", c>> >> ELSE << >>)

\* run_guided_demo and run_live_demo.  A story has no more than two cases.
Steps(story) ==
  << <<"reset">>, <<"seed">> >>
    \o (IF Len(story.cases) >= 1 THEN CaseSteps(story.live, story.cases[1]) ELSE << >>)
    \o (IF Len(story.cases) >= 2 THEN CaseSteps(story.live, story.cases[2]) ELSE << >>)

Running(x) == demo[x].todo # << >>

ConsoleFree == post = {} /\ ~Running(Console)

TypeOK ==
  /\ RecordsTypeOK
  /\ \A x \in Processes :
       /\ demo[x].own \subseteq Items
       /\ demo[x].end \in {"none", "done", "failed"}
       /\ Running(x) => demo[x].end = "none"
  /\ actor \in People
  /\ form \in {NoForm, DemoForm} \cup {ApprovalForm(p) : p \in PlanIds}
  /\ Cardinality(post) <= 1
  /\ post # {} => ~Running(Console)

Idle == [todo |-> << >>, live |-> FALSE, own |-> {}, end |-> "none", alone |-> TRUE]

Init ==
  /\ RecordsInit
  /\ demo = [x \in Processes |-> Idle]
  /\ actor = "Dana"
  /\ form = NoForm
  /\ post = {}

-----------------------------------------------------------------------------
(* Demos.                                                                  *)

\* One at a time per process; the selection was validated before.
Begin(x, story) ==
  /\ ~Running(x)
  /\ x = Console => ConsoleFree /\ form = DemoForm
  /\ resets + Cardinality({y \in Processes : Running(y) /\ Head(demo[y].todo) = <<"reset">>})
       < MaxResets
  /\ demo' = [y \in Processes |->
                IF y = x THEN [todo |-> Steps(story), live |-> story.live, own |-> {},
                               end |-> "none", alone |-> \A z \in Processes : ~Running(z)]
                         ELSE [demo[y] EXCEPT !.alone = FALSE]]
  /\ UNCHANGED <<recordVars, actor, form, post>>

At(x, do) == Running(x) /\ Head(demo[x].todo)[1] = do

Subject(x) == Head(demo[x].todo)[2]

\* Run ids are constants of the program, one for each case and way.
RunId(live, signal) == <<live, IF signal = "B-uncovered" THEN "B" ELSE signal>>

Run(x) == RunId(demo[x].live, Subject(x))

\* Mutant: an item that was there already will do.
Found(x) == {i \in attention : i[2] = Subject(x)}

\* The item this demo was the first to register for its case.
Own(x) == {i \in demo[x].own : i[2] = Subject(x)}

Plan(x, item) == [item |-> item, by |-> x]

User(item) == {IF item[2] = "B" THEN "Quinn" ELSE "Dana"}

\* A finished console demo answers with a page that deletes the cookie.
Answer(x, end) ==
  form' = IF x = Console /\ end = "done" THEN NoForm ELSE form

Leave(x, end) ==
  /\ demo' = [demo EXCEPT ![x].todo = << >>, ![x].end = end]
  /\ Answer(x, end)
  /\ UNCHANGED <<actor, post>>

Proceed(x, own) ==
  LET rest == Tail(demo[x].todo)
  IN  /\ demo' = [demo EXCEPT ![x].todo = rest, ![x].own = own,
                             ![x].end = IF rest = << >> THEN "done" ELSE "none"]
      /\ Answer(x, IF rest = << >> THEN "done" ELSE "none")
      /\ UNCHANGED <<actor, post>>

Goes(x) == Proceed(x, demo[x].own)

Reset(x) == At(x, "reset") /\ Truncate /\ Goes(x)

SeedRows(x) == At(x, "seed") /\ Seed /\ Goes(x)

\* The detector's reads, which need the seed.
Detect(x) == At(x, "detect") /\ seeded /\ UNCHANGED recordVars /\ Goes(x)

RegisterSignal(x) ==
  /\ At(x, "register")
  /\ Register(Run(x), Subject(x))
  /\ Proceed(x, demo[x].own \cup ({Item(Subject(x))} \ attention))

\* The context assembler; A's and B's append what they saw.
Gather(x) ==
  /\ At(x, "gather")
  /\ seeded
  /\ \E item \in Own(x) :
       IF Subject(x) = "C" THEN UNCHANGED recordVars
       ELSE Record(Event("gathered", Run(x), {item}, {}, User(item)))
  /\ Goes(x)

\* The provider's adapter appends what the call cost, whatever came of it; an
\* answer that is no executable plan ends the demo.
Ask(x) ==
  /\ At(x, "ask")
  /\ \E item \in Own(x) : Record(Event("completed", Run(x), {item}, {}, User(item)))
  /\ Goes(x) \/ Leave(x, "done")

Request(x) ==
  /\ At(x, "request")
  /\ \E item \in Own(x) : CreatePending(Plan(x, item))
  /\ Goes(x)

Report(x, kind) ==
  /\ \E item \in Own(x) : Record(Event(kind, Run(x), {item}, {Plan(x, item)}, User(item)))
  /\ Goes(x)

\* planner.recommended
ReportPlan(x) == At(x, "recommend") /\ Report(x, "recommended")

\* gate.allowed
ReportGate(x) == At(x, "allow") /\ Report(x, "allowed")

\* approval.requested
ReportRequest(x) == At(x, "confirm") /\ Report(x, "requested")

Stage(x) ==
  /\ At(x, "stage")
  /\ \E item \in Own(x) : StageWorkflow(Plan(x, item))
  /\ Goes(x)

\* schedule_escalation: the task, and then its event.
Schedule(x) ==
  /\ At(x, "schedule")
  /\ \E item \in Own(x) : ScheduleTask(Plan(x, item))
  /\ Goes(x)

Announce(x) ==
  /\ At(x, "announce")
  /\ \E item \in Own(x) :
       Record(Event("scheduled", Run(x), {}, {Plan(x, item)}, User(item)))
  /\ Goes(x)

\* The steps whose rows name the plan.
PlanSteps == {"recommend", "allow", "confirm", "stage", "announce"}

\* What the next step needs of the rows; the detector and the assembler may
\* also find too little on a later day.
Fails(x) ==
  \/ At(x, "seed") /\ seeded
  \/ At(x, "detect") /\ (~seeded \/ day > 0)
  \/ At(x, "gather") /\ (~seeded \/ day > 0 \/ Own(x) = {})
  \/ At(x, "gather") /\ Subject(x) # "C" /\ ~(Own(x) \subseteq attention)
  \/ /\ Running(x) /\ Head(demo[x].todo)[1] \in {"ask", "request"}
     /\ ~seeded \/ ~(Own(x) \subseteq attention)
  \/ /\ Running(x) /\ Head(demo[x].todo)[1] \in PlanSteps
     /\ \E item \in Own(x) : Plan(x, item) \notin Plans

Fail(x) == Fails(x) /\ Leave(x, "failed") /\ UNCHANGED recordVars

\* The command line is interrupted.
Interrupt(x) ==
  /\ x # Console
  /\ Running(x)
  /\ Leave(x, "none")
  /\ UNCHANGED recordVars

StagesDemo(x) ==
  \/ Reset(x) \/ SeedRows(x) \/ Detect(x) \/ RegisterSignal(x) \/ Gather(x) \/ Ask(x)
  \/ Request(x) \/ ReportPlan(x) \/ ReportGate(x) \/ ReportRequest(x)
  \/ Stage(x) \/ Schedule(x) \/ Announce(x)
  \/ Fail(x) \/ Interrupt(x)
  \/ \E story \in Stories[x] : Begin(x, story)

-----------------------------------------------------------------------------
(* The console.  Its POST handlers block, so it does one thing at a time.  *)

DeskRest == UNCHANGED <<recordVars, demo, actor>>

\* The demo page, which needs the actor's row and the clock.
OpenDemo ==
  /\ ConsoleFree
  /\ seeded
  /\ form' = DemoForm
  /\ UNCHANGED post
  /\ DeskRest

\* An approval page has a form for its current approver only, and without one
\* leaves the cookie alone.
OpenApproval(p) ==
  /\ ConsoleFree
  /\ CanViewPlan(actor, p)
  /\ Approver(p) = actor /\ Undecided(p)
  /\ form' = ApprovalForm(p)
  /\ UNCHANGED post
  /\ DeskRest

\* Ten minutes, or an evaluation that writes nothing but the cookie.
LoseForm ==
  /\ form # NoForm
  /\ form' = NoForm
  /\ UNCHANGED post
  /\ DeskRest

\* decide: load, the current approver, active, an audit run.
Decide(p, verdict) ==
  /\ ConsoleFree
  /\ form = ApprovalForm(p)
  /\ p \in Plans
  /\ Approver(p) = actor
  /\ Undecided(p)
  /\ \E run \in RunsOf(p) :
       post' = {[plan |-> p, verdict |-> verdict, run |-> run, recorded |-> FALSE]}
  /\ UNCHANGED form
  /\ DeskRest

CommitDecision ==
  \E d \in post :
    /\ ~d.recorded
    /\ DecidePlan(d.plan, d.verdict)
    /\ post' = {[d EXCEPT !.recorded = TRUE]}
    /\ UNCHANGED <<demo, actor, form>>

\* Stale or conflict: a reset took the plan, or it has expired.
RefuseDecision ==
  \E d \in post :
    /\ ~d.recorded
    /\ ~CanDecide(d.plan)
    /\ post' = {}
    /\ UNCHANGED form
    /\ DeskRest

DecisionEvent(d) ==
  Event(d.verdict, d.run, {d.plan.item}, {d.plan}, {Approver(d.plan)})

\* The decision's event, in another transaction than the decision.
RecordDecision ==
  \E d \in post :
    /\ d.recorded
    /\ Record(DecisionEvent(d))
    /\ post' = {}
    /\ UNCHANGED <<demo, actor, form>>

\* A reset came in between.
LoseDecision ==
  \E d \in post :
    /\ d.recorded
    /\ ~Resolves(DecisionEvent(d))
    /\ post' = {}
    /\ UNCHANGED form
    /\ DeskRest

\* The console stops anywhere and comes back with a new signing key, perhaps
\* for somebody else.
Restart(u) ==
  /\ actor' = u
  /\ form' = NoForm
  /\ post' = {}
  /\ demo' = [demo EXCEPT ![Console].todo = << >>,
                          ![Console].end = IF Running(Console) THEN "none" ELSE @]
  /\ UNCHANGED recordVars

\* From the demo page or the command line.
PassDay ==
  /\ AdvanceDay
  /\ demo' = [x \in Processes |-> [demo[x] EXCEPT !.alone = FALSE]]
  /\ UNCHANGED <<actor, form, post>>

Desk ==
  \/ OpenDemo \/ LoseForm \/ CommitDecision \/ RefuseDecision \/ RecordDecision
  \/ LoseDecision \/ PassDay
  \/ \E p \in Plans : OpenApproval(p)
  \/ \E p \in Plans, verdict \in Verdicts : Decide(p, verdict)
  \/ \E u \in People : Restart(u)

Next == Desk \/ \E x \in Processes : StagesDemo(x)

Spec == Init /\ [][Next]_vars

-----------------------------------------------------------------------------
\* However two demos overlap, and whatever an interrupted one left behind, a
\* signal is answered by one plan at most: registering it first is what gives
\* a demo the right to go on.
OnePlanPerSignal ==
  \A p, q \in Plans : p.item = q.item => p = q

\* A staged workflow is never out of its approver's reach: while its approval
\* is open, the approver can open the page, and a decision finds the audit run
\* it must be recorded in.
StagedIsAnswerable ==
  \A p \in workflows :
    Undecided(p) => /\ RunsOf(p) # {}
                    /\ p \in PendingFor(Approver(p))
                    /\ CanViewPlan(Approver(p), p)

\* The ledger does not contradict the approvals, though decisions are told to
\* it afterwards and a console that restarts forgets what it was doing: an
\* event of a decision names the one that stands, its approver and the run in
\* which that plan was recommended.  (The event of the request itself may come
\* after the decision's, or never.)
LedgerAgrees ==
  \A e \in ledger : e.kind \in Verdicts =>
    \A p \in e.plans :
      /\ approval[p].status = e.kind
      /\ e.who = {Approver(p)}
      /\ \E r \in ledger : r.kind = "recommended" /\ p \in r.plans /\ r.run = e.run

\* A guided demo that had the database and the clock to itself never fails,
\* wherever earlier demos, decisions and consoles stopped.
UndisturbedDemosFinish ==
  \A x \in Processes : demo[x].end = "failed" => ~demo[x].alone

\* Whoever finds an approval in the queue with an audit run can open that
\* run's page.
AuditOpens ==
  \A u \in People : \A p \in PendingFor(u) : \A run \in RunsOf(p) :
    CanReadRun(u, run)
=============================================================================
