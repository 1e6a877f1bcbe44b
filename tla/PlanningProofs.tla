--------------------------- MODULE PlanningProofs ---------------------------
(***************************************************************************)
(* Proofs about Planning, for any rows, any edits by other users, any      *)
(* answers of a model and any days.                                        *)
(*                                                                         *)
(*   PhaseInv, AnswerInv, PlanInv, ContextInv   what the run and the       *)
(*                 decision have at each of their places; none of it       *)
(*                 changes once the plan is written.                       *)
(*   VersionsInv   of all rows ever read, two with one key and version are *)
(*                 one row: a version stands for its contents.             *)
(*   OrderInv      the plan's evidence was read before the decision began  *)
(*                 and the decision reads after it.  A row that both have  *)
(*                 in one version was therefore there in between.          *)
(*   SignalInv, DuringInv   the attention item keeps the trigger's signal, *)
(*                 and what the decision reads and rebuilds is of rows     *)
(*                 there were while it went on.                            *)
(*   PlannedInv    an approved plan's production order started as the      *)
(*                 trigger says, at some moment of the decision.           *)
(*   StillInv      while nobody changed anything, all reads find the same  *)
(*                 and the rebuilt trigger is the detector's.              *)
(***************************************************************************)
EXTENDS Planning, TLAPS

-----------------------------------------------------------------------------
(* Invariants.                                                             *)

\* What the run has at each of its places.
PhaseInv ==
  /\ pc = "detecting" => trigger = Nothing
  /\ pc \in {"detecting", "assembling"} => ctx = Nothing
  /\ pc \in {"detecting", "assembling", "asking", "judging"} => plan = Nothing
  /\ pc = "assembling" => trigger # Nothing
  /\ pc \in {"asking", "judging"} => ctx # Nothing
  /\ pc \in {"created", "audited"} => plan # Nothing
  /\ ctx # Nothing => trigger # Nothing
  /\ plan # Nothing => ctx # Nothing
  /\ audited => plan # Nothing
  /\ pc = "audited" => audited
  /\ dpc # "idle" => plan # Nothing

\* A judged answer is the one document of an utterance the model finished, and
\* it has the scenario's schema.
AnswerInv ==
  pc = "judging" \/ plan # Nothing =>
    /\ uttered.kind = "whole"
    /\ Len(uttered.texts) = 1
    /\ answer.doc = uttered.texts[1].doc
    /\ SchemaValid(scenario, answer.doc)

\* The plan is what the gate passed.
PlanInv ==
  plan # Nothing =>
    /\ Decision = "PENDING"
    /\ plan = [doc |-> answer.doc, evidence |-> ctx.evidence, order |-> ctx.order.id,
               approver |-> ctx.approver]

Types == {"inventory", "purchase_order", "supplier", "quality_lot", "production_allocation",
          "production_impact", "production_order", "supplier_risk_bulletin", "message",
          "calendar_event"}

\* A query's statements are for record types; every row has a version.
SeenInv ==
  /\ query.todo \in Seq(Types) /\ dquery.todo \in Seq(Types)
  /\ \A e \in query.seen \cup dquery.seen \cup saw : e.version \in Nat \ {0}

\* Evidence of a bulletin is of one in force.
InForce(evidence) ==
  \A b \in evidence : b.type = "supplier_risk_bulletin" =>
                        b.status = "active" /\ b.superseded_by = "none"

\* The records a context names are in its evidence.
ContextOf(c) ==
  /\ VersionsOf(c.evidence) # {}
  /\ c.trigger = trigger
  /\ InForce(c.evidence)
  /\ scenario = "A" =>
       /\ c.suppliers \subseteq Of(c.evidence, "supplier")
       /\ c.original \in Of(c.evidence, "purchase_order")
       /\ c.original.part = trigger.part
  /\ scenario = "B" =>
       /\ c.held \in Of(c.evidence, "quality_lot")
       /\ c.held.status = "held"
       /\ c.allocation \in Of(c.evidence, "production_allocation")
       /\ c.allocation.lot = c.held.id
       /\ c.allocation.order = c.order.id
       /\ c.alternatives \subseteq Alternatives(c.evidence, c.held)
  /\ scenario = "C" =>
       /\ c.bulletin \in Of(c.evidence, "supplier_risk_bulletin")
       /\ c.purchase \in Of(c.evidence, "purchase_order")
       /\ c.purchase.status = "open"
       /\ c.purchase.supplier = c.bulletin.supplier

ContextInv ==
  /\ ctx # Nothing => ContextOf(ctx)
  /\ InForce(query.seen)

\* (type, id) is the rows' primary key.
RowsInv ==
  /\ \A r \in rows : IsRow(r)
  /\ \A e, f \in rows : SameKey(e, f) => e = f

\* Every row the program or the properties remember.
Known ==
  rows \cup query.seen \cup dquery.seen \cup saw
  \cup (IF ctx = Nothing THEN {} ELSE ctx.evidence)

\* A versioned row is what it was as long as its version is.
VersionsInv ==
  /\ \A e \in Known : e.type \in Versioned =>
       \E r \in rows : /\ SameKey(e, r)
                       /\ e.version <= r.version
                       /\ e.version \in Nat
  /\ \A e, f \in Known :
       e.type \in Versioned /\ SameKey(e, f) /\ e.version = f.version => e = f

\* What the plan stands on was read before the decision began, what the
\* decision reads is read after.
OrderInv ==
  dpc # "idle" =>
    /\ \A e \in ctx.evidence : e.type \in Versioned =>
         \E s \in saw : SameKey(e, s) /\ e.version <= s.version
    /\ \A e \in dquery.seen : \A s \in saw :
         e.type \in Versioned /\ SameKey(e, s) => s.version <= e.version

\* The attention item keeps the signal of the trigger it was registered for.
SignalInv == trigger # Nothing => attention.signal = Signal(trigger)

\* What the decision has read was there while it went on, and so was the
\* production order its rebuilt trigger is about.
DuringInv ==
  dpc # "idle" =>
    /\ rows \subseteq during
    /\ \A e \in dquery.seen :
         \/ e.type # "production_impact" /\ e \in during
         \/ e.type = "production_impact" /\ \E p \in during :
              p.type = "production_order" /\ p.id = e.id /\ p.start = e.start
    /\ dpc = "reassembling" =>
         /\ dtrigger.order = plan.order
         /\ \E p \in during : /\ p.type = "production_order"
                               /\ p.id = plan.order
                               /\ p.start = dtrigger.start

\* Production was to start as the trigger says; for a held order it was also
\* committed.
PlannedInv ==
  status = "approved" =>
    \E p \in PlannedFor : plan.doc.outcome = "HOLD_AND_NOTIFY" => p.status \in Committed

\* The evidence reads of these types would find now.
Evidence(types) == UNION {Select(types[i], since) : i \in DOMAIN types}

\* How far a query over these types has come while nothing changed.
Progress(q, types) ==
  /\ q.seen \subseteq Evidence(types)
  /\ \A i \in DOMAIN types :
       \/ Select(types[i], since) \subseteq q.seen
       \/ \E j \in DOMAIN q.todo : q.todo[j] = types[i]
  /\ \A j \in DOMAIN q.todo : \E i \in DOMAIN types : q.todo[j] = types[i]

\* While nothing changed, every read finds what the first one found.
StillInv ==
  edits = 0 =>
    /\ pc = "detecting" => Progress(query, DetectionReads(scenario))
    /\ pc = "assembling" => Progress(query, AssemblyReads(scenario))
    /\ trigger # Nothing =>
         /\ trigger \in Detected(scenario, Evidence(DetectionReads(scenario)), since)
         /\ attention = [signal |-> Signal(trigger), versions |-> trigger.versions,
                         day |-> trigger.day]
    /\ ctx # Nothing =>
         ctx \in Assemble(scenario, attention, trigger, Evidence(AssemblyReads(scenario)))
    /\ dpc = "rebuilding" => Progress(dquery, DetectionReads(scenario))
    /\ dpc = "reassembling" => /\ Progress(dquery, AssemblyReads(scenario))
                               /\ dtrigger = trigger


-----------------------------------------------------------------------------
(* What a query reads.                                                     *)

LEMMA SelectTyped ==
  ASSUME RowsInv, NEW type, NEW from, NEW e \in Select(type, from)
  PROVE  /\ e.type = type
         /\ e.version \in Nat \ {0}
         /\ type # "production_impact" => e \in rows
         /\ type = "production_impact" =>
              \E p \in rows : /\ p.type = "production_order" /\ e = [p EXCEPT !.type = type]
                              /\ p.id = e.id /\ p.start = e.start
         /\ type = "supplier_risk_bulletin" => e.status = "active" /\ e.superseded_by = "none"
<1>1. CASE type = "production_impact"
  <2>1. PICK p \in rows : p.type = "production_order" /\ e = [p EXCEPT !.type = "production_impact"]
    BY <1>1 DEF Select, Impacts, Of
  <2>2. {"type", "id", "version", "start"} \subseteq DOMAIN p /\ p.version \in Nat \ {0}
    BY <2>1 DEF RowsInv, IsRow
  <2>3. /\ e.type = "production_impact" /\ e.version = p.version
        /\ e.id = p.id /\ e.start = p.start
    BY <2>1, <2>2
  <2> QED
    BY <1>1, <2>1, <2>2, <2>3
<1>2. CASE type # "production_impact"
  <2>1. e \in rows /\ e.type = type
    BY <1>2 DEF Select, Allocations, Bulletins, Events, InPlants, Of
  <2>2. type = "supplier_risk_bulletin" => e.status = "active" /\ e.superseded_by = "none"
    BY DEF Select, Bulletins
  <2> QED
    BY <1>2, <2>1, <2>2 DEF RowsInv, IsRow
<1> QED
  BY <1>1, <1>2

LEMMA ReadsAreTypes ==
  ASSUME scenario \in {"A", "B", "C"}
  PROVE  /\ << >> \in Seq(Types)
         /\ DetectionReads(scenario) \in Seq(Types)
         /\ AssemblyReads(scenario) \in Seq(Types)
<1>1. << >> \in Seq(Types)
  BY DEF Types
<1>2. <<"inventory", "production_order">> \in Seq(Types)
  BY DEF Types
<1>3. <<"production_allocation", "production_impact", "quality_lot">> \in Seq(Types)
  BY DEF Types
<1>4. <<"supplier_risk_bulletin", "production_order", "purchase_order">> \in Seq(Types)
  BY DEF Types
<1>5. <<"inventory", "production_order", "purchase_order", "supplier",
        "message", "calendar_event">> \in Seq(Types)
  BY DEF Types
<1> QED
  BY <1>1, <1>2, <1>3, <1>4, <1>5 DEF DetectionReads, AssemblyReads

\* One read of a query.
LEMMA ReadFinds ==
  ASSUME NEW q, q.todo \in Seq(Types), ~Finished(q), NEW from
  PROVE  /\ Read(q, from).todo = Tail(q.todo)
         /\ Tail(q.todo) \in Seq(Types)
         /\ Head(q.todo) \in Types
         /\ Read(q, from).seen = q.seen \cup Select(Head(q.todo), from)
<1>1. q.todo # << >>
  BY DEF Finished
<1>2. Head(q.todo) \in Types /\ Tail(q.todo) \in Seq(Types)
  <2> DEFINE todo == q.todo
  <2>1. todo \in Seq(Types) /\ todo # << >>
    BY <1>1
  <2> HIDE DEF todo
  <2>2. Head(todo) \in Types /\ Tail(todo) \in Seq(Types)
    BY <2>1
  <2> QED
    BY <2>2 DEF todo
<1> QED
  BY <1>2 DEF Read

-----------------------------------------------------------------------------
(* What detectors and assemblers return.                                   *)

LEMMA SomeVersions ==
  ASSUME NEW S, S # {}
  PROVE  VersionsOf(S) # {}
<1>1. PICK e : e \in S
  OBVIOUS
<1>2. <<e.type, e.id, e.version>> \in VersionsOf(S)
  BY <1>1 DEF VersionsOf
<1> QED
  BY <1>2

LEMMA DetectedForm ==
  ASSUME NEW E, NEW d, scenario \in {"A", "B", "C"}, NEW t \in Detected(scenario, E, d)
  PROVE  t # Nothing /\ t.versions # {} /\ t.day = d
<1>1. CASE scenario = "A"
  <2> DEFINE demands == CommittedFrom(E, "production_order", d)
             AtRisk(stock) ==
               {p \in demands : p.part = stock.part
                                /\ Shortfall(stock, DemandBefore(demands, p)) > 0}
             Found(stock) ==
               {TriggerA(p.part, p, stock.version,
                         VersionsOf({stock} \cup DemandBefore(demands, p)), d) : p \in AtRisk(stock)}
  <2>2. Detected(scenario, E, d) = UNION {Found(stock) : stock \in Of(E, "inventory")}
    BY <1>1 DEF Detected, Stockouts
  <2>3. PICK stock \in Of(E, "inventory") : t \in Found(stock)
    <3> HIDE DEF Found
    <3> QED
      BY <2>2
  <2>4. PICK p \in AtRisk(stock) :
          t = TriggerA(p.part, p, stock.version, VersionsOf({stock} \cup DemandBefore(demands, p)), d)
    <3> HIDE DEF demands, AtRisk
    <3> QED
      BY <2>3
  <2>1. \E part, order, version, S : t = TriggerA(part, order, version, VersionsOf(S), d) /\ S # {}
    <3> DEFINE S == {stock} \cup DemandBefore(demands, p)
    <3>1. t = TriggerA(p.part, p, stock.version, VersionsOf(S), d) /\ S # {}
      BY <2>4
    <3> HIDE DEF S
    <3> QED
      BY <3>1
  <2> QED
    BY <2>1, SomeVersions DEF TriggerA, Nothing
<1>2. CASE scenario = "B"
  <2>2. PICK h \in HeldMaterial(E) : t = TriggerB(h[1].part, h[3], VersionsOf({h[1], h[2], h[3]}), d)
    BY <1>2 DEF Detected, QualityHolds
  <2>1. \E part, order, S : t = TriggerB(part, order, VersionsOf(S), d) /\ S # {}
    <3> DEFINE S == {h[1], h[2], h[3]}
    <3>1. t = TriggerB(h[1].part, h[3], VersionsOf(S), d) /\ S # {}
      BY <2>2
    <3> HIDE DEF S
    <3> QED
      BY <3>1
  <2> QED
    BY <2>1, SomeVersions DEF TriggerB, Nothing
<1>3. CASE scenario = "C"
  <2>2. PICK x \in Exposures(E, d) :
          t = TriggerC(x[2].part, x[3], x[1].supplier, VersionsOf({x[1], x[2], x[3]}), d)
    BY <1>3 DEF Detected, SupplierRisks
  <2>1. \E part, order, s, S : t = TriggerC(part, order, s, VersionsOf(S), d) /\ S # {}
    <3> DEFINE S == {x[1], x[2], x[3]}
    <3>1. t = TriggerC(x[2].part, x[3], x[1].supplier, VersionsOf(S), d) /\ S # {}
      BY <2>2
    <3> HIDE DEF S
    <3> QED
      BY <3>1
  <2> QED
    BY <2>1, SomeVersions DEF TriggerC, Nothing
<1> QED
  BY <1>1, <1>2, <1>3

LEMMA AssembledForm ==
  ASSUME NEW E, InForce(E), scenario \in {"A", "B", "C"}, NEW item,
         NEW c \in Assemble(scenario, item, trigger, E)
  PROVE  c # Nothing /\ ContextOf(c) /\ c.evidence \subseteq E
<1>1. CASE scenario = "A"
  <2>1. PICK s \in Of(E, "inventory"), p \in Of(E, "production_order"),
             o \in OriginalOrder(E, trigger.part), m \in Of(E, "message") :
          c = ContextA(trigger, s, p, o, Of(E, "supplier"), m, Of(E, "calendar_event"))
    BY <1>1 DEF Assemble, AssembleA, Single
  <2>2. o \in Of(E, "purchase_order") /\ o.part = trigger.part
    BY DEF OriginalOrder
  <2>3. /\ c.suppliers = Of(E, "supplier") /\ c.original = o /\ c.trigger = trigger
        /\ c.evidence = {s, p, o, m} \cup Of(E, "supplier") \cup Of(E, "calendar_event")
        /\ c # Nothing
    BY <2>1 DEF ContextA, Nothing
  <2>4. c.evidence \subseteq E /\ VersionsOf(c.evidence) # {}
    BY <2>1, <2>2, <2>3, SomeVersions DEF Of
  <2>5. c.suppliers \subseteq Of(c.evidence, "supplier") /\ c.original \in Of(c.evidence, "purchase_order")
    BY <2>2, <2>3 DEF Of
  <2> QED
    BY <1>1, <2>2, <2>3, <2>4, <2>5 DEF ContextOf, InForce
<1>2. CASE scenario = "B"
  <2>1. PICK l \in Of(E, "quality_lot"), a \in Of(E, "production_allocation"),
             p \in Of(E, "production_impact") :
          /\ c = [trigger |-> trigger, held |-> l, allocation |-> a, order |-> p,
                  alternatives |-> Alternatives(E, l), approver |-> p.supervisor,
                  evidence |-> {l, a, p} \cup Alternatives(E, l)]
          /\ l.status = "held" /\ a.lot = l.id /\ a.order = trigger.order
          /\ p.id = trigger.order
    BY <1>2 DEF Assemble, AssembleB, Single
  <2>2. Alternatives(E, l) \subseteq Of(E, "quality_lot")
    BY DEF Alternatives
  <2>3. /\ c.held = l /\ c.allocation = a /\ c.order = p /\ c.trigger = trigger
        /\ c.alternatives = Alternatives(E, l)
        /\ c.evidence = {l, a, p} \cup Alternatives(E, l)
        /\ c # Nothing
    BY <2>1 DEF Nothing
  <2>4. c.evidence \subseteq E /\ VersionsOf(c.evidence) # {}
    BY <2>1, <2>2, <2>3, SomeVersions DEF Of
  <2>5. c.alternatives \subseteq Alternatives(c.evidence, c.held)
    BY <2>3 DEF Alternatives, Of
  <2>6. c.held \in Of(c.evidence, "quality_lot") /\ c.allocation \in Of(c.evidence, "production_allocation")
    BY <2>3 DEF Of
  <2> QED
    BY <1>2, <2>1, <2>3, <2>4, <2>5, <2>6 DEF ContextOf, InForce
<1>3. CASE scenario = "C"
  <2>1. PICK b \in Of(E, "supplier_risk_bulletin"), o \in Of(E, "purchase_order"),
             p \in Of(E, "production_order") :
          /\ c = [trigger |-> trigger, bulletin |-> b, purchase |-> o, order |-> p,
                  approver |-> "actor", evidence |-> {b, o, p}]
          /\ b.supplier = trigger.supplier
          /\ o.status = "open" /\ o.supplier = trigger.supplier
    BY <1>3 DEF Assemble, AssembleC, Single
  <2>3. /\ c.bulletin = b /\ c.purchase = o /\ c.trigger = trigger
        /\ c.evidence = {b, o, p} /\ c # Nothing
    BY <2>1 DEF Nothing
  <2>4. c.evidence \subseteq E /\ VersionsOf(c.evidence) # {}
    BY <2>3, SomeVersions DEF Of
  <2>5. c.bulletin \in Of(c.evidence, "supplier_risk_bulletin") /\ c.purchase \in Of(c.evidence, "purchase_order")
    BY <2>3 DEF Of
  <2> QED
    BY <1>3, <2>1, <2>3, <2>4, <2>5 DEF ContextOf, InForce
<1> QED
  BY <1>1, <1>2, <1>3

LEMMA GeneratedForm ==
  ASSUME NEW provider, scenario \in {"A", "B", "C"}, NEW u, u.kind \in Kinds,
         provider \in Providers,
         Generated(provider, scenario, u).status = "succeeded"
  PROVE  /\ u.kind = "whole" /\ Len(u.texts) = 1
         /\ Generated(provider, scenario, u).doc = u.texts[1].doc
         /\ SchemaValid(scenario, u.texts[1].doc)
<1> DEFINE out == OutputText(provider, u)
           doc == Document(provider, out.text)
<1>1. /\ u.kind \notin {"late", "lost"} /\ out.status = "succeeded"
      /\ SchemaValid(scenario, doc)
      /\ Generated(provider, scenario, u).doc = doc
  BY DEF Generated, Failed
<1>2. ~SchemaValid(scenario, Unreadable)
  BY DEF SchemaValid, ShapeValid, Unreadable, Fields
<1>3. u.kind = "whole" /\ Len(u.texts) = 1 /\ out.text = u.texts[1]
  BY <1>1 DEF OutputText, ClaudeText, OpenAIText, OpenRouterText, OneText, ClaudeEnvelope,
              OpenAIEnvelope, OpenRouterEnvelope, Providers, Kinds
<1>4. doc = u.texts[1].doc
  BY <1>1, <1>2, <1>3 DEF Document
<1> QED
  BY <1>1, <1>3, <1>4

-----------------------------------------------------------------------------
(* Places and answers.                                                     *)

LEMMA UpdatedRow ==
  ASSUME NEW old, IsRow(old), NEW new
  PROVE  /\ IsRow(Updated(old, new)) /\ SameKey(old, Updated(old, new))
         /\ old.type \in Versioned => Updated(old, new).version = old.version + 1
<1> DEFINE r == Updated(old, new)
<1>1. /\ DOMAIN r = DOMAIN old /\ r.type = old.type /\ r.id = old.id
      /\ r.version = IF old.type \in Versioned THEN old.version + 1 ELSE old.version
  BY DEF Updated, IsRow
<1> QED
  BY <1>1 DEF IsRow, SameKey

LEMMA RowsEdited ==
  ASSUME RowsInv, Edit
  PROVE  /\ RowsInv'
         /\ \A e \in rows : \E r \in rows' : SameKey(e, r) /\ e.version <= r.version
         /\ \A r \in rows' \ rows : \A e \in rows :
              r.type \in Versioned /\ SameKey(e, r) => e.version < r.version
<1>8. PICK old \in rows : \E new \in Edited(old) : rows' = (rows \ {old}) \cup {Updated(old, new)}
  BY DEF Edit
<1>1. PICK new \in Edited(old) : rows' = (rows \ {old}) \cup {Updated(old, new)}
  BY <1>8
<1> DEFINE r == Updated(old, new)
<1>7. rows' = (rows \ {old}) \cup {r}
  BY <1>1
<1>2. /\ IsRow(r) /\ SameKey(old, r) /\ old.version \in Nat
      /\ old.type \in Versioned => r.version = old.version + 1
      /\ old.version <= r.version
  <2>1. IsRow(old)
    BY DEF RowsInv
  <2>2. old.version <= r.version
    BY <2>1 DEF Updated, IsRow
  <2> QED
    BY <2>1, <2>2, UpdatedRow DEF IsRow
<1> HIDE DEF r
<1>3. \A e \in rows : SameKey(e, r) => e = old
  BY <1>2 DEF RowsInv, SameKey
<1>4. RowsInv'
  BY <1>7, <1>2, <1>3 DEF RowsInv, SameKey
<1>5. ASSUME NEW e \in rows PROVE \E q \in rows' : SameKey(e, q) /\ e.version <= q.version
  <2>1. SameKey(e, e) /\ e.version <= e.version
    BY DEF SameKey, RowsInv, IsRow
  <2> QED
    BY <1>7, <1>2, <2>1
<1>6. ASSUME NEW q \in rows' \ rows, NEW e \in rows, q.type \in Versioned, SameKey(e, q)
      PROVE  e.version < q.version
  <2>1. q = r /\ e = old
    BY <1>7, <1>3, <1>6
  <2> QED
    BY <1>2, <1>6, <2>1 DEF SameKey
<1> QED
  BY <1>4, <1>5, <1>6

LEMMA RowArrived ==
  ASSUME RowsInv, Arrive
  PROVE  /\ RowsInv'
         /\ \A e \in rows : \E r \in rows' : SameKey(e, r) /\ e.version <= r.version
         /\ \A r \in rows' \ rows : \A e \in rows : ~SameKey(e, r)
<1>1. PICK new \in Arrivals : (\A r \in rows : ~SameKey(r, new)) /\ rows' = rows \cup {new}
  BY DEF Arrive
<1>2. IsRow(new)
  BY SourcesAssumption
<1>3. \A e \in rows : SameKey(e, e) /\ e.version <= e.version
  BY DEF SameKey, RowsInv, IsRow
<1> QED
  BY <1>1, <1>2, <1>3 DEF RowsInv, SameKey

\* The steps that only concern the decision.
Deciding == BeginApprove \/ RereadNext \/ Rebuild \/ RefuseStale \/ CommitApprove \/ Reject

LEMMA StepsAre ==
  ASSUME [Next]_vars
  PROVE  \/ ReadNext \/ Detect \/ AssembleContext
         \/ \E provider \in Providers, u \in Utterances(scenario) : Ask(provider, u)
         \/ Request \/ Abandon \/ Close \/ AuditRequest \/ Stage \/ Stop
         \/ Deciding \/ SourceChanges \/ Tick \/ UNCHANGED vars
BY DEF Next, Run, Decides, Deciding

LEMMA DecidingKeeps ==
  ASSUME Deciding
  PROVE  UNCHANGED <<scenario, day, sourceVars, runVars>>
BY DEF Deciding, BeginApprove, RereadNext, Rebuild, RefuseStale, CommitApprove, Reject, Tell

LEMMA DetectGives ==
  ASSUME TypeOK, Detect
  PROVE  /\ trigger' \in Detected(scenario, query.seen, since)
         /\ attention' = [signal |-> Signal(trigger'), versions |-> trigger'.versions,
                          day |-> trigger'.day]
         /\ trigger' # Nothing /\ trigger'.versions # {} /\ trigger'.day = since
<1>1. PICK t \in Taken(Detected(scenario, query.seen, since)) :
        /\ trigger' = t
        /\ attention' = [signal |-> Signal(t), versions |-> t.versions, day |-> t.day]
  BY DEF Detect
<1>2. t \in Detected(scenario, query.seen, since)
  BY DEF Taken
<1>3. scenario \in {"A", "B", "C"}
  BY PlanningAssumption DEF TypeOK
<1> QED
  BY <1>1, <1>2, <1>3, DetectedForm

LEMMA AssembleGives ==
  ASSUME TypeOK, ContextInv, AssembleContext
  PROVE  /\ ctx' \in Assemble(scenario, attention, trigger, query.seen)
         /\ ctx' # Nothing /\ ContextOf(ctx)' /\ ctx'.evidence \subseteq query.seen
<1>1. PICK c \in Assemble(scenario, attention, trigger, query.seen) : ctx' = c
  BY DEF AssembleContext, Contexts
<1>2. c # Nothing /\ ContextOf(c) /\ c.evidence \subseteq query.seen
  BY AssembledForm, PlanningAssumption DEF TypeOK, ContextInv
<1>3. trigger' = trigger /\ scenario' = scenario
  BY DEF AssembleContext
<1> QED
  BY <1>1, <1>2, <1>3 DEF ContextOf

LEMMA PhaseStep ==
  ASSUME TypeOK, ContextInv, PhaseInv, [Next]_vars
  PROVE  PhaseInv'
<1> USE DEF PhaseInv
<1>1. CASE ReadNext
  BY <1>1 DEF ReadNext, decisionVars
<1>2. CASE Detect
  BY <1>2, DetectGives DEF Detect, decisionVars
<1>3. CASE AssembleContext
  BY <1>3, AssembleGives DEF AssembleContext, decisionVars
<1>4. ASSUME NEW provider, NEW u, Ask(provider, u) PROVE PhaseInv'
  BY <1>4 DEF Ask, decisionVars
<1>5. CASE Request
  BY <1>5 DEF Request, decisionVars, Nothing
<1>6. CASE Abandon
  BY <1>6 DEF Abandon, decisionVars
<1>7. CASE Close \/ AuditRequest \/ Stage \/ Stop
  BY <1>7 DEF Close, AuditRequest, Stage, Stop, decisionVars
<1>8. CASE Deciding
  <2>1. UNCHANGED runVars
    BY <1>8, DecidingKeeps
  <2>2. dpc' # "idle" => dpc # "idle" \/ audited
    BY <1>8 DEF Deciding, BeginApprove, RereadNext, Rebuild, RefuseStale, CommitApprove,
                Reject, Tell, Decidable
  <2> QED
    BY <2>1, <2>2 DEF runVars
<1>9. CASE SourceChanges \/ Tick \/ UNCHANGED vars
  BY <1>9 DEF SourceChanges, Tick, Outside, vars, runVars, decisionVars
<1> QED
  BY <1>1, <1>2, <1>3, <1>4, <1>5, <1>6, <1>7, <1>8, <1>9, StepsAre

LEMMA AnswerStep ==
  ASSUME TypeOK, PhaseInv, AnswerInv, [Next]_vars
  PROVE  AnswerInv'
<1>1. ASSUME NEW provider \in Providers, NEW u \in Utterances(scenario), Ask(provider, u)
      PROVE  AnswerInv'
  <2>1. /\ uttered' = u /\ answer' = Generated(provider, scenario, u) /\ scenario' = scenario
        /\ pc' = "judging" => answer'.status = "succeeded"
        /\ plan' = plan /\ plan = Nothing
    BY <1>1 DEF Ask, PhaseInv
  <2>2. CASE Generated(provider, scenario, u).status = "succeeded"
    <3>1. u.kind \in Kinds /\ scenario \in {"A", "B", "C"}
      BY PlanningAssumption DEF TypeOK
    <3> QED
      BY <2>1, <2>2, <3>1, GeneratedForm DEF AnswerInv
  <2>3. CASE Generated(provider, scenario, u).status # "succeeded"
    BY <2>1, <2>3 DEF AnswerInv
  <2> QED
    BY <2>2, <2>3
<1>2. CASE UNCHANGED <<uttered, answer, scenario>>
           /\ (pc' = "judging" \/ plan' # Nothing => pc = "judging" \/ plan # Nothing)
  BY <1>2 DEF AnswerInv
<1>3. CASE Deciding
  BY <1>2, <1>3, DecidingKeeps DEF runVars
<1>4. CASE ReadNext \/ Detect \/ AssembleContext \/ Abandon
  BY <1>2, <1>4 DEF ReadNext, Detect, AssembleContext, Abandon
<1>5. CASE Request \/ Close \/ AuditRequest \/ Stage \/ Stop
  BY <1>2, <1>5 DEF Request, Close, AuditRequest, Stage, Stop
<1>6. CASE SourceChanges \/ Tick \/ UNCHANGED vars
  BY <1>2, <1>6 DEF SourceChanges, Tick, Outside, vars, runVars
<1> QED
  BY <1>1, <1>3, <1>4, <1>5, <1>6, StepsAre

LEMMA PlanStep ==
  ASSUME TypeOK, PhaseInv, PlanInv, [Next]_vars
  PROVE  PlanInv'
<1>1. CASE UNCHANGED <<scenario, ctx, answer, plan>>
  BY <1>1 DEF PlanInv, Decision
<1>2. CASE plan' = Nothing
  BY <1>2 DEF PlanInv
<1>3. CASE Request
  BY <1>3 DEF Request, PlanInv, Decision
<1>4. CASE Deciding
  BY <1>1, <1>4, DecidingKeeps DEF runVars
<1>5. CASE ReadNext \/ Detect \/ AssembleContext \/ Abandon
           \/ \E provider \in Providers, u \in Utterances(scenario) : Ask(provider, u)
  BY <1>1, <1>2, <1>5 DEF ReadNext, Detect, AssembleContext, Abandon, Ask, PhaseInv
<1>6. CASE Close \/ AuditRequest \/ Stage \/ Stop
  BY <1>1, <1>6 DEF Close, AuditRequest, Stage, Stop
<1>7. CASE SourceChanges \/ Tick \/ UNCHANGED vars
  BY <1>1, <1>7 DEF SourceChanges, Tick, Outside, vars, runVars
<1> QED
  BY <1>3, <1>4, <1>5, <1>6, <1>7, StepsAre

\* Every step that reads or forgets: what its evidence is made of.
LEMMA RunReads ==
  ASSUME TypeOK, SeenInv, RowsInv, [Next]_vars
  PROVE  /\ query'.todo \in Seq(Types)
         /\ \A e \in query'.seen : \/ e \in query.seen
                                   \/ \E type \in Types : e \in Select(type, since)
<1>1. CASE ReadNext
  BY <1>1, ReadFinds DEF ReadNext, SeenInv
<1>2. CASE query' = query
  BY <1>2 DEF SeenInv
<1>3. ASSUME NEW types \in Seq(Types), query' = Query(types)
      PROVE  query'.todo \in Seq(Types) /\ query'.seen = {}
  BY <1>3 DEF Query
<1>4. << >> \in Seq(Types) /\ AssemblyReads(scenario) \in Seq(Types)
  BY ReadsAreTypes, PlanningAssumption DEF TypeOK
<1>5. CASE Detect \/ AssembleContext \/ Abandon
  BY <1>3, <1>4, <1>5 DEF Detect, AssembleContext, Abandon, NoQuery
<1>6. CASE Deciding
  BY <1>2, <1>6, DecidingKeeps DEF runVars
<1>7. CASE \/ \E provider \in Providers, u \in Utterances(scenario) : Ask(provider, u)
           \/ Request \/ Close \/ AuditRequest \/ Stage \/ Stop
  BY <1>2, <1>7 DEF Ask, Request, Close, AuditRequest, Stage, Stop
<1>8. CASE SourceChanges \/ Tick \/ UNCHANGED vars
  BY <1>2, <1>8 DEF SourceChanges, Tick, Outside, vars, runVars
<1> QED
  BY <1>1, <1>5, <1>6, <1>7, <1>8, StepsAre

LEMMA DecisionReads ==
  ASSUME TypeOK, SeenInv, RowsInv, [Next]_vars
  PROVE  /\ dquery'.todo \in Seq(Types)
         /\ \A e \in dquery'.seen :
              \/ e \in dquery.seen
              \/ dpc # "idle" /\ rows' = rows /\ \E type, from : e \in Select(type, from)
         /\ saw' = saw \/ (BeginApprove /\ saw' = rows)
<1>1. CASE RereadNext
  BY <1>1, ReadFinds DEF RereadNext, SeenInv, sourceVars
<1>2. CASE dquery' = dquery /\ saw' = saw
  BY <1>2 DEF SeenInv
<1>3. ASSUME NEW types \in Seq(Types), dquery' = Query(types)
      PROVE  dquery'.todo \in Seq(Types) /\ dquery'.seen = {}
  BY <1>3 DEF Query
<1>4. /\ << >> \in Seq(Types) /\ DetectionReads(scenario) \in Seq(Types)
      /\ AssemblyReads(scenario) \in Seq(Types)
  BY ReadsAreTypes, PlanningAssumption DEF TypeOK
<1>5. CASE BeginApprove \/ Rebuild \/ RefuseStale \/ CommitApprove
  BY <1>3, <1>4, <1>5 DEF BeginApprove, Rebuild, RefuseStale, CommitApprove, Tell, NoQuery
<1>6. CASE Reject
  BY <1>2, <1>6 DEF Reject
<1>7. CASE \/ \E provider \in Providers, u \in Utterances(scenario) : Ask(provider, u)
           \/ Request \/ Close \/ AuditRequest \/ Stage \/ Stop
           \/ ReadNext \/ Detect \/ AssembleContext \/ Abandon
  BY <1>2, <1>7 DEF Ask, Request, Close, AuditRequest, Stage, Stop, ReadNext, Detect,
                    AssembleContext, Abandon, decisionVars
<1>8. CASE SourceChanges \/ Tick \/ UNCHANGED vars
  BY <1>2, <1>8 DEF SourceChanges, Tick, Outside, vars, decisionVars
<1> QED
  BY <1>1, <1>5, <1>6, <1>7, <1>8, StepsAre DEF Deciding

\* Only other users change the rows.
LEMMA RowsChange ==
  ASSUME RowsInv, [Next]_vars
  PROVE  \/ rows' = rows /\ edits' = edits
         \/ SourceChanges /\ Edit
         \/ SourceChanges /\ Arrive
<1>1. CASE Deciding
  BY <1>1, DecidingKeeps DEF sourceVars
<1>2. CASE \/ \E provider \in Providers, u \in Utterances(scenario) : Ask(provider, u)
           \/ Request \/ Close \/ AuditRequest \/ Stage \/ Stop
           \/ ReadNext \/ Detect \/ AssembleContext \/ Abandon
  BY <1>2 DEF Ask, Request, Close, AuditRequest, Stage, Stop, ReadNext, Detect,
              AssembleContext, Abandon, sourceVars
<1>3. CASE SourceChanges \/ Tick \/ UNCHANGED vars
  BY <1>3 DEF SourceChanges, Tick, vars, sourceVars
<1> QED
  BY <1>1, <1>2, <1>3, StepsAre

LEMMA RowsStep ==
  ASSUME RowsInv, [Next]_vars
  PROVE  RowsInv'
<1>1. CASE rows' = rows
  BY <1>1 DEF RowsInv
<1> QED
  BY <1>1, RowsChange, RowsEdited, RowArrived

LEMMA SeenStep ==
  ASSUME TypeOK, SeenInv, RowsInv, [Next]_vars
  PROVE  SeenInv'
<1>1. \A e \in query'.seen : e.version \in Nat \ {0}
  <2> SUFFICES ASSUME NEW e \in query'.seen PROVE e.version \in Nat \ {0}
    OBVIOUS
  <2> QED
    BY RunReads, SelectTyped DEF SeenInv
<1>2. \A e \in dquery'.seen : e.version \in Nat \ {0}
  <2> SUFFICES ASSUME NEW e \in dquery'.seen PROVE e.version \in Nat \ {0}
    OBVIOUS
  <2> QED
    BY DecisionReads, SelectTyped DEF SeenInv
<1>3. \A e \in saw' : e.version \in Nat \ {0}
  BY DecisionReads DEF SeenInv, RowsInv, IsRow
<1> QED
  BY <1>1, <1>2, <1>3, RunReads, DecisionReads DEF SeenInv

LEMMA ContextStep ==
  ASSUME TypeOK, PhaseInv, SeenInv, RowsInv, ContextInv, [Next]_vars
  PROVE  ContextInv'
<1>1. InForce(query'.seen)
  <2> SUFFICES ASSUME NEW b \in query'.seen, b.type = "supplier_risk_bulletin"
               PROVE  b.status = "active" /\ b.superseded_by = "none"
    BY DEF InForce
  <2> QED
    BY RunReads, SelectTyped DEF ContextInv, InForce
<1>2. CASE ctx' = ctx /\ trigger' = trigger /\ scenario' = scenario
  BY <1>1, <1>2 DEF ContextInv, ContextOf
<1>3. CASE ctx' = Nothing
  BY <1>1, <1>3 DEF ContextInv
<1>4. CASE AssembleContext
  BY <1>1, <1>4, AssembleGives DEF ContextInv
<1>5. CASE Detect
  BY <1>3, <1>5 DEF Detect, PhaseInv
<1>6. CASE Deciding
  BY <1>2, <1>6, DecidingKeeps DEF runVars
<1>7. CASE \/ \E provider \in Providers, u \in Utterances(scenario) : Ask(provider, u)
           \/ Request \/ Close \/ AuditRequest \/ Stage \/ Stop \/ ReadNext \/ Abandon
  BY <1>2, <1>7 DEF Ask, Request, Close, AuditRequest, Stage, Stop, ReadNext, Abandon
<1>8. CASE SourceChanges \/ Tick \/ UNCHANGED vars
  BY <1>2, <1>8 DEF SourceChanges, Tick, Outside, vars, runVars
<1> QED
  BY <1>4, <1>5, <1>6, <1>7, <1>8, StepsAre

-----------------------------------------------------------------------------
(* Types.                                                                  *)

\* What a step does to the request's row and to the decision.
LEMMA ApprovalMoves ==
  ASSUME TypeOK, PhaseInv, [Next]_vars
  PROVE  /\ approver' = approver
         /\ \/ UNCHANGED <<status, expiry, decider>> /\ (plan # Nothing <=> plan' # Nothing)
            \/ /\ plan' # Nothing /\ status = "absent" /\ status' = "pending"
               /\ expiry' = day + Window /\ decider' = decider
            \/ /\ plan' = plan /\ Undecided /\ status' \in Verdicts
               /\ decider' = Original /\ expiry' = expiry
<1>1. CASE CommitApprove
  BY <1>1 DEF CommitApprove, Decide, CanDecide, Verdicts, approvalVars, Tell, runVars
<1>2. CASE Reject
  BY <1>2 DEF Reject, Decide, CanDecide, Verdicts, runVars
<1>3. CASE Request
  BY <1>3 DEF Request, CreatePending, Nothing
<1>4. CASE BeginApprove \/ RereadNext \/ Rebuild \/ RefuseStale
  BY <1>4 DEF BeginApprove, RereadNext, Rebuild, RefuseStale, Tell, approvalVars, runVars
<1>5. CASE \/ \E provider \in Providers, u \in Utterances(scenario) : Ask(provider, u)
           \/ Close \/ AuditRequest \/ Stage \/ Stop
           \/ ReadNext \/ Detect \/ AssembleContext \/ Abandon
  BY <1>5 DEF Ask, Close, AuditRequest, Stage, Stop, ReadNext, Detect,
              AssembleContext, Abandon, approvalVars
<1>6. CASE SourceChanges \/ Tick \/ UNCHANGED vars
  BY <1>6 DEF SourceChanges, Tick, Outside, vars, runVars, approvalVars
<1> QED
  BY <1>1, <1>2, <1>3, <1>4, <1>5, <1>6, StepsAre DEF Deciding

LEMMA TypeStep ==
  ASSUME TypeOK, PhaseInv, SeenInv, SeenInv', RowsInv, ContextInv, ContextInv', [Next]_vars
  PROVE  TypeOK'
<1>1. ApprovalTypeOK' /\ (plan' # Nothing <=> status' # "absent")
  <2>1. day \in Nat /\ ApprovalTypeOK /\ (plan # Nothing <=> status # "absent")
    BY PlanningAssumption DEF TypeOK
  <2> QED
    BY <2>1, ApprovalMoves DEF ApprovalTypeOK, Approvers, Verdicts, Window, Undecided
<1>2. scenario' = scenario /\ day' \in 0..LastDay /\ since' \in 0..day' /\ since' = since
  <2>1. CASE Deciding
    BY <2>1, DecidingKeeps DEF TypeOK, runVars
  <2>2. CASE \/ \E provider \in Providers, u \in Utterances(scenario) : Ask(provider, u)
             \/ Request \/ Close \/ AuditRequest \/ Stage \/ Stop
             \/ ReadNext \/ Detect \/ AssembleContext \/ Abandon
    BY <2>2 DEF Ask, Request, Close, AuditRequest, Stage, Stop, ReadNext, Detect,
                AssembleContext, Abandon, TypeOK
  <2>3. CASE SourceChanges \/ Tick \/ UNCHANGED vars
    BY <2>3, PlanningAssumption DEF SourceChanges, Tick, Outside, vars, runVars, TypeOK
  <2> QED
    BY <2>1, <2>2, <2>3, StepsAre
<1>3. edits' \in 0..MaxEdits
  BY RowsChange, SourcesAssumption DEF Edit, Arrive, TypeOK
<1>4. /\ pc' \in {"detecting", "assembling", "asking", "judging", "created", "audited"} \cup Ended
      /\ {audited', staged'} \subseteq BOOLEAN /\ (staged' => audited')
      /\ trigger' # Nothing => trigger'.versions # {} /\ trigger'.day = since'
  <2>1. CASE Deciding
    BY <2>1, DecidingKeeps DEF TypeOK, runVars
  <2>2. CASE Detect
    BY <2>2, DetectGives DEF Detect, TypeOK
  <2>3. CASE \E provider \in Providers, u \in Utterances(scenario) : Ask(provider, u)
    BY <2>3 DEF Ask, TypeOK, Ended
  <2>4. CASE Stage
    BY <2>4 DEF Stage, TypeOK, Ended, PhaseInv
  <2>5. CASE AuditRequest
    BY <2>5 DEF AuditRequest, TypeOK, Ended
  <2>7. CASE Request \/ Close \/ Stop \/ ReadNext \/ AssembleContext \/ Abandon
    BY <2>7 DEF Request, Close, Stop, ReadNext, AssembleContext, Abandon, TypeOK, Ended
  <2>6. CASE SourceChanges \/ Tick \/ UNCHANGED vars
    BY <2>6 DEF SourceChanges, Tick, Outside, vars, runVars, TypeOK
  <2> QED
    BY <2>1, <2>2, <2>3, <2>4, <2>5, <2>6, <2>7, StepsAre
<1>5. /\ dpc' \in {"idle", "rebuilding", "reassembling"}
      /\ dpc' = "idle" => dquery' = NoQuery
      /\ verdict' \in {"none", "stale", "conflict"} \cup Verdicts
  <2>1. CASE BeginApprove \/ RereadNext \/ Rebuild \/ RefuseStale \/ CommitApprove \/ Reject
    BY <2>1 DEF BeginApprove, RereadNext, Rebuild, RefuseStale, CommitApprove, Reject, Tell,
                Verdicts, TypeOK
  <2>2. CASE UNCHANGED <<dpc, dquery, verdict>>
    BY <2>2 DEF TypeOK
  <2>3. CASE \/ \E provider \in Providers, u \in Utterances(scenario) : Ask(provider, u)
             \/ Request \/ Close \/ AuditRequest \/ Stage \/ Stop
             \/ ReadNext \/ Detect \/ AssembleContext \/ Abandon
    BY <2>2, <2>3 DEF Ask, Request, Close, AuditRequest, Stage, Stop, ReadNext, Detect,
                      AssembleContext, Abandon, decisionVars
  <2>4. CASE SourceChanges \/ Tick \/ UNCHANGED vars
    BY <2>2, <2>4 DEF SourceChanges, Tick, Outside, vars, decisionVars
  <2> QED
    BY <2>1, <2>3, <2>4, StepsAre DEF Deciding
<1> QED
  BY <1>1, <1>2, <1>3, <1>4, <1>5 DEF TypeOK, SeenInv, ContextInv, ContextOf

-----------------------------------------------------------------------------
(* Versions.                                                               *)

LEMMA KnownNext ==
  ASSUME TypeOK, PhaseInv, SeenInv, RowsInv, ContextInv, [Next]_vars, NEW e \in Known',
         e.type \in Versioned
  PROVE  e \in Known \/ e \in rows'
<1>1. \A type, from : e \in Select(type, from) => e \in rows
  BY SelectTyped DEF Versioned
<1>2. e \in rows' \/ e \in query'.seen \/ e \in dquery'.seen \/ e \in saw'
      \/ (ctx' # Nothing /\ e \in ctx'.evidence)
  BY DEF Known
<1>3. e \in query'.seen \/ e \in dquery'.seen \/ e \in saw' => e \in Known \/ e \in rows'
  BY <1>1, RunReads, DecisionReads DEF Known, BeginApprove, sourceVars
<1>4. CASE ctx' # Nothing /\ e \in ctx'.evidence
  <2>1. CASE ctx' = ctx
    BY <1>4, <2>1 DEF Known
  <2>2. CASE AssembleContext
    BY <1>4, <2>2, AssembleGives DEF Known
  <2>3. CASE Deciding
    BY <2>1, <2>3, DecidingKeeps DEF runVars
  <2>4. CASE \/ \E provider \in Providers, u \in Utterances(scenario) : Ask(provider, u)
             \/ Request \/ Close \/ AuditRequest \/ Stage \/ Stop
             \/ ReadNext \/ Detect \/ Abandon
    BY <2>1, <2>4 DEF Ask, Request, Close, AuditRequest, Stage, Stop, ReadNext, Detect, Abandon
  <2>5. CASE SourceChanges \/ Tick \/ UNCHANGED vars
    BY <2>1, <2>5 DEF SourceChanges, Tick, Outside, vars, runVars
  <2> QED
    BY <2>2, <2>3, <2>4, <2>5, StepsAre
<1> QED
  BY <1>2, <1>3, <1>4

LEMMA VersionsStep ==
  ASSUME TypeOK, PhaseInv, SeenInv, RowsInv, ContextInv, VersionsInv, [Next]_vars
  PROVE  VersionsInv'
<1>1. RowsInv'
  BY RowsStep
<1>2. ASSUME NEW e \in Known, e.type \in Versioned
      PROVE  /\ \E r \in rows : SameKey(e, r) /\ e.version <= r.version /\ e.version \in Nat
             /\ \E r \in rows' : SameKey(e, r) /\ e.version <= r.version /\ e.version \in Nat
  <2>1. PICK r \in rows : SameKey(e, r) /\ e.version <= r.version /\ e.version \in Nat
    BY <1>2 DEF VersionsInv
  <2>2. PICK q \in rows' : SameKey(r, q) /\ r.version <= q.version
    <3>1. CASE rows' = rows
      BY <3>1 DEF SameKey, RowsInv, IsRow
    <3> QED
      BY <3>1, RowsChange, RowsEdited, RowArrived
  <2>3. r.version \in Nat /\ q.version \in Nat
    BY <1>1 DEF RowsInv, IsRow
  <2>4. SameKey(e, q) /\ e.version <= q.version
    BY <2>1, <2>2, <2>3 DEF SameKey
  <2> QED
    BY <2>1, <2>4
<1>3. ASSUME NEW e \in rows', e.type \in Versioned
      PROVE  \E r \in rows' : SameKey(e, r) /\ e.version <= r.version /\ e.version \in Nat
  BY <1>1, <1>3 DEF RowsInv, SameKey, IsRow
<1>4. ASSUME NEW e \in Known, NEW f \in rows', e.type \in Versioned, SameKey(e, f),
             e.version = f.version
      PROVE  e = f
  <2>1. CASE f \in rows
    BY <1>4, <2>1 DEF VersionsInv, Known
  <2>2. CASE f \notin rows
    <3>1. PICK r \in rows : SameKey(e, r) /\ e.version <= r.version
      BY <1>2, <1>4
    <3>2. SameKey(r, f) /\ r.version \in Nat /\ f.version \in Nat /\ f.type \in Versioned
      BY <1>1, <1>4, <3>1 DEF SameKey, RowsInv, IsRow
    <3>3. r.version < f.version
      BY <2>2, <3>2, RowsChange, RowsEdited, RowArrived
    <3> QED
      BY <1>4, <3>1, <3>2, <3>3
  <2> QED
    BY <2>1, <2>2
<1>5. ASSUME NEW e \in rows', NEW f \in rows', SameKey(e, f)
      PROVE  e = f
  BY <1>1, <1>5 DEF RowsInv
<1>6. ASSUME NEW e \in Known', e.type \in Versioned
      PROVE  \E r \in rows' : SameKey(e, r) /\ e.version <= r.version /\ e.version \in Nat
  BY <1>2, <1>3, <1>6, KnownNext
<1>7. ASSUME NEW e \in Known', NEW f \in Known', e.type \in Versioned, SameKey(e, f),
             e.version = f.version
      PROVE  e = f
  <2>1. e \in Known \/ e \in rows'
    BY <1>7, KnownNext
  <2>2. f \in Known \/ f \in rows'
    BY <1>7, KnownNext DEF SameKey
  <2>3. CASE e \in Known /\ f \in Known
    BY <1>7, <2>3 DEF VersionsInv
  <2>4. CASE e \in rows' /\ f \in Known
    BY <1>4, <1>7, <2>4 DEF SameKey
  <2> QED
    BY <1>4, <1>5, <1>7, <2>1, <2>2, <2>3, <2>4
<1> QED
  BY <1>6, <1>7 DEF VersionsInv

LEMMA OrderStep ==
  ASSUME TypeOK, PhaseInv, SeenInv, RowsInv, VersionsInv, OrderInv, [Next]_vars
  PROVE  OrderInv'
<1>1. CASE UNCHANGED <<dpc, dquery, saw>> /\ (dpc # "idle" => ctx' = ctx)
  BY <1>1 DEF OrderInv
<1>2. CASE dpc' = "idle"
  BY <1>2 DEF OrderInv
<1>3. CASE BeginApprove
  <2>1. saw' = rows /\ ctx' = ctx /\ ctx # Nothing /\ dquery'.seen = {}
    BY <1>3 DEF BeginApprove, Decidable, PhaseInv, runVars, Query
  <2>2. \A e \in ctx.evidence : e.type \in Versioned =>
          \E s \in rows : SameKey(e, s) /\ e.version <= s.version
    BY <2>1 DEF VersionsInv, Known
  <2> QED
    BY <2>1, <2>2 DEF OrderInv
<1>4. CASE RereadNext
  <2>1. saw' = saw /\ ctx' = ctx /\ dpc' = dpc /\ dpc # "idle"
    BY <1>4 DEF RereadNext, runVars
  <2>2. ASSUME NEW e \in dquery'.seen, NEW s \in saw, e.type \in Versioned, SameKey(e, s)
        PROVE  s.version <= e.version
    <3>1. CASE e \in dquery.seen
      BY <2>1, <2>2, <3>1 DEF OrderInv
    <3>2. CASE e \notin dquery.seen
      <4>1. PICK type, from : e \in Select(type, from)
        BY <2>2, <3>2, DecisionReads
      <4>2. e \in rows
        BY <2>2, <4>1, SelectTyped DEF Versioned
      <4>3. PICK r \in rows : SameKey(s, r) /\ s.version <= r.version
        BY <2>2 DEF VersionsInv, Known, SameKey
      <4> QED
        BY <2>2, <4>2, <4>3 DEF RowsInv, SameKey
    <3> QED
      BY <3>1, <3>2
  <2> QED
    BY <2>1, <2>2 DEF OrderInv
<1>5. CASE Rebuild
  <2>1. saw' = saw /\ ctx' = ctx /\ dquery'.seen = {} /\ dpc # "idle"
    BY <1>5 DEF Rebuild, runVars, Query
  <2> QED
    BY <2>1 DEF OrderInv
<1>6. CASE RefuseStale \/ CommitApprove
  BY <1>2, <1>6 DEF RefuseStale, CommitApprove, Tell
<1>7. CASE Reject
  BY <1>1, <1>7 DEF Reject, runVars
<1>8. CASE AssembleContext
  BY <1>1, <1>8 DEF AssembleContext, decisionVars, PhaseInv
<1>9. CASE \/ \E provider \in Providers, u \in Utterances(scenario) : Ask(provider, u)
           \/ Request \/ Close \/ AuditRequest \/ Stage \/ Stop
           \/ ReadNext \/ Detect \/ Abandon
  BY <1>1, <1>9 DEF Ask, Request, Close, AuditRequest, Stage, Stop, ReadNext, Detect, Abandon,
                    decisionVars
<1>10. CASE SourceChanges \/ Tick \/ UNCHANGED vars
  BY <1>1, <1>10 DEF SourceChanges, Tick, Outside, vars, runVars, decisionVars
<1> QED
  BY <1>3, <1>4, <1>5, <1>6, <1>7, <1>8, <1>9, <1>10, StepsAre DEF Deciding

\* Who is approved was so before, or is by the decision's last step.
LEMMA ApprovedBy ==
  ASSUME TypeOK, PhaseInv, SeenInv, RowsInv, [Next]_vars, status' = "approved"
  PROVE  /\ UNCHANGED <<plan, saw, trigger>>
         /\ during \subseteq during'
         /\ status = "approved" \/ CommitApprove
<1>1. UNCHANGED <<plan, trigger>>
  <2>1. CASE Request
    BY <2>1 DEF Request, CreatePending
  <2>2. CASE Deciding
    BY <2>2, DecidingKeeps DEF runVars
  <2>5. CASE Detect
    BY <2>5 DEF Detect, PhaseInv, TypeOK, approvalVars
  <2>3. CASE \/ \E provider \in Providers, u \in Utterances(scenario) : Ask(provider, u)
             \/ Close \/ AuditRequest \/ Stage \/ Stop
             \/ ReadNext \/ AssembleContext \/ Abandon
    BY <2>3 DEF Ask, Close, AuditRequest, Stage, Stop, ReadNext, AssembleContext, Abandon
  <2>4. CASE SourceChanges \/ Tick \/ UNCHANGED vars
    BY <2>4 DEF SourceChanges, Tick, Outside, vars, runVars
  <2> QED
    BY <2>1, <2>2, <2>3, <2>4, <2>5, StepsAre
<1>2. ~BeginApprove
  BY DEF BeginApprove, Decidable, Undecided, approvalVars
<1>3. saw' = saw
  BY <1>2, DecisionReads
<1>4. status = "approved" \/ CommitApprove
  <2>1. CASE Reject
    BY <2>1 DEF Reject, Decide
  <2>2. CASE status' = status
    BY <2>2
  <2>3. CASE Request
    BY <2>3 DEF Request, CreatePending
  <2>4. CASE RereadNext \/ Rebuild \/ RefuseStale
    BY <2>2, <2>4 DEF RereadNext, Rebuild, RefuseStale, approvalVars
  <2>5. CASE \/ \E provider \in Providers, u \in Utterances(scenario) : Ask(provider, u)
             \/ Close \/ AuditRequest \/ Stage \/ Stop
             \/ ReadNext \/ Detect \/ AssembleContext \/ Abandon
    BY <2>2, <2>5 DEF Ask, Close, AuditRequest, Stage, Stop, ReadNext, Detect, AssembleContext,
                      Abandon, approvalVars
  <2>6. CASE SourceChanges \/ Tick \/ UNCHANGED vars
    BY <2>2, <2>6 DEF SourceChanges, Tick, Outside, vars, approvalVars
  <2> QED
    BY <1>2, <2>1, <2>3, <2>4, <2>5, <2>6, StepsAre DEF Deciding
<1>5. during \subseteq during'
  <2>1. CASE RereadNext \/ Rebuild \/ RefuseStale \/ CommitApprove \/ Reject
    BY <2>1 DEF RereadNext, Rebuild, RefuseStale, CommitApprove, Reject, Tell
  <2>2. CASE \/ \E provider \in Providers, u \in Utterances(scenario) : Ask(provider, u)
             \/ Request \/ Close \/ AuditRequest \/ Stage \/ Stop
             \/ ReadNext \/ Detect \/ AssembleContext \/ Abandon
    BY <2>2 DEF Ask, Request, Close, AuditRequest, Stage, Stop, ReadNext, Detect,
                AssembleContext, Abandon, decisionVars
  <2>3. CASE SourceChanges \/ Tick \/ UNCHANGED vars
    BY <2>3 DEF SourceChanges, Tick, vars, decisionVars
  <2> QED
    BY <1>2, <2>1, <2>2, <2>3, StepsAre DEF Deciding
<1> QED
  BY <1>1, <1>3, <1>4, <1>5

LEMMA AssembledFrom ==
  ASSUME NEW E, scenario \in {"A", "B", "C"}, NEW item, NEW t, NEW c \in Assemble(scenario, item, t, E)
  PROVE  c.evidence \subseteq E
<1>1. CASE scenario = "A"
  <2>1. PICK s \in Of(E, "inventory"), p \in Of(E, "production_order"),
             o \in OriginalOrder(E, t.part), m \in Of(E, "message") :
          c = ContextA(t, s, p, o, Of(E, "supplier"), m, Of(E, "calendar_event"))
    BY <1>1 DEF Assemble, AssembleA, Single
  <2>2. o \in Of(E, "purchase_order")
    BY DEF OriginalOrder
  <2> QED
    BY <2>1, <2>2 DEF Of, ContextA
<1>2. CASE scenario = "B"
  <2>1. PICK l \in Of(E, "quality_lot"), a \in Of(E, "production_allocation"),
             p \in Of(E, "production_impact") :
          c.evidence = {l, a, p} \cup Alternatives(E, l)
    BY <1>2 DEF Assemble, AssembleB, Single
  <2> QED
    BY <2>1 DEF Of, Alternatives
<1>3. CASE scenario = "C"
  <2>1. PICK b \in Of(E, "supplier_risk_bulletin"), o \in Of(E, "purchase_order"),
             p \in Of(E, "production_order") :
          c = [trigger |-> t, bulletin |-> b, purchase |-> o, order |-> p,
               approver |-> "actor", evidence |-> {b, o, p}]
    BY <1>3 DEF Assemble, AssembleC, Single
  <2> QED
    BY <2>1 DEF Of
<1> QED
  BY <1>1, <1>2, <1>3

LEMMA HeldStep ==
  ASSUME TypeOK, PhaseInv, PlanInv, SeenInv, RowsInv, VersionsInv, OrderInv,
         ApprovedOnHeldEvidence, [Next]_vars
  PROVE  ApprovedOnHeldEvidence'
<1> SUFFICES ASSUME status' = "approved", NEW e \in plan.evidence, e.type \in Versioned
             PROVE  e \in saw
  BY ApprovedBy DEF ApprovedOnHeldEvidence
<1>1. CASE status = "approved"
  BY <1>1 DEF ApprovedOnHeldEvidence
<1>2. CASE CommitApprove
  <2>1. dpc # "idle" /\ Fresh(attention, dtrigger, dquery.seen)
    BY <1>2 DEF CommitApprove
  <2>2. plan.evidence = ctx.evidence /\ ctx # Nothing
    BY <2>1 DEF PhaseInv, PlanInv
  <2>3. PICK c \in Assemble(scenario, attention, dtrigger, dquery.seen) :
          VersionsOf(c.evidence) = VersionsOf(plan.evidence)
    BY <2>1 DEF Fresh
  <2>4. c.evidence \subseteq dquery.seen
    BY AssembledFrom, PlanningAssumption DEF TypeOK
  <2>5. <<e.type, e.id, e.version>> \in VersionsOf(c.evidence)
    BY <2>3 DEF VersionsOf
  <2>6. PICK f \in c.evidence : <<e.type, e.id, e.version>> = <<f.type, f.id, f.version>>
    BY <2>5 DEF VersionsOf
  <2>7. PICK s \in saw : SameKey(e, s) /\ e.version <= s.version
    BY <2>1, <2>2 DEF OrderInv
  <2>8. s.version <= f.version
    BY <2>1, <2>4, <2>6, <2>7 DEF OrderInv, SameKey
  <2>9. e \in Known /\ s \in Known
    BY <2>2 DEF Known
  <2>10. e.version \in Nat /\ s.version \in Nat
    BY <2>7, <2>9 DEF VersionsInv, SameKey
  <2>11. e.version = s.version
    BY <2>6, <2>7, <2>8, <2>10
  <2> QED
    BY <2>7, <2>9, <2>11 DEF VersionsInv
<1> QED
  BY <1>1, <1>2, ApprovedBy

-----------------------------------------------------------------------------
(* The production order a plan is for.                                     *)

LEMMA SignalStep ==
  ASSUME TypeOK, PhaseInv, SignalInv, [Next]_vars
  PROVE  SignalInv'
<1>1. CASE UNCHANGED <<trigger, attention>>
  BY <1>1 DEF SignalInv, Signal
<1>2. CASE Detect
  BY <1>2, DetectGives DEF SignalInv, Signal
<1>3. CASE Deciding
  BY <1>1, <1>3, DecidingKeeps DEF runVars
<1>4. CASE \/ \E provider \in Providers, u \in Utterances(scenario) : Ask(provider, u)
           \/ Request \/ Close \/ AuditRequest \/ Stage \/ Stop
           \/ ReadNext \/ AssembleContext \/ Abandon
  BY <1>1, <1>4 DEF Ask, Request, Close, AuditRequest, Stage, Stop, ReadNext,
                    AssembleContext, Abandon
<1>5. CASE SourceChanges \/ Tick \/ UNCHANGED vars
  BY <1>1, <1>5 DEF SourceChanges, Tick, Outside, vars, runVars
<1> QED
  BY <1>2, <1>3, <1>4, <1>5, StepsAre

\* A rebuilt trigger is about the plan's production order as it was read.
LEMMA RebuiltOrder ==
  ASSUME scenario \in {"A", "B", "C"}, NEW item, NEW E, NEW t \in Rebuilt(item, E)
  PROVE  /\ t.order = plan.order
         /\ \E p \in E : /\ p.type \in {"production_order", "production_impact"}
                         /\ p.id = plan.order
                         /\ p.start = t.start
<1>1. CASE scenario = "A"
  <2>1. PICK s \in Single(E, "inventory", IdIn(item.versions, "inventory")),
             p \in Single(E, "production_order", plan.order) :
          t = TriggerA(s.part, p, VersionIn(item.versions, "inventory"), item.versions,
                       DetectedOn(item))
    BY <1>1 DEF Rebuilt, RebuiltA
  <2> QED
    BY <2>1 DEF TriggerA, Single, Of
<1>2. CASE scenario = "B"
  <2>1. PICK l \in Single(E, "quality_lot", IdIn(item.versions, "quality_lot")),
             p \in Single(E, "production_impact", plan.order) :
          t = TriggerB(l.part, p, item.versions, DetectedOn(item))
    BY <1>2 DEF Rebuilt, RebuiltB
  <2> QED
    BY <2>1 DEF TriggerB, Single, Of
<1>3. CASE scenario = "C"
  <2>1. PICK b \in Single(E, "supplier_risk_bulletin",
                          IdIn(item.versions, "supplier_risk_bulletin")),
             o \in Single(E, "purchase_order", IdIn(item.versions, "purchase_order")),
             p \in Single(E, "production_order", plan.order) :
          t = TriggerC(o.part, p, b.supplier, item.versions, DetectedOn(item))
    BY <1>3 DEF Rebuilt, RebuiltC
  <2> QED
    BY <2>1 DEF TriggerC, Single, Of
<1> QED
  BY <1>1, <1>2, <1>3

LEMMA DuringStep ==
  ASSUME TypeOK, PhaseInv, SeenInv, RowsInv, DuringInv, [Next]_vars
  PROVE  DuringInv'
<1>1. CASE dpc' = "idle"
  BY <1>1 DEF DuringInv
<1>2. CASE /\ UNCHANGED <<dpc, dquery, dtrigger>>
           /\ dpc # "idle" => plan' = plan /\ rows' \subseteq during' /\ during \subseteq during'
  <2> SUFFICES ASSUME dpc # "idle" PROVE DuringInv'
    BY <1>2 DEF DuringInv
  <2> QED
    BY <1>2 DEF DuringInv
<1>3. CASE BeginApprove
  BY <1>3 DEF BeginApprove, DuringInv, Query, sourceVars
<1>4. CASE RereadNext
  <2>1. /\ UNCHANGED <<dpc, dtrigger, during, rows, plan>> /\ dpc # "idle"
        /\ rows \subseteq during
    BY <1>4 DEF RereadNext, DuringInv, runVars, sourceVars
  <2>2. ASSUME NEW e \in dquery'.seen
        PROVE  \/ e.type # "production_impact" /\ e \in during
               \/ e.type = "production_impact" /\ \E p \in during :
                    p.type = "production_order" /\ p.id = e.id /\ p.start = e.start
    <3>1. CASE e \in dquery.seen
      BY <2>1, <3>1 DEF DuringInv
    <3>2. CASE e \notin dquery.seen
      <4>1. PICK type, from : e \in Select(type, from)
        BY <2>2, <3>2, DecisionReads
      <4> QED
        BY <2>1, <4>1, SelectTyped
    <3> QED
      BY <3>1, <3>2
  <2> QED
    BY <2>1, <2>2 DEF DuringInv
<1>5. CASE Rebuild
  <2>1. /\ dtrigger' \in Rebuilt(attention, dquery.seen) /\ dquery'.seen = {}
        /\ UNCHANGED <<during, rows, plan>> /\ dpc = "rebuilding" /\ rows \subseteq during
    BY <1>5 DEF Rebuild, Query, runVars, sourceVars, DuringInv
  <2>2. scenario \in {"A", "B", "C"}
    BY PlanningAssumption DEF TypeOK
  <2>3. dtrigger'.order = plan.order
    BY <2>1, <2>2, RebuiltOrder
  <2>4. PICK e \in dquery.seen : /\ e.type \in {"production_order", "production_impact"}
                                 /\ e.id = plan.order
                                 /\ e.start = dtrigger'.start
    BY <2>1, <2>2, RebuiltOrder
  <2>5. \E p \in during : /\ p.type = "production_order"
                          /\ p.id = plan.order
                          /\ p.start = dtrigger'.start
    BY <2>1, <2>4 DEF DuringInv
  <2> QED
    BY <2>1, <2>3, <2>5 DEF DuringInv
<1>6. CASE RefuseStale \/ CommitApprove
  BY <1>1, <1>6 DEF RefuseStale, CommitApprove, Tell
<1>7. CASE Reject
  BY <1>2, <1>7 DEF Reject, runVars, sourceVars, DuringInv
<1>8. CASE Request
  BY <1>2, <1>8 DEF Request, decisionVars, PhaseInv
<1>9. CASE \/ \E provider \in Providers, u \in Utterances(scenario) : Ask(provider, u)
           \/ Close \/ AuditRequest \/ Stage \/ Stop
           \/ ReadNext \/ Detect \/ AssembleContext \/ Abandon
  BY <1>2, <1>9 DEF Ask, Close, AuditRequest, Stage, Stop, ReadNext, Detect,
                    AssembleContext, Abandon, decisionVars, sourceVars, DuringInv
<1>10. CASE SourceChanges
  BY <1>2, <1>10 DEF SourceChanges, Outside, runVars
<1>11. CASE Tick \/ UNCHANGED vars
  BY <1>2, <1>11 DEF Tick, Outside, vars, runVars, decisionVars, sourceVars, DuringInv
<1> QED
  BY <1>3, <1>4, <1>5, <1>6, <1>7, <1>8, <1>9, <1>10, <1>11, StepsAre DEF Deciding

\* A context is assembled for a trigger with the attention item's signal; for
\* a held order the production is committed.
LEMMA AssembledFor ==
  ASSUME scenario \in {"A", "B", "C"}, NEW item, NEW t, NEW E, NEW c \in Assemble(scenario, item, t, E)
  PROVE  /\ item.signal = Signal(t)
         /\ scenario = "C" => \E p \in E : /\ p.type = "production_order" /\ p.id = t.order
                                          /\ p.start = t.start /\ p.status \in Committed
<1>1. CASE scenario = "A"
  BY <1>1 DEF Assemble, AssembleA, Matches
<1>2. CASE scenario = "B"
  BY <1>2 DEF Assemble, AssembleB, Matches
<1>3. CASE scenario = "C"
  <2>1. PICK p \in Single(E, "production_order", t.order) :
          Matches(item, t) /\ p.status \in Committed /\ p.start = t.start
    BY <1>3 DEF Assemble, AssembleC
  <2> QED
    BY <2>1 DEF Matches, Single, Of
<1> QED
  BY <1>1, <1>2, <1>3

LEMMA PlannedStep ==
  ASSUME TypeOK, PhaseInv, SeenInv, RowsInv, AnswerInv, PlanInv, SignalInv, DuringInv,
         PlannedInv, [Next]_vars
  PROVE  PlannedInv'
<1> SUFFICES ASSUME status' = "approved" PROVE PlannedInv'
  BY DEF PlannedInv
<1>1. UNCHANGED <<plan, trigger>> /\ during \subseteq during'
  BY ApprovedBy
<1> DEFINE Fits(p) == /\ p.type = "production_order"
                      /\ p.id = plan.order
                      /\ p.start = trigger.start
                      /\ plan.doc.outcome = "HOLD_AND_NOTIFY" => p.status \in Committed
<1>2. SUFFICES \E p \in during : Fits(p)
  <2>1. ASSUME NEW p \in during, Fits(p) PROVE PlannedInv'
    <3>1. p \in PlannedFor'
      BY <1>1, <2>1 DEF PlannedFor
    <3>2. (plan.doc.outcome = "HOLD_AND_NOTIFY")' => p.status \in Committed
      BY <1>1, <2>1
    <3> HIDE DEF PlannedFor
    <3> QED
      BY <3>1, <3>2 DEF PlannedInv
  <2> QED
    BY <2>1
<1>3. CASE status = "approved"
  BY <1>3 DEF PlannedInv, PlannedFor
<1>4. CASE CommitApprove
  <2>1. /\ dpc = "reassembling" /\ Fresh(attention, dtrigger, dquery.seen)
        /\ plan # Nothing /\ trigger # Nothing
    BY <1>4 DEF CommitApprove, PhaseInv
  <2>2. scenario \in {"A", "B", "C"}
    BY PlanningAssumption DEF TypeOK
  <2>3. PICK c : c \in Assemble(scenario, attention, dtrigger, dquery.seen)
    BY <2>1 DEF Fresh
  <2>4. Signal(dtrigger) = Signal(trigger)
    BY <2>1, <2>2, <2>3, AssembledFor DEF SignalInv
  <2>5. dtrigger.start = trigger.start
    BY <2>4 DEF Signal
  <2>6. CASE scenario = "C"
    <3>1. PICK p \in dquery.seen : /\ p.type = "production_order" /\ p.id = dtrigger.order
                                   /\ p.start = dtrigger.start /\ p.status \in Committed
      BY <2>2, <2>3, <2>6, AssembledFor
    <3>2. p \in during /\ dtrigger.order = plan.order
      BY <2>1, <3>1 DEF DuringInv
    <3> QED
      BY <2>5, <3>1, <3>2
  <2>7. CASE scenario # "C"
    <3>1. plan.doc.outcome # "HOLD_AND_NOTIFY"
      BY <2>1, <2>2, <2>7 DEF AnswerInv, PlanInv, SchemaValid, ShapeValid, Fields
    <3> QED
      BY <2>1, <2>5, <3>1 DEF DuringInv
  <2> QED
    BY <2>6, <2>7
<1> QED
  BY <1>3, <1>4, ApprovedBy

-----------------------------------------------------------------------------
(* What an approved plan does.                                             *)

LEMMA PendingFits ==
  ASSUME TypeOK, ContextInv, AnswerInv, PlanInv, plan # Nothing, ctx # Nothing, trigger # Nothing,
         NEW S, \A e \in ctx.evidence : e.type \in Versioned => e \in S
  PROVE  LET doc == plan.doc
             at(type, id) == {e \in S : e.type = type /\ e.id = id}
         IN  /\ doc.outcome = "ENTER_WORKFLOW" =>
                  \E s \in at("supplier", doc.supplier),
                     o \in at("purchase_order", doc.purchase) :
                    /\ s.approved /\ s.id # o.supplier /\ s.part = o.part
                    /\ since + s.lead <= trigger.start
                    /\ o.status \in Outstanding
                    /\ o.ordered - o.received = doc.quantity
             /\ doc.outcome = "REALLOCATE_AND_NOTIFY" =>
                  \E lot \in at("quality_lot", doc.lot), a \in S, held \in S :
                    /\ lot.status = "released"
                    /\ lot.quantity - lot.allocated >= doc.quantity
                    /\ held.type = "quality_lot" /\ held.status = "held"
                    /\ held.part = lot.part
                    /\ a.type = "production_allocation" /\ a.lot = held.id
                    /\ a.order = doc.to /\ a.quantity = doc.quantity
             /\ doc.outcome = "HOLD_AND_NOTIFY" =>
                  \E o \in at("purchase_order", doc.purchase), b \in S :
                    /\ o.status = "open" /\ o.version = doc.version
                    /\ b.type = "supplier_risk_bulletin" /\ b.supplier = o.supplier
                    /\ b.status = "active" /\ b.superseded_by = "none"
<1> DEFINE doc == answer.doc
<1>1. plan.doc = doc /\ Decision = "PENDING"
  BY DEF PlanInv
<1>2. doc.outcome \in DOMAIN Fields(scenario)
  BY DEF AnswerInv, SchemaValid, ShapeValid
<1>3. ContextOf(ctx) /\ ctx.trigger = trigger /\ trigger.day = since
  BY DEF ContextInv, ContextOf, TypeOK
<1>4. {"supplier", "purchase_order", "quality_lot", "production_allocation",
       "supplier_risk_bulletin"} \subseteq Versioned
  BY DEF Versioned
<1>5. CASE scenario = "A" /\ Executable(doc)
  <2>1. doc.outcome = "ENTER_WORKFLOW"
    BY <1>2, <1>5 DEF Fields, Executable
  <2>2. Reroutable(ctx, doc, VersionsOf(ctx.evidence))
    BY <1>1, <1>5 DEF Decision, Gate, GateA
  <2>3. PICK s \in Candidates(ctx) : s.id = doc.supplier
    BY <2>2 DEF Reroutable, WithinLimit
  <2>4. /\ s \in ctx.suppliers /\ s.id # ctx.original.supplier /\ s.approved
        /\ s.part = trigger.part /\ since + s.lead <= trigger.start
    BY <1>3, <2>3 DEF Candidates, Viable
  <2>5. /\ ctx.original.id = doc.purchase /\ ctx.original.part = trigger.part
        /\ ctx.original.ordered - ctx.original.received = doc.quantity
        /\ ctx.original.status \in Outstanding
    BY <1>3, <1>5, <2>2 DEF Reroutable, OpenQuantity, ContextOf
  <2>6. s \in S /\ s.type = "supplier" /\ ctx.original \in S /\ ctx.original.type = "purchase_order"
    BY <1>3, <1>4, <1>5, <2>4 DEF ContextOf, Of
  <2> QED
    BY <1>1, <2>1, <2>3, <2>4, <2>5, <2>6
<1>6. CASE scenario = "B" /\ doc.outcome = "REALLOCATE_AND_NOTIFY"
  <2>1. Covers(ctx, doc)
    BY <1>1, <1>6 DEF Decision, Gate, GateB, Executable
  <2>2. PICK lot \in ctx.alternatives :
          /\ doc.lot = lot.id /\ doc.to = ctx.order.id
          /\ doc.quantity = ctx.allocation.quantity /\ Spare(lot) >= ctx.allocation.quantity
    BY <1>6, <2>1 DEF Covers
  <2>3. /\ lot \in ctx.evidence /\ lot.type = "quality_lot" /\ lot.status = "released"
        /\ lot.part = ctx.held.part
    BY <1>3, <1>6 DEF ContextOf, Alternatives, Of
  <2>4. /\ ctx.held \in ctx.evidence /\ ctx.held.type = "quality_lot" /\ ctx.held.status = "held"
        /\ ctx.allocation \in ctx.evidence /\ ctx.allocation.type = "production_allocation"
        /\ ctx.allocation.lot = ctx.held.id /\ ctx.allocation.order = ctx.order.id
    BY <1>3, <1>6 DEF ContextOf, Of
  <2>5. lot \in S /\ ctx.held \in S /\ ctx.allocation \in S
    BY <1>4, <2>3, <2>4
  <2> QED
    BY <1>1, <1>6, <2>2, <2>3, <2>4, <2>5 DEF Spare
<1>7. CASE scenario = "C" /\ doc.outcome = "HOLD_AND_NOTIFY"
  <2>1. HoldsCurrent(ctx, doc)
    BY <1>1, <1>7 DEF Decision, Gate, GateC, Executable
  <2>2. doc.purchase = ctx.purchase.id /\ doc.version = ctx.purchase.version
    BY <1>7, <2>1 DEF HoldsCurrent
  <2>3. /\ ctx.purchase \in ctx.evidence /\ ctx.purchase.type = "purchase_order"
        /\ ctx.purchase.status = "open" /\ ctx.purchase.supplier = ctx.bulletin.supplier
        /\ ctx.bulletin \in ctx.evidence /\ ctx.bulletin.type = "supplier_risk_bulletin"
        /\ ctx.bulletin.status = "active" /\ ctx.bulletin.superseded_by = "none"
    BY <1>3, <1>7 DEF ContextOf, Of, InForce
  <2>4. ctx.purchase \in S /\ ctx.bulletin \in S
    BY <1>4, <2>3
  <2> QED
    BY <1>1, <1>7, <2>2, <2>3, <2>4
<1>8. CASE doc.outcome \notin {"ENTER_WORKFLOW", "REALLOCATE_AND_NOTIFY", "HOLD_AND_NOTIFY"}
  BY <1>1, <1>8
<1>9. scenario \in {"A", "B", "C"}
  BY PlanningAssumption DEF TypeOK
<1> QED
  BY <1>2, <1>5, <1>6, <1>7, <1>8, <1>9 DEF Fields, Executable

LEMMA FitsMeans ==
  ASSUME TypeOK, PhaseInv, ContextInv, AnswerInv, PlanInv, ApprovedOnHeldEvidence, PlannedInv
  PROVE  ApprovedPlanFits
<1> SUFFICES ASSUME status = "approved" PROVE ApprovedPlanFits
  BY DEF ApprovedPlanFits
<1>1. plan # Nothing /\ ctx # Nothing /\ trigger # Nothing
  BY DEF TypeOK, PhaseInv
<1>2. \A e \in ctx.evidence : e.type \in Versioned => e \in saw
  BY <1>1 DEF PlanInv, ApprovedOnHeldEvidence
<1>3. PICK p \in PlannedFor : plan.doc.outcome = "HOLD_AND_NOTIFY" => p.status \in Committed
  BY DEF PlannedInv
<1>4. p.start = trigger.start
  BY DEF PlannedFor
<1>5. plan.doc.outcome = "ENTER_WORKFLOW" =>
        \E s \in {e \in saw : e.type = "supplier" /\ e.id = plan.doc.supplier},
           o \in {e \in saw : e.type = "purchase_order" /\ e.id = plan.doc.purchase} :
          /\ s.approved /\ s.id # o.supplier /\ s.part = o.part
          /\ since + s.lead <= p.start
          /\ o.status \in Outstanding
          /\ o.ordered - o.received = plan.doc.quantity
  BY <1>1, <1>2, <1>4, PendingFits
<1>6. plan.doc.outcome = "REALLOCATE_AND_NOTIFY" =>
        \E lot \in {e \in saw : e.type = "quality_lot" /\ e.id = plan.doc.lot},
           a \in saw, held \in saw :
          /\ lot.status = "released"
          /\ lot.quantity - lot.allocated >= plan.doc.quantity
          /\ held.type = "quality_lot" /\ held.status = "held"
          /\ held.part = lot.part
          /\ a.type = "production_allocation" /\ a.lot = held.id
          /\ a.order = plan.doc.to /\ a.quantity = plan.doc.quantity
  BY <1>1, <1>2, PendingFits
<1>7. plan.doc.outcome = "HOLD_AND_NOTIFY" =>
        \E o \in {e \in saw : e.type = "purchase_order" /\ e.id = plan.doc.purchase},
           b \in saw :
          /\ o.status = "open" /\ o.version = plan.doc.version
          /\ b.type = "supplier_risk_bulletin" /\ b.supplier = o.supplier
          /\ b.status = "active" /\ b.superseded_by = "none"
          /\ p.status \in Committed
  BY <1>1, <1>2, <1>3, PendingFits
<1> HIDE DEF PlannedFor
<1> QED
  BY <1>3, <1>5, <1>6, <1>7 DEF ApprovedPlanFits

-----------------------------------------------------------------------------
(* Nothing changed.                                                        *)

LEMMA ProgressStarts ==
  ASSUME NEW types \in Seq(Types)
  PROVE  Progress(Query(types), types)
BY DEF Progress, Query

LEMMA ProgressReads ==
  ASSUME NEW types \in Seq(Types), NEW q, q.todo \in Seq(Types), Progress(q, types), ~Finished(q)
  PROVE  Progress(Read(q, since), types)
<1> DEFINE todo == q.todo
           next == Head(todo)
<1>1. /\ Read(q, since).todo = Tail(todo)
      /\ Read(q, since).seen = q.seen \cup Select(next, since)
  BY ReadFinds
<1>2. todo \in Seq(Types) /\ todo # << >> /\ next = todo[1] /\ 1 \in DOMAIN todo
  BY DEF Finished
<1>3. PICK k \in DOMAIN types : next = types[k]
  BY <1>2 DEF Progress
<1>4. Select(next, since) \subseteq Evidence(types)
  BY <1>3 DEF Evidence
<1>5. ASSUME NEW j \in DOMAIN todo
      PROVE  j = 1 \/ (j - 1 \in DOMAIN Tail(todo) /\ Tail(todo)[j - 1] = todo[j])
  <2> HIDE DEF todo, next
  <2> QED
    BY <1>2
<1>6. ASSUME NEW j \in DOMAIN Tail(todo)
      PROVE  j + 1 \in DOMAIN todo /\ Tail(todo)[j] = todo[j + 1]
  <2> HIDE DEF todo, next
  <2> QED
    BY <1>2
<1>7. ASSUME NEW i \in DOMAIN types
      PROVE  \/ Select(types[i], since) \subseteq q.seen \cup Select(next, since)
             \/ \E j \in DOMAIN Tail(todo) : Tail(todo)[j] = types[i]
  <2>1. CASE Select(types[i], since) \subseteq q.seen
    BY <2>1
  <2>2. CASE \E j \in DOMAIN todo : todo[j] = types[i]
    BY <1>2, <1>5, <2>2
  <2> QED
    BY <2>1, <2>2 DEF Progress
<1>8. \A j \in DOMAIN Tail(todo) : \E i \in DOMAIN types : Tail(todo)[j] = types[i]
  BY <1>6 DEF Progress
<1>9. q.seen \subseteq Evidence(types)
  BY DEF Progress
<1> QED
  BY <1>1, <1>4, <1>7, <1>8, <1>9 DEF Progress

LEMMA ProgressEnds ==
  ASSUME NEW types \in Seq(Types), NEW q, Progress(q, types), Finished(q)
  PROVE  q.seen = Evidence(types)
<1>1. DOMAIN q.todo = {}
  BY DEF Finished
<1> QED
  BY <1>1 DEF Progress, Evidence

LEMMA EvidenceStays ==
  ASSUME rows' = rows, since' = since
  PROVE  /\ \A type, from : Select(type, from)' = Select(type, from)
         /\ \A types : Evidence(types)' = Evidence(types)
         /\ \A q, types : Progress(q, types)' <=> Progress(q, types)
<1>1. \A type, from : Select(type, from)' = Select(type, from)
  BY DEF Select, Allocations, Impacts, Bulletins, Events, InPlants
<1>2. \A types : Evidence(types)' = Evidence(types)
  BY <1>1 DEF Evidence
<1>3. \A q, types : Progress(q, types)' <=> Progress(q, types)
  BY <1>1, <1>2 DEF Progress
<1> QED
  BY <1>1, <1>2, <1>3

LEMMA EvidenceKeyed ==
  ASSUME RowsInv, NEW types, NEW e \in Evidence(types), NEW f \in Evidence(types), SameKey(e, f)
  PROVE  e = f
<1>1. PICK t : e \in Select(t, since)
  BY DEF Evidence
<1>2. PICK u : f \in Select(u, since)
  BY DEF Evidence
<1>3. t = u
  BY <1>1, <1>2, SelectTyped DEF SameKey
<1>4. CASE t = "production_impact"
  <2>1. PICK p \in rows : p.type = "production_order" /\ e = [p EXCEPT !.type = "production_impact"]
    BY <1>1, <1>4, SelectTyped
  <2>2. PICK q \in rows : q.type = "production_order" /\ f = [q EXCEPT !.type = "production_impact"]
    BY <1>2, <1>3, <1>4, SelectTyped
  <2>3. e.id = p.id /\ f.id = q.id
    BY <2>1, <2>2 DEF RowsInv, IsRow
  <2>4. p = q
    BY <2>1, <2>2, <2>3 DEF RowsInv, SameKey
  <2> QED
    BY <2>1, <2>2, <2>4
<1>5. CASE t # "production_impact"
  BY <1>1, <1>2, <1>3, <1>5, SelectTyped DEF RowsInv
<1> QED
  BY <1>4, <1>5

LEMMA Named ==
  ASSUME NEW S, NEW e \in S, \A f \in S : f.type = e.type => f = e
  PROVE  /\ IdIn(VersionsOf(S), e.type) = e.id
         /\ VersionIn(VersionsOf(S), e.type) = e.version
<1> DEFINE vs == VersionsOf(S)
           v == CHOOSE v \in vs : v[1] = e.type
<1>1. <<e.type, e.id, e.version>> \in vs
  BY DEF VersionsOf
<1>2. v \in vs /\ v[1] = e.type
  <2>1. \E w \in vs : w[1] = e.type
    BY <1>1
  <2> HIDE DEF vs
  <2> QED
    BY <2>1
<1>3. PICK f \in S : v = <<f.type, f.id, f.version>>
  <2> HIDE DEF v
  <2> QED
    BY <1>2 DEF VersionsOf
<1>4. f = e
  <2> HIDE DEF v
  <2> QED
    BY <1>2, <1>3
<1>5. v[2] = e.id /\ v[3] = e.version
  <2> HIDE DEF v
  <2> QED
    BY <1>3, <1>4
<1> QED
  BY <1>5 DEF IdIn, VersionIn

LEMMA OneOf ==
  ASSUME NEW E, \A e, f \in E : SameKey(e, f) => e = f, NEW e \in E
  PROVE  Single(E, e.type, e.id) = {e}
BY DEF Single, Of, SameKey

LEMMA RebuiltSame ==
  ASSUME scenario \in {"A", "B", "C"}, NEW E, \A e, f \in E : SameKey(e, f) => e = f,
         trigger \in Detected(scenario, E, since),
         attention = [signal |-> Signal(trigger), versions |-> trigger.versions,
                      day |-> trigger.day],
         trigger.day = since, plan.order = trigger.order
  PROVE  Rebuilt(attention, E) = {trigger}
<1>1. attention.versions = trigger.versions /\ DetectedOn(attention) = since
  BY DEF DetectedOn
<1>2. CASE scenario = "A"
  <2> DEFINE demands == CommittedFrom(E, "production_order", since)
             AtRisk(stock) ==
               {p \in demands : p.part = stock.part
                                /\ Shortfall(stock, DemandBefore(demands, p)) > 0}
             Found(stock) ==
               {TriggerA(p.part, p, stock.version,
                         VersionsOf({stock} \cup DemandBefore(demands, p)), since) :
                  p \in AtRisk(stock)}
  <2>1. trigger \in UNION {Found(stock) : stock \in Of(E, "inventory")}
    BY <1>2 DEF Detected, Stockouts
  <2>2. PICK s \in Of(E, "inventory") : trigger \in Found(s)
    <3> HIDE DEF Found
    <3> QED
      BY <2>1
  <2>3. PICK p \in AtRisk(s) :
          trigger = TriggerA(p.part, p, s.version, VersionsOf({s} \cup DemandBefore(demands, p)),
                             since)
    <3> HIDE DEF demands, AtRisk
    <3> QED
      BY <2>2
  <2> DEFINE S == {s} \cup DemandBefore(demands, p)
  <2>4. p \in Of(E, "production_order") /\ p.part = s.part
    BY DEF CommittedFrom
  <2>5. s \in S /\ s.type = "inventory" /\ \A f \in S : f.type = s.type => f = s
    BY DEF DemandBefore, CommittedFrom, Of
  <2>6. trigger = TriggerA(s.part, p, s.version, VersionsOf(S), since)
    BY <2>3, <2>4
  <2> HIDE DEF S
  <2>7. trigger.versions = VersionsOf(S) /\ trigger.order = p.id
    BY <2>6 DEF TriggerA
  <2>8. IdIn(trigger.versions, "inventory") = s.id /\ VersionIn(trigger.versions, "inventory") = s.version
    BY <2>5, <2>7, Named
  <2>9. Single(E, "inventory", s.id) = {s} /\ Single(E, "production_order", p.id) = {p}
    BY <2>4, OneOf DEF Of
  <2>10. RebuiltA(attention, E) = {TriggerA(s.part, p, s.version, VersionsOf(S), since)}
    BY <1>1, <2>7, <2>8, <2>9 DEF RebuiltA
  <2> QED
    BY <1>2, <2>6, <2>10 DEF Rebuilt
<1>3. CASE scenario = "B"
  <2>1. PICK h \in HeldMaterial(E) :
          trigger = TriggerB(h[1].part, h[3], VersionsOf({h[1], h[2], h[3]}), since)
    BY <1>3 DEF Detected, QualityHolds
  <2> DEFINE l == h[1]
             a == h[2]
             p == h[3]
             S == {l, a, p}
  <2>2. /\ l \in E /\ l.type = "quality_lot" /\ a \in E /\ a.type = "production_allocation"
        /\ p \in E /\ p.type = "production_impact" /\ a.order = p.id
    BY DEF HeldMaterial, Of
  <2>3. trigger = TriggerB(l.part, p, VersionsOf(S), since)
    BY <2>1
  <2>4. /\ l \in S /\ a \in S
        /\ \A f \in S : f.type = l.type => f = l
        /\ \A f \in S : f.type = a.type => f = a
    BY <2>2
  <2> HIDE DEF l, a, p, S
  <2>5. trigger.versions = VersionsOf(S) /\ trigger.order = p.id
    BY <2>3 DEF TriggerB
  <2>6. IdIn(trigger.versions, "quality_lot") = l.id /\ IdIn(trigger.versions, "production_allocation") = a.id
    <3>1. IdIn(VersionsOf(S), l.type) = l.id
      BY <2>4, Named
    <3>2. IdIn(VersionsOf(S), a.type) = a.id
      BY <2>4, Named
    <3> QED
      BY <2>2, <2>5, <3>1, <3>2
  <2>7. /\ Single(E, "quality_lot", l.id) = {l} /\ Single(E, "production_allocation", a.id) = {a}
        /\ Single(E, "production_impact", p.id) = {p}
    BY <2>2, OneOf
  <2>8. RebuiltB(attention, E) = {TriggerB(l.part, p, VersionsOf(S), since)}
    BY <1>1, <2>2, <2>5, <2>6, <2>7 DEF RebuiltB
  <2> QED
    BY <1>3, <2>3, <2>8 DEF Rebuilt
<1>4. CASE scenario = "C"
  <2>1. PICK x \in Exposures(E, since) :
          trigger = TriggerC(x[2].part, x[3], x[1].supplier, VersionsOf({x[1], x[2], x[3]}), since)
    BY <1>4 DEF Detected, SupplierRisks
  <2> DEFINE b == x[1]
             o == x[2]
             p == x[3]
             S == {b, o, p}
  <2>2. /\ b \in E /\ b.type = "supplier_risk_bulletin" /\ o \in E /\ o.type = "purchase_order"
        /\ p \in E /\ p.type = "production_order"
    BY DEF Exposures, CommittedFrom, Of
  <2>3. trigger = TriggerC(o.part, p, b.supplier, VersionsOf(S), since)
    BY <2>1
  <2>4. /\ b \in S /\ o \in S
        /\ \A f \in S : f.type = b.type => f = b
        /\ \A f \in S : f.type = o.type => f = o
    BY <2>2
  <2> HIDE DEF b, o, p, S
  <2>5. trigger.versions = VersionsOf(S) /\ trigger.order = p.id
    BY <2>3 DEF TriggerC
  <2>6. IdIn(trigger.versions, "supplier_risk_bulletin") = b.id /\ IdIn(trigger.versions, "purchase_order") = o.id
    <3>1. IdIn(VersionsOf(S), b.type) = b.id
      BY <2>4, Named
    <3>2. IdIn(VersionsOf(S), o.type) = o.id
      BY <2>4, Named
    <3> QED
      BY <2>2, <2>5, <3>1, <3>2
  <2>7. /\ Single(E, "supplier_risk_bulletin", b.id) = {b} /\ Single(E, "purchase_order", o.id) = {o}
        /\ Single(E, "production_order", p.id) = {p}
    BY <2>2, OneOf
  <2>8. RebuiltC(attention, E) = {TriggerC(o.part, p, b.supplier, VersionsOf(S), since)}
    BY <1>1, <2>5, <2>6, <2>7 DEF RebuiltC
  <2> QED
    BY <1>4, <2>3, <2>8 DEF Rebuilt
<1> QED
  BY <1>2, <1>3, <1>4

LEMMA AssembledOrder ==
  ASSUME NEW E, scenario \in {"A", "B", "C"}, NEW item, NEW t, NEW c \in Assemble(scenario, item, t, E)
  PROVE  c.order.id = t.order
<1>1. CASE scenario = "A"
  <2>1. PICK s \in Of(E, "inventory"), p \in Single(E, "production_order", t.order),
             o \in OriginalOrder(E, t.part), m \in Of(E, "message") :
          c = ContextA(t, s, p, o, Of(E, "supplier"), m, Of(E, "calendar_event"))
    BY <1>1 DEF Assemble, AssembleA, Single
  <2> QED
    BY <2>1 DEF Single, ContextA
<1>2. CASE scenario = "B"
  <2>1. PICK l \in Of(E, "quality_lot"), a \in Of(E, "production_allocation"),
             p \in Single(E, "production_impact", t.order) : c.order = p
    BY <1>2 DEF Assemble, AssembleB, Single
  <2> QED
    BY <2>1 DEF Single
<1>3. CASE scenario = "C"
  <2>1. PICK f \in [bulletin : Single(E, "supplier_risk_bulletin",
                                      IdIn(t.versions, "supplier_risk_bulletin")),
                    purchase : Single(E, "purchase_order", IdIn(t.versions, "purchase_order")),
                    order : Single(E, "production_order", t.order)] :
          c = [trigger |-> t, bulletin |-> f.bulletin, purchase |-> f.purchase,
               order |-> f.order, approver |-> "actor",
               evidence |-> {f.bulletin, f.purchase, f.order}]
    BY <1>3 DEF Assemble, AssembleC
  <2> QED
    BY <2>1 DEF Single
<1> QED
  BY <1>1, <1>2, <1>3

LEMMA StillRebuilt ==
  ASSUME TypeOK, RowsInv, StillInv, PlanInv, edits = 0,
         trigger # Nothing, plan # Nothing, ctx # Nothing
  PROVE  Rebuilt(attention, Evidence(DetectionReads(scenario))) = {trigger}
<1>1. scenario \in {"A", "B", "C"} /\ trigger.day = since
  BY PlanningAssumption DEF TypeOK
<1>2. /\ trigger \in Detected(scenario, Evidence(DetectionReads(scenario)), since)
      /\ attention = [signal |-> Signal(trigger), versions |-> trigger.versions,
                      day |-> trigger.day]
      /\ ctx \in Assemble(scenario, attention, trigger, Evidence(AssemblyReads(scenario)))
  BY DEF StillInv
<1>3. plan.order = trigger.order
  BY <1>1, <1>2, AssembledOrder DEF PlanInv
<1> DEFINE E == Evidence(DetectionReads(scenario))
<1>4. \A e, f \in E : SameKey(e, f) => e = f
  BY EvidenceKeyed
<1>5. trigger \in Detected(scenario, E, since)
  BY <1>2
<1> HIDE DEF E
<1>6. Rebuilt(attention, E) = {trigger}
  BY <1>1, <1>2, <1>3, <1>4, <1>5, RebuiltSame
<1> QED
  BY <1>6 DEF E

LEMMA StillStep ==
  ASSUME TypeOK, PhaseInv, SeenInv, RowsInv, ContextInv, PlanInv, StillInv, [Next]_vars
  PROVE  StillInv'
<1> SUFFICES ASSUME edits' = 0 PROVE StillInv'
  BY DEF StillInv
<1>1. edits = 0 /\ rows' = rows
  <2>1. edits \in Nat
    BY SourcesAssumption DEF TypeOK
  <2> QED
    BY <2>1, RowsChange DEF Edit, Arrive
<1> DEFINE dreads == DetectionReads(scenario)
           areads == AssemblyReads(scenario)
<1>2. dreads \in Seq(Types) /\ areads \in Seq(Types) /\ scenario \in {"A", "B", "C"}
  BY ReadsAreTypes, PlanningAssumption DEF TypeOK
<1>3. /\ pc = "detecting" => Progress(query, dreads)
      /\ pc = "assembling" => Progress(query, areads)
      /\ trigger # Nothing =>
           /\ trigger \in Detected(scenario, Evidence(dreads), since)
           /\ attention = [signal |-> Signal(trigger), versions |-> trigger.versions,
                           day |-> trigger.day]
      /\ ctx # Nothing => ctx \in Assemble(scenario, attention, trigger, Evidence(areads))
      /\ dpc = "rebuilding" => Progress(dquery, dreads)
      /\ dpc = "reassembling" => Progress(dquery, areads) /\ dtrigger = trigger
  BY <1>1 DEF StillInv
<1>4. SUFFICES
        /\ scenario' = scenario /\ since' = since
        /\ pc' = "detecting" => Progress(query', dreads)
        /\ pc' = "assembling" => Progress(query', areads)
        /\ trigger' # Nothing =>
             /\ trigger' \in Detected(scenario, Evidence(dreads), since)
             /\ attention' = [signal |-> Signal(trigger'), versions |-> trigger'.versions,
                              day |-> trigger'.day]
        /\ ctx' # Nothing => ctx' \in Assemble(scenario, attention', trigger', Evidence(areads))
        /\ dpc' = "rebuilding" => Progress(dquery', dreads)
        /\ dpc' = "reassembling" => Progress(dquery', areads) /\ dtrigger' = trigger'
  BY <1>1, EvidenceStays DEF StillInv
<1> HIDE DEF dreads, areads
<1>5. CASE ReadNext
  <2>1. \A types \in Seq(Types) : Progress(query, types) => Progress(query', types)
    BY <1>5, ProgressReads DEF ReadNext, SeenInv
  <2> QED
    BY <1>2, <1>3, <1>5, <2>1 DEF ReadNext, decisionVars
<1>6. CASE Detect
  <2>1. query.seen = Evidence(dreads) /\ query' = Query(areads) /\ ctx = Nothing
    BY <1>2, <1>3, <1>6, ProgressEnds DEF Detect, PhaseInv, areads
  <2>2. Progress(query', areads)
    BY <1>2, <2>1, ProgressStarts
  <2> QED
    BY <1>3, <1>6, <2>1, <2>2, DetectGives DEF Detect, decisionVars, PhaseInv
<1>7. CASE AssembleContext
  <2>1. query.seen = Evidence(areads)
    BY <1>2, <1>3, <1>7, ProgressEnds DEF AssembleContext
  <2> QED
    BY <1>3, <1>7, <2>1, AssembleGives DEF AssembleContext, decisionVars
<1>8. CASE \/ \E provider \in Providers, u \in Utterances(scenario) : Ask(provider, u)
           \/ Request \/ Close \/ AuditRequest \/ Stage \/ Stop \/ Abandon
  BY <1>3, <1>8 DEF Ask, Request, Close, AuditRequest, Stage, Stop, Abandon, decisionVars
<1>9. CASE Deciding
  <2>1. UNCHANGED <<scenario, since, pc, query, trigger, attention, ctx, plan>>
    BY <1>9, DecidingKeeps DEF runVars
  <2>2. /\ dpc' = "rebuilding" => Progress(dquery', dreads)
        /\ dpc' = "reassembling" => Progress(dquery', areads) /\ dtrigger' = trigger
    <3>1. CASE BeginApprove
      BY <1>2, <3>1, ProgressStarts DEF BeginApprove, dreads
    <3>2. CASE RereadNext
      <4>1. trigger # Nothing /\ dpc # "idle"
        BY <3>2 DEF RereadNext, PhaseInv
      <4>2. DetectedOn(attention) = since
        BY <1>3, <4>1 DEF DetectedOn, TypeOK
      <4>3. \A types \in Seq(Types) : Progress(dquery, types) => Progress(dquery', types)
        BY <3>2, <4>2, ProgressReads DEF RereadNext, SeenInv
      <4> QED
        BY <1>2, <1>3, <3>2, <4>3 DEF RereadNext
    <3>3. CASE Rebuild
      <4>1. dpc = "rebuilding" /\ trigger # Nothing /\ plan # Nothing /\ ctx # Nothing
        BY <3>3 DEF Rebuild, PhaseInv
      <4>2. dquery.seen = Evidence(dreads)
        BY <1>2, <1>3, <3>3, <4>1, ProgressEnds DEF Rebuild
      <4>3. Rebuilt(attention, dquery.seen) = {trigger}
        BY <4>1, <4>2, <1>1, StillRebuilt DEF dreads
      <4>4. dtrigger' = trigger
        BY <3>3, <4>3 DEF Rebuild
      <4> QED
        BY <1>2, <3>3, <4>4, ProgressStarts DEF Rebuild, areads
    <3>4. CASE RefuseStale \/ CommitApprove
      BY <3>4 DEF RefuseStale, CommitApprove, Tell
    <3>5. CASE Reject
      BY <1>3, <3>5 DEF Reject
    <3> QED
      BY <1>9, <3>1, <3>2, <3>3, <3>4, <3>5 DEF Deciding
  <2> QED
    BY <1>3, <2>1, <2>2
<1>10. CASE SourceChanges \/ Tick \/ UNCHANGED vars
  BY <1>3, <1>10 DEF SourceChanges, Tick, Outside, vars, runVars, decisionVars
<1> QED
  BY <1>5, <1>6, <1>7, <1>8, <1>9, <1>10, StepsAre

LEMMA NoFalseStaleStep ==
  ASSUME TypeOK, PhaseInv, SeenInv, RowsInv, ContextInv, PlanInv, StillInv, NoFalseStale,
         [Next]_vars
  PROVE  NoFalseStale'
<1>1. edits \in Nat /\ edits' \in Nat /\ edits' >= edits
  BY RowsChange, SourcesAssumption DEF TypeOK, Edit, Arrive
<1>2. CASE RefuseStale
  <2> SUFFICES ASSUME edits = 0 PROVE FALSE
    BY <1>1, <1>2 DEF NoFalseStale
  <2> DEFINE dreads == DetectionReads(scenario)
             areads == AssemblyReads(scenario)
  <2>1. dreads \in Seq(Types) /\ areads \in Seq(Types)
    BY ReadsAreTypes, PlanningAssumption DEF TypeOK
  <2>2. dpc # "idle" /\ Finished(dquery) /\ trigger # Nothing /\ plan # Nothing /\ ctx # Nothing
    BY <1>2 DEF RefuseStale, PhaseInv, TypeOK
  <2>3. CASE dpc = "rebuilding" /\ Rebuilt(attention, dquery.seen) = {}
    <3>1. dquery.seen = Evidence(dreads)
      BY <2>1, <2>2, <2>3, ProgressEnds DEF StillInv
    <3> QED
      BY <2>2, <2>3, <3>1, StillRebuilt
  <2>4. CASE dpc = "reassembling" /\ ~Fresh(attention, dtrigger, dquery.seen)
    <3>1. Progress(dquery, areads) /\ dtrigger = trigger
      BY <2>4 DEF StillInv
    <3>2. dquery.seen = Evidence(areads)
      BY <2>1, <2>2, <3>1, ProgressEnds
    <3>3. ctx \in Assemble(scenario, attention, trigger, Evidence(areads))
      BY <2>2 DEF StillInv
    <3>4. plan.evidence = ctx.evidence
      BY <2>2 DEF PlanInv
    <3> QED
      BY <2>4, <3>1, <3>2, <3>3, <3>4 DEF Fresh
  <2> QED
    BY <1>2, <2>3, <2>4 DEF RefuseStale
<1>3. CASE verdict' # "stale"
  BY <1>3 DEF NoFalseStale
<1>4. CASE verdict' = verdict
  BY <1>1, <1>4 DEF NoFalseStale
<1>5. CASE CommitApprove \/ Reject
  BY <1>3, <1>5 DEF CommitApprove, Reject, Tell
<1>6. CASE BeginApprove \/ RereadNext \/ Rebuild
  BY <1>4, <1>6 DEF BeginApprove, RereadNext, Rebuild
<1>7. CASE \/ \E provider \in Providers, u \in Utterances(scenario) : Ask(provider, u)
           \/ Request \/ Close \/ AuditRequest \/ Stage \/ Stop
           \/ ReadNext \/ Detect \/ AssembleContext \/ Abandon
  BY <1>4, <1>7 DEF Ask, Request, Close, AuditRequest, Stage, Stop, ReadNext, Detect,
                    AssembleContext, Abandon, decisionVars
<1>8. CASE SourceChanges \/ Tick \/ UNCHANGED vars
  BY <1>4, <1>8 DEF SourceChanges, Tick, Outside, vars, decisionVars
<1> QED
  BY <1>2, <1>5, <1>6, <1>7, <1>8, StepsAre DEF Deciding

-----------------------------------------------------------------------------
(* Theorems.                                                               *)

Inv == /\ TypeOK /\ PhaseInv /\ SeenInv /\ RowsInv /\ ContextInv
       /\ AnswerInv /\ PlanInv
       /\ VersionsInv /\ OrderInv /\ ApprovedOnHeldEvidence
       /\ SignalInv /\ DuringInv /\ PlannedInv
       /\ StillInv /\ NoFalseStale

LEMMA InvInit == Init => Inv
<1> SUFFICES ASSUME Init PROVE Inv
  OBVIOUS
<1>1. /\ query = Query(DetectionReads(scenario)) /\ dquery = NoQuery /\ saw = {}
      /\ pc = "detecting" /\ dpc = "idle" /\ rows = Seed(scenario) /\ scenario \in Scenarios
      /\ trigger = Nothing /\ ctx = Nothing /\ plan = Nothing /\ status = "absent"
      /\ verdict = "none" /\ audited = FALSE /\ staged = FALSE
      /\ approver = Original /\ expiry = 0 /\ decider = "nobody"
      /\ edits = 0 /\ day = 0 /\ since = 0
  BY DEF Init, ApprovalInit
<1>2. DetectionReads(scenario) \in Seq(Types) /\ << >> \in Seq(Types)
  BY <1>1, ReadsAreTypes, PlanningAssumption
<1>3. query.seen = {} /\ dquery.seen = {} /\ SeenInv
  BY <1>1, <1>2 DEF SeenInv, Query, NoQuery
<1>4. RowsInv
  BY <1>1, PlanningAssumption DEF RowsInv
<1>5. VersionsInv
  <2>1. Known = rows
    BY <1>1, <1>3 DEF Known
  <2>2. \A r \in rows : SameKey(r, r) /\ r.version <= r.version /\ r.version \in Nat
    BY <1>4 DEF RowsInv, IsRow, SameKey
  <2> QED
    BY <1>4, <2>1, <2>2 DEF VersionsInv, RowsInv
<1>6. StillInv
  BY <1>1, <1>2, ProgressStarts DEF StillInv
<1>7. TypeOK
  <2>1. ApprovalTypeOK /\ {audited, staged} \subseteq BOOLEAN
    BY <1>1 DEF ApprovalTypeOK, Approvers
  <2>2. day \in 0..LastDay /\ edits \in 0..MaxEdits /\ since \in 0..day
    BY <1>1, PlanningAssumption, SourcesAssumption
  <2>3. \A e \in query.seen \cup dquery.seen \cup saw : e.version \in Nat \ {0}
    BY <1>1, <1>3
  <2> QED
    BY <1>1, <2>1, <2>2, <2>3 DEF TypeOK
<1>8. PhaseInv /\ ContextInv /\ AnswerInv /\ PlanInv /\ OrderInv
  BY <1>1, <1>3 DEF PhaseInv, ContextInv, AnswerInv, PlanInv, OrderInv, InForce
<1> QED
  BY <1>1, <1>3, <1>4, <1>5, <1>6, <1>7, <1>8
     DEF Inv, NoFalseStale, ApprovedOnHeldEvidence, SignalInv, DuringInv, PlannedInv

LEMMA InvStep == Inv /\ [Next]_vars => Inv'
<1> SUFFICES ASSUME Inv, [Next]_vars PROVE Inv'
  OBVIOUS
<1> USE DEF Inv
<1>1. SeenInv' /\ RowsInv' /\ ContextInv'
  BY SeenStep, RowsStep, ContextStep
<1>2. TypeOK'
  BY <1>1, TypeStep
<1>3. PhaseInv' /\ AnswerInv' /\ PlanInv'
  BY PhaseStep, AnswerStep, PlanStep
<1>4. VersionsInv' /\ OrderInv' /\ ApprovedOnHeldEvidence'
  BY VersionsStep, OrderStep, HeldStep
<1>5. StillInv' /\ NoFalseStale'
  BY StillStep, NoFalseStaleStep
<1>6. SignalInv' /\ DuringInv' /\ PlannedInv'
  BY SignalStep, DuringStep, PlannedStep
<1> QED
  BY <1>1, <1>2, <1>3, <1>4, <1>5, <1>6

LEMMA InvAlways == Spec => []Inv
BY InvInit, InvStep, PTL DEF Spec

\* The run and the decision have what their places need.
THEOREM TypeCorrect == Spec => []TypeOK
BY InvAlways, PTL DEF Inv

\* A refusal as stale is true, however the reads of run and decision fall.
THEOREM StaleIsTrue == Spec => []NoFalseStale
BY InvAlways, PTL DEF Inv

\* What is approved stood, row for row, at the moment the decision began.
THEOREM ApprovedWasHeld == Spec => []ApprovedOnHeldEvidence
BY InvAlways, PTL DEF Inv

\* What is approved fits the rows there were when the decision began, and
\* production still started then on the day the risk was raised about.
THEOREM ApprovedPlansFit == Spec => []ApprovedPlanFits
<1>1. Inv => ApprovedPlanFits
  BY FitsMeans DEF Inv
<1> QED
  BY <1>1, InvAlways, PTL

\* A plan is the one document of an utterance that the model finished.
THEOREM OnlyWholeAnswers == Spec => []WholeAnswersOnly
<1>1. Inv => WholeAnswersOnly
  BY DEF Inv, AnswerInv, PlanInv, WholeAnswersOnly
<1> QED
  BY <1>1, InvAlways, PTL
=============================================================================
