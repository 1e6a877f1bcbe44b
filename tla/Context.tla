------------------------------ MODULE Context ------------------------------
(***************************************************************************)
(* The three context assemblers: the facts a planner may see for one       *)
(* attention item, taken from current evidence.  Each gives a set with     *)
(* the one context, or none when a record is missing, ambiguous or no      *)
(* longer what the trigger says: the code raises then.                     *)
(*                                                                         *)
(* An attention item is [signal, versions, day], as register stored it.    *)
(***************************************************************************)
EXTENDS Detection

\* ACTIVE_OUTSTANDING_PURCHASE_ORDER_STATUSES
Outstanding == {"delayed", "open", "partial"}

\* Mutant: the signal is not compared.
MatchesVersions(attention, trigger) == attention.versions = trigger.versions

Matches(attention, trigger) ==
  /\ attention.signal = Signal(trigger)
  /\ attention.versions = trigger.versions

\* The record of a type that a source-version map names.
IdIn(versions, type) == (CHOOSE v \in versions : v[1] = type)[2]

VersionIn(versions, type) == (CHOOSE v \in versions : v[1] = type)[3]

Single(evidence, type, id) == {e \in Of(evidence, type) : e.id = id}

Bound(versions, e) == <<e.type, e.id, e.version>> \in versions

-----------------------------------------------------------------------------
(* Scenario A.                                                             *)

OpenQuantity(purchase) == purchase.ordered - purchase.received

\* The one active outstanding purchase order for the threatened part.
OriginalOrder(evidence, part) ==
  LET candidates == {o \in Of(evidence, "purchase_order") :
                       /\ o.part = part
                       /\ o.status \in Outstanding
                       /\ OpenQuantity(o) > 0}
  IN  IF Cardinality(candidates) = 1 THEN candidates ELSE {}

\* The newest shipment update on the order from its supplier that no other
\* message supersedes.
CurrentUpdate(evidence, original) ==
  LET updates == {m \in Of(evidence, "message") :
                    /\ m.purchase_order = original.id
                    /\ m.supplier = original.supplier
                    /\ m.shipment # "none"
                    /\ m.superseded_by = "none"}
  IN  {m \in updates : \A n \in updates : n.received_at <= m.received_at}

ContextA(trigger, stock, order, original, suppliers, update, events) ==
  [trigger |-> trigger, stock |-> stock, order |-> order,
   original |-> original, suppliers |-> suppliers, update |-> update,
   approver |-> "actor",
   evidence |-> {stock, order, original, update} \cup suppliers \cup events]

AssembleA(attention, trigger, evidence) ==
  {ContextA(trigger, f.stock, f.order, f.original, Of(evidence, "supplier"), f.update,
            Of(evidence, "calendar_event")) :
     f \in {f \in [stock : Single(evidence, "inventory", IdIn(trigger.versions, "inventory")),
                   order : Single(evidence, "production_order", trigger.order),
                   original : OriginalOrder(evidence, trigger.part),
                   update : Of(evidence, "message")] :
              /\ Matches(attention, trigger)
              /\ f.stock.part = trigger.part /\ Bound(trigger.versions, f.stock)
              /\ f.order.part = trigger.part /\ Bound(trigger.versions, f.order)
              /\ f.update \in CurrentUpdate(evidence, f.original)}}

-----------------------------------------------------------------------------
(* Scenario B.                                                             *)

Spare(lot) == lot.quantity - lot.allocated

Alternatives(evidence, held) ==
  {lot \in Of(evidence, "quality_lot") :
     /\ lot.id # held.id
     /\ lot.part = held.part
     /\ lot.plant = held.plant
     /\ lot.status = "released"
     /\ Spare(lot) > 0}

AssembleB(attention, trigger, evidence) ==
  {[trigger |-> trigger, held |-> f.lot, allocation |-> f.allocation, order |-> f.order,
    alternatives |-> Alternatives(evidence, f.lot), approver |-> f.order.supervisor,
    evidence |-> {f.lot, f.allocation, f.order} \cup Alternatives(evidence, f.lot)] :
     f \in {f \in [lot : Single(evidence, "quality_lot",
                                IdIn(trigger.versions, "quality_lot")),
                   allocation : Single(evidence, "production_allocation",
                                       IdIn(trigger.versions, "production_allocation")),
                   order : Single(evidence, "production_impact", trigger.order)] :
              /\ Matches(attention, trigger)
              /\ f.lot.part = trigger.part /\ f.lot.status = "held"
              /\ f.allocation.lot = f.lot.id /\ f.allocation.order = trigger.order
              /\ f.allocation.quantity > 0
              /\ f.order.part = f.lot.part /\ f.order.supervisor # "none"
              /\ \A e \in {f.lot, f.allocation, f.order} : Bound(trigger.versions, e)}}

-----------------------------------------------------------------------------
(* Scenario C.  The queries ask for the trigger's three records only.      *)

AssembleC(attention, trigger, evidence) ==
  {[trigger |-> trigger, bulletin |-> f.bulletin, purchase |-> f.purchase,
    order |-> f.order, approver |-> "actor",
    evidence |-> {f.bulletin, f.purchase, f.order}] :
     f \in {f \in [bulletin : Single(evidence, "supplier_risk_bulletin",
                                     IdIn(trigger.versions, "supplier_risk_bulletin")),
                   purchase : Single(evidence, "purchase_order",
                                     IdIn(trigger.versions, "purchase_order")),
                   order : Single(evidence, "production_order", trigger.order)] :
              LET b == f.bulletin
                  o == f.purchase
                  p == f.order
              IN  /\ Matches(attention, trigger)
                  /\ b.status = "active" /\ b.supplier = trigger.supplier
                  /\ o.status = "open" /\ o.supplier = trigger.supplier
                  /\ o.plant = b.plant /\ o.part = trigger.part
                  /\ p.status \in Committed /\ p.part = trigger.part
                  /\ p.plant = o.plant
                  /\ p.start = trigger.start /\ p.start >= trigger.day
                  /\ VersionsOf({b, o, p}) = trigger.versions}}

-----------------------------------------------------------------------------
AssemblyReads(scenario) ==
  IF scenario = "A"
  THEN <<"inventory", "production_order", "purchase_order", "supplier",
         "message", "calendar_event">>
  ELSE DetectionReads(scenario)

Assemble(scenario, attention, trigger, evidence) ==
  CASE scenario = "A" -> AssembleA(attention, trigger, evidence)
    [] scenario = "B" -> AssembleB(attention, trigger, evidence)
    [] scenario = "C" -> AssembleC(attention, trigger, evidence)
=============================================================================
