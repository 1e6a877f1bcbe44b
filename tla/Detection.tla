----------------------------- MODULE Detection -----------------------------
(***************************************************************************)
(* The three detectors: from evidence to the triggers it warrants.  A      *)
(* trigger names what is at risk, the day it was raised on and the         *)
(* versions of the records that prove it; its signal is what attention     *)
(* items are deduplicated by.                                              *)
(***************************************************************************)
EXTENDS Sources, FiniteSetsExt

Committed == {"in_progress", "scheduled"}

HoldHorizon == 3    \* QUALITY_HOLD_HORIZON_DAYS

\* Two rows for one identity: no detector accepts them.
Ambiguous(identity) ==
  \E e, f \in DOMAIN identity : e # f /\ identity[e] = identity[f]

CommittedFrom(evidence, type, day) ==
  {p \in Of(evidence, type) : p.status \in Committed /\ p.start >= day}

\* ScenarioAStockoutTrigger: its signal names the version of the stock only.
TriggerA(part, order, stock, versions, day) ==
  [part |-> part, order |-> order.id, start |-> order.start, supplier |-> "none",
   bound |-> {stock}, versions |-> versions, day |-> day]

\* ScenarioBQualityHoldTrigger
TriggerB(part, order, versions, day) ==
  [part |-> part, order |-> order.id, start |-> order.start, supplier |-> "none",
   bound |-> versions, versions |-> versions, day |-> day]

\* ScenarioCSupplierRiskTrigger
TriggerC(part, order, supplier, versions, day) ==
  [part |-> part, order |-> order.id, start |-> order.start,
   supplier |-> supplier, bound |-> versions, versions |-> versions, day |-> day]

\* dedupe_key; the three never compare across scenarios.
Signal(t) == <<t.part, t.order, t.start, t.supplier, t.bound>>

-----------------------------------------------------------------------------
(* Scenario A: StockoutDetector.                                           *)

\* The demands on a part that draw on its stock no later than the target.
DemandBefore(demands, target) ==
  {p \in demands : p.part = target.part /\ p.start <= target.start}

Shortfall(stock, demands) ==
  stock.safety + MapThenSumSet(LAMBDA p : p.quantity, demands) - stock.available

Stockouts(evidence, day) ==
  LET demands == CommittedFrom(evidence, "production_order", day)
      AtRisk(stock) ==
        {p \in demands : p.part = stock.part
                         /\ Shortfall(stock, DemandBefore(demands, p)) > 0}
  IN  UNION {{TriggerA(p.part, p, stock.version,
                       VersionsOf({stock} \cup DemandBefore(demands, p)), day) :
                p \in AtRisk(stock)} : stock \in Of(evidence, "inventory")}

-----------------------------------------------------------------------------
(* Scenario B: QualityHoldDetector.                                        *)

\* Each held lot with an allocation of it and the production it was for.
HeldMaterial(evidence) ==
  {h \in Of(evidence, "quality_lot") \X Of(evidence, "production_allocation")
           \X Of(evidence, "production_impact") :
     /\ h[1].status = "held"
     /\ h[2].lot = h[1].id
     /\ h[2].quantity > 0
     /\ h[2].order = h[3].id}

QualityHolds(evidence, day) ==
  {TriggerB(h[1].part, h[3], VersionsOf({h[1], h[2], h[3]}), day) :
     h \in {h \in HeldMaterial(evidence) :
              /\ h[3].status \in Committed
              /\ h[3].start - day \in 0..HoldHorizon}}

-----------------------------------------------------------------------------
(* Scenario C: SupplierRiskDetector.                                       *)

\* Each current bulletin with an open purchase order of its supplier and a
\* committed production order that needs the material at the same plant.
Exposures(evidence, day) ==
  {x \in Of(evidence, "supplier_risk_bulletin") \X Of(evidence, "purchase_order")
           \X CommittedFrom(evidence, "production_order", day) :
     /\ x[1].status = "active"
     /\ x[2].status = "open"
     /\ x[2].supplier = x[1].supplier
     /\ x[2].plant = x[1].plant
     /\ x[3].part = x[2].part
     /\ x[3].plant = x[2].plant}

SupplierRisks(evidence, day) ==
  {TriggerC(x[2].part, x[3], x[1].supplier, VersionsOf({x[1], x[2], x[3]}), day) :
     x \in Exposures(evidence, day)}

-----------------------------------------------------------------------------
\* The reads of each detector's queries, in order.
DetectionReads(scenario) ==
  CASE scenario = "A" -> <<"inventory", "production_order">>
    [] scenario = "B" -> <<"production_allocation", "production_impact", "quality_lot">>
    [] scenario = "C" -> <<"supplier_risk_bulletin", "production_order", "purchase_order">>

\* The evidence a detector raises an error on.
Rejected(scenario, evidence) ==
  CASE scenario = "A" -> Ambiguous([e \in Of(evidence, "inventory") |-> e.part])
    [] scenario = "B" ->
         \E lot \in Of(evidence, "quality_lot"),
            a \in Of(evidence, "production_allocation") :
            /\ lot.status = "held" /\ a.lot = lot.id /\ a.quantity > 0
            /\ ~ \E p \in Of(evidence, "production_impact") :
                    p.id = a.order /\ p.part = lot.part
    [] scenario = "C" -> Ambiguous([e \in evidence |-> <<e.type, e.id>>])

Detected(scenario, evidence, day) ==
  CASE scenario = "A" -> Stockouts(evidence, day)
    [] scenario = "B" -> QualityHolds(evidence, day)
    [] scenario = "C" -> SupplierRisks(evidence, day)
=============================================================================
