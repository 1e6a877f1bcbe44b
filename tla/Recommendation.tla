--------------------------- MODULE Recommendation ---------------------------
(***************************************************************************)
(* What becomes of a recommendation: the strict schema of each scenario,   *)
(* the deterministic supplier policy, the gates and controls that compare  *)
(* it with the context, and the tool calls it is turned into.              *)
(***************************************************************************)
EXTENDS Context

CONSTANTS
  Scopes,           \* actor.scopes
  ApprovalLimit     \* the actor's limit in the suppliers' currency; 0: none

ASSUME PolicyAssumption == ApprovalLimit \in Nat

-----------------------------------------------------------------------------
(* planning.py: the schemas.                                               *)

\* The fields of each outcome: none may be missing.
Fields(scenario) ==
  CASE scenario = "A" ->
         [ENTER_WORKFLOW |-> {"supplier", "quantity", "purchase", "order"},
          MANUAL_REVIEW |-> {}, NO_ACTION |-> {}]
    [] scenario = "B" ->
         [REALLOCATE_AND_NOTIFY |-> {"lot", "to", "quantity", "notify"},
          FLAG_SHORTAGE_TO_PURCHASING |-> {"order", "quantity"},
          MANUAL_REVIEW |-> {}]
    [] scenario = "C" ->
         [HOLD_AND_NOTIFY |-> {"purchase", "order", "version", "notify"},
          MANUAL_REVIEW |-> {}]

\* A reallocation may say which production order gives the material up.
Optional(outcome) == IF outcome = "REALLOCATE_AND_NOTIFY" THEN {"from"} ELSE {}

\* No other field is accepted.
ShapeValid(scenario, doc) ==
  /\ doc.outcome \in DOMAIN Fields(scenario)
  /\ {"outcome"} \cup Fields(scenario)[doc.outcome] \subseteq DOMAIN doc
  /\ DOMAIN doc \subseteq
       {"outcome"} \cup Fields(scenario)[doc.outcome] \cup Optional(doc.outcome)
  /\ "quantity" \in DOMAIN doc => doc.quantity > 0

\* The model validators: both effects of a plan are for one production order,
\* and no order gives material up to itself.
OneTarget(doc) ==
  /\ doc.outcome = "REALLOCATE_AND_NOTIFY" => doc.to = doc.notify
  /\ doc.outcome = "HOLD_AND_NOTIFY" => doc.order = doc.notify
  /\ "from" \in DOMAIN doc => doc.from # doc.to

SchemaValid(scenario, doc) == ShapeValid(scenario, doc) /\ OneTarget(doc)

Executable(doc) == doc.outcome \notin {"MANUAL_REVIEW", "NO_ACTION"}

-----------------------------------------------------------------------------
(* candidates.py                                                           *)

Viable(ctx, s) ==
  /\ s.id # ctx.original.supplier
  /\ s.approved
  /\ s.part = ctx.trigger.part
  /\ s.plant \in Plants
  /\ s.lead >= 0
  /\ ctx.trigger.day + s.lead <= ctx.trigger.start

Candidates(ctx) == {s \in ctx.suppliers : Viable(ctx, s)}

-----------------------------------------------------------------------------
(* gate.py: Scenario A.                                                    *)

\* The current shipment update, when it says the order is on schedule.
OnSchedule(ctx) == ctx.update.shipment = "on_schedule"

WithinLimit(ctx, doc) ==
  \E s \in Candidates(ctx) :
    /\ s.id = doc.supplier
    /\ s.price > 0
    /\ ApprovalLimit > 0
    /\ doc.quantity * s.price <= ApprovalLimit

Reroutable(ctx, doc, current) ==
  /\ VersionsOf(ctx.evidence) = current
  /\ {"erp:read", "mail:read", "calendar:read", "erp:po:reroute"} \subseteq Scopes
  /\ doc.purchase = ctx.original.id
  /\ doc.order = ctx.order.id
  /\ ctx.original.status \in Outstanding
  /\ OpenQuantity(ctx.original) > 0
  /\ doc.quantity = OpenQuantity(ctx.original)
  /\ WithinLimit(ctx, doc)

GateA(ctx, doc, current) ==
  CASE ~Executable(doc) -> doc.outcome
    [] Executable(doc) /\ OnSchedule(ctx) ->
         IF ctx.update.receipt <= ctx.trigger.start THEN "NO_ACTION" ELSE "MANUAL_REVIEW"
    [] OTHER -> IF Reroutable(ctx, doc, current) THEN "PENDING" ELSE "DENIED"

-----------------------------------------------------------------------------
(* scenario_b_control.py, scenario_c_control.py and the bounded gate.      *)

\* tool_calls_for_scenario_b_recommendation and ..._c_...
ToolCalls(doc) ==
  CASE doc.outcome = "REALLOCATE_AND_NOTIFY" -> <<"reallocate_lot", "notify_production">>
    [] doc.outcome = "FLAG_SHORTAGE_TO_PURCHASING" -> <<"flag_shortage_to_purchasing">>
    [] doc.outcome = "HOLD_AND_NOTIFY" -> <<"place_purchase_order_hold", "notify_production">>
    [] OTHER -> << >>

\* TOOL_CATALOG
RequiredScope(tool) ==
  CASE tool = "reallocate_lot"            -> "erp:lot:write"
    [] tool = "place_purchase_order_hold" -> "erp:po:hold"
    [] OTHER                              -> "production:notify"

\* The only alternative lot covers exactly what the held lot was to supply.
Covers(ctx, doc) ==
  doc.outcome = "REALLOCATE_AND_NOTIFY" =>
    \E lot \in ctx.alternatives :
      /\ ctx.alternatives = {lot}
      /\ doc.lot = lot.id
      /\ doc.to = ctx.order.id
      /\ doc.quantity = ctx.allocation.quantity
      /\ Spare(lot) >= ctx.allocation.quantity

HoldsCurrent(ctx, doc) ==
  doc.outcome = "HOLD_AND_NOTIFY" =>
    /\ doc.purchase = ctx.purchase.id
    /\ doc.order = ctx.order.id
    /\ doc.version = ctx.purchase.version
    /\ doc.notify = ctx.order.id

\* BoundedToolPlanGate.evaluate
ToolsAllowed(ctx, doc, current) ==
  /\ VersionsOf(ctx.evidence) = current
  /\ \A i \in DOMAIN ToolCalls(doc) : RequiredScope(ToolCalls(doc)[i]) \in Scopes

GateB(ctx, doc, current) ==
  CASE ~Executable(doc) -> doc.outcome
    [] OTHER -> IF Covers(ctx, doc) /\ ToolsAllowed(ctx, doc, current)
                THEN "PENDING" ELSE "DENIED"

GateC(ctx, doc, current) ==
  CASE ~Executable(doc) -> doc.outcome
    [] OTHER -> IF HoldsCurrent(ctx, doc) /\ ToolsAllowed(ctx, doc, current)
                THEN "PENDING" ELSE "DENIED"

\* What the program does with a schema-valid recommendation.
Gate(scenario, ctx, doc, current) ==
  CASE scenario = "A" -> GateA(ctx, doc, current)
    [] scenario = "B" -> GateB(ctx, doc, current)
    [] scenario = "C" -> GateC(ctx, doc, current)
=============================================================================
