----------------------------- MODULE MCPlanning -----------------------------
(* Small instances of Planning for TLC. *)
EXTENDS Planning, TLC

Production(id, start, quantity) ==
  [type |-> "production_order", id |-> id, version |-> 1, plant |-> "here",
   part |-> "part", start |-> start, quantity |-> quantity,
   status |-> "scheduled", supervisor |-> "supervisor"]

Inventory(id, plant, available) ==
  [type |-> "inventory", id |-> id, version |-> 1, plant |-> plant,
   part |-> "part", available |-> available, safety |-> 1]

Purchase(state) ==
  [type |-> "purchase_order", id |-> "po", version |-> 1, plant |-> "here",
   part |-> "part", supplier |-> "s1", ordered |-> 2, received |-> 0,
   status |-> state]

Supplier(id, lead) ==
  [type |-> "supplier", id |-> id, version |-> 1, plant |-> "here",
   part |-> "part", approved |-> TRUE, lead |-> lead, price |-> 2]

Message(id, at, shipment, receipt) ==
  [type |-> "message", id |-> id, version |-> 1, purchase_order |-> "po",
   supplier |-> "s1", received_at |-> at, shipment |-> shipment,
   receipt |-> receipt, superseded_by |-> "none"]

Event(id, starts, ends) ==
  [type |-> "calendar_event", id |-> id, version |-> 1, starts |-> starts,
   ends |-> ends]

Lot(id, state, allocated) ==
  [type |-> "quality_lot", id |-> id, version |-> 1, plant |-> "here",
   part |-> "part", quantity |-> 2, allocated |-> allocated, status |-> state]

Bulletin(state) ==
  [type |-> "supplier_risk_bulletin", id |-> "bulletin", version |-> 1,
   plant |-> "here", supplier |-> "s1", status |-> state,
   superseded_by |-> "none"]

\* A: production at day 2 runs out, an earlier order does not; the same part
\* is stocked at a plant the actor does not see.  Supplier s3 is too slow.
\* B: the held lot was to supply production at day 1.  C: an open order of
\* the supplier the bulletin is about.
MCSeed(s) ==
  CASE s = "A" ->
         {Inventory("stock", "here", 3), Inventory("elsewhere", "there", 9),
          Production("early", 1, 1), Production("order", 2, 2),
          Purchase("delayed"), Supplier("s1", 1), Supplier("s2", 2),
          Supplier("s3", 3), Message("late", 1, "delayed", 3),
          Event("leave", 0, 0)}
    [] s = "B" ->
         {Lot("held", "held", 2), Lot("spare", "released", 0),
          Lot("other", "held", 0), Production("order", 1, 2),
          [type |-> "production_allocation", id |-> "allocation", version |-> 1,
           lot |-> "held", order |-> "order", quantity |-> 2]}
    [] s = "C" -> {Bulletin("active"), Purchase("open"), Production("order", 2, 2)}

\* What other users may do to a row.
MCEdited(r) ==
  CASE r.id = "stock"  -> {[r EXCEPT !.available = 2]}
    [] r.id = "order"  -> {[r EXCEPT !.start = 3 - r.start], [r EXCEPT !.status = "cancelled"]}
    [] r.id = "po"     -> {[r EXCEPT !.received = 1]}
    [] r.id = "s2"     -> {[r EXCEPT !.approved = FALSE]}
    [] r.id = "held"   -> {[r EXCEPT !.status = "released"]}
    [] r.id = "spare"  -> {[r EXCEPT !.allocated = 1]}
    [] r.id = "other"  -> {[r EXCEPT !.status = "released", !.allocated = 1]}
    [] r.id = "allocation" -> {[r EXCEPT !.quantity = 1]}
    [] r.id = "bulletin"   -> {[r EXCEPT !.superseded_by = "newer"]}
    [] OTHER -> {}

MCArrivals ==
  {Message("on time", 2, "on_schedule", 2), Event("meeting", 2, 2)}

Whole(doc) == [kind |-> "whole", texts |-> <<[wrapped |-> TRUE, doc |-> doc]>>]

Wish(s) ==
  CASE s = "A" -> [outcome |-> "ENTER_WORKFLOW", supplier |-> "s2", quantity |-> 2,
                   purchase |-> "po", order |-> "order"]
    [] s = "B" -> [outcome |-> "REALLOCATE_AND_NOTIFY", lot |-> "spare",
                   to |-> "order", quantity |-> 2, notify |-> "order"]
    [] s = "C" -> [outcome |-> "HOLD_AND_NOTIFY", purchase |-> "po",
                   order |-> "order", version |-> 1, notify |-> "order"]

\* A wish the policy must refuse, and one the schema must.
Overreach(s) ==
  CASE s = "A" -> [Wish(s) EXCEPT !.supplier = "s3"]
    [] s = "B" -> [Wish(s) EXCEPT !.lot = "other"]
    [] s = "C" -> [Wish(s) EXCEPT !.version = 2]

Malformed(s) ==
  IF s = "A" THEN [Wish(s) EXCEPT !.quantity = 0]
             ELSE [Wish(s) EXCEPT !.notify = "another"]

MCUtterances(s) ==
  {Whole(Wish(s)), Whole(Overreach(s)), Whole(Malformed(s)),
   Whole([outcome |-> "MANUAL_REVIEW"]),
   [kind |-> "whole", texts |-> <<[wrapped |-> FALSE, doc |-> Wish(s)]>>],
   [kind |-> "whole", texts |-> Whole(Wish(s)).texts \o Whole(Overreach(s)).texts],
   [kind |-> "refused", texts |-> Whole(Wish(s)).texts],
   [kind |-> "cut", texts |-> Whole(Wish(s)).texts],
   [kind |-> "late", texts |-> << >>],
   [kind |-> "lost", texts |-> << >>]}
  \cup {Whole([outcome |-> o]) : o \in IF s = "A" THEN {"NO_ACTION"} ELSE {}}
  \cup (IF s = "B"
        THEN {Whole([outcome |-> "FLAG_SHORTAGE_TO_PURCHASING", order |-> "order",
                     quantity |-> 2]),
              Whole(Wish(s) @@ [from |-> "buffer"]),
              Whole(Wish(s) @@ [from |-> "order"])}
        ELSE {})
=============================================================================
