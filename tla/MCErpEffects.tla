---------------------------- MODULE MCErpEffects ----------------------------
(* Small situations for ErpEffects. *)
EXTENDS ErpEffects, TLC

CONSTANTS w1, w2, w3, l1, p1, p2, o1

Records(status) ==
  [lots |-> [l \in Lots |-> [quantity |-> 3, allocated |-> 1, version |-> 1,
                             status |-> "released", production |-> p1]],
   allocations |-> [k \in AllocationKeys |->
      IF k[2] = p1 THEN [id |-> <<None, 1>>, quantity |-> 1, version |-> 1]
                   ELSE NoAllocation],
   orders |-> [o \in Orders |->
      IF o \in Originals
      THEN [ordered |-> 2, received |-> 0, status |-> status, version |-> 1]
      ELSE NoOrder],
   production |-> [p \in Productions |-> [required |-> 4, runnable |-> TRUE]],
   late |-> FALSE,
   messages |-> {},
   checks |-> [w \in Workflows |-> "absent"]]

Create == [tool |-> "create_replacement_po", order |-> o1, quantity |-> 2]
Reduce == [tool |-> "reduce_or_cancel_po", order |-> o1, quantity |-> 2]
Notify(p) == [tool |-> "notify_production", production |-> p]
Check == [tool |-> "schedule_arrival_check"]
Hold(p) == [tool |-> "place_purchase_order_hold", order |-> o1, production |-> p, version |-> 1]
Move(f, t, q) == [tool |-> "reallocate_lot", lot |-> l1, from |-> f, to |-> t, quantity |-> q]
Flag(p, q) == [tool |-> "flag_shortage_to_purchasing", production |-> p, quantity |-> q]

Plans(a, b, c) == w1 :> a @@ w2 :> b @@ w3 :> c

\* The declared reroute, twice for one order, and against a hold of it.
Reroute == <<Create, Reduce, Notify(p1), Check>>

\* Moves and their restorations that cross, free stock for two, and shortage
\* queries that lock the same rows in another order.
MCSituations ==
  {[erp |-> Records("delayed"), plan |-> Plans(Reroute, Reroute, <<>>)],
   [erp |-> Records("open"), plan |-> Plans(Reroute, <<Hold(p1), Notify(p1)>>, Reroute)],
   [erp |-> Records("open"),
    plan |-> Plans(<<Move(None, p1, 1), Notify(p2)>>, <<Notify(p2), Move(None, p2, 2), Flag(p1, 3)>>,
                   <<Flag(p1, 1)>>)],
   [erp |-> Records("open"),
    plan |-> Plans(<<Move(None, p2, 1), Move(p1, p2, 1), Notify(p1)>>,
                   <<Move(p2, p1, 1), Flag(p2, 1)>>, <<>>)],
   [erp |-> Records("open"),
    plan |-> Plans(<<Move(p1, p2, 1), Notify(p1)>>, <<Move(p1, p2, 1)>>, <<Flag(p1, 1)>>)]}
=============================================================================
