------------------------------ MODULE ErpRecords ------------------------------
(***************************************************************************)
(* The ERP tables the external tools write, and what each effect and each  *)
(* reverse effect of PostgresToolAdapter does to them once its rows are    *)
(* locked.  Can... is what the code checks, the operator of the same name  *)
(* what it writes and the result it journals for a later compensation.     *)
(*                                                                         *)
(* Parts and plants always match: a mismatch is refused like a record that *)
(* is not actionable.  Quantities are small integers.                      *)
(***************************************************************************)
EXTENDS Integers, FiniteSets, FiniteSetsExt

CONSTANTS
  Lots,           \* quality lots of one part in one plant
  Productions,    \* production orders for that part
  Originals,      \* purchase orders a plan may replace or hold
  Workflows,      \* each may create one replacement order, named after it
  None            \* no production order

ASSUME RecordsAssumption ==
  /\ None \notin Productions \cup Workflows
  /\ Originals \cap Workflows = {}
  /\ IsFiniteSet(Lots) /\ IsFiniteSet(Productions) /\ IsFiniteSet(Workflows)

VARIABLES
  erp,        \* the business tables, a record by table
  result      \* tool_invocations.result, by workflow and step

recordVars == <<erp, result>>

Orders == Originals \cup Workflows
AllocationKeys == Lots \X Productions

OrderStatus == {"absent", "open", "delayed", "on_hold", "cancelled", "received"}

Lot == [quantity : Nat, allocated : Nat, version : Nat,
        status : {"released", "on_hold"}, production : Productions \cup {None}]

\* An id names the call that inserted the row, or None for a row of the seed.
AllocationRecord ==
  [id : (Workflows \cup {None}) \X Nat, quantity : Nat, version : Nat]

Order == [ordered : Nat, received : Nat, version : Nat, status : OrderStatus]

Tables ==
  [lots        : [Lots -> Lot],
   allocations : [AllocationKeys -> AllocationRecord],
   orders      : [Orders -> Order],
   production  : [Productions -> [required : Nat, runnable : BOOLEAN]],
   late        : BOOLEAN,
   messages    : SUBSET (Workflows \X Nat \X {"notice", "correction"}),
   checks      : [Workflows -> {"absent", "pending", "claimed", "cancelled"}]]

NoResult == [tool |-> "none"]
NoAllocation == [id |-> <<None, 0>>, quantity |-> 0, version |-> 0]
NoOrder == [ordered |-> 0, received |-> 0, status |-> "absent", version |-> 0]

Allocation(lot, production) == erp.allocations[<<lot, production>>]

Exists(lot, production) == Allocation(lot, production) # NoAllocation

SumOf(f) == MapThenSumSet(LAMBDA x : f[x], DOMAIN f)

AllocatedOf(lot) == SumOf([p \in Productions |-> Allocation(lot, p).quantity])

\* What a production order lacks when its own allocation is own[lot].
Shortage(production, own) ==
  erp.production[production].required
    - SumOf([l \in {l \in Lots : erp.lots[l].status = "released"} |->
              erp.lots[l].quantity - erp.lots[l].allocated + own[l]])

OwnAllocations(production) == [l \in Lots |-> Allocation(l, production).quantity]

Record(w, i, facts) == result' = [result EXCEPT ![w][i] = facts]

-----------------------------------------------------------------------------
(* _create_replacement_purchase_order and its cancellation                 *)

\* Neither the status nor the open quantity of the original is looked at.
CanCreateReplacement(a) == ~erp.late

CreateReplacement(w, i, a) ==
  /\ erp' = [erp EXCEPT !.orders[w] = [ordered |-> a.quantity, received |-> 0,
                                       status |-> "open", version |-> 1]]
  /\ Record(w, i, [tool |-> a.tool])

CanCancelReplacement(w) == erp.orders[w].status = "open"

CancelReplacement(w) ==
  erp' = [erp EXCEPT !.orders[w].status = "cancelled", !.orders[w].version = @ + 1]

-----------------------------------------------------------------------------
(* _reduce_or_cancel_original_purchase_order and its restoration           *)

\* Mutant: the status of the original is not looked at.
CanReduceAny(a) ==
  LET o == erp.orders[a.order] IN o.ordered - o.received \in {0, a.quantity}

CanReduceOriginal(a) ==
  LET o == erp.orders[a.order] IN
  /\ o.ordered - o.received = a.quantity
  /\ o.status \in {"open", "delayed"}

ReduceOriginal(w, i, a) ==
  LET o == erp.orders[a.order] IN
  /\ erp' = [erp EXCEPT !.orders[a.order] =
       [o EXCEPT !.ordered = o.received, !.status = "cancelled", !.version = @ + 1]]
  /\ Record(w, i, [tool |-> a.tool, order |-> a.order, previous |-> o,
                   written |-> erp'.orders[a.order]])

\* The row must still be exactly what the effect wrote.
CanRestoreOriginal(r) == erp.orders[r.order] = r.written

RestoreOriginal(r) ==
  erp' = [erp EXCEPT !.orders[r.order].ordered = r.previous.ordered,
                     !.orders[r.order].status = r.previous.status,
                     !.orders[r.order].version = @ + 1]

-----------------------------------------------------------------------------
(* _place_purchase_order_hold and its restoration                          *)

CanPlaceHold(a) ==
  /\ erp.orders[a.order].status = "open"
  /\ erp.orders[a.order].version = a.version
  /\ erp.production[a.production].runnable

PlaceHold(w, i, a) ==
  /\ erp' = [erp EXCEPT !.orders[a.order].status = "on_hold",
                        !.orders[a.order].version = @ + 1]
  /\ Record(w, i, [tool |-> a.tool, order |-> a.order,
                   previous |-> erp.orders[a.order],
                   written |-> erp'.orders[a.order]])

CanRestoreHold(r) ==
  /\ erp.orders[r.order].status = "on_hold"
  /\ erp.orders[r.order].version = r.written.version

RestoreHold(r) ==
  erp' = [erp EXCEPT !.orders[r.order].status = r.previous.status,
                     !.orders[r.order].version = @ + 1]

-----------------------------------------------------------------------------
(* _notify_production, _flag_shortage_to_purchasing and their correction   *)

CanNotify(a) == erp.production[a.production].runnable

Send(w, i, a, shortage) ==
  /\ erp' = [erp EXCEPT !.messages = @ \cup {<<w, i, "notice">>}]
  /\ Record(w, i, [tool |-> a.tool, shortage |-> shortage])

\* The shortage must be positive and the one the plan was approved with.
CanFlagShortage(a, own) ==
  /\ erp.production[a.production].runnable
  /\ Shortage(a.production, own) > 0
  /\ Shortage(a.production, own) = a.quantity

CanCorrect(w, i) == <<w, i, "notice">> \in erp.messages

\* Mutant: the correction is inserted under the key of the notice.
SendCorrectionAgain(w, i) ==
  erp' = [erp EXCEPT !.messages = @ \cup {<<w, i, "notice">>}]

SendCorrection(w, i) ==
  erp' = [erp EXCEPT !.messages = @ \cup {<<w, i, "correction">>}]

-----------------------------------------------------------------------------
(* _schedule_arrival_check and its cancellation                            *)

ScheduleArrivalCheck(w, i, a) ==
  /\ erp' = [erp EXCEPT !.checks[w] = "pending"]
  /\ Record(w, i, [tool |-> a.tool])

CanCancelCheck(w) == erp.checks[w] = "pending"

CancelArrivalCheck(w) == erp' = [erp EXCEPT !.checks[w] = "cancelled"]

-----------------------------------------------------------------------------
(* _reallocate_lot and its restoration                                     *)

\* Mutant: what is already allocated is not subtracted.
LotAllowsAll(a) ==
  /\ erp.lots[a.lot].status = "released"
  /\ a.from = None => erp.lots[a.lot].quantity >= a.quantity

LotAllows(a) ==
  /\ erp.lots[a.lot].status = "released"
  /\ a.from = None =>
       erp.lots[a.lot].quantity - erp.lots[a.lot].allocated >= a.quantity

\* Mutant: the source need not hold what is moved.
SourceAllowsAny(a) == Exists(a.lot, a.from)

SourceAllows(a) ==
  /\ Exists(a.lot, a.from)
  /\ Allocation(a.lot, a.from).quantity >= a.quantity
  /\ Allocation(a.lot, a.from).quantity <= erp.lots[a.lot].allocated

Changed(row, difference) ==
  [row EXCEPT !.quantity = @ + difference, !.version = @ + 1]

\* The production order the lot itself names after the move.
NextHolder(a) ==
  LET lot == erp.lots[a.lot] IN
  IF \/ a.from = None
     \/ /\ lot.production = a.from
        /\ Allocation(a.lot, a.from).quantity = a.quantity
  THEN a.to ELSE lot.production

ReallocateLot(w, i, a) ==
  LET lot    == erp.lots[a.lot]
      source == IF a.from = None THEN NoAllocation ELSE Allocation(a.lot, a.from)
      target == Allocation(a.lot, a.to)
      moved  == [k \in AllocationKeys |->
                  IF k = <<a.lot, a.to>> THEN
                    IF target = NoAllocation
                    THEN [id |-> <<w, i>>, quantity |-> a.quantity, version |-> 1]
                    ELSE Changed(target, a.quantity)
                  ELSE IF k = <<a.lot, a.from>> THEN Changed(source, -a.quantity)
                  ELSE erp.allocations[k]]
  IN /\ erp' = [erp EXCEPT
          !.allocations = moved,
          !.lots[a.lot] = [lot EXCEPT
             !.allocated = IF a.from = None THEN @ + a.quantity ELSE @,
             !.production = NextHolder(a), !.version = @ + 1]]
     /\ Record(w, i,
          [tool |-> a.tool, lot |-> a.lot, from |-> a.from, to |-> a.to,
           quantity |-> a.quantity, previousLot |-> lot,
           lotVersion |-> lot.version + 1, previousSource |-> source,
           written |-> moved[<<a.lot, a.to>>], previousTarget |-> target.quantity])

\* A row that is updated by id and version.
Is(row, id, version) == row.id = id /\ row.version = version

\* DELETE_CREATED_ALLOCATION compares the quantity as well.
CanRestoreTarget(r) ==
  /\ Is(Allocation(r.lot, r.to), r.written.id, r.written.version)
  /\ r.previousTarget = 0 => Allocation(r.lot, r.to).quantity = r.quantity

CanRestoreSource(r) ==
  Is(Allocation(r.lot, r.from), r.previousSource.id, r.previousSource.version + 1)

CanRestoreLot(r) ==
  /\ erp.lots[r.lot].version = r.lotVersion
  /\ erp.lots[r.lot].allocated =
       r.previousLot.allocated + (IF r.from = None THEN r.quantity ELSE 0)

\* Mutant: the destination row is always deleted.
RestoreByDeleting(r) ==
  erp' = [erp EXCEPT
    !.allocations = [k \in AllocationKeys |->
      IF k = <<r.lot, r.to>> THEN NoAllocation
      ELSE IF k = <<r.lot, r.from>>
      THEN [erp.allocations[k] EXCEPT !.quantity = r.previousSource.quantity]
      ELSE erp.allocations[k]],
    !.lots[r.lot].allocated = r.previousLot.allocated]

\* A destination whose quantity was zero before is deleted, even when its row
\* was there.
RestoreAllocation(r) ==
  LET restored ==
        [k \in AllocationKeys |->
          IF k = <<r.lot, r.to>> THEN
            IF r.previousTarget = 0 THEN NoAllocation
            ELSE [erp.allocations[k] EXCEPT !.quantity = r.previousTarget,
                                            !.version = @ + 1]
          ELSE IF k = <<r.lot, r.from>> THEN
            [erp.allocations[k] EXCEPT !.quantity = r.previousSource.quantity,
                                       !.version = @ + 1]
          ELSE erp.allocations[k]]
  IN erp' = [erp EXCEPT
       !.allocations = restored,
       !.lots[r.lot] = [erp.lots[r.lot] EXCEPT
         !.allocated = r.previousLot.allocated,
         !.production = r.previousLot.production, !.version = @ + 1]]

=============================================================================
