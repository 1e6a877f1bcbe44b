------------------------------ MODULE ErpEffects ------------------------------
(***************************************************************************)
(* Several approved workflows whose effects meet in the ERP tables.  Each  *)
(* runs its tools in order; a refused one starts the compensation of those *)
(* before it, last first; a refused compensation leaves it where it is.    *)
(* That one workflow does this through crashes and takeovers is shown by   *)
(* WorkflowExecutor; here a call of the tool adapter is a transaction that *)
(* takes its row locks one at a time under READ COMMITTED, so two of them  *)
(* may deadlock, and the one PostgreSQL picks is rolled back and retried.  *)
(***************************************************************************)
EXTENDS ErpRecords, Sequences, SequencesExt

CONSTANTS
  Situations,       \* initial business records and plans to start from
  MaxDisturbances   \* bound on what others do to the records meanwhile

ASSUME EffectsAssumption == MaxDisturbances \in Nat

\* The input models of the tools.
Calls ==
  [tool : {"create_replacement_po", "reduce_or_cancel_po"},
   order : Originals, quantity : Nat \ {0}]
  \cup [tool : {"notify_production"}, production : Productions]
  \cup [tool : {"schedule_arrival_check"}]
  \cup [tool : {"place_purchase_order_hold"},
        order : Originals, production : Productions, version : Nat]
  \cup {a \in [tool : {"reallocate_lot"}, lot : Lots, from : Productions \cup {None},
               to : Productions, quantity : Nat \ {0}] : a.from # a.to}
  \cup [tool : {"flag_shortage_to_purchasing"},
        production : Productions, quantity : Nat \ {0}]

\* po_reroute:v1
IsReroute(p) ==
  /\ Len(p) = 4
  /\ p[1].tool = "create_replacement_po" /\ p[2].tool = "reduce_or_cancel_po"
  /\ p[3].tool = "notify_production" /\ p[4].tool = "schedule_arrival_check"

\* The tools the planners of the other scenarios choose from.
IsBounded(p) ==
  \A i \in DOMAIN p : p[i].tool \in
    {"place_purchase_order_hold", "notify_production", "reallocate_lot",
     "flag_shortage_to_purchasing"}

\* Records the seed could have left: every lot covers its allocations, and
\* nothing in them comes from a workflow yet.
IsSeeded(e) ==
  /\ e \in Tables
  /\ \A l \in Lots :
       /\ e.lots[l].allocated = SumOf([p \in Productions |-> e.allocations[<<l, p>>].quantity])
       /\ e.lots[l].allocated <= e.lots[l].quantity
  /\ \A k \in AllocationKeys :
       /\ e.allocations[k].id[1] = None
       /\ e.allocations[k].id = NoAllocation.id => e.allocations[k] = NoAllocation
  /\ \A o \in Originals : e.orders[o].status \notin {"absent", "cancelled"}
  /\ \A w \in Workflows : e.orders[w] = NoOrder /\ e.checks[w] = "absent"
  /\ e.messages = {}

ASSUME SituationsAssumption ==
  \A s \in Situations :
    /\ IsSeeded(s.erp)
    /\ s.plan \in [Workflows -> Seq(Calls)]
    /\ \A w \in Workflows : IsReroute(s.plan[w]) \/ IsBounded(s.plan[w])

VARIABLES
  plan,         \* the approved tool calls of each workflow
  mode,         \* status of each workflow
  at,           \* the tool step each is in
  locked,       \* how many row locks its open transaction holds
  seen,         \* allocations in the snapshot of its shortage query
  disturbances

flowVars == <<plan, mode, at, locked, seen>>
vars == <<recordVars, flowVars, disturbances>>

Modes == {"running", "compensating", "succeeded", "compensated", "stuck"}

Nothing == [l \in Lots |-> 0]

Init ==
  /\ \E s \in Situations : erp = s.erp /\ plan = s.plan
  /\ result = [w \in Workflows |-> [i \in 1..Len(plan[w]) |-> NoResult]]
  /\ mode = [w \in Workflows |-> IF plan[w] = <<>> THEN "succeeded" ELSE "running"]
  /\ at = [w \in Workflows |-> 1]
  /\ locked = [w \in Workflows |-> 0]
  /\ seen = [w \in Workflows |-> Nothing]
  /\ disturbances = 0

Call(w) == plan[w][at[w]]
Stored(w) == result[w][at[w]]
Active(w) == mode[w] \in {"running", "compensating"}

-----------------------------------------------------------------------------
(* Row locks.                                                              *)

LotRow(l) == <<"lot", l>>
AllocationRow(l, p) == <<"allocation", l, p>>
ProductionRow(p) == <<"production", p>>
QueryStart == <<"query">>    \* the shortage query takes its snapshot

ForwardRows(a) ==
  IF a.tool = "reallocate_lot" THEN
    IF a.from = None
    THEN <<LotRow(a.lot), ProductionRow(a.to), AllocationRow(a.lot, a.to)>>
    ELSE <<LotRow(a.lot), AllocationRow(a.lot, a.from), ProductionRow(a.to),
           AllocationRow(a.lot, a.to)>>
  ELSE IF a.tool = "flag_shortage_to_purchasing"
  THEN <<ProductionRow(a.production), QueryStart>> \o SetToSeq({LotRow(l) : l \in Lots})
  ELSE <<>>

BackwardRows(r) ==
  IF r.tool # "reallocate_lot" THEN <<>>
  ELSE IF r.from = None
  THEN <<AllocationRow(r.lot, r.to), LotRow(r.lot)>>
  ELSE <<AllocationRow(r.lot, r.to), AllocationRow(r.lot, r.from), LotRow(r.lot)>>

\* The rows a transaction locks, in the order of its statements.  Tools on
\* purchase orders and messages take theirs in one step: no transaction waits
\* for another while it holds one of those.
Rows(w) ==
  IF mode[w] = "running" THEN ForwardRows(Call(w))
  ELSE IF mode[w] = "compensating" THEN BackwardRows(Stored(w))
  ELSE <<>>

Held(w) == {Rows(w)[k] : k \in 1..locked[w]} \ {QueryStart}

\* FOR SHARE of two shortage queries; everything else is exclusive.
Shares(w) == mode[w] = "running" /\ Call(w).tool = "flag_shortage_to_purchasing"

Conflict(w, v, row) ==
  /\ v # w
  /\ row \in Held(v)
  /\ ~(Shares(w) /\ Shares(v) /\ row[1] = "lot")

NextRow(w) == Rows(w)[locked[w] + 1]

Wants(w) == Active(w) /\ locked[w] < Len(Rows(w))

-----------------------------------------------------------------------------
(* What the row just locked shows, and what the whole call needs.          *)

RowRefused(w, row) ==
  \/ /\ mode[w] = "running" /\ Call(w).tool = "reallocate_lot"
     /\ \/ row = LotRow(Call(w).lot) /\ ~LotAllows(Call(w))
        \/ /\ Call(w).from # None
           /\ row = AllocationRow(Call(w).lot, Call(w).from)
           /\ ~SourceAllows(Call(w))
        \/ /\ row = ProductionRow(Call(w).to)
           /\ ~erp.production[Call(w).to].runnable
  \/ /\ mode[w] = "running" /\ Call(w).tool = "flag_shortage_to_purchasing"
     /\ row = ProductionRow(Call(w).production)
     /\ ~erp.production[Call(w).production].runnable
  \/ /\ mode[w] = "compensating" /\ Stored(w).tool = "reallocate_lot"
     /\ \/ row = AllocationRow(Stored(w).lot, Stored(w).to) /\ ~CanRestoreTarget(Stored(w))
        \/ /\ Stored(w).from # None
           /\ row = AllocationRow(Stored(w).lot, Stored(w).from)
           /\ ~CanRestoreSource(Stored(w))
        \/ row = LotRow(Stored(w).lot) /\ ~CanRestoreLot(Stored(w))

Refused(w) ==
  LET a == Call(w) r == Stored(w) IN
  \/ locked[w] > 0 /\ RowRefused(w, Rows(w)[locked[w]])
  \/ /\ mode[w] = "running" /\ ~Wants(w)
     /\ \/ a.tool = "create_replacement_po" /\ ~CanCreateReplacement(a)
        \/ a.tool = "reduce_or_cancel_po" /\ ~CanReduceOriginal(a)
        \/ a.tool = "place_purchase_order_hold" /\ ~CanPlaceHold(a)
        \/ a.tool = "notify_production" /\ ~CanNotify(a)
        \/ a.tool = "flag_shortage_to_purchasing" /\ ~CanFlagShortage(a, seen[w])
  \/ /\ mode[w] = "compensating" /\ ~Wants(w)
     /\ \/ r.tool = "create_replacement_po" /\ ~CanCancelReplacement(w)
        \/ r.tool = "reduce_or_cancel_po" /\ ~CanRestoreOriginal(r)
        \/ r.tool = "place_purchase_order_hold" /\ ~CanRestoreHold(r)
        \/ /\ r.tool \in {"notify_production", "flag_shortage_to_purchasing"}
           /\ ~CanCorrect(w, at[w])
        \/ r.tool = "schedule_arrival_check" /\ ~CanCancelCheck(w)

\* _execute_effect, the dispatch of execute.
Effect(w, i, a) ==
  \/ a.tool = "create_replacement_po" /\ CreateReplacement(w, i, a)
  \/ a.tool = "reduce_or_cancel_po" /\ ReduceOriginal(w, i, a)
  \/ a.tool = "place_purchase_order_hold" /\ PlaceHold(w, i, a)
  \/ a.tool = "notify_production" /\ Send(w, i, a, 0)
  \/ a.tool = "schedule_arrival_check" /\ ScheduleArrivalCheck(w, i, a)
  \/ a.tool = "reallocate_lot" /\ ReallocateLot(w, i, a)
  \/ a.tool = "flag_shortage_to_purchasing" /\ Send(w, i, a, a.quantity)

\* _execute_compensation_effect, the dispatch of compensate.
ReverseEffect(w, i, r) ==
  \/ r.tool = "create_replacement_po" /\ CancelReplacement(w)
  \/ r.tool = "reduce_or_cancel_po" /\ RestoreOriginal(r)
  \/ r.tool = "place_purchase_order_hold" /\ RestoreHold(r)
  \/ /\ r.tool \in {"notify_production", "flag_shortage_to_purchasing"}
     /\ SendCorrection(w, i)
  \/ r.tool = "schedule_arrival_check" /\ CancelArrivalCheck(w)
  \/ r.tool = "reallocate_lot" /\ RestoreAllocation(r)

WaitsFor(w, v) == Wants(w) /\ ~Refused(w) /\ Conflict(w, v, NextRow(w))

-----------------------------------------------------------------------------
(* Transactions.                                                           *)

Release(w) ==
  /\ locked' = [locked EXCEPT ![w] = 0]
  /\ seen' = [seen EXCEPT ![w] = Nothing]

\* The next row is locked.  A statement that starts at QueryStart reads the
\* allocations as they are now; a lot it then waits for is read as it is when
\* the wait ends, while the allocations in its select list stay as they were.
Lock(w) ==
  /\ Wants(w)
  /\ ~Refused(w)
  /\ ~\E v \in Workflows : WaitsFor(w, v)
  /\ locked' = [locked EXCEPT ![w] = @ + 1]
  /\ seen' = [seen EXCEPT ![w] =
       IF NextRow(w) = QueryStart THEN OwnAllocations(Call(w).production) ELSE @]
  /\ UNCHANGED <<recordVars, plan, mode, at, disturbances>>

Commit(w) ==
  /\ mode[w] = "running"
  /\ ~Wants(w) /\ ~Refused(w)
  /\ Effect(w, at[w], Call(w))
  /\ Release(w)
  /\ IF at[w] = Len(plan[w])
     THEN mode' = [mode EXCEPT ![w] = "succeeded"] /\ UNCHANGED at
     ELSE at' = [at EXCEPT ![w] = @ + 1] /\ UNCHANGED mode
  /\ UNCHANGED <<plan, disturbances>>

\* Back to the step before, or finished.
StepBack(w) ==
  IF at[w] = 1
  THEN mode' = [mode EXCEPT ![w] = "compensated"] /\ UNCHANGED at
  ELSE /\ mode' = [mode EXCEPT ![w] = "compensating"]
       /\ at' = [at EXCEPT ![w] = @ - 1]

\* Mutant: a refusal is taken for a passing error and the call made again.
RefuseAndRetry(w) ==
  /\ mode[w] = "running"
  /\ Refused(w)
  /\ Release(w)
  /\ UNCHANGED <<recordVars, plan, mode, at, disturbances>>

\* TerminalToolExecutionError: the transaction is rolled back.
Refuse(w) ==
  /\ mode[w] = "running"
  /\ Refused(w)
  /\ Release(w)
  /\ StepBack(w)
  /\ UNCHANGED <<recordVars, plan, disturbances>>

Compensate(w) ==
  /\ mode[w] = "compensating"
  /\ ~Wants(w) /\ ~Refused(w)
  /\ ReverseEffect(w, at[w], Stored(w))
  /\ result' = [result EXCEPT ![w][at[w]] = NoResult]
  /\ Release(w)
  /\ StepBack(w)
  /\ UNCHANGED <<plan, disturbances>>

GetStuck(w) ==
  /\ mode[w] = "compensating"
  /\ Refused(w)
  /\ Release(w)
  /\ mode' = [mode EXCEPT ![w] = "stuck"]
  /\ UNCHANGED <<recordVars, plan, at, disturbances>>

\* The deadlock is detected: w is rolled back, and its call made again.
Deadlocked(w) == \E v \in Workflows : WaitsFor(w, v) /\ WaitsFor(v, w)

RollBack(w) ==
  /\ Deadlocked(w)
  /\ Release(w)
  /\ UNCHANGED <<recordVars, plan, mode, at, disturbances>>

-----------------------------------------------------------------------------
(* Others: goods are received, production ends, a lot is blocked, a        *)
(* dispatcher takes an arrival check.                                      *)

LockFree(row) == \A w \in Workflows : row \notin Held(w)

Disturb(next) ==
  /\ disturbances < MaxDisturbances
  /\ disturbances' = disturbances + 1
  /\ erp' = next
  /\ UNCHANGED <<result, flowVars>>

ReceiveGoods(o, quantity) ==
  LET order == erp.orders[o] IN
  /\ order.status \in {"open", "delayed"}
  /\ order.received + quantity <= order.ordered
  /\ Disturb([erp EXCEPT !.orders[o] =
       [order EXCEPT !.received = @ + quantity, !.version = @ + 1,
                     !.status = IF order.received + quantity = order.ordered
                                THEN "received" ELSE @]])

EndProduction(p) ==
  /\ erp.production[p].runnable
  /\ LockFree(ProductionRow(p))
  /\ Disturb([erp EXCEPT !.production[p].runnable = FALSE])

BlockLot(l) ==
  /\ erp.lots[l].status = "released"
  /\ LockFree(LotRow(l))
  /\ Disturb([erp EXCEPT !.lots[l].status = "on_hold", !.lots[l].version = @ + 1])

TakeCheck(w) ==
  /\ erp.checks[w] = "pending"
  /\ Disturb([erp EXCEPT !.checks[w] = "claimed"])

TurnLate ==
  /\ ~erp.late
  /\ Disturb([erp EXCEPT !.late = TRUE])

Others ==
  \/ \E o \in Orders : \E quantity \in 1..2 : ReceiveGoods(o, quantity)
  \/ \E p \in Productions : EndProduction(p)
  \/ \E l \in Lots : BlockLot(l)
  \/ \E w \in Workflows : TakeCheck(w)
  \/ TurnLate

Progress(w) ==
  Lock(w) \/ Commit(w) \/ Refuse(w) \/ Compensate(w) \/ GetStuck(w) \/ RollBack(w)

Next == Others \/ \E w \in Workflows : Progress(w)

Spec == Init /\ [][Next]_vars

\* A row is handed to the transaction that waits for it before one that asks
\* for its first row later: PostgreSQL queues the waiters.
LockAnother(w, k) == Lock(w) /\ locked[w] = k

FairSpec ==
  /\ Spec
  /\ \A w \in Workflows :
       SF_vars(Progress(w)) /\ \A k \in 1..3 : SF_vars(LockAnother(w, k))

-----------------------------------------------------------------------------
(* Properties.                                                             *)

InForce(w, i, tool) == result[w][i].tool = tool

TypeOK ==
  /\ erp \in Tables
  /\ plan \in [Workflows -> Seq(Calls)]
  /\ mode \in [Workflows -> Modes]
  /\ \A w \in Workflows :
       /\ at[w] \in 1..(Len(plan[w]) + 1) /\ (Active(w) => at[w] <= Len(plan[w]))
       /\ locked[w] \in 0..Len(Rows(w))
       /\ DOMAIN result[w] = DOMAIN plan[w]

\* A lot's allocated quantity is the sum of its allocations and never exceeds
\* the lot, however reallocations and their restorations interleave.
LotsCovered ==
  \A l \in Lots : /\ erp.lots[l].allocated = AllocatedOf(l)
                 /\ erp.lots[l].allocated <= erp.lots[l].quantity

\* Quantity that the moves still in force brought to a production order.
Moved(r, l, p) ==
  IF r.tool # "reallocate_lot" \/ r.lot # l THEN 0
  ELSE IF r.to = p THEN r.quantity
  ELSE IF r.from = p THEN -r.quantity
  ELSE 0

MovedTo(l, p) ==
  SumOf([w \in Workflows |-> SumOf([i \in DOMAIN result[w] |-> Moved(result[w][i], l, p)])])

\* Every allocation is what it was at the start plus the moves in force: no
\* concurrent move or restoration is lost or applied over another.
BooksBalance ==
  [][\A l \in Lots, p \in Productions :
       Allocation(l, p)'.quantity - MovedTo(l, p)' = Allocation(l, p).quantity - MovedTo(l, p)]_vars

Replaces(w, o) == \E i \in DOMAIN result[w] :
  InForce(w, i, "reduce_or_cancel_po") /\ result[w][i].order = o

Supplied(o) == erp.orders[o].status \in {"open", "received"}

\* An original is closed for one workflow only and never without that
\* workflow's replacement; a workflow that is finished has both or neither.
SupplyKept ==
  /\ \A o \in Originals :
       /\ Cardinality({w \in Workflows : Replaces(w, o)}) <= 1
       /\ erp.orders[o].status = "cancelled" =>
            \E w \in Workflows : Replaces(w, o) /\ Supplied(w)
  /\ \A w \in Workflows :
       mode[w] \in {"succeeded", "compensated"} =>
         (Supplied(w) <=> \E o \in Originals : Replaces(w, o))

\* A compensated workflow has corrected every notice it sent and has no
\* arrival check waiting; a succeeded one has corrected none.
NoticesTrue ==
  \A w \in Workflows : \A i \in DOMAIN result[w] :
    LET sent == <<w, i, "notice">> \in erp.messages
        corrected == <<w, i, "correction">> \in erp.messages
    IN /\ mode[w] = "compensated" => corrected = sent /\ erp.checks[w] # "pending"
       /\ mode[w] = "succeeded" => ~corrected

\* Every workflow comes to an end of its own, although transactions deadlock.
Settles == \A w \in Workflows : <>(mode[w] \in {"succeeded", "compensated", "stuck"})
=============================================================================
