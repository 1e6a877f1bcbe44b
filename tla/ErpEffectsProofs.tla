--------------------------- MODULE ErpEffectsProofs ---------------------------
(***************************************************************************)
(* Proofs about ErpEffects, for any finite set of workflows, lots, orders  *)
(* and productions and any situation the seed can leave.                   *)
(*                                                                         *)
(*   Typed      what the tables and the journals hold; a journal row that  *)
(*              has not been undone is one the workflow has come past.     *)
(*   LocksInv   two transactions that write allocations hold disjoint      *)
(*              rows, and what one has read stays true until it writes.    *)
(*   StockInv   no allocation id is used twice, and a row that still has   *)
(*              the id and the version a journal row names holds what that *)
(*              step wrote: an undo that finds its version undoes its own  *)
(*              step and nothing else.                                     *)
(*   SupplyInv  an order is cancelled exactly while one journal holds its  *)
(*              cancellation, and a replacement is open exactly while the  *)
(*              journal of its workflow holds its creation.                *)
(*   NoticesInv corrections follow notices in the order of the unwinding.  *)
(*                                                                         *)
(* A commit or a compensation moves a quantity between two rows of one     *)
(* lot; SumUpdate says what that does to the sums LotsCovered and          *)
(* BooksBalance are about.                                                 *)
(***************************************************************************)
EXTENDS ErpEffects, FiniteSetTheorems, WellFoundedInduction, TLAPS

-----------------------------------------------------------------------------
(* Sums over a finite domain. MapThenSumSet chooses a recursive function;  *)
(* that there is one, and only one, follows from minimal subsets.          *)

Some(s) == CHOOSE x \in s : TRUE

SumsUp(g, f, T) ==
  g = [s \in SUBSET T |-> IF s = {} THEN 0 ELSE f[Some(s)] + g[s \ {Some(s)}]]

LEMMA SmallestSubset ==
  ASSUME NEW S, IsFiniteSet(S), NEW T \in SUBSET S, NEW B, B \subseteq SUBSET S, T \in B
  PROVE  \E s \in B : \A t \in B : ~(t \subseteq s /\ t # s)
<1>1. IsWellFoundedOn(StrictSubsetOrdering(S), SUBSET S)
  BY FS_StrictSubsetOrderingWellFounded, FS_FiniteSubsetsOfFinite
<1>2. PICK s \in B : \A t \in B : <<t, s>> \notin StrictSubsetOrdering(S)
  BY <1>1, WFMin, Zenon
<1> QED
  BY <1>2 DEF StrictSubsetOrdering

LEMMA SumsUnfold ==
  ASSUME NEW g, NEW f, NEW T, SumsUp(g, f, T), NEW s \in SUBSET T
  PROVE  /\ s = {} => g[s] = 0
         /\ s # {} => /\ Some(s) \in s
                      /\ g[s] = f[Some(s)] + g[s \ {Some(s)}]
<1>1. g[s] = IF s = {} THEN 0 ELSE f[Some(s)] + g[s \ {Some(s)}]
  BY Zenon DEF SumsUp
<1>2. s # {} => Some(s) \in s
  BY DEF Some
<1> QED
  BY <1>1, <1>2

LEMMA SumsAgree ==
  ASSUME NEW S, IsFiniteSet(S), NEW f, NEW g, NEW h, NEW T \in SUBSET S, NEW U \in SUBSET S,
         SumsUp(g, f, T), SumsUp(h, f, U)
  PROVE  \A s \in SUBSET (T \cap U) : g[s] = h[s]
<1> DEFINE B == {s \in SUBSET (T \cap U) : g[s] # h[s]}
<1>1. SUFFICES ASSUME NEW s0 \in B PROVE FALSE
  OBVIOUS
<1>2. PICK s \in B : \A t \in B : ~(t \subseteq s /\ t # s)
  <2> HIDE DEF B
  <2>1. B \subseteq SUBSET S
    BY DEF B
  <2> QED
    BY <2>1, SmallestSubset
<1>3. s \in SUBSET T /\ s \in SUBSET U
  OBVIOUS
<1>4. s # {} /\ Some(s) \in s
  BY <1>3, SumsUnfold
<1>5. g[s \ {Some(s)}] = h[s \ {Some(s)}]
  BY <1>2, <1>4
<1>6. g[s] = h[s]
  BY <1>3, <1>4, <1>5, SumsUnfold
<1> QED
  BY <1>6

LEMMA SumsExist ==
  ASSUME NEW S, IsFiniteSet(S), NEW f
  PROVE  \A T \in SUBSET S : \E g : SumsUp(g, f, T)
<1> DEFINE B == {T \in SUBSET S : ~\E g : SumsUp(g, f, T)}
<1>1. SUFFICES ASSUME NEW T0 \in B PROVE FALSE
  OBVIOUS
<1>2. PICK T \in B : \A t \in B : ~(t \subseteq T /\ t # T)
  <2>1. B \subseteq SUBSET S
    OBVIOUS
  <2> HIDE DEF B
  <2> QED
    BY <2>1, SmallestSubset
<1> DEFINE Of(s) == CHOOSE g : SumsUp(g, f, s)
<1>3. \A s \in SUBSET T : s # T => SumsUp(Of(s), f, s)
  BY <1>2
<1> DEFINE v(s) == IF s # T THEN Of(s)[s]
                   ELSE IF s = {} THEN 0
                   ELSE f[Some(s)] + Of(s \ {Some(s)})[s \ {Some(s)}]
           G == [s \in SUBSET T |-> v(s)]
<1>4. ASSUME NEW s \in SUBSET T
      PROVE  G[s] = IF s = {} THEN 0 ELSE f[Some(s)] + G[s \ {Some(s)}]
  <2>1. CASE s = {}
    <3>1. CASE s = T
      BY <2>1, <3>1
    <3>2. CASE s # T
      <4>1. Of(s)[s] = 0
        <5> HIDE DEF Of
        <5> QED
          BY <2>1, <3>2, <1>3, SumsUnfold
      <4> QED
        BY <2>1, <3>2, <4>1
    <3> QED
      BY <3>1, <3>2
  <2>2. CASE s # {}
    <3> DEFINE r == s \ {Some(s)}
    <3>1. Some(s) \in s /\ r \in SUBSET T /\ r # T
      BY <2>2 DEF Some
    <3>2. G[r] = Of(r)[r]
      BY <3>1
    <3>3. CASE s = T
      BY <2>2, <3>2, <3>3
    <3>4. CASE s # T
      <4>1. SumsUp(Of(s), f, s) /\ SumsUp(Of(r), f, r)
        BY <1>3, <3>1, <3>4
      <4>2. Of(s)[r] = Of(r)[r]
        <5>1. r \in SUBSET (s \cap r) /\ s \in SUBSET S /\ r \in SUBSET S
          BY <3>1
        <5> HIDE DEF Of, r
        <5> QED
          BY <4>1, <5>1, SumsAgree
      <4>3. Of(s)[s] = f[Some(s)] + Of(s)[r]
        <5> HIDE DEF Of
        <5> QED
          BY <4>1, <2>2, SumsUnfold
      <4> QED
        <5>1. G[s] = Of(s)[s]
          BY <3>4
        <5> HIDE DEF Of, G
        <5> QED
          BY <3>2, <5>1, <4>2, <4>3, <2>2
    <3> QED
      BY <3>3, <3>4
  <2> QED
    BY <2>1, <2>2
<1>5. SumsUp(G, f, T)
  <2>1. \A s \in SUBSET T : v(s) = IF s = {} THEN 0 ELSE f[Some(s)] + G[s \ {Some(s)}]
    BY <1>4
  <2>2. G = [s \in SUBSET T |-> IF s = {} THEN 0 ELSE f[Some(s)] + G[s \ {Some(s)}]]
    <3> HIDE DEF v
    <3> QED
      BY <2>1
  <2> QED
    BY <2>2 DEF SumsUp
<1> QED
  BY <1>2, <1>5

LEMMA SumOfSums ==
  ASSUME NEW f, IsFiniteSet(DOMAIN f)
  PROVE  \E g : SumsUp(g, f, DOMAIN f) /\ SumOf(f) = g[DOMAIN f]
<1> DEFINE g == CHOOSE h : SumsUp(h, f, DOMAIN f)
<1>1. SumsUp(g, f, DOMAIN f)
  BY SumsExist
<1>2. SumOf(f) = g[DOMAIN f]
  BY DEF SumOf, MapThenSumSet, MapThenFoldSet, SumsUp, Some
<1> QED
  BY <1>1, <1>2

\* The sum of a function that differs from another in one place.
LEMMA SumUpdate ==
  ASSUME NEW S, IsFiniteSet(S), NEW f \in [S -> Int], NEW h \in [S -> Int], NEW x \in S,
         \A y \in S \ {x} : h[y] = f[y]
  PROVE  /\ SumOf(f) \in Int /\ SumOf(h) \in Int
         /\ SumOf(h) = SumOf(f) + h[x] - f[x]
<1>1. PICK F : SumsUp(F, f, S) /\ SumOf(f) = F[S]
  BY SumOfSums
<1>2. PICK H : SumsUp(H, h, S) /\ SumOf(h) = H[S]
  BY SumOfSums
<1> DEFINE good(s) == /\ F[s] \in Int /\ H[s] \in Int
                      /\ x \in s => H[s] = F[s] + h[x] - f[x]
                      /\ x \notin s => H[s] = F[s]
           B == {s \in SUBSET S : ~good(s)}
<1>3. SUFFICES B = {}
  <2>1. good(S)
    BY <1>3
  <2> QED
    BY <2>1, <1>1, <1>2
<1>4. SUFFICES ASSUME B # {} PROVE FALSE
  OBVIOUS
<1>5. PICK s \in B : \A t \in B : ~(t \subseteq s /\ t # s)
  <2>1. B \subseteq SUBSET S
    OBVIOUS
  <2> HIDE DEF B
  <2> QED
    BY <2>1, <1>4, SmallestSubset
<1>6. CASE s = {}
  <2>1. F[s] = 0 /\ H[s] = 0
    BY <1>1, <1>2, <1>6, SumsUnfold
  <2> QED
    BY <2>1, <1>6
<1>7. CASE s # {}
  <2> DEFINE y == Some(s)
             r == s \ {y}
  <2>1. y \in s /\ y \in S /\ r \in SUBSET S
    BY <1>7 DEF Some
  <2>2. good(r)
    BY <2>1, <1>5
  <2>3. F[s] = f[y] + F[r] /\ H[s] = h[y] + H[r]
    <3>1. s \in SUBSET S
      OBVIOUS
    <3>2. SumsUp(F, f, S) /\ SumsUp(H, h, S)
      BY <1>1, <1>2
    <3>3. F[s] = f[Some(s)] + F[s \ {Some(s)}]
      <4> HIDE DEF B
      <4> QED
        BY <3>1, <3>2, <1>7, SumsUnfold
    <3>4. H[s] = h[Some(s)] + H[s \ {Some(s)}]
      <4> HIDE DEF B
      <4> QED
        BY <3>1, <3>2, <1>7, SumsUnfold
    <3> QED
      BY <3>3, <3>4
  <2>4. f[y] \in Int /\ h[y] \in Int /\ f[x] \in Int /\ h[x] \in Int
    BY <2>1
  <2> HIDE DEF y
  <2>5. CASE y = x
    BY <2>1, <2>2, <2>3, <2>4, <2>5
  <2>6. CASE y # x
    BY <2>1, <2>2, <2>3, <2>4, <2>6
  <2> QED
    BY <2>5, <2>6
<1> QED
  BY <1>6, <1>7


LEMMA SumInt ==
  ASSUME NEW S, IsFiniteSet(S), NEW f \in [S -> Int]
  PROVE  SumOf(f) \in Int
<1>1. CASE S = {}
  <2>1. PICK g : SumsUp(g, f, S) /\ SumOf(f) = g[S]
    BY SumOfSums
  <2>2. g[S] = 0
    BY <2>1, <1>1, SumsUnfold
  <2> QED
    BY <2>1, <2>2
<1>2. CASE S # {}
  BY <1>2, SumUpdate
<1> QED
  BY <1>1, <1>2

-----------------------------------------------------------------------------
(* What the journal holds.                                                 *)

MoveResults ==
  {r \in [tool : {"reallocate_lot"}, lot : Lots, from : Productions \cup {None},
          to : Productions, quantity : Nat \ {0}, previousLot : Lot, lotVersion : Nat,
          previousSource : AllocationRecord, written : AllocationRecord,
          previousTarget : Nat] : r.from # r.to}

OrderResults ==
  [tool : {"reduce_or_cancel_po", "place_purchase_order_hold"},
   order : Originals, previous : Order, written : Order]

MessageResults ==
  [tool : {"notify_production", "flag_shortage_to_purchasing"}, shortage : Nat]

PlainResults == [tool : {"create_replacement_po", "schedule_arrival_check"}]

Results == {NoResult} \cup MoveResults \cup OrderResults \cup MessageResults \cup PlainResults

\* Step i has been done and not been undone.
InJournal(w, i) == result[w][i].tool # "none"

\* The rows of the journal that have not been undone are those the workflow
\* has come past.
Phase(w) ==
  \A i \in DOMAIN plan[w] :
    /\ InJournal(w, i) => result[w][i].tool = plan[w][i].tool
    /\ mode[w] = "running" => (InJournal(w, i) <=> i < at[w])
    /\ mode[w] \in {"compensating", "stuck"} => (InJournal(w, i) <=> i <= at[w])
    /\ mode[w] = "succeeded" => InJournal(w, i)
    /\ mode[w] = "compensated" => ~InJournal(w, i)

\* TypeOK with what the journal rows hold, and where.
Typed ==
  /\ TypeOK
  /\ at \in [Workflows -> Nat \ {0}]
  /\ locked \in [Workflows -> Nat]
  /\ DOMAIN result = Workflows
  /\ \A w \in Workflows : /\ result[w] \in [DOMAIN plan[w] -> Results]
                         /\ (IsReroute(plan[w]) \/ IsBounded(plan[w]))
                         /\ Phase(w)

\* Transactions that write allocations.
Moves(w) ==
  \/ mode[w] = "running" /\ Call(w).tool = "reallocate_lot"
  \/ mode[w] = "compensating" /\ Stored(w).tool = "reallocate_lot"

\* Two of them never hold the same row, and what one has read of the rows it
\* has left behind still holds.
LocksInv ==
  /\ \A v, w \in Workflows : v # w /\ Moves(v) /\ Moves(w) => Held(v) \cap Held(w) = {}
  /\ \A w \in Workflows : Moves(w) =>
       \A k \in 1..(locked[w] - 1) : ~RowRefused(w, Rows(w)[k])

\* An allocation's id is never used twice.
UsedIn(id, p, m, a) ==
  id[1] \in Workflows =>
    /\ id[2] \in DOMAIN p[id[1]]
    /\ m[id[1]] = "running" => id[2] < a[id[1]]

IdUsed(id) == UsedIn(id, plan, mode, at)
IdUsedNext(id) == UsedIn(id, plan', mode', at')

RowsInv ==
  \A k \in AllocationKeys :
    /\ erp.allocations[k].id = NoAllocation.id => erp.allocations[k] = NoAllocation
    /\ IdUsed(erp.allocations[k].id)

\* A row with the id and the version a result names still holds the quantity
\* the effect left in it.
Links(r) ==
  LET target == Allocation(r.lot, r.to)
      source == Allocation(r.lot, r.from)
  IN /\ target.id = r.written.id =>
          /\ target.version >= r.written.version
          /\ target.version = r.written.version => target.quantity = r.written.quantity
     /\ r.from # None /\ source.id = r.previousSource.id =>
          /\ source.version >= r.previousSource.version + 1
          /\ source.version = r.previousSource.version + 1 =>
               source.quantity = r.previousSource.quantity - r.quantity

MoveInv(r) ==
  /\ r.written.quantity = r.previousTarget + r.quantity
  /\ r.written.id # NoAllocation.id /\ IdUsed(r.written.id)
  /\ r.from # None => /\ r.previousSource.quantity >= r.quantity
                      /\ r.previousSource.id # NoAllocation.id
                      /\ IdUsed(r.previousSource.id)
  /\ Links(r)

StockInv ==
  /\ RowsInv
  /\ \A w \in Workflows : \A i \in DOMAIN plan[w] :
       result[w][i].tool = "reallocate_lot" => MoveInv(result[w][i])

\* What a journal row says of its order.
OrderInv(w, i) ==
  LET r == result[w][i] IN
  /\ r.tool = "reduce_or_cancel_po" =>
       /\ r.previous.status \in {"open", "delayed"}
       /\ r.written.status = "cancelled"
       /\ erp.orders[r.order] = r.written
  /\ r.tool = "place_purchase_order_hold" => r.previous.status = "open"

\* Each cancelled order is cancelled by one journal row of one workflow, and a
\* replacement stands exactly while its workflow has its creation in the journal.
SupplyInv ==
  /\ \A w \in Workflows : \A i \in DOMAIN plan[w] : OrderInv(w, i)
  /\ \A o \in Originals : erp.orders[o].status = "cancelled" => \E w \in Workflows : Replaces(w, o)
  /\ \A v, w \in Workflows, o \in Originals : Replaces(v, o) /\ Replaces(w, o) => v = w
  /\ \A w \in Workflows :
       /\ erp.orders[w].status # "delayed"
       /\ Supplied(w) <=> \E i \in DOMAIN plan[w] : result[w][i].tool = "create_replacement_po"

\* The message that step i of w has sent.
Told(w, i, kind) == <<w, i, kind>> \in erp.messages

\* How far the notices and corrections of w have come.
NoticesOf(w) ==
  /\ erp.checks[w] = "pending" =>
       \E i \in DOMAIN plan[w] : result[w][i].tool = "schedule_arrival_check"
  /\ \A i \in DOMAIN plan[w] :
       /\ Told(w, i, "notice") =>
            plan[w][i].tool \in {"notify_production", "flag_shortage_to_purchasing"}
       /\ mode[w] = "running" => /\ Told(w, i, "notice") => i < at[w]
                                 /\ ~Told(w, i, "correction")
       /\ mode[w] \in {"compensating", "stuck"} =>
            /\ i <= at[w] => ~Told(w, i, "correction")
            /\ i > at[w] => (Told(w, i, "correction") <=> Told(w, i, "notice"))
       /\ mode[w] = "succeeded" => ~Told(w, i, "correction")
       /\ mode[w] = "compensated" => (Told(w, i, "correction") <=> Told(w, i, "notice"))

NoticesInv == \A w \in Workflows : NoticesOf(w)

-----------------------------------------------------------------------------
(* Types.                                                                  *)

LEMMA CallFields ==
  ASSUME NEW a \in Calls
  PROVE  /\ a.tool \in {"create_replacement_po", "reduce_or_cancel_po", "notify_production",
                        "schedule_arrival_check", "place_purchase_order_hold",
                        "reallocate_lot", "flag_shortage_to_purchasing"}
         /\ a.tool \in {"create_replacement_po", "reduce_or_cancel_po"} =>
              a.order \in Originals /\ a.quantity \in Nat \ {0}
         /\ a.tool = "notify_production" => a.production \in Productions
         /\ a.tool = "place_purchase_order_hold" =>
              a.order \in Originals /\ a.production \in Productions
         /\ a.tool = "reallocate_lot" =>
              /\ a.lot \in Lots /\ a.from \in Productions \cup {None}
              /\ a.to \in Productions /\ a.quantity \in Nat \ {0} /\ a.from # a.to
         /\ a.tool = "flag_shortage_to_purchasing" =>
              a.production \in Productions /\ a.quantity \in Nat \ {0}
BY DEF Calls

LEMMA ResultKinds ==
  ASSUME NEW r \in Results
  PROVE  /\ r.tool = "none" => r = NoResult
         /\ r.tool = "reallocate_lot" => r \in MoveResults
         /\ r.tool \in {"reduce_or_cancel_po", "place_purchase_order_hold"} => r \in OrderResults
         /\ r.tool \in {"notify_production", "flag_shortage_to_purchasing"} =>
              r \in MessageResults
BY DEF Results, MoveResults, OrderResults, MessageResults, PlainResults, NoResult

LEMMA CurrentCall ==
  ASSUME Typed, NEW w \in Workflows, Active(w)
  PROVE  /\ at[w] \in DOMAIN plan[w]
         /\ Call(w) \in Calls
         /\ Stored(w) \in Results
<1>1. plan[w] \in Seq(Calls) /\ at[w] \in 1..Len(plan[w])
  BY DEF Typed, TypeOK
<1> QED
  BY <1>1 DEF Typed, Call, Stored

LEMMA RowsOfLots ==
  /\ SetToSeq({LotRow(l) : l \in Lots}) \in Seq({LotRow(l) : l \in Lots})
<1> DEFINE S == {LotRow(l) : l \in Lots}
<1>1. IsFiniteSet(S)
  <2> DEFINE f == [l \in Lots |-> LotRow(l)]
  <2>1. f \in Surjection(Lots, S)
    BY DEF Surjection
  <2> QED
    BY <2>1, FS_Surjection, RecordsAssumption
<1> HIDE DEF S
<1>2. \E f \in [1..Cardinality(S) -> S] : IsInjective(f)
  BY <1>1, FS_CardinalityType DEF ExistsBijection, Bijection, Injection
<1>3. SetToSeq(S) \in [1..Cardinality(S) -> S]
  BY <1>2, Zenon DEF SetToSeq
<1>4. Cardinality(S) \in Nat
  BY <1>1, FS_CardinalityType
<1>5. SetToSeq(S) \in Seq(S)
  BY <1>3, <1>4
<1> QED
  BY <1>5 DEF S

RowsCounted ==
  \A w \in Workflows : (mode[w] = "running" => Call(w) \in Calls) => Len(Rows(w)) \in Nat

LEMMA CountedRows == RowsCounted
<1> SUFFICES ASSUME NEW w \in Workflows, mode[w] = "running" => Call(w) \in Calls
             PROVE  Len(Rows(w)) \in Nat
  BY DEF RowsCounted
<1>1. CASE mode[w] = "running"
  <2>1. Call(w) \in Calls
    BY <1>1
  <2>2. CASE Call(w).tool = "reallocate_lot"
    BY <1>1, <2>2 DEF Rows, ForwardRows
  <2>3. CASE Call(w).tool = "flag_shortage_to_purchasing"
    <3> DEFINE s == SetToSeq({LotRow(l) : l \in Lots})
               S == {LotRow(l) : l \in Lots}
               T == S \cup {ProductionRow(Call(w).production), QueryStart}
    <3>1. s \in Seq(S)
      BY RowsOfLots
    <3>2. Rows(w) = <<ProductionRow(Call(w).production), QueryStart>> \o s
      BY <1>1, <2>3 DEF Rows, ForwardRows
    <3> HIDE DEF s, S
    <3>3. s \in Seq(T)
      BY <3>1
    <3>4. <<ProductionRow(Call(w).production), QueryStart>> \in Seq(T)
      OBVIOUS
    <3> HIDE DEF T
    <3>5. Rows(w) \in Seq(T)
      BY <3>2, <3>3, <3>4
    <3> QED
      BY <3>5
  <2>4. CASE Call(w).tool \notin {"reallocate_lot", "flag_shortage_to_purchasing"}
    BY <1>1, <2>4 DEF Rows, ForwardRows
  <2> QED
    BY <2>2, <2>3, <2>4
<1>2. CASE mode[w] = "compensating"
  BY <1>2 DEF Rows, BackwardRows
<1>3. CASE ~Active(w)
  BY <1>3 DEF Rows, Active
<1> QED
  BY <1>1, <1>2, <1>3 DEF Active

LEMMA AllLocked ==
  ASSUME Typed, NEW w \in Workflows, Active(w), ~Wants(w)
  PROVE  locked[w] = Len(Rows(w))
<1>1. Len(Rows(w)) \in Nat
  BY CountedRows, CurrentCall DEF Active, RowsCounted
<1> QED
  BY <1>1 DEF Typed, TypeOK, Wants

LEMMA LotsMayMove ==
  ASSUME Typed, LocksInv, NEW w \in Workflows, mode[w] = "running", ~Wants(w), ~Refused(w),
         Call(w).tool = "reallocate_lot"
  PROVE  LotAllows(Call(w)) /\ (Call(w).from # None => SourceAllows(Call(w)))
<1> DEFINE a == Call(w)
<1>1. locked[w] = Len(Rows(w))
  BY AllLocked DEF Active
<1>2. Moves(w)
  BY DEF Moves
<1>3. \A k \in 1..(locked[w] - 1) : ~RowRefused(w, Rows(w)[k])
  BY <1>2 DEF LocksInv
<1>4. CASE a.from = None
  <2>1. Rows(w) = <<LotRow(a.lot), ProductionRow(a.to), AllocationRow(a.lot, a.to)>>
    BY <1>4 DEF Rows, ForwardRows
  <2>2. ~RowRefused(w, LotRow(a.lot))
    BY <1>1, <1>3, <2>1
  <2> QED
    BY <1>4, <2>2 DEF RowRefused
<1>5. CASE a.from # None
  <2>1. Rows(w) = <<LotRow(a.lot), AllocationRow(a.lot, a.from), ProductionRow(a.to),
                    AllocationRow(a.lot, a.to)>>
    BY <1>5 DEF Rows, ForwardRows
  <2>2. ~RowRefused(w, LotRow(a.lot)) /\ ~RowRefused(w, AllocationRow(a.lot, a.from))
    BY <1>1, <1>3, <2>1
  <2> QED
    BY <1>5, <2>2 DEF RowRefused
<1> QED
  BY <1>4, <1>5

LEMMA LotsMayReturn ==
  ASSUME Typed, LocksInv, NEW w \in Workflows, mode[w] = "compensating", ~Wants(w), ~Refused(w),
         Stored(w).tool = "reallocate_lot"
  PROVE  /\ CanRestoreTarget(Stored(w)) /\ CanRestoreLot(Stored(w))
         /\ Stored(w).from # None => CanRestoreSource(Stored(w))
<1> DEFINE r == Stored(w)
<1>1. locked[w] = Len(Rows(w))
  BY AllLocked DEF Active
<1>2. Moves(w)
  BY DEF Moves
<1>3. \A k \in 1..(locked[w] - 1) : ~RowRefused(w, Rows(w)[k])
  BY <1>2 DEF LocksInv
<1>4. CASE r.from = None
  <2>1. Rows(w) = <<AllocationRow(r.lot, r.to), LotRow(r.lot)>>
    BY <1>4 DEF Rows, BackwardRows
  <2>2. ~RowRefused(w, AllocationRow(r.lot, r.to))
    BY <1>1, <1>3, <2>1
  <2>3. ~RowRefused(w, LotRow(r.lot))
    BY <1>1, <2>1 DEF Refused
  <2> QED
    BY <1>4, <2>2, <2>3 DEF RowRefused
<1>5. CASE r.from # None
  <2>1. Rows(w) = <<AllocationRow(r.lot, r.to), AllocationRow(r.lot, r.from), LotRow(r.lot)>>
    BY <1>5 DEF Rows, BackwardRows
  <2>2. ~RowRefused(w, AllocationRow(r.lot, r.to)) /\ ~RowRefused(w, AllocationRow(r.lot, r.from))
    BY <1>1, <1>3, <2>1
  <2>3. ~RowRefused(w, LotRow(r.lot))
    BY <1>1, <2>1 DEF Refused
  <2> QED
    BY <1>5, <2>2, <2>3 DEF RowRefused
<1> QED
  BY <1>4, <1>5

-----------------------------------------------------------------------------
(* What a commit and a compensation write.                                 *)

SameOrders == erp'.orders = erp.orders
SameStock == erp'.lots = erp.lots /\ erp'.allocations = erp.allocations
SameNews == erp'.messages = erp.messages /\ erp'.checks = erp.checks
SameProduction == erp'.production = erp.production

Recorded(w, r) == result' = [result EXCEPT ![w][at[w]] = r]

Committing(w, tools) ==
  /\ mode[w] = "running" /\ ~Wants(w) /\ ~Refused(w)
  /\ Effect(w, at[w], Call(w))
  /\ Call(w).tool \in tools

Undoing(w, tools) ==
  /\ mode[w] = "compensating" /\ ~Wants(w) /\ ~Refused(w)
  /\ ReverseEffect(w, at[w], Stored(w))
  /\ Stored(w).tool \in tools

LEMMA OrderUpdates ==
  ASSUME NEW o \in Order, NEW q \in Nat, NEW s \in OrderStatus
  PROVE  LET m == [o EXCEPT !.status = s, !.version = @ + 1]
             n == [o EXCEPT !.ordered = q, !.status = s, !.version = @ + 1]
         IN /\ m \in Order /\ m.status = s
            /\ n \in Order /\ n.status = s
<1>1. \A p \in Order : /\ [p EXCEPT !.ordered = q] \in Order
                        /\ [p EXCEPT !.status = s] \in Order
                        /\ [p EXCEPT !.version = @ + 1] \in Order
  BY DEF Order
<1>2. /\ [o EXCEPT !.status = s, !.version = @ + 1]
         = [[o EXCEPT !.status = s] EXCEPT !.version = @ + 1]
      /\ [o EXCEPT !.ordered = q, !.status = s, !.version = @ + 1]
         = [[[o EXCEPT !.ordered = q] EXCEPT !.status = s] EXCEPT !.version = @ + 1]
  OBVIOUS
<1>3. /\ [o EXCEPT !.status = s, !.version = @ + 1].status = s
      /\ [o EXCEPT !.ordered = q, !.status = s, !.version = @ + 1].status = s
  BY DEF Order
<1> QED
  BY <1>1, <1>2, <1>3

LEMMA CommitCreate ==
  ASSUME Typed, NEW w \in Workflows, Committing(w, {"create_replacement_po"})
  PROVE  /\ erp' \in Tables /\ SameStock /\ SameNews /\ SameProduction
         /\ erp'.orders = [erp.orders EXCEPT ![w] =
              [ordered |-> Call(w).quantity, received |-> 0, status |-> "open", version |-> 1]]
         /\ \E r \in PlainResults : r.tool = Call(w).tool /\ Recorded(w, r)
<1>1. Call(w) \in Calls /\ Call(w).quantity \in Nat /\ erp \in Tables
  BY CurrentCall, CallFields DEF Typed, TypeOK, Committing, Active
<1>2. CreateReplacement(w, at[w], Call(w))
  BY DEF Committing, Effect
<1>3. \E r \in PlainResults : r.tool = Call(w).tool /\ Recorded(w, r)
  BY <1>2 DEF CreateReplacement, Record, Recorded, PlainResults, Committing
<1> DEFINE n == [ordered |-> Call(w).quantity, received |-> 0, status |-> "open", version |-> 1]
<1>4. erp' = [erp EXCEPT !.orders[w] = n]
  BY <1>2 DEF CreateReplacement
<1>5. n \in Order
  BY <1>1 DEF Order, OrderStatus
<1>6. /\ erp' \in Tables /\ SameStock /\ SameNews /\ SameProduction
      /\ erp'.orders = [erp.orders EXCEPT ![w] = n]
  <2> HIDE DEF n
  <2> QED
    BY <1>1, <1>4, <1>5 DEF SameStock, SameNews, SameProduction, Tables, Orders
<1> QED
  BY <1>3, <1>6

LEMMA CommitReduce ==
  ASSUME Typed, NEW w \in Workflows, Committing(w, {"reduce_or_cancel_po"})
  PROVE  /\ erp' \in Tables /\ SameStock /\ SameNews /\ SameProduction
         /\ \E r \in OrderResults :
              /\ r.tool = Call(w).tool /\ Recorded(w, r)
              /\ r.order = Call(w).order /\ r.previous = erp.orders[r.order]
              /\ r.previous.status \in {"open", "delayed"}
              /\ r.written.status = "cancelled"
              /\ erp'.orders = [erp.orders EXCEPT ![r.order] = r.written]
<1> DEFINE a == Call(w)
           o == erp.orders[a.order]
           n == [o EXCEPT !.ordered = o.received, !.status = "cancelled", !.version = @ + 1]
<1>1. Call(w) \in Calls /\ a.order \in Originals /\ erp \in Tables
  BY CurrentCall, CallFields DEF Typed, TypeOK, Committing, Active
<1>2. ReduceOriginal(w, at[w], Call(w)) /\ CanReduceOriginal(Call(w))
  BY DEF Committing, Effect, Refused
<1>3. o \in Order /\ o.status \in {"open", "delayed"}
  BY <1>1, <1>2 DEF Tables, Orders, CanReduceOriginal
<1>4. erp' = [erp EXCEPT !.orders[a.order] = n]
  BY <1>2 DEF ReduceOriginal
<1>5. n \in Order /\ n.status = "cancelled"
  <2>1. o.received \in Nat
    BY <1>3 DEF Order
  <2> QED
    BY <1>3, <2>1, OrderUpdates DEF OrderStatus
<1> HIDE DEF n
<1>6. /\ erp' \in Tables /\ SameStock /\ SameNews /\ SameProduction
      /\ erp'.orders = [erp.orders EXCEPT ![a.order] = n]
  BY <1>1, <1>4, <1>5 DEF SameStock, SameNews, SameProduction, Tables, Orders
<1> DEFINE r == [tool |-> a.tool, order |-> a.order, previous |-> o, written |-> n]
<1>7. erp'.orders[a.order] = n
  BY <1>1, <1>6 DEF Tables, Orders
<1>8. Recorded(w, r)
  BY <1>2, <1>7 DEF ReduceOriginal, Record, Recorded
<1>9. r \in OrderResults
  BY <1>1, <1>3, <1>5 DEF OrderResults, Committing
<1> QED
  BY <1>3, <1>5, <1>6, <1>8, <1>9

LEMMA CommitHold ==
  ASSUME Typed, NEW w \in Workflows, Committing(w, {"place_purchase_order_hold"})
  PROVE  /\ erp' \in Tables /\ SameStock /\ SameNews /\ SameProduction
         /\ \E r \in OrderResults :
              /\ r.tool = Call(w).tool /\ Recorded(w, r)
              /\ r.order = Call(w).order /\ r.previous = erp.orders[r.order]
              /\ r.previous.status = "open"
              /\ r.written.status = "on_hold"
              /\ erp'.orders = [erp.orders EXCEPT ![r.order] = r.written]
<1> DEFINE a == Call(w)
           o == erp.orders[a.order]
           n == [o EXCEPT !.status = "on_hold", !.version = @ + 1]
<1>1. Call(w) \in Calls /\ a.order \in Originals /\ erp \in Tables
  BY CurrentCall, CallFields DEF Typed, TypeOK, Committing, Active
<1>2. PlaceHold(w, at[w], Call(w)) /\ CanPlaceHold(Call(w))
  BY DEF Committing, Effect, Refused
<1>3. o \in Order /\ o.status = "open"
  BY <1>1, <1>2 DEF Tables, Orders, CanPlaceHold
<1>4. erp' = [erp EXCEPT !.orders[a.order] = n]
  BY <1>1, <1>2, <1>3 DEF PlaceHold, Tables, Orders, Order
<1>5. n \in Order /\ n.status = "on_hold"
  BY <1>3, OrderUpdates DEF OrderStatus
<1> HIDE DEF n
<1>6. /\ erp' \in Tables /\ SameStock /\ SameNews /\ SameProduction
      /\ erp'.orders = [erp.orders EXCEPT ![a.order] = n]
  BY <1>1, <1>4, <1>5 DEF SameStock, SameNews, SameProduction, Tables, Orders
<1> DEFINE r == [tool |-> a.tool, order |-> a.order, previous |-> o, written |-> n]
<1>7. erp'.orders[a.order] = n
  BY <1>1, <1>6 DEF Tables, Orders
<1>8. Recorded(w, r)
  BY <1>2, <1>7 DEF PlaceHold, Record, Recorded
<1>9. r \in OrderResults
  BY <1>1, <1>3, <1>5 DEF OrderResults, Committing
<1> QED
  BY <1>3, <1>5, <1>6, <1>8, <1>9

LEMMA CommitMessage ==
  ASSUME Typed, NEW w \in Workflows,
         Committing(w, {"notify_production", "flag_shortage_to_purchasing"})
  PROVE  /\ erp' \in Tables /\ SameStock /\ SameOrders /\ SameProduction
         /\ erp'.messages = erp.messages \cup {<<w, at[w], "notice">>}
         /\ erp'.checks = erp.checks
         /\ \E r \in MessageResults : r.tool = Call(w).tool /\ Recorded(w, r)
<1>1. Call(w) \in Calls /\ erp \in Tables /\ at[w] \in Nat
  BY CurrentCall DEF Typed, TypeOK, Committing, Active
<1>2. PICK s \in Nat : Send(w, at[w], Call(w), s)
  BY <1>1, CallFields DEF Committing, Effect
<1>3. \E r \in MessageResults : r.tool = Call(w).tool /\ Recorded(w, r)
  BY <1>2 DEF Send, Record, Recorded, MessageResults, Committing
<1> QED
  BY <1>1, <1>2, <1>3 DEF Send, SameStock, SameOrders, SameProduction, Tables

LEMMA CommitCheck ==
  ASSUME Typed, NEW w \in Workflows, Committing(w, {"schedule_arrival_check"})
  PROVE  /\ erp' \in Tables /\ SameStock /\ SameOrders /\ SameProduction
         /\ erp'.messages = erp.messages
         /\ erp'.checks = [erp.checks EXCEPT ![w] = "pending"]
         /\ \E r \in PlainResults : r.tool = Call(w).tool /\ Recorded(w, r)
<1>1. Call(w) \in Calls /\ erp \in Tables
  BY CurrentCall DEF Typed, TypeOK, Committing, Active
<1>2. ScheduleArrivalCheck(w, at[w], Call(w))
  BY DEF Committing, Effect
<1>3. \E r \in PlainResults : r.tool = Call(w).tool /\ Recorded(w, r)
  BY <1>2 DEF ScheduleArrivalCheck, Record, Recorded, PlainResults, Committing
<1> QED
  BY <1>1, <1>2, <1>3 DEF ScheduleArrivalCheck, SameStock, SameOrders, SameProduction, Tables

\* What a move does to the lots and allocations.
MoveWrites(w, r) ==
  LET target == Allocation(r.lot, r.to)
      source == Allocation(r.lot, r.from)
      lot    == erp.lots[r.lot]
  IN /\ r.from # r.to
     /\ r.previousTarget = target.quantity
     /\ r.written = erp'.allocations[<<r.lot, r.to>>]
     /\ r.written.quantity = r.previousTarget + r.quantity
     /\ target = NoAllocation => r.written.id = <<w, at[w]>>
     /\ target # NoAllocation => /\ r.written.id = target.id
                                 /\ r.written.version = target.version + 1
     /\ r.from # None => LET left == erp'.allocations[<<r.lot, r.from>>] IN
          /\ r.previousSource = source /\ source # NoAllocation
          /\ source.quantity >= r.quantity
          /\ left.id = source.id /\ left.version = source.version + 1
          /\ left.quantity = source.quantity - r.quantity
     /\ r.from = None => /\ lot.quantity - lot.allocated >= r.quantity
                         /\ erp'.lots[r.lot].allocated = lot.allocated + r.quantity
     /\ r.from # None => erp'.lots[r.lot].allocated = lot.allocated
     /\ erp'.lots[r.lot].quantity = lot.quantity
     /\ \A l \in Lots \ {r.lot} : erp'.lots[l] = erp.lots[l]
     /\ \A k \in AllocationKeys \ {<<r.lot, r.to>>, <<r.lot, r.from>>} :
          erp'.allocations[k] = erp.allocations[k]

LEMMA TablesWith ==
  ASSUME erp \in Tables, NEW l \in Lots, NEW row \in Lot,
         NEW rows \in [AllocationKeys -> AllocationRecord],
         erp' = [erp EXCEPT !.allocations = rows, !.lots[l] = row]
  PROVE  /\ erp' \in Tables /\ SameOrders /\ SameNews /\ SameProduction
         /\ erp'.allocations = rows
         /\ erp'.lots = [erp.lots EXCEPT ![l] = row]
<1>1. erp' = [[erp EXCEPT !.allocations = rows] EXCEPT !.lots[l] = row]
  OBVIOUS
<1>2. [erp EXCEPT !.allocations = rows] \in Tables
  BY DEF Tables
<1>3. \A e \in Tables : [e EXCEPT !.lots[l] = row] \in Tables
  BY DEF Tables
<1> QED
  BY <1>1, <1>2, <1>3 DEF SameOrders, SameNews, SameProduction, Tables

LotWith(lot, q, p, v) == [lot EXCEPT !.allocated = q, !.production = p, !.version = v]

LEMMA LotRowUpdate ==
  ASSUME NEW lot \in Lot, NEW q \in Nat, NEW p \in Productions \cup {None}, NEW v \in Nat
  PROVE  /\ LotWith(lot, q, p, v) \in Lot
         /\ LotWith(lot, q, p, v).allocated = q
         /\ LotWith(lot, q, p, v).quantity = lot.quantity
<1>1. \A m \in Lot : /\ [m EXCEPT !.allocated = q] \in Lot
                    /\ [m EXCEPT !.production = p] \in Lot
                    /\ [m EXCEPT !.version = v] \in Lot
  BY DEF Lot
<1>2. LotWith(lot, q, p, v)
      = [[[lot EXCEPT !.allocated = q] EXCEPT !.production = p] EXCEPT !.version = v]
  BY DEF LotWith
<1>3. /\ LotWith(lot, q, p, v).allocated = q
      /\ LotWith(lot, q, p, v).quantity = lot.quantity
  BY DEF Lot, LotWith
<1> QED
  BY <1>1, <1>2, <1>3

LEMMA AllocationUpdate ==
  ASSUME NEW row \in AllocationRecord, NEW q \in Nat
  PROVE  LET n == [row EXCEPT !.quantity = q, !.version = @ + 1]
         IN /\ n \in AllocationRecord
            /\ n.id = row.id /\ n.quantity = q /\ n.version = row.version + 1
<1>1. \A m \in AllocationRecord : /\ [m EXCEPT !.quantity = q] \in AllocationRecord
                                 /\ [m EXCEPT !.version = @ + 1] \in AllocationRecord
  BY DEF AllocationRecord
<1>2. [row EXCEPT !.quantity = q, !.version = @ + 1]
      = [[row EXCEPT !.quantity = q] EXCEPT !.version = @ + 1]
  OBVIOUS
<1>3. LET n == [row EXCEPT !.quantity = q, !.version = @ + 1]
      IN n.id = row.id /\ n.quantity = q /\ n.version = row.version + 1
  BY DEF AllocationRecord
<1> QED
  BY <1>1, <1>2, <1>3

LEMMA ChangedRow ==
  ASSUME NEW row \in AllocationRecord, NEW d \in Int, row.quantity + d >= 0
  PROVE  /\ Changed(row, d) \in AllocationRecord
         /\ Changed(row, d).id = row.id
         /\ Changed(row, d).quantity = row.quantity + d
         /\ Changed(row, d).version = row.version + 1
<1> DEFINE q == row.quantity + d
           n == [row EXCEPT !.quantity = q, !.version = @ + 1]
<1>1. q \in Nat
  BY DEF AllocationRecord
<1>2. Changed(row, d) = n
  BY DEF Changed
<1>3. n \in AllocationRecord /\ n.id = row.id /\ n.quantity = q /\ n.version = row.version + 1
  <2> HIDE DEF q
  <2> QED
    BY <1>1, AllocationUpdate
<1> HIDE DEF n
<1> QED
  BY <1>2, <1>3

LEMMA CommitMove ==
  ASSUME Typed, LocksInv, NEW w \in Workflows, Committing(w, {"reallocate_lot"})
  PROVE  /\ erp' \in Tables /\ SameOrders /\ SameNews /\ SameProduction
         /\ \E r \in MoveResults :
              /\ r.tool = Call(w).tool /\ Recorded(w, r)
              /\ r.lot = Call(w).lot /\ r.from = Call(w).from
              /\ r.to = Call(w).to /\ r.quantity = Call(w).quantity
              /\ r.previousLot = erp.lots[r.lot]
              /\ MoveWrites(w, r)
<1> DEFINE a == Call(w)
           lot    == erp.lots[a.lot]
           source == IF a.from = None THEN NoAllocation ELSE Allocation(a.lot, a.from)
           target == Allocation(a.lot, a.to)
           new    == IF target = NoAllocation
                     THEN [id |-> <<w, at[w]>>, quantity |-> a.quantity, version |-> 1]
                     ELSE Changed(target, a.quantity)
           left   == Changed(source, -a.quantity)
           moved  == [k \in AllocationKeys |->
                       IF k = <<a.lot, a.to>> THEN new
                       ELSE IF k = <<a.lot, a.from>> THEN left
                       ELSE erp.allocations[k]]
           total  == IF a.from = None THEN lot.allocated + a.quantity ELSE lot.allocated
           row    == [lot EXCEPT !.allocated = total, !.production = NextHolder(a),
                                 !.version = @ + 1]
           r      == [tool |-> a.tool, lot |-> a.lot, from |-> a.from, to |-> a.to,
                      quantity |-> a.quantity, previousLot |-> lot,
                      lotVersion |-> lot.version + 1, previousSource |-> source,
                      written |-> moved[<<a.lot, a.to>>], previousTarget |-> target.quantity]
<1>1. /\ erp \in Tables /\ a.lot \in Lots /\ a.from \in Productions \cup {None}
      /\ a.to \in Productions /\ a.quantity \in Nat \ {0} /\ a.from # a.to
      /\ a.tool = "reallocate_lot" /\ at[w] \in Nat
  BY CurrentCall, CallFields DEF Typed, TypeOK, Committing, Active
<1>2. ReallocateLot(w, at[w], a)
  BY <1>1 DEF Committing, Effect
<1>3. LotAllows(a) /\ (a.from # None => SourceAllows(a))
  BY LotsMayMove DEF Committing
<1>4. lot \in Lot /\ target \in AllocationRecord
  BY <1>1 DEF Tables, Allocation, AllocationKeys
<1>5. source \in AllocationRecord
  BY <1>1 DEF Tables, Allocation, AllocationKeys, AllocationRecord, NoAllocation
<1>6. new \in AllocationRecord /\ new.quantity = target.quantity + a.quantity
  <2>1. CASE target = NoAllocation
    BY <1>1, <2>1 DEF AllocationRecord, NoAllocation
  <2>2. CASE target # NoAllocation
    <3>1. target.quantity + a.quantity >= 0
      BY <1>1, <1>4 DEF AllocationRecord
    <3> QED
      BY <1>1, <1>4, <2>2, <3>1, ChangedRow
  <2> QED
    BY <2>1, <2>2
<1>7. a.from # None => /\ source = Allocation(a.lot, a.from) /\ source # NoAllocation
                       /\ source.quantity >= a.quantity
  BY <1>3 DEF SourceAllows, Exists
<1>8. a.from # None => /\ left \in AllocationRecord /\ left.id = source.id
                       /\ left.version = source.version + 1
                       /\ left.quantity = source.quantity - a.quantity
  <2> SUFFICES ASSUME a.from # None
               PROVE  /\ left \in AllocationRecord /\ left.id = source.id
                      /\ left.version = source.version + 1
                      /\ left.quantity = source.quantity - a.quantity
    OBVIOUS
  <2> HIDE DEF source
  <2>1. source.quantity \in Nat
    BY <1>5 DEF AllocationRecord
  <2>2. source.quantity + (-a.quantity) >= 0 /\ -a.quantity \in Int
    BY <1>1, <1>7, <2>1
  <2>3. source.quantity + (-a.quantity) = source.quantity - a.quantity
    BY <1>1, <2>1
  <2> QED
    BY <1>5, <2>2, <2>3, ChangedRow
<1>9. moved \in [AllocationKeys -> AllocationRecord]
  <2> HIDE DEF new, left
  <2>1. ASSUME NEW k \in AllocationKeys PROVE moved[k] \in AllocationRecord
    <3>1. k = <<a.lot, a.from>> => a.from # None
      BY <1>1, RecordsAssumption DEF AllocationKeys
    <3>2. erp.allocations[k] \in AllocationRecord
      BY <1>1 DEF Tables
    <3> QED
      BY <3>1, <3>2, <1>6, <1>8
  <2> QED
    BY <2>1
<1>10. total \in Nat /\ NextHolder(a) \in Productions \cup {None}
  BY <1>1, <1>4 DEF Lot, NextHolder
<1>11. row \in Lot /\ row.allocated = total /\ row.quantity = lot.quantity
  <2> DEFINE h == NextHolder(a)
             v == lot.version + 1
  <2>1. h \in Productions \cup {None} /\ v \in Nat
    BY <1>4, <1>10 DEF Lot
  <2>2. row = LotWith(lot, total, h, v)
    BY DEF LotWith
  <2> HIDE DEF lot, total, row, h, v
  <2>3. /\ LotWith(lot, total, h, v) \in Lot
        /\ LotWith(lot, total, h, v).allocated = total
        /\ LotWith(lot, total, h, v).quantity = lot.quantity
    BY <1>4, <1>10, <2>1, LotRowUpdate
  <2> QED
    BY <2>2, <2>3
<1>12. erp' = [erp EXCEPT !.allocations = moved, !.lots[a.lot] = row] /\ Record(w, at[w], r)
  BY <1>2, Zenon DEF ReallocateLot
<1> HIDE DEF row
<1>13. /\ erp' \in Tables /\ SameOrders /\ SameNews /\ SameProduction
       /\ erp'.allocations = moved
       /\ erp'.lots = [erp.lots EXCEPT ![a.lot] = row]
  <2> HIDE DEF moved
  <2> QED
    BY <1>1, <1>9, <1>11, <1>12, TablesWith
<1>14. /\ <<a.lot, a.to>> \in AllocationKeys
       /\ moved[<<a.lot, a.to>>] = new
       /\ a.from # None => /\ <<a.lot, a.from>> \in AllocationKeys
                           /\ moved[<<a.lot, a.from>>] = left
       /\ \A k \in AllocationKeys \ {<<a.lot, a.to>>, <<a.lot, a.from>>} :
            moved[k] = erp.allocations[k]
  <2> HIDE DEF new, left
  <2> QED
    BY <1>1 DEF AllocationKeys
<1> HIDE DEF moved
<1>15. r \in MoveResults
  <2>1. lot.version + 1 \in Nat /\ target.quantity \in Nat
    BY <1>4 DEF Lot, AllocationRecord
  <2> HIDE DEF new, source, target, lot
  <2> QED
    BY <1>1, <1>4, <1>5, <1>6, <1>14, <2>1 DEF MoveResults
<1>16. new.id = (IF target = NoAllocation THEN <<w, at[w]>> ELSE target.id)
       /\ (target # NoAllocation => new.version = target.version + 1)
  <2>1. CASE target = NoAllocation
    BY <2>1
  <2>2. CASE target # NoAllocation
    <3>1. target.quantity + a.quantity >= 0
      BY <1>1, <1>4 DEF AllocationRecord
    <3> QED
      BY <1>1, <1>4, <2>2, <3>1, ChangedRow
  <2> QED
    BY <2>1, <2>2
<1>17. erp.lots \in [Lots -> Lot]
  BY <1>1 DEF Tables
<1>18. a.from = None => lot.quantity - lot.allocated >= a.quantity
  BY <1>3 DEF LotAllows
<1> DEFINE q == [tool |-> a.tool, lot |-> a.lot, from |-> a.from, to |-> a.to,
                      quantity |-> a.quantity, previousLot |-> lot,
                      lotVersion |-> lot.version + 1, previousSource |-> source,
                      written |-> new, previousTarget |-> target.quantity]
<1>19. MoveWrites(w, q)
  <2> HIDE DEF new, left
  <2> QED
    BY <1>1, <1>6, <1>7, <1>8, <1>11, <1>13, <1>14, <1>16, <1>17, <1>18 DEF MoveWrites
<1>20. q = r
  BY <1>14
<1> QED
  BY <1>1, <1>12, <1>13, <1>15, <1>19, <1>20 DEF Record, Recorded

LEMMA UndoCreate ==
  ASSUME Typed, NEW w \in Workflows, Undoing(w, {"create_replacement_po"})
  PROVE  /\ erp' \in Tables /\ SameStock /\ SameNews /\ SameProduction
         /\ \E n \in Order :
              /\ n.status = "cancelled"
              /\ erp'.orders = [erp.orders EXCEPT ![w] = n]
<1> DEFINE o == erp.orders[w]
           n == [o EXCEPT !.status = "cancelled", !.version = @ + 1]
<1>1. erp \in Tables /\ o \in Order
  BY DEF Typed, TypeOK, Tables, Orders
<1>2. CancelReplacement(w)
  BY DEF Undoing, ReverseEffect
<1>3. erp' = [erp EXCEPT !.orders[w] = n]
  BY <1>1, <1>2 DEF CancelReplacement, Tables, Orders, Order
<1>4. n \in Order /\ n.status = "cancelled"
  BY <1>1, OrderUpdates DEF OrderStatus
<1> HIDE DEF n
<1> QED
  BY <1>1, <1>3, <1>4 DEF SameStock, SameNews, SameProduction, Tables, Orders

\* The original's row becomes what it was before the effect, one version on.
LEMMA UndoReduce ==
  ASSUME Typed, NEW w \in Workflows, Undoing(w, {"reduce_or_cancel_po"})
  PROVE  /\ erp' \in Tables /\ SameStock /\ SameNews /\ SameProduction
         /\ Stored(w) \in OrderResults
         /\ \E n \in Order :
              /\ n.status = Stored(w).previous.status
              /\ erp'.orders = [erp.orders EXCEPT ![Stored(w).order] = n]
<1> DEFINE r == Stored(w)
           o == erp.orders[r.order]
           q == r.previous.ordered
           s == r.previous.status
           n == [o EXCEPT !.ordered = q, !.status = s, !.version = @ + 1]
<1>1. r \in OrderResults
  BY CurrentCall, ResultKinds DEF Undoing, Active
<1>2. erp \in Tables /\ r.order \in Orders /\ q \in Nat /\ s \in OrderStatus /\ o \in Order
  BY <1>1 DEF Typed, TypeOK, Tables, Orders, OrderResults, Order
<1>3. RestoreOriginal(r)
  BY DEF Undoing, ReverseEffect
<1>4. erp' = [erp EXCEPT !.orders[r.order] = n]
  <2> HIDE DEF r
  <2> QED
    BY <1>2, <1>3 DEF RestoreOriginal, Tables, Order
<1>5. n \in Order /\ n.status = s
  <2> HIDE DEF o, q, s
  <2> QED
    BY <1>2, OrderUpdates
<1> HIDE DEF n, r
<1> QED
  BY <1>1, <1>2, <1>4, <1>5 DEF SameStock, SameNews, SameProduction, Tables, r

LEMMA UndoHold ==
  ASSUME Typed, NEW w \in Workflows, Undoing(w, {"place_purchase_order_hold"})
  PROVE  /\ erp' \in Tables /\ SameStock /\ SameNews /\ SameProduction
         /\ Stored(w) \in OrderResults
         /\ erp.orders[Stored(w).order].status = "on_hold"
         /\ \E n \in Order :
              /\ n.status = Stored(w).previous.status
              /\ erp'.orders = [erp.orders EXCEPT ![Stored(w).order] = n]
<1> DEFINE r == Stored(w)
           o == erp.orders[r.order]
           s == r.previous.status
           n == [o EXCEPT !.status = s, !.version = @ + 1]
<1>1. r \in OrderResults /\ CanRestoreHold(r)
  BY CurrentCall, ResultKinds DEF Undoing, Active, Refused
<1>2. erp \in Tables /\ r.order \in Orders /\ s \in OrderStatus /\ o \in Order
  BY <1>1 DEF Typed, TypeOK, Tables, Orders, OrderResults, Order
<1>3. RestoreHold(r)
  BY DEF Undoing, ReverseEffect
<1>4. erp' = [erp EXCEPT !.orders[r.order] = n]
  <2> HIDE DEF r
  <2> QED
    BY <1>2, <1>3 DEF RestoreHold, Tables, Order
<1>5. n \in Order /\ n.status = s
  <2>1. 0 \in Nat
    OBVIOUS
  <2> HIDE DEF o, s
  <2> QED
    BY <1>2, <2>1, OrderUpdates
<1> HIDE DEF n, r
<1> QED
  BY <1>1, <1>2, <1>4, <1>5 DEF SameStock, SameNews, SameProduction, Tables, CanRestoreHold, r

LEMMA UndoMessage ==
  ASSUME Typed, NEW w \in Workflows,
         Undoing(w, {"notify_production", "flag_shortage_to_purchasing"})
  PROVE  /\ erp' \in Tables /\ SameStock /\ SameOrders /\ SameProduction
         /\ <<w, at[w], "notice">> \in erp.messages
         /\ erp'.messages = erp.messages \cup {<<w, at[w], "correction">>}
         /\ erp'.checks = erp.checks
<1>1. erp \in Tables /\ at[w] \in Nat
  BY DEF Typed, TypeOK
<1>2. SendCorrection(w, at[w]) /\ CanCorrect(w, at[w])
  BY DEF Undoing, ReverseEffect, Refused
<1> QED
  BY <1>1, <1>2 DEF SendCorrection, CanCorrect, SameStock, SameOrders, SameProduction, Tables

LEMMA UndoCheck ==
  ASSUME Typed, NEW w \in Workflows, Undoing(w, {"schedule_arrival_check"})
  PROVE  /\ erp' \in Tables /\ SameStock /\ SameOrders /\ SameProduction
         /\ erp'.messages = erp.messages
         /\ erp'.checks = [erp.checks EXCEPT ![w] = "cancelled"]
<1>1. erp \in Tables
  BY DEF Typed, TypeOK
<1>2. CancelArrivalCheck(w)
  BY DEF Undoing, ReverseEffect
<1> QED
  BY <1>1, <1>2 DEF CancelArrivalCheck, SameStock, SameOrders, SameProduction, Tables

\* What the restoration of a move does to the lots and allocations.
MoveReturns(r) ==
  LET target   == Allocation(r.lot, r.to)
      source   == Allocation(r.lot, r.from)
      gone     == erp'.allocations[<<r.lot, r.to>>]
      returned == erp'.allocations[<<r.lot, r.from>>]
  IN /\ target.id = r.written.id /\ target.version = r.written.version
     /\ r.previousTarget = 0 => gone = NoAllocation
     /\ r.previousTarget # 0 => /\ gone.id = target.id /\ gone.version = target.version + 1
                                /\ gone.quantity = r.previousTarget
     /\ r.from # None =>
          /\ source.id = r.previousSource.id
          /\ source.version = r.previousSource.version + 1
          /\ returned.id = source.id /\ returned.version = source.version + 1
          /\ returned.quantity = r.previousSource.quantity
          /\ erp'.lots[r.lot].allocated = erp.lots[r.lot].allocated
     /\ r.from = None =>
          erp.lots[r.lot].allocated = erp'.lots[r.lot].allocated + r.quantity
     /\ erp'.lots[r.lot].quantity = erp.lots[r.lot].quantity
     /\ \A l \in Lots \ {r.lot} : erp'.lots[l] = erp.lots[l]
     /\ \A k \in AllocationKeys \ {<<r.lot, r.to>>, <<r.lot, r.from>>} :
          erp'.allocations[k] = erp.allocations[k]

LEMMA UndoMove ==
  ASSUME Typed, LocksInv, NEW w \in Workflows, Undoing(w, {"reallocate_lot"})
  PROVE  /\ erp' \in Tables /\ SameOrders /\ SameNews /\ SameProduction
         /\ Stored(w) \in MoveResults /\ MoveReturns(Stored(w))
<1> DEFINE r == Stored(w)
           lot    == erp.lots[r.lot]
           target == Allocation(r.lot, r.to)
           source == Allocation(r.lot, r.from)
           gone   == [target EXCEPT !.quantity = r.previousTarget, !.version = @ + 1]
           back   == [source EXCEPT !.quantity = r.previousSource.quantity, !.version = @ + 1]
           restored ==
             [k \in AllocationKeys |->
               IF k = <<r.lot, r.to>> THEN
                 IF r.previousTarget = 0 THEN NoAllocation
                 ELSE [erp.allocations[k] EXCEPT !.quantity = r.previousTarget,
                                                 !.version = @ + 1]
               ELSE IF k = <<r.lot, r.from>> THEN
                 [erp.allocations[k] EXCEPT !.quantity = r.previousSource.quantity,
                                            !.version = @ + 1]
               ELSE erp.allocations[k]]
           row == [lot EXCEPT !.allocated = r.previousLot.allocated,
                              !.production = r.previousLot.production, !.version = @ + 1]
<1>1. r \in MoveResults
  BY CurrentCall, ResultKinds DEF Undoing, Active
<1>2. /\ erp \in Tables /\ r.lot \in Lots /\ r.to \in Productions
      /\ r.from \in Productions \cup {None} /\ r.quantity \in Nat \ {0}
      /\ r.previousTarget \in Nat /\ r.previousLot \in Lot
      /\ r.previousSource \in AllocationRecord /\ r.from # r.to
  BY <1>1 DEF Typed, TypeOK, MoveResults
<1>3. RestoreAllocation(r)
  BY DEF Undoing, ReverseEffect
<1>4. /\ CanRestoreTarget(r) /\ CanRestoreLot(r)
      /\ r.from # None => CanRestoreSource(r)
  BY LotsMayReturn DEF Undoing
<1> HIDE DEF r
<1>5. lot \in Lot /\ target \in AllocationRecord /\ (r.from # None => source \in AllocationRecord)
  BY <1>2 DEF Tables, Allocation, AllocationKeys
<1>6. /\ gone \in AllocationRecord /\ gone.id = target.id
      /\ gone.quantity = r.previousTarget /\ gone.version = target.version + 1
  <2> DEFINE q == r.previousTarget
  <2> HIDE DEF target, q
  <2> QED
    BY <1>2, <1>5, AllocationUpdate DEF q
<1>7. r.from # None => /\ back \in AllocationRecord /\ back.id = source.id
                       /\ back.quantity = r.previousSource.quantity
                       /\ back.version = source.version + 1
  <2> DEFINE q == r.previousSource.quantity
  <2>1. q \in Nat
    BY <1>2 DEF AllocationRecord
  <2> HIDE DEF source, q
  <2>2. source \in AllocationRecord =>
          LET n == [source EXCEPT !.quantity = q, !.version = @ + 1]
          IN /\ n \in AllocationRecord
             /\ n.id = source.id /\ n.quantity = q /\ n.version = source.version + 1
    BY <2>1, AllocationUpdate
  <2> QED
    BY <1>5, <2>2 DEF q
<1>8. NoAllocation \in AllocationRecord
  BY DEF NoAllocation, AllocationRecord
<1>9. /\ <<r.lot, r.to>> \in AllocationKeys
      /\ restored[<<r.lot, r.to>>] = IF r.previousTarget = 0 THEN NoAllocation ELSE gone
      /\ r.from # None => /\ <<r.lot, r.from>> \in AllocationKeys
                          /\ restored[<<r.lot, r.from>>] = back
      /\ \A k \in AllocationKeys \ {<<r.lot, r.to>>, <<r.lot, r.from>>} :
           restored[k] = erp.allocations[k]
  BY <1>2 DEF AllocationKeys, Allocation, r
<1> HIDE DEF gone, back
<1>10. restored \in [AllocationKeys -> AllocationRecord]
  <2>1. ASSUME NEW k \in AllocationKeys PROVE restored[k] \in AllocationRecord
    <3>1. k = <<r.lot, r.from>> => r.from # None
      BY <1>2, RecordsAssumption DEF AllocationKeys
    <3>2. erp.allocations[k] \in AllocationRecord
      BY <1>2 DEF Tables
    <3> HIDE DEF restored
    <3> QED
      BY <3>1, <3>2, <1>6, <1>7, <1>8, <1>9
  <2> HIDE DEF gone
  <2>2. DOMAIN restored = AllocationKeys /\ restored = [k \in AllocationKeys |-> restored[k]]
    OBVIOUS
  <2> HIDE DEF restored
  <2> QED
    BY <2>1, <2>2
<1>11. row \in Lot /\ row.allocated = r.previousLot.allocated /\ row.quantity = lot.quantity
  <2> DEFINE q == r.previousLot.allocated
             p == r.previousLot.production
             v == lot.version + 1
  <2>1. q \in Nat /\ p \in Productions \cup {None} /\ v \in Nat
    BY <1>2, <1>5 DEF Lot
  <2>2. row = LotWith(lot, q, p, v)
    BY DEF LotWith
  <2> HIDE DEF lot, row, q, p, v
  <2>3. LotWith(lot, q, p, v) \in Lot /\ LotWith(lot, q, p, v).allocated = q
        /\ LotWith(lot, q, p, v).quantity = lot.quantity
    BY <1>5, <2>1, LotRowUpdate
  <2> QED
    BY <2>2, <2>3 DEF q
<1>12. erp' = [erp EXCEPT !.allocations = restored, !.lots[r.lot] = row]
  BY <1>3 DEF RestoreAllocation
<1> HIDE DEF row, restored
<1>13. /\ erp' \in Tables /\ SameOrders /\ SameNews /\ SameProduction
       /\ erp'.allocations = restored
       /\ erp'.lots = [erp.lots EXCEPT ![r.lot] = row]
  BY <1>2, <1>10, <1>11, <1>12, TablesWith
<1>14. erp.lots \in [Lots -> Lot]
  BY <1>2 DEF Tables
<1>15. /\ lot.allocated = r.previousLot.allocated + (IF r.from = None THEN r.quantity ELSE 0)
       /\ target.id = r.written.id /\ target.version = r.written.version
       /\ r.from # None => /\ source.id = r.previousSource.id
                           /\ source.version = r.previousSource.version + 1
  BY <1>4 DEF CanRestoreLot, CanRestoreTarget, CanRestoreSource, Is
<1>16. MoveReturns(r)
  <2>1. r.previousLot.allocated \in Nat
    BY <1>2 DEF Lot
  <2> QED
    BY <1>2, <1>6, <1>7, <1>9, <1>11, <1>13, <1>14, <1>15, <2>1 DEF MoveReturns
<1> QED
  BY <1>1, <1>13, <1>16 DEF r

\* A call that is committed leaves a result of its own kind, one that is
\* undone none.
LEMMA CommitWrites ==
  ASSUME Typed, LocksInv, NEW w \in Workflows, Commit(w)
  PROVE  /\ erp' \in Tables /\ SameProduction
         /\ \E r \in Results : r.tool = Call(w).tool /\ Recorded(w, r)
<1>1. mode[w] = "running" /\ ~Wants(w) /\ ~Refused(w) /\ Effect(w, at[w], Call(w))
  BY DEF Commit
<1>2. Call(w) \in Calls
  BY <1>1, CurrentCall DEF Active
<1>3. CASE Call(w).tool = "create_replacement_po"
  BY <1>1, <1>3, CommitCreate DEF Committing, Results
<1>4. CASE Call(w).tool = "reduce_or_cancel_po"
  BY <1>1, <1>4, CommitReduce DEF Committing, Results
<1>5. CASE Call(w).tool = "place_purchase_order_hold"
  BY <1>1, <1>5, CommitHold DEF Committing, Results
<1>6. CASE Call(w).tool \in {"notify_production", "flag_shortage_to_purchasing"}
  BY <1>1, <1>6, CommitMessage DEF Committing, Results
<1>7. CASE Call(w).tool = "schedule_arrival_check"
  BY <1>1, <1>7, CommitCheck DEF Committing, Results
<1>8. CASE Call(w).tool = "reallocate_lot"
  BY <1>1, <1>8, CommitMove DEF Committing, Results
<1> QED
  BY <1>2, <1>3, <1>4, <1>5, <1>6, <1>7, <1>8, CallFields

LEMMA CompensateWrites ==
  ASSUME Typed, LocksInv, NEW w \in Workflows, Compensate(w)
  PROVE  /\ erp' \in Tables /\ SameProduction
         /\ Recorded(w, NoResult)
<1>1. mode[w] = "compensating" /\ ~Wants(w) /\ ~Refused(w) /\ ReverseEffect(w, at[w], Stored(w))
  BY DEF Compensate
<1>2. Recorded(w, NoResult)
  BY DEF Compensate, Recorded
<1>3. CASE Stored(w).tool = "create_replacement_po"
  BY <1>1, <1>2, <1>3, UndoCreate DEF Undoing
<1>4. CASE Stored(w).tool = "reduce_or_cancel_po"
  BY <1>1, <1>2, <1>4, UndoReduce DEF Undoing
<1>5. CASE Stored(w).tool = "place_purchase_order_hold"
  BY <1>1, <1>2, <1>5, UndoHold DEF Undoing
<1>6. CASE Stored(w).tool \in {"notify_production", "flag_shortage_to_purchasing"}
  BY <1>1, <1>2, <1>6, UndoMessage DEF Undoing
<1>7. CASE Stored(w).tool = "schedule_arrival_check"
  BY <1>1, <1>2, <1>7, UndoCheck DEF Undoing
<1>8. CASE Stored(w).tool = "reallocate_lot"
  BY <1>1, <1>2, <1>8, UndoMove DEF Undoing
<1> QED
  BY <1>1, <1>3, <1>4, <1>5, <1>6, <1>7, <1>8 DEF ReverseEffect

\* A workflow that did not take the step, or only locked a row in it.
Steady(v) ==
  plan' = plan /\ mode'[v] = mode[v] /\ at'[v] = at[v] /\ result'[v] = result[v]

Kept(v) == Steady(v) /\ locked'[v] = locked[v]

LEMMA SteadyWorkflow ==
  ASSUME NEW v \in Workflows, Steady(v)
  PROVE  /\ Call(v)' = Call(v) /\ Stored(v)' = Stored(v) /\ Rows(v)' = Rows(v)
         /\ (Moves(v)' <=> Moves(v)) /\ (Active(v)' <=> Active(v))
         /\ Phase(v)' <=> Phase(v)
<1>1. Call(v)' = Call(v) /\ Stored(v)' = Stored(v)
  BY DEF Steady, Call, Stored
<1>2. Rows(v)' = Rows(v)
  BY <1>1 DEF Steady, Rows, ForwardRows, BackwardRows, LotRow, AllocationRow, ProductionRow,
              QueryStart
<1> QED
  BY <1>1, <1>2 DEF Steady, Moves, Active, Phase, InJournal

LEMMA KeptWorkflow ==
  ASSUME NEW v \in Workflows, Kept(v)
  PROVE  Held(v)' = Held(v)
BY SteadyWorkflow DEF Kept, Held, QueryStart

LEMMA RecordedRows ==
  ASSUME Typed, NEW w \in Workflows, Active(w), NEW r \in Results, Recorded(w, r)
  PROVE  /\ DOMAIN result' = Workflows
         /\ result'[w] \in [DOMAIN plan[w] -> Results]
         /\ result'[w][at[w]] = r
         /\ \A i \in DOMAIN plan[w] \ {at[w]} : result'[w][i] = result[w][i]
         /\ \A v \in Workflows \ {w} : result'[v] = result[v]
<1>1. DOMAIN result = Workflows /\ result[w] \in [DOMAIN plan[w] -> Results]
  BY DEF Typed
<1>2. at[w] \in DOMAIN plan[w]
  BY CurrentCall
<1> QED
  BY <1>1, <1>2 DEF Recorded

\* What a step leaves of the types: one workflow moves, its locks are gone.
LEMMA TypedNext ==
  ASSUME Typed, NEW w \in Workflows, plan' = plan, erp' \in Tables,
         mode' \in [Workflows -> Modes], at' \in [Workflows -> Nat \ {0}],
         DOMAIN result' = Workflows, locked' = [locked EXCEPT ![w] = 0],
         \A v \in Workflows \ {w} :
           mode'[v] = mode[v] /\ at'[v] = at[v] /\ result'[v] = result[v],
         at'[w] <= Len(plan[w]) + 1, Active(w)' => at'[w] <= Len(plan[w]),
         result'[w] \in [DOMAIN plan[w] -> Results], Phase(w)'
  PROVE  Typed'
<1>1. \A v \in Workflows \ {w} : Kept(v)
  BY DEF Kept, Steady, Typed
<1>2. plan' \in [Workflows -> Seq(Calls)] /\ locked' \in [Workflows -> Nat]
  BY DEF Typed, TypeOK
<1>3. locked'[w] = 0 /\ \A v \in Workflows \ {w} : locked'[v] = locked[v]
  BY DEF Typed
<1>4. \A v \in Workflows : Active(v)' => Call(v)' \in Calls
  <2> SUFFICES ASSUME NEW v \in Workflows, Active(v)' PROVE Call(v)' \in Calls
    OBVIOUS
  <2>1. plan[v] \in Seq(Calls)
    BY DEF Typed, TypeOK
  <2>2. at'[v] \in 1..Len(plan[v])
    <3>1. CASE v = w
      BY <2>1, <3>1
    <3>2. CASE v # w
      BY <1>1, <3>2, SteadyWorkflow DEF Typed, TypeOK, Kept, Steady
    <3> QED
      BY <3>1, <3>2
  <2> QED
    BY <2>1, <2>2 DEF Call
<1>5. RowsCounted'
  BY CountedRows, PTL
<1>6. \A v \in Workflows : Len(Rows(v)') \in Nat
  BY <1>4, <1>5 DEF Active, RowsCounted
<1>7. ASSUME NEW v \in Workflows
      PROVE  /\ at'[v] \in 1..(Len(plan'[v]) + 1) /\ (Active(v)' => at'[v] <= Len(plan'[v]))
             /\ locked'[v] \in 0..Len(Rows(v)')
             /\ DOMAIN result'[v] = DOMAIN plan'[v]
             /\ result'[v] \in [DOMAIN plan'[v] -> Results]
             /\ IsReroute(plan[v]) \/ IsBounded(plan[v])
             /\ Phase(v)'
  <2>1. CASE v = w
    <3>1. plan[w] \in Seq(Calls) /\ (IsReroute(plan[w]) \/ IsBounded(plan[w]))
      BY DEF Typed, TypeOK
    <3> QED
      BY <2>1, <3>1, <1>2, <1>3, <1>6
  <2>2. CASE v # w
    <3>1. Kept(v)
      BY <1>1, <2>2
    <3> QED
      BY <3>1, SteadyWorkflow DEF Typed, TypeOK, Kept, Steady
  <2> QED
    BY <2>1, <2>2
<1>8. (\A v \in Workflows : IsReroute(plan[v]) \/ IsBounded(plan[v]))'
  BY <1>7 DEF IsReroute, IsBounded
<1>9. TypeOK'
  BY <1>2, <1>7 DEF TypeOK
<1> QED
  BY <1>2, <1>7, <1>8, <1>9 DEF Typed

\* What others do leaves the journal, the allocations and every locked row
\* alone.
LEMMA OthersWrite ==
  ASSUME Typed, Others
  PROVE  /\ erp' \in Tables /\ UNCHANGED <<result, flowVars>>
         /\ erp'.allocations = erp.allocations /\ erp'.messages = erp.messages
         /\ \A l \in Lots : /\ erp'.lots[l].quantity = erp.lots[l].quantity
                           /\ erp'.lots[l].allocated = erp.lots[l].allocated
         /\ \A l \in Lots : ~LockFree(LotRow(l)) => erp'.lots[l] = erp.lots[l]
         /\ \A p \in Productions :
              ~LockFree(ProductionRow(p)) => erp'.production[p] = erp.production[p]
         /\ \A w \in Workflows : erp'.checks[w] = "pending" => erp.checks[w] = "pending"
         /\ \A o \in Orders :
              \/ erp'.orders[o] = erp.orders[o]
              \/ /\ erp.orders[o].status \in {"open", "delayed"}
                 /\ erp'.orders[o].status \in {erp.orders[o].status, "received"}
<1>1. erp \in Tables
  BY DEF Typed, TypeOK
<1>2. UNCHANGED <<result, flowVars>>
  BY DEF Others, ReceiveGoods, EndProduction, BlockLot, TakeCheck, TurnLate, Disturb
<1>3. ASSUME NEW o \in Orders, NEW q \in 1..2, ReceiveGoods(o, q)
      PROVE  /\ erp' \in Tables /\ SameStock /\ SameNews /\ SameProduction
             /\ \A x \in Orders :
                  \/ erp'.orders[x] = erp.orders[x]
                  \/ /\ erp.orders[x].status \in {"open", "delayed"}
                     /\ erp'.orders[x].status \in {erp.orders[x].status, "received"}
  <2> DEFINE order == erp.orders[o]
             s == IF order.received + q = order.ordered THEN "received" ELSE order.status
             n == [order EXCEPT !.received = @ + q, !.version = @ + 1, !.status = s]
  <2>1. order \in Order /\ order.status \in {"open", "delayed"}
    BY <1>1, <1>3 DEF Tables, ReceiveGoods
  <2>2. s \in OrderStatus /\ s \in {order.status, "received"}
    BY <2>1 DEF OrderStatus, Order
  <2>3. erp' = [erp EXCEPT !.orders[o] = n]
    BY <1>3 DEF ReceiveGoods, Disturb
  <2>4. n \in Order /\ n.status = s
    <3> HIDE DEF order, s
    <3>1. \A m \in Order : /\ [m EXCEPT !.received = @ + q] \in Order
                          /\ [m EXCEPT !.version = @ + 1] \in Order
                          /\ [m EXCEPT !.status = s] \in Order
      BY <2>2 DEF Order
    <3>2. n = [[[order EXCEPT !.received = @ + q] EXCEPT !.version = @ + 1] EXCEPT !.status = s]
      OBVIOUS
    <3>3. n.status = s
      BY <2>1 DEF Order
    <3> QED
      BY <2>1, <3>1, <3>2, <3>3
  <2> HIDE DEF n
  <2>5. /\ erp' \in Tables /\ SameStock /\ SameNews /\ SameProduction
        /\ erp'.orders = [erp.orders EXCEPT ![o] = n]
    BY <1>1, <2>3, <2>4 DEF Tables, SameStock, SameNews, SameProduction
  <2>6. erp.orders \in [Orders -> Order]
    BY <1>1 DEF Tables
  <2> QED
    BY <2>1, <2>2, <2>4, <2>5, <2>6
<1>4. ASSUME NEW p \in Productions, EndProduction(p)
      PROVE  /\ erp' \in Tables /\ SameStock /\ SameNews /\ SameOrders
             /\ LockFree(ProductionRow(p))
             /\ \A q \in Productions \ {p} : erp'.production[q] = erp.production[q]
  BY <1>1, <1>4 DEF EndProduction, Disturb, Tables, SameStock, SameNews, SameOrders
<1>5. ASSUME NEW l \in Lots, BlockLot(l)
      PROVE  /\ erp' \in Tables /\ SameOrders /\ SameNews /\ SameProduction
             /\ erp'.allocations = erp.allocations
             /\ LockFree(LotRow(l))
             /\ erp'.lots[l].quantity = erp.lots[l].quantity
             /\ erp'.lots[l].allocated = erp.lots[l].allocated
             /\ \A m \in Lots \ {l} : erp'.lots[m] = erp.lots[m]
  <2> DEFINE lot == erp.lots[l]
             n == [lot EXCEPT !.status = "on_hold", !.version = @ + 1]
  <2>1. lot \in Lot
    BY <1>1 DEF Tables
  <2>2. erp' = [erp EXCEPT !.lots[l] = n]
    BY <1>1, <1>5, <2>1 DEF BlockLot, Disturb, Tables, Lot
  <2>3. n \in Lot /\ n.quantity = lot.quantity /\ n.allocated = lot.allocated
    <3>1. \A m \in Lot : /\ [m EXCEPT !.status = "on_hold"] \in Lot
                        /\ [m EXCEPT !.version = @ + 1] \in Lot
      BY DEF Lot
    <3>2. n = [[lot EXCEPT !.status = "on_hold"] EXCEPT !.version = @ + 1]
      OBVIOUS
    <3>3. n.quantity = lot.quantity /\ n.allocated = lot.allocated
      BY <2>1 DEF Lot
    <3> HIDE DEF lot, n
    <3> QED
      BY <2>1, <3>1, <3>2, <3>3
  <2> HIDE DEF n
  <2>4. /\ erp' \in Tables /\ SameOrders /\ SameNews /\ SameProduction
        /\ erp'.allocations = erp.allocations
        /\ erp'.lots = [erp.lots EXCEPT ![l] = n]
    BY <1>1, <2>2, <2>3 DEF Tables, SameOrders, SameNews, SameProduction
  <2>5. LockFree(LotRow(l)) /\ erp.lots \in [Lots -> Lot]
    BY <1>1, <1>5 DEF BlockLot, Tables
  <2> QED
    BY <2>3, <2>4, <2>5
<1>6. ASSUME NEW w \in Workflows, TakeCheck(w)
      PROVE  /\ erp' \in Tables /\ SameOrders /\ SameStock /\ SameProduction
             /\ erp'.messages = erp.messages
             /\ \A v \in Workflows : erp'.checks[v] = "pending" => erp.checks[v] = "pending"
  BY <1>1, <1>6 DEF TakeCheck, Disturb, Tables, SameOrders, SameStock, SameProduction
<1>7. ASSUME TurnLate
      PROVE  erp' \in Tables /\ SameOrders /\ SameStock /\ SameProduction /\ SameNews
  BY <1>1, <1>7 DEF TurnLate, Disturb, Tables, SameOrders, SameStock, SameProduction, SameNews
<1>8. CASE \E o \in Orders : \E q \in 1..2 : ReceiveGoods(o, q)
  BY <1>2, <1>3, <1>8 DEF SameStock, SameNews, SameProduction
<1>9. CASE \E p \in Productions : EndProduction(p)
  BY <1>2, <1>4, <1>9 DEF SameStock, SameNews, SameOrders
<1>10. CASE \E l \in Lots : BlockLot(l)
  BY <1>2, <1>5, <1>10 DEF SameOrders, SameNews, SameProduction
<1>11. CASE \E w \in Workflows : TakeCheck(w)
  BY <1>2, <1>6, <1>11 DEF SameOrders, SameStock, SameProduction
<1>12. CASE TurnLate
  BY <1>2, <1>7, <1>12 DEF SameOrders, SameStock, SameProduction, SameNews
<1> QED
  BY <1>8, <1>9, <1>10, <1>11, <1>12 DEF Others

LEMMA StepsAre ==
  ASSUME Typed, [Next]_vars
  PROVE  \/ Others
         \/ \E w \in Workflows :
              Lock(w) \/ Commit(w) \/ Refuse(w) \/ Compensate(w) \/ GetStuck(w) \/ RollBack(w)
         \/ UNCHANGED vars
BY DEF Next, Progress

-----------------------------------------------------------------------------
(* Locks.                                                                  *)

LEMMA RowNames ==
  /\ \A l, m : LotRow(l) = LotRow(m) => l = m
  /\ \A p, q : ProductionRow(p) = ProductionRow(q) => p = q
  /\ \A l, p, m, q : AllocationRow(l, p) = AllocationRow(m, q) => l = m /\ p = q
  /\ \A l, p : LotRow(l) # ProductionRow(p) /\ LotRow(l) # QueryStart /\ ProductionRow(p) # QueryStart
  /\ \A l, m, p, q : /\ AllocationRow(l, p) # LotRow(m) /\ AllocationRow(l, p) # ProductionRow(q)
                     /\ AllocationRow(l, p) # QueryStart
BY DEF LotRow, ProductionRow, AllocationRow, QueryStart

SameRow(row) ==
  /\ \A l \in Lots : row = LotRow(l) => erp'.lots[l] = erp.lots[l]
  /\ \A p \in Productions : row = ProductionRow(p) => erp'.production[p] = erp.production[p]
  /\ \A k \in AllocationKeys :
       row = AllocationRow(k[1], k[2]) => erp'.allocations[k] = erp.allocations[k]

\* The rows of a move, by what they are.
LEMMA MoveRows ==
  ASSUME NEW w \in Workflows, mode[w] = "running", Call(w).tool = "reallocate_lot"
  PROVE  LET a == Call(w) IN
         /\ a.from = None =>
              Rows(w) = <<LotRow(a.lot), ProductionRow(a.to), AllocationRow(a.lot, a.to)>>
         /\ a.from # None =>
              Rows(w) = <<LotRow(a.lot), AllocationRow(a.lot, a.from), ProductionRow(a.to),
                          AllocationRow(a.lot, a.to)>>
BY DEF Rows, ForwardRows

LEMMA ReturnRows ==
  ASSUME NEW w \in Workflows, mode[w] = "compensating", Stored(w).tool = "reallocate_lot"
  PROVE  LET r == Stored(w) IN
         /\ r.from = None => Rows(w) = <<AllocationRow(r.lot, r.to), LotRow(r.lot)>>
         /\ r.from # None =>
              Rows(w) = <<AllocationRow(r.lot, r.to), AllocationRow(r.lot, r.from), LotRow(r.lot)>>
BY DEF Rows, BackwardRows

\* What was read in a row stays true while the rows up to it are unchanged.
LEMMA RefusalStays ==
  ASSUME Typed, NEW v \in Workflows, Moves(v), Steady(v), NEW k \in 1..Len(Rows(v)),
         \A j \in 1..k : SameRow(Rows(v)[j]), ~RowRefused(v, Rows(v)[k])
  PROVE  ~RowRefused(v, Rows(v)[k])'
<1>1. Rows(v)' = Rows(v) /\ Call(v)' = Call(v) /\ Stored(v)' = Stored(v) /\ mode'[v] = mode[v]
  BY SteadyWorkflow DEF Steady
<1>2. CASE mode[v] = "running"
  <2> DEFINE a == Call(v)
  <2>1. /\ a.tool = "reallocate_lot" /\ a.lot \in Lots /\ a.from \in Productions \cup {None}
        /\ a.to \in Productions /\ a.from # a.to
    BY <1>2, CurrentCall, CallFields DEF Moves, Active
  <2>2. CASE a.from = None
    <3>1. Rows(v) = <<LotRow(a.lot), ProductionRow(a.to), AllocationRow(a.lot, a.to)>>
      BY <1>2, <2>1, <2>2, MoveRows
    <3> HIDE DEF a
    <3>2. CASE k = 1
      <4>1. Rows(v)[k] = LotRow(a.lot) /\ erp'.lots[a.lot] = erp.lots[a.lot]
        BY <2>1, <3>1, <3>2 DEF SameRow
      <4> QED
        BY <1>1, <1>2, <2>1, <2>2, <4>1, RowNames DEF RowRefused, LotAllows, a
    <3>3. CASE k = 2
      <4>1. /\ Rows(v)[k] = ProductionRow(a.to)
            /\ erp'.production[a.to] = erp.production[a.to]
        BY <2>1, <3>1, <3>3 DEF SameRow
      <4> QED
        BY <1>1, <1>2, <2>1, <2>2, <4>1, RowNames DEF RowRefused, a
    <3>4. CASE k = 3
      <4>1. Rows(v)[k] = AllocationRow(a.lot, a.to)
        BY <3>1, <3>4
      <4> QED
        BY <1>1, <1>2, <2>1, <2>2, <4>1, RowNames DEF RowRefused, a
    <3> QED
      BY <3>1, <3>2, <3>3, <3>4
  <2>3. CASE a.from # None
    <3>1. Rows(v) = <<LotRow(a.lot), AllocationRow(a.lot, a.from), ProductionRow(a.to),
                      AllocationRow(a.lot, a.to)>>
      BY <1>2, <2>1, <2>3, MoveRows
    <3>2. <<a.lot, a.from>> \in AllocationKeys
      BY <2>1, <2>3 DEF AllocationKeys
    <3> HIDE DEF a
    <3>3. CASE k = 1
      <4>1. Rows(v)[k] = LotRow(a.lot) /\ erp'.lots[a.lot] = erp.lots[a.lot]
        BY <2>1, <3>1, <3>3 DEF SameRow
      <4> QED
        BY <1>1, <1>2, <2>1, <2>3, <4>1, RowNames DEF RowRefused, LotAllows, a
    <3>4. CASE k = 2
      <4>1. Rows(v)[1] = LotRow(a.lot) /\ Rows(v)[k] = AllocationRow(a.lot, a.from)
        BY <3>1, <3>4
      <4>2. SameRow(LotRow(a.lot)) /\ SameRow(AllocationRow(a.lot, a.from))
        BY <3>4, <4>1
      <4>3. /\ erp'.lots[a.lot] = erp.lots[a.lot]
            /\ erp'.allocations[<<a.lot, a.from>>] = erp.allocations[<<a.lot, a.from>>]
        BY <2>1, <3>2, <4>2 DEF SameRow
      <4> QED
        BY <1>1, <1>2, <2>1, <2>3, <4>1, <4>3, RowNames
           DEF RowRefused, SourceAllows, Exists, Allocation, a
    <3>5. CASE k = 3
      <4>1. /\ Rows(v)[k] = ProductionRow(a.to)
            /\ erp'.production[a.to] = erp.production[a.to]
        BY <2>1, <3>1, <3>5 DEF SameRow
      <4> QED
        BY <1>1, <1>2, <2>1, <2>3, <4>1, RowNames DEF RowRefused, a
    <3>6. CASE k = 4
      <4>1. Rows(v)[k] = AllocationRow(a.lot, a.to)
        BY <3>1, <3>6
      <4> QED
        BY <1>1, <1>2, <2>1, <2>3, <4>1, RowNames DEF RowRefused, a
    <3> QED
      BY <3>1, <3>3, <3>4, <3>5, <3>6
  <2> QED
    BY <2>2, <2>3
<1>3. CASE mode[v] = "compensating"
  <2> DEFINE r == Stored(v)
  <2>1. /\ r.tool = "reallocate_lot" /\ r.lot \in Lots /\ r.from \in Productions \cup {None}
        /\ r.to \in Productions /\ r.from # r.to
    BY <1>3, CurrentCall, ResultKinds DEF Moves, Active, MoveResults
  <2>2. <<r.lot, r.to>> \in AllocationKeys
        /\ (r.from # None => <<r.lot, r.from>> \in AllocationKeys)
    BY <2>1 DEF AllocationKeys
  <2>3. k \in 1..3 /\ Rows(v)[k] \in {AllocationRow(r.lot, r.to), AllocationRow(r.lot, r.from),
                                      LotRow(r.lot)}
        /\ (Rows(v)[k] = AllocationRow(r.lot, r.from) => r.from # None)
    <3>1. CASE r.from = None
      BY <1>3, <2>1, <3>1, ReturnRows, RowNames
    <3>2. CASE r.from # None
      BY <1>3, <2>1, <3>2, ReturnRows, RowNames
    <3> QED
      BY <3>1, <3>2
  <2>4. SameRow(Rows(v)[k])
    OBVIOUS
  <2> HIDE DEF r
  <2>5. CASE Rows(v)[k] = AllocationRow(r.lot, r.to)
    <3>1. erp'.allocations[<<r.lot, r.to>>] = erp.allocations[<<r.lot, r.to>>]
      BY <2>2, <2>4, <2>5 DEF SameRow
    <3> QED
      BY <1>1, <1>3, <2>1, <2>5, <3>1, RowNames
         DEF RowRefused, CanRestoreTarget, Allocation, Is, r
  <2>6. CASE Rows(v)[k] = AllocationRow(r.lot, r.from)
    <3>1. r.from # None /\ erp'.allocations[<<r.lot, r.from>>] = erp.allocations[<<r.lot, r.from>>]
      BY <2>2, <2>3, <2>4, <2>6 DEF SameRow
    <3> QED
      BY <1>1, <1>3, <2>1, <2>6, <3>1, RowNames
         DEF RowRefused, CanRestoreSource, Allocation, Is, r
  <2>7. CASE Rows(v)[k] = LotRow(r.lot)
    <3>1. erp'.lots[r.lot] = erp.lots[r.lot]
      BY <2>1, <2>4, <2>7 DEF SameRow
    <3> QED
      BY <1>1, <1>3, <2>1, <2>7, <3>1, RowNames DEF RowRefused, CanRestoreLot, r
  <2> QED
    BY <2>3, <2>5, <2>6, <2>7
<1> QED
  BY <1>2, <1>3 DEF Moves

LEMMA LocksNext ==
  ASSUME Typed, LocksInv,
         \A v \in Workflows :
           \/ locked'[v] = 0
           \/ Kept(v) /\ (Moves(v) => \A row \in Held(v) : SameRow(row))
  PROVE  LocksInv'
<1>1. \A v \in Workflows : locked'[v] = 0 => Held(v)' = {}
  BY DEF Held
<1>2. ASSUME NEW v \in Workflows, NEW w \in Workflows, v # w, Moves(v)', Moves(w)'
      PROVE  (Held(v) \cap Held(w))' = {}
  <2>1. CASE locked'[v] = 0 \/ locked'[w] = 0
    BY <1>1, <2>1
  <2>2. CASE Kept(v) /\ Kept(w)
    BY <1>2, <2>2, KeptWorkflow, SteadyWorkflow DEF LocksInv, Kept
  <2> QED
    BY <2>1, <2>2
<1>3. ASSUME NEW w \in Workflows, Moves(w)', NEW k \in 1..(locked'[w] - 1)
      PROVE  ~RowRefused(w, Rows(w)[k])'
  <2>1. locked'[w] # 0
    BY <1>3
  <2>2. Kept(w) /\ Steady(w) /\ locked'[w] = locked[w]
    BY <2>1 DEF Kept
  <2>3. Moves(w) /\ locked[w] \in 0..Len(Rows(w)) /\ Len(Rows(w)) \in Nat
    BY <1>3, <2>2, SteadyWorkflow, CountedRows, CurrentCall
       DEF Typed, TypeOK, RowsCounted, Moves, Active
  <2>4. k \in 1..Len(Rows(w)) /\ k \in 1..(locked[w] - 1)
    BY <1>3, <2>2, <2>3
  <2>5. \A j \in 1..k : SameRow(Rows(w)[j])
    <3> SUFFICES ASSUME NEW j \in 1..k PROVE SameRow(Rows(w)[j])
      OBVIOUS
    <3>1. j \in 1..locked[w]
      BY <2>3, <2>4
    <3>2. CASE Rows(w)[j] = QueryStart
      BY <3>2, RowNames DEF SameRow
    <3>3. CASE Rows(w)[j] # QueryStart
      BY <3>1, <3>3, <2>1, <2>3 DEF Held
    <3> QED
      BY <3>2, <3>3
  <2>6. ~RowRefused(w, Rows(w)[k])
    BY <2>3, <2>4 DEF LocksInv
  <2> QED
    BY <2>2, <2>3, <2>4, <2>5, <2>6, RefusalStays
<1> QED
  BY <1>2, <1>3 DEF LocksInv

\* A transaction that writes lots and allocations holds the rows it writes.
LEMMA WritesLocked ==
  ASSUME Typed, LocksInv, NEW w \in Workflows, Commit(w) \/ Compensate(w),
         NEW v \in Workflows \ {w}, Moves(v)
  PROVE  \A row \in Held(v) : SameRow(row)
<1>1. Active(w) /\ ~Wants(w)
  BY DEF Commit, Compensate, Active
<1>2. locked[w] = Len(Rows(w))
  BY <1>1, AllLocked
<1>3. Moves(w) => Held(v) \cap Held(w) = {}
  BY DEF LocksInv
<1>4. CASE SameStock /\ SameProduction
  BY <1>4 DEF SameStock, SameProduction, SameRow
<1>5. CASE Commit(w) /\ Call(w).tool = "reallocate_lot"
  <2> DEFINE a == Call(w)
  <2>1. mode[w] = "running" /\ Moves(w)
    BY <1>5 DEF Commit, Moves
  <2>2. /\ LotRow(a.lot) \in Held(w) /\ AllocationRow(a.lot, a.to) \in Held(w)
        /\ a.from # None => AllocationRow(a.lot, a.from) \in Held(w)
    <3>1. CASE a.from = None
      <4>1. Rows(w) = <<LotRow(a.lot), ProductionRow(a.to), AllocationRow(a.lot, a.to)>>
        BY <1>5, <2>1, <3>1, MoveRows
      <4>2. locked[w] = 3 /\ Rows(w)[1] = LotRow(a.lot) /\ Rows(w)[3] = AllocationRow(a.lot, a.to)
        BY <4>1, <1>2
      <4> QED
        BY <3>1, <4>2, RowNames DEF Held
    <3>2. CASE a.from # None
      <4>1. Rows(w) = <<LotRow(a.lot), AllocationRow(a.lot, a.from), ProductionRow(a.to),
                        AllocationRow(a.lot, a.to)>>
        BY <1>5, <2>1, <3>2, MoveRows
      <4>2. /\ locked[w] = 4 /\ Rows(w)[1] = LotRow(a.lot)
            /\ Rows(w)[2] = AllocationRow(a.lot, a.from)
            /\ Rows(w)[4] = AllocationRow(a.lot, a.to)
        BY <4>1, <1>2
      <4> QED
        BY <4>2, RowNames DEF Held
    <3> QED
      BY <3>1, <3>2
  <2>3. PICK r \in MoveResults : /\ SameProduction /\ MoveWrites(w, r)
                                 /\ r.lot = a.lot /\ r.from = a.from /\ r.to = a.to
    BY <1>5, <2>1, CommitMove DEF Commit, Committing
  <2> HIDE DEF a
  <2>4. /\ \A l \in Lots \ {a.lot} : erp'.lots[l] = erp.lots[l]
        /\ \A k \in AllocationKeys \ {<<a.lot, a.to>>, <<a.lot, a.from>>} :
             erp'.allocations[k] = erp.allocations[k]
    BY <2>3 DEF MoveWrites
  <2>5. \A k \in AllocationKeys : k[1] \in Lots /\ k[2] \in Productions /\ k = <<k[1], k[2]>>
    BY DEF AllocationKeys
  <2>6. None \notin Productions
    BY RecordsAssumption
  <2> QED
    BY <1>3, <2>1, <2>2, <2>3, <2>4, <2>5, <2>6 DEF SameRow, SameProduction
<1>6. CASE Compensate(w) /\ Stored(w).tool = "reallocate_lot"
  <2> DEFINE r == Stored(w)
  <2>1. mode[w] = "compensating" /\ Moves(w)
    BY <1>6 DEF Compensate, Moves
  <2>2. /\ LotRow(r.lot) \in Held(w) /\ AllocationRow(r.lot, r.to) \in Held(w)
        /\ r.from # None => AllocationRow(r.lot, r.from) \in Held(w)
    <3>1. CASE r.from = None
      <4>1. Rows(w) = <<AllocationRow(r.lot, r.to), LotRow(r.lot)>>
        BY <1>6, <2>1, <3>1, ReturnRows
      <4>2. locked[w] = 2 /\ Rows(w)[2] = LotRow(r.lot) /\ Rows(w)[1] = AllocationRow(r.lot, r.to)
        BY <4>1, <1>2
      <4> QED
        BY <3>1, <4>2, RowNames DEF Held
    <3>2. CASE r.from # None
      <4>1. Rows(w) = <<AllocationRow(r.lot, r.to), AllocationRow(r.lot, r.from), LotRow(r.lot)>>
        BY <1>6, <2>1, <3>2, ReturnRows
      <4>2. /\ locked[w] = 3 /\ Rows(w)[3] = LotRow(r.lot)
            /\ Rows(w)[2] = AllocationRow(r.lot, r.from)
            /\ Rows(w)[1] = AllocationRow(r.lot, r.to)
        BY <4>1, <1>2
      <4> QED
        BY <4>2, RowNames DEF Held
    <3> QED
      BY <3>1, <3>2
  <2>3. r \in MoveResults /\ SameProduction /\ MoveReturns(r)
    BY <1>6, <2>1, UndoMove DEF Compensate, Undoing
  <2> HIDE DEF r
  <2>4. /\ \A l \in Lots \ {r.lot} : erp'.lots[l] = erp.lots[l]
        /\ \A k \in AllocationKeys \ {<<r.lot, r.to>>, <<r.lot, r.from>>} :
             erp'.allocations[k] = erp.allocations[k]
    BY <2>3 DEF MoveReturns
  <2>5. \A k \in AllocationKeys : k[1] \in Lots /\ k[2] \in Productions /\ k = <<k[1], k[2]>>
    BY DEF AllocationKeys
  <2>6. None \notin Productions
    BY RecordsAssumption
  <2> QED
    BY <1>3, <2>1, <2>2, <2>3, <2>4, <2>5, <2>6 DEF SameRow, SameProduction
<1>7. CASE Commit(w) /\ Call(w).tool # "reallocate_lot"
  <2>1. Call(w) \in Calls /\ mode[w] = "running"
    BY <1>1, <1>7, CurrentCall DEF Commit
  <2>2. SameStock /\ SameProduction
    <3>1. CASE Call(w).tool = "create_replacement_po"
      BY <1>7, <3>1, CommitCreate DEF Committing, Commit
    <3>2. CASE Call(w).tool = "reduce_or_cancel_po"
      BY <1>7, <3>2, CommitReduce DEF Committing, Commit
    <3>3. CASE Call(w).tool = "place_purchase_order_hold"
      BY <1>7, <3>3, CommitHold DEF Committing, Commit
    <3>4. CASE Call(w).tool \in {"notify_production", "flag_shortage_to_purchasing"}
      BY <1>7, <3>4, CommitMessage DEF Committing, Commit
    <3>5. CASE Call(w).tool = "schedule_arrival_check"
      BY <1>7, <3>5, CommitCheck DEF Committing, Commit
    <3> QED
      BY <1>7, <2>1, <3>1, <3>2, <3>3, <3>4, <3>5, CallFields
  <2> QED
    BY <1>4, <2>2
<1>8. CASE Compensate(w) /\ Stored(w).tool # "reallocate_lot"
  <2>1. SameStock /\ SameProduction
    <3>1. CASE Stored(w).tool = "create_replacement_po"
      BY <1>8, <3>1, UndoCreate DEF Undoing, Compensate
    <3>2. CASE Stored(w).tool = "reduce_or_cancel_po"
      BY <1>8, <3>2, UndoReduce DEF Undoing, Compensate
    <3>3. CASE Stored(w).tool = "place_purchase_order_hold"
      BY <1>8, <3>3, UndoHold DEF Undoing, Compensate
    <3>4. CASE Stored(w).tool \in {"notify_production", "flag_shortage_to_purchasing"}
      BY <1>8, <3>4, UndoMessage DEF Undoing, Compensate
    <3>5. CASE Stored(w).tool = "schedule_arrival_check"
      BY <1>8, <3>5, UndoCheck DEF Undoing, Compensate
    <3> QED
      BY <1>8, <3>1, <3>2, <3>3, <3>4, <3>5 DEF Compensate, ReverseEffect
  <2> QED
    BY <1>4, <2>1
<1> QED
  BY <1>5, <1>6, <1>7, <1>8

LEMMA SameRowsWhen ==
  ASSUME UNCHANGED erp
  PROVE  \A row : SameRow(row)
BY DEF SameRow

\* Locking a row: nobody else that writes it holds it.
LEMMA LockStep ==
  ASSUME Typed, LocksInv, NEW w \in Workflows, Lock(w)
  PROVE  Typed' /\ LocksInv'
<1>1. /\ Wants(w) /\ ~Refused(w) /\ ~\E v \in Workflows : WaitsFor(w, v)
      /\ locked' = [locked EXCEPT ![w] = @ + 1]
      /\ UNCHANGED <<erp, result, plan, mode, at>>
  BY DEF Lock, recordVars
<1>2. \A v \in Workflows : Steady(v)
  BY <1>1 DEF Steady
<1>3. Len(Rows(w)) \in Nat /\ Active(w) /\ locked[w] \in 0..Len(Rows(w)) /\ locked[w] < Len(Rows(w))
  BY <1>1, CountedRows, CurrentCall DEF Wants, RowsCounted, Typed, TypeOK, Active
<1>4. locked'[w] = locked[w] + 1 /\ \A v \in Workflows \ {w} : locked'[v] = locked[v]
  BY <1>1 DEF Typed
<1>5. locked' \in [Workflows -> Nat]
  BY <1>1, <1>3 DEF Typed
<1>6. Typed'
  <2>1. \A v \in Workflows : locked'[v] \in 0..Len(Rows(v)')
    <3> SUFFICES ASSUME NEW v \in Workflows PROVE locked'[v] \in 0..Len(Rows(v)')
      OBVIOUS
    <3>1. Rows(v)' = Rows(v) /\ locked[v] \in 0..Len(Rows(v))
      BY <1>2, SteadyWorkflow DEF Typed, TypeOK
    <3> QED
      BY <3>1, <1>3, <1>4
  <2>2. \A v \in Workflows : (Active(v)' <=> Active(v)) /\ (Phase(v)' <=> Phase(v))
    BY <1>2, SteadyWorkflow
  <2>3. TypeOK'
    BY <1>1, <2>1, <2>2 DEF TypeOK, Typed
  <2>4. (\A v \in Workflows : IsReroute(plan[v]) \/ IsBounded(plan[v]))'
    BY <1>1 DEF Typed, IsReroute, IsBounded
  <2> QED
    BY <1>1, <1>5, <2>2, <2>3, <2>4 DEF Typed
<1>7. NextRow(w) = Rows(w)[locked[w] + 1]
  BY DEF NextRow
<1>8. Moves(w) => \A v \in Workflows \ {w} : NextRow(w) \notin Held(v)
  BY <1>1 DEF WaitsFor, Conflict, Shares, Moves
<1>9. \A v \in Workflows : Rows(v)' = Rows(v) /\ (Moves(v)' <=> Moves(v))
  BY <1>2, SteadyWorkflow
<1>10. \A v \in Workflows \ {w} : Held(v)' = Held(v)
  BY <1>2, <1>4, KeptWorkflow DEF Kept
<1>11. Held(w)' \subseteq Held(w) \cup {NextRow(w)}
  BY <1>3, <1>4, <1>7, <1>9 DEF Held, QueryStart
<1>12. ASSUME NEW u \in Workflows, NEW v \in Workflows, u # v, Moves(u)', Moves(v)'
       PROVE  (Held(u) \cap Held(v))' = {}
  <2>1. Moves(u) /\ Moves(v) /\ Held(u) \cap Held(v) = {}
    BY <1>9, <1>12 DEF LocksInv
  <2>2. CASE u = w
    BY <1>8, <1>10, <1>11, <1>12, <2>1, <2>2
  <2>3. CASE v = w
    BY <1>8, <1>10, <1>11, <1>12, <2>1, <2>3
  <2>4. CASE u # w /\ v # w
    BY <1>10, <2>1, <2>4
  <2> QED
    BY <2>2, <2>3, <2>4
<1>13. ASSUME NEW v \in Workflows, Moves(v)', NEW k \in 1..(locked'[v] - 1)
       PROVE  ~RowRefused(v, Rows(v)[k])'
  <2>1. Moves(v)
    BY <1>9, <1>13
  <2>2. Len(Rows(v)) \in Nat /\ locked[v] \in 0..Len(Rows(v))
    BY <2>1, CountedRows, CurrentCall DEF Typed, TypeOK, RowsCounted, Moves, Active
  <2>3. k \in 1..Len(Rows(v)) /\ ~RowRefused(v, Rows(v)[k])
    <3>1. CASE v # w \/ k # locked[w]
      <4>1. k \in 1..(locked[v] - 1)
        BY <1>3, <1>4, <1>13, <2>2, <3>1
      <4> QED
        BY <2>1, <2>2, <4>1 DEF LocksInv
    <3>2. CASE v = w /\ k = locked[w]
      BY <1>1, <1>3, <3>2 DEF Refused
    <3> QED
      BY <3>1, <3>2
  <2> QED
    BY <1>1, <1>2, <2>1, <2>3, RefusalStays, SameRowsWhen
<1>14. LocksInv'
  BY <1>12, <1>13 DEF LocksInv
<1> QED
  BY <1>6, <1>14

-----------------------------------------------------------------------------
(* The other steps.                                                        *)

LEMMA Places ==
  ASSUME Typed, NEW w \in Workflows
  PROVE  /\ plan[w] \in Seq(Calls) /\ Len(plan[w]) \in Nat
         /\ DOMAIN plan[w] = 1..Len(plan[w])
         /\ at[w] \in Nat \ {0} /\ at[w] <= Len(plan[w]) + 1
         /\ Active(w) => at[w] \in DOMAIN plan[w]
         /\ mode[w] \in Modes
         /\ result[w] \in [DOMAIN plan[w] -> Results] /\ Phase(w)
         /\ IsReroute(plan[w]) \/ IsBounded(plan[w])
BY DEF Typed, TypeOK

\* Everybody but w stays where it is.
OthersStay(w) ==
  \A v \in Workflows \ {w} : mode'[v] = mode[v] /\ at'[v] = at[v]

LEMMA CommitMoves ==
  ASSUME Typed, NEW w \in Workflows, Commit(w)
  PROVE  /\ plan' = plan /\ locked' = [locked EXCEPT ![w] = 0] /\ OthersStay(w)
         /\ mode' \in [Workflows -> Modes] /\ at' \in [Workflows -> Nat \ {0}]
         /\ \/ at[w] = Len(plan[w]) /\ mode'[w] = "succeeded" /\ at'[w] = at[w]
            \/ at[w] < Len(plan[w]) /\ mode'[w] = "running" /\ at'[w] = at[w] + 1
<1>1. at[w] \in 1..Len(plan[w]) /\ Len(plan[w]) \in Nat
  BY Places DEF Commit, Active
<1>2. mode \in [Workflows -> Modes] /\ at \in [Workflows -> Nat \ {0}]
  BY DEF Typed, TypeOK
<1> QED
  BY <1>1, <1>2 DEF Commit, Release, OthersStay, Modes

LEMMA StepBackMoves ==
  ASSUME Typed, NEW w \in Workflows, Active(w), StepBack(w)
  PROVE  /\ OthersStay(w)
         /\ mode' \in [Workflows -> Modes] /\ at' \in [Workflows -> Nat \ {0}]
         /\ \/ at[w] = 1 /\ mode'[w] = "compensated" /\ at'[w] = at[w]
            \/ at[w] > 1 /\ mode'[w] = "compensating" /\ at'[w] = at[w] - 1
<1>1. at[w] \in 1..Len(plan[w]) /\ Len(plan[w]) \in Nat
  BY Places
<1>2. mode \in [Workflows -> Modes] /\ at \in [Workflows -> Nat \ {0}]
  BY DEF Typed, TypeOK
<1> QED
  BY <1>1, <1>2 DEF StepBack, OthersStay, Modes

LEMMA LocksReleased ==
  ASSUME Typed, LocksInv, NEW w \in Workflows, locked' = [locked EXCEPT ![w] = 0], plan' = plan,
         \A v \in Workflows \ {w} : Steady(v) /\ (Moves(v) => \A row \in Held(v) : SameRow(row))
  PROVE  LocksInv'
<1>1. locked'[w] = 0 /\ \A v \in Workflows \ {w} : locked'[v] = locked[v]
  BY DEF Typed
<1>2. \A v \in Workflows : \/ locked'[v] = 0
                           \/ Kept(v) /\ (Moves(v) => \A row \in Held(v) : SameRow(row))
  BY <1>1 DEF Kept
<1> QED
  BY <1>2, LocksNext

LEMMA CommitStep ==
  ASSUME Typed, LocksInv, NEW w \in Workflows, Commit(w)
  PROVE  Typed' /\ LocksInv'
<1>1. PICK r \in Results : r.tool = Call(w).tool /\ Recorded(w, r)
  BY CommitWrites
<1>2. mode[w] = "running" /\ Active(w) /\ Call(w) \in Calls
  BY CurrentCall DEF Commit, Active
<1>3. /\ DOMAIN result' = Workflows
      /\ result'[w] \in [DOMAIN plan[w] -> Results]
      /\ result'[w][at[w]] = r
      /\ \A i \in DOMAIN plan[w] \ {at[w]} : result'[w][i] = result[w][i]
      /\ \A v \in Workflows \ {w} : result'[v] = result[v]
  BY <1>1, <1>2, RecordedRows
<1>4. /\ plan' = plan /\ locked' = [locked EXCEPT ![w] = 0] /\ OthersStay(w)
      /\ mode' \in [Workflows -> Modes] /\ at' \in [Workflows -> Nat \ {0}]
      /\ \/ at[w] = Len(plan[w]) /\ mode'[w] = "succeeded" /\ at'[w] = at[w]
         \/ at[w] < Len(plan[w]) /\ mode'[w] = "running" /\ at'[w] = at[w] + 1
  BY CommitMoves
<1>5. /\ DOMAIN plan[w] = 1..Len(plan[w]) /\ Len(plan[w]) \in Nat
      /\ at[w] \in 1..Len(plan[w]) /\ Phase(w)
  BY <1>2, Places
<1>6. Phase(w)'
  <2>1. r.tool = plan[w][at[w]].tool /\ r.tool # "none"
    BY <1>1, <1>2, CallFields DEF Call
  <2>2. ASSUME NEW i \in DOMAIN plan[w]
        PROVE  /\ InJournal(w, i)' <=> i <= at[w]
               /\ InJournal(w, i)' => result'[w][i].tool = plan[w][i].tool
    <3>1. CASE i = at[w]
      BY <1>3, <1>5, <2>1, <3>1 DEF InJournal
    <3>2. CASE i # at[w]
      <4>1. result'[w][i] = result[w][i]
        BY <1>3, <3>2
      <4>2. (InJournal(w, i) <=> i < at[w]) /\ (InJournal(w, i) => result[w][i].tool = plan[w][i].tool)
        BY <1>2, <1>5 DEF Phase
      <4> QED
        BY <1>5, <3>2, <4>1, <4>2 DEF InJournal
    <3> QED
      BY <3>1, <3>2
  <2> QED
    BY <1>4, <1>5, <2>2 DEF Phase
<1>7. erp' \in Tables
  BY CommitWrites
<1>8. at'[w] <= Len(plan[w]) + 1 /\ (Active(w)' => at'[w] <= Len(plan[w]))
  BY <1>4, <1>5 DEF Active
<1>9. Typed'
  BY <1>3, <1>4, <1>6, <1>7, <1>8, TypedNext DEF OthersStay
<1>10. \A v \in Workflows \ {w} : Steady(v) /\ (Moves(v) => \A row \in Held(v) : SameRow(row))
  BY <1>3, <1>4, WritesLocked DEF Steady, OthersStay
<1>11. LocksInv'
  BY <1>4, <1>10, LocksReleased
<1> QED
  BY <1>9, <1>11

LEMMA CompensateStep ==
  ASSUME Typed, LocksInv, NEW w \in Workflows, Compensate(w)
  PROVE  Typed' /\ LocksInv'
<1>1. Recorded(w, NoResult) /\ erp' \in Tables
  BY CompensateWrites
<1>2. mode[w] = "compensating" /\ Active(w) /\ StepBack(w) /\ plan' = plan
      /\ locked' = [locked EXCEPT ![w] = 0]
  BY DEF Compensate, Active, Release
<1>3. /\ DOMAIN result' = Workflows
      /\ result'[w] \in [DOMAIN plan[w] -> Results]
      /\ result'[w][at[w]] = NoResult
      /\ \A i \in DOMAIN plan[w] \ {at[w]} : result'[w][i] = result[w][i]
      /\ \A v \in Workflows \ {w} : result'[v] = result[v]
  <2>1. NoResult \in Results
    BY DEF Results
  <2> HIDE DEF NoResult
  <2> QED
    BY <1>1, <1>2, <2>1, RecordedRows
<1>4. /\ OthersStay(w)
      /\ mode' \in [Workflows -> Modes] /\ at' \in [Workflows -> Nat \ {0}]
      /\ \/ at[w] = 1 /\ mode'[w] = "compensated" /\ at'[w] = at[w]
         \/ at[w] > 1 /\ mode'[w] = "compensating" /\ at'[w] = at[w] - 1
  BY <1>2, StepBackMoves
<1>5. /\ DOMAIN plan[w] = 1..Len(plan[w]) /\ Len(plan[w]) \in Nat
      /\ at[w] \in 1..Len(plan[w]) /\ Phase(w)
  BY <1>2, Places
<1>6. Phase(w)'
  <2>1. ASSUME NEW i \in DOMAIN plan[w]
        PROVE  /\ InJournal(w, i)' <=> i < at[w]
               /\ InJournal(w, i)' => result'[w][i].tool = plan[w][i].tool
    <3>1. CASE i = at[w]
      BY <1>3, <1>5, <3>1 DEF InJournal, NoResult
    <3>2. CASE i # at[w]
      <4>1. result'[w][i] = result[w][i]
        BY <1>3, <3>2
      <4>2. (InJournal(w, i) <=> i <= at[w]) /\ (InJournal(w, i) => result[w][i].tool = plan[w][i].tool)
        BY <1>2, <1>5 DEF Phase
      <4> QED
        BY <1>5, <3>2, <4>1, <4>2 DEF InJournal
    <3> QED
      BY <3>1, <3>2
  <2> QED
    BY <1>2, <1>4, <1>5, <2>1 DEF Phase
<1>7. at'[w] <= Len(plan[w]) + 1 /\ (Active(w)' => at'[w] <= Len(plan[w]))
  BY <1>4, <1>5 DEF Active
<1>8. Typed'
  BY <1>1, <1>2, <1>3, <1>4, <1>6, <1>7, TypedNext DEF OthersStay
<1>9. \A v \in Workflows \ {w} : Steady(v) /\ (Moves(v) => \A row \in Held(v) : SameRow(row))
  BY <1>2, <1>3, <1>4, WritesLocked DEF Steady, OthersStay
<1>10. LocksInv'
  BY <1>2, <1>9, LocksReleased
<1> QED
  BY <1>8, <1>10

\* A call that ends without writing.
LEMMA FruitlessStep ==
  ASSUME Typed, LocksInv, NEW w \in Workflows, Refuse(w) \/ GetStuck(w) \/ RollBack(w)
  PROVE  Typed' /\ LocksInv'
<1>1. /\ erp' = erp /\ result' = result /\ plan' = plan
      /\ locked' = [locked EXCEPT ![w] = 0]
  BY DEF Refuse, GetStuck, RollBack, Release, recordVars
<1>2. /\ DOMAIN plan[w] = 1..Len(plan[w]) /\ Len(plan[w]) \in Nat
      /\ at[w] \in Nat \ {0} /\ at[w] <= Len(plan[w]) + 1 /\ (Active(w) => at[w] <= Len(plan[w]))
      /\ result[w] \in [DOMAIN plan[w] -> Results] /\ Phase(w)
  BY Places
<1>3. \A i : InJournal(w, i)' <=> InJournal(w, i)
  BY <1>1 DEF InJournal
<1>4. /\ OthersStay(w) /\ mode' \in [Workflows -> Modes] /\ at' \in [Workflows -> Nat \ {0}]
      /\ at'[w] <= Len(plan[w]) + 1 /\ (Active(w)' => at'[w] <= Len(plan[w]))
      /\ Phase(w)'
  <2>1. CASE Refuse(w)
    <3>1. mode[w] = "running" /\ Active(w) /\ StepBack(w)
      BY <2>1 DEF Refuse, Active
    <3>2. /\ OthersStay(w)
          /\ mode' \in [Workflows -> Modes] /\ at' \in [Workflows -> Nat \ {0}]
          /\ \/ at[w] = 1 /\ mode'[w] = "compensated" /\ at'[w] = at[w]
             \/ at[w] > 1 /\ mode'[w] = "compensating" /\ at'[w] = at[w] - 1
      BY <3>1, StepBackMoves
    <3>3. Phase(w)'
      BY <1>1, <1>2, <1>3, <3>1, <3>2 DEF Phase
    <3> QED
      BY <1>2, <3>1, <3>2, <3>3
  <2>2. CASE GetStuck(w)
    <3>1. mode[w] = "compensating" /\ at' = at /\ mode' = [mode EXCEPT ![w] = "stuck"]
      BY <2>2 DEF GetStuck
    <3>2. mode' \in [Workflows -> Modes] /\ mode'[w] = "stuck" /\ OthersStay(w)
      BY <3>1 DEF Typed, TypeOK, Modes, OthersStay
    <3>3. Phase(w)'
      BY <1>1, <1>2, <1>3, <3>1, <3>2 DEF Phase
    <3> QED
      BY <1>2, <3>1, <3>2, <3>3 DEF Typed, Active
  <2>3. CASE RollBack(w)
    <3>1. at' = at /\ mode' = mode
      BY <2>3 DEF RollBack
    <3> QED
      BY <1>1, <1>2, <1>3, <3>1 DEF Typed, TypeOK, Active, OthersStay, Phase
  <2> QED
    BY <2>1, <2>2, <2>3
<1>5. Typed'
  BY <1>1, <1>2, <1>4, TypedNext DEF Typed, TypeOK, OthersStay
<1>6. \A v \in Workflows \ {w} : Steady(v) /\ (Moves(v) => \A row \in Held(v) : SameRow(row))
  BY <1>1, <1>4, SameRowsWhen DEF Steady, OthersStay
<1>7. LocksInv'
  BY <1>1, <1>6, LocksReleased
<1> QED
  BY <1>5, <1>7

\* Nobody moves: the records change in rows nobody holds, or nothing does.
LEMMA OthersStep ==
  ASSUME Typed, LocksInv, Others \/ UNCHANGED vars
  PROVE  Typed' /\ LocksInv'
<1>1. UNCHANGED <<result, flowVars>> /\ erp' \in Tables
  BY OthersWrite DEF vars, recordVars, Typed, TypeOK
<1>2. \A v \in Workflows : Kept(v)
  BY <1>1 DEF flowVars, Kept, Steady
<1>3. ASSUME Others
      PROVE  /\ erp'.allocations = erp.allocations
             /\ \A l \in Lots : ~LockFree(LotRow(l)) => erp'.lots[l] = erp.lots[l]
             /\ \A p \in Productions :
                  ~LockFree(ProductionRow(p)) => erp'.production[p] = erp.production[p]
  <2>1. erp'.allocations = erp.allocations
    BY <1>3, OthersWrite
  <2>2. ASSUME NEW l \in Lots, ~LockFree(LotRow(l)) PROVE erp'.lots[l] = erp.lots[l]
    BY <1>3, <2>2, OthersWrite
  <2>3. ASSUME NEW p \in Productions, ~LockFree(ProductionRow(p))
        PROVE  erp'.production[p] = erp.production[p]
    BY <1>3, <2>3, OthersWrite
  <2> QED
    BY <2>1, <2>2, <2>3
<1>4. Typed'
  <2>1. \A v \in Workflows :
          /\ Rows(v)' = Rows(v) /\ (Active(v)' <=> Active(v)) /\ (Phase(v)' <=> Phase(v))
    BY <1>2, SteadyWorkflow DEF Kept
  <2>2. TypeOK'
    BY <1>1, <2>1 DEF TypeOK, Typed, flowVars
  <2>3. (\A v \in Workflows : IsReroute(plan[v]) \/ IsBounded(plan[v]))'
    BY <1>1 DEF Typed, IsReroute, IsBounded, flowVars
  <2> QED
    BY <1>1, <2>1, <2>2, <2>3 DEF Typed, flowVars
<1>5. ASSUME NEW v \in Workflows, NEW row \in Held(v) PROVE SameRow(row)
  <2>1. CASE UNCHANGED vars
    BY <2>1, SameRowsWhen DEF vars, recordVars
  <2>2. CASE Others
    <3>1. ~LockFree(row)
      BY <1>5 DEF LockFree
    <3> QED
      BY <1>3, <2>2, <3>1 DEF SameRow
  <2> QED
    BY <2>1, <2>2
<1>6. LocksInv'
  BY <1>2, <1>5, LocksNext
<1> QED
  BY <1>4, <1>6

LEMMA TypedStep ==
  ASSUME Typed, LocksInv, [Next]_vars
  PROVE  Typed' /\ LocksInv'
BY StepsAre, LockStep, CommitStep, CompensateStep, FruitlessStep, OthersStep

LEMMA TypedInit ==
  ASSUME Init
  PROVE  Typed /\ LocksInv
<1>1. PICK s \in Situations : erp = s.erp /\ plan = s.plan
  BY DEF Init
<1>2. /\ erp \in Tables /\ plan \in [Workflows -> Seq(Calls)]
      /\ \A w \in Workflows : IsReroute(plan[w]) \/ IsBounded(plan[w])
  BY <1>1, SituationsAssumption DEF IsSeeded
<1>3. /\ result = [w \in Workflows |-> [i \in 1..Len(plan[w]) |-> NoResult]]
      /\ mode = [w \in Workflows |-> IF plan[w] = <<>> THEN "succeeded" ELSE "running"]
      /\ at = [w \in Workflows |-> 1] /\ locked = [w \in Workflows |-> 0]
  BY DEF Init
<1>4. ASSUME NEW w \in Workflows
      PROVE  /\ Len(plan[w]) \in Nat /\ DOMAIN plan[w] = 1..Len(plan[w])
             /\ mode[w] = "running" \/ (mode[w] = "succeeded" /\ Len(plan[w]) = 0)
             /\ mode[w] = "running" => Len(plan[w]) >= 1
             /\ \A i \in DOMAIN plan[w] : ~InJournal(w, i)
             /\ result[w] \in [DOMAIN plan[w] -> Results]
  <2>1. plan[w] \in Seq(Calls)
    BY <1>2
  <2>2. Len(plan[w]) \in Nat /\ DOMAIN plan[w] = 1..Len(plan[w])
    BY <2>1
  <2>3. plan[w] = <<>> <=> Len(plan[w]) = 0
    BY <2>1
  <2>4. result[w] = [i \in 1..Len(plan[w]) |-> NoResult] /\ NoResult \in Results
    BY <1>3 DEF Results
  <2> QED
    BY <1>3, <2>2, <2>3, <2>4 DEF InJournal, NoResult
<1>5. ASSUME NEW w \in Workflows PROVE Len(Rows(w)) \in Nat
  <2>1. mode[w] = "running" => Call(w) \in Calls
    BY <1>2, <1>3, <1>4 DEF Call
  <2> QED
    BY <2>1, CountedRows DEF RowsCounted
<1>6. \A w \in Workflows : Phase(w)
  BY <1>3, <1>4 DEF Phase
<1>7. TypeOK
  <2>1. mode \in [Workflows -> Modes]
    BY <1>3 DEF Modes
  <2>2. ASSUME NEW w \in Workflows
        PROVE  /\ at[w] \in 1..(Len(plan[w]) + 1) /\ (Active(w) => at[w] <= Len(plan[w]))
               /\ locked[w] \in 0..Len(Rows(w))
               /\ DOMAIN result[w] = DOMAIN plan[w]
    BY <1>3, <1>4, <1>5 DEF Active
  <2> QED
    BY <1>2, <2>1, <2>2 DEF TypeOK
<1>8. Typed
  <2>1. at \in [Workflows -> Nat \ {0}] /\ locked \in [Workflows -> Nat] /\ DOMAIN result = Workflows
    BY <1>3
  <2> QED
    BY <1>2, <1>4, <1>6, <1>7, <2>1 DEF Typed
<1>9. LocksInv
  <2>1. \A w \in Workflows : Held(w) = {} /\ locked[w] = 0
    BY <1>3 DEF Held
  <2> QED
    BY <2>1 DEF LocksInv
<1> QED
  BY <1>8, <1>9

LEMMA TypedAlways == Spec => [](Typed /\ LocksInv)
<1>1. Init => Typed /\ LocksInv
  BY TypedInit
<1>2. Typed /\ LocksInv /\ [Next]_vars => (Typed /\ LocksInv)'
  BY TypedStep
<1> QED
  BY <1>1, <1>2, PTL DEF Spec

\* Every plan, journal and table stays what the schema and the executor make
\* it, whoever moves in whatever order.
THEOREM TypeCorrect == Spec => []TypeOK
<1>1. Typed /\ LocksInv => TypeOK
  BY DEF Typed
<1> QED
  BY <1>1, TypedAlways, PTL

-----------------------------------------------------------------------------
(* Stock: what a step does to lots and allocations.                        *)

\* A move is committed, or stock is left alone.
LEMMA CommitStock ==
  ASSUME Typed, LocksInv, NEW w \in Workflows, Commit(w)
  PROVE  \/ /\ SameStock
            /\ \E r \in Results : r.tool # "reallocate_lot" /\ Recorded(w, r)
         \/ /\ Committing(w, {"reallocate_lot"})
            /\ \E r \in MoveResults : Recorded(w, r) /\ MoveWrites(w, r)
<1>1. mode[w] = "running" /\ ~Wants(w) /\ ~Refused(w) /\ Effect(w, at[w], Call(w))
  BY DEF Commit
<1>2. Call(w) \in Calls
  BY <1>1, CurrentCall DEF Active
<1>3. CASE Call(w).tool = "create_replacement_po"
  BY <1>1, <1>3, CommitCreate DEF Committing, Results
<1>4. CASE Call(w).tool = "reduce_or_cancel_po"
  BY <1>1, <1>4, CommitReduce DEF Committing, Results
<1>5. CASE Call(w).tool = "place_purchase_order_hold"
  BY <1>1, <1>5, CommitHold DEF Committing, Results
<1>6. CASE Call(w).tool \in {"notify_production", "flag_shortage_to_purchasing"}
  BY <1>1, <1>6, CommitMessage DEF Committing, Results
<1>7. CASE Call(w).tool = "schedule_arrival_check"
  BY <1>1, <1>7, CommitCheck DEF Committing, Results
<1>8. CASE Call(w).tool = "reallocate_lot"
  <2>1. Committing(w, {"reallocate_lot"})
    BY <1>1, <1>8 DEF Committing
  <2> QED
    BY <2>1, CommitMove
<1> QED
  BY <1>2, <1>3, <1>4, <1>5, <1>6, <1>7, <1>8, CallFields

LEMMA CompensateStock ==
  ASSUME Typed, LocksInv, NEW w \in Workflows, Compensate(w)
  PROVE  \/ SameStock /\ Stored(w).tool # "reallocate_lot"
         \/ Stored(w) \in MoveResults /\ MoveReturns(Stored(w))
<1>1. mode[w] = "compensating" /\ ~Wants(w) /\ ~Refused(w) /\ ReverseEffect(w, at[w], Stored(w))
  BY DEF Compensate
<1>2. CASE Stored(w).tool = "create_replacement_po"
  BY <1>1, <1>2, UndoCreate DEF Undoing
<1>3. CASE Stored(w).tool = "reduce_or_cancel_po"
  BY <1>1, <1>3, UndoReduce DEF Undoing
<1>4. CASE Stored(w).tool = "place_purchase_order_hold"
  BY <1>1, <1>4, UndoHold DEF Undoing
<1>5. CASE Stored(w).tool \in {"notify_production", "flag_shortage_to_purchasing"}
  BY <1>1, <1>5, UndoMessage DEF Undoing
<1>6. CASE Stored(w).tool = "schedule_arrival_check"
  BY <1>1, <1>6, UndoCheck DEF Undoing
<1>7. CASE Stored(w).tool = "reallocate_lot"
  BY <1>1, <1>7, UndoMove DEF Undoing
<1> QED
  BY <1>1, <1>2, <1>3, <1>4, <1>5, <1>6, <1>7 DEF ReverseEffect

\* A workflow never returns to running, and no step it has begun is begun again.
Onward ==
  /\ plan' = plan
  /\ \A v \in Workflows : 
       mode'[v] = "running" => mode[v] = "running" /\ at'[v] \in Nat /\ at'[v] >= at[v]

LEMMA OnwardStep ==
  ASSUME Typed, [Next]_vars
  PROVE  Onward
<1>1. \A v \in Workflows : at[v] \in Nat \ {0}
  BY Places
<1>2. CASE Others \/ UNCHANGED vars
  <2>1. UNCHANGED flowVars
    BY <1>2, OthersWrite DEF vars
  <2> QED
    BY <1>1, <2>1 DEF Onward, flowVars
<1>3. ASSUME NEW w \in Workflows, Lock(w) \/ RollBack(w)
      PROVE  Onward
  BY <1>1, <1>3 DEF Onward, Lock, RollBack
<1>4. ASSUME NEW w \in Workflows, Commit(w)
      PROVE  Onward
  <2>1. /\ plan' = plan /\ OthersStay(w)
        /\ mode'[w] \in {"succeeded", "running"} /\ at'[w] \in Nat /\ at'[w] >= at[w]
    BY <1>1, <1>4, CommitMoves
  <2> QED
    BY <1>1, <1>4, <2>1 DEF Onward, OthersStay, Commit
<1>5. ASSUME NEW w \in Workflows, Refuse(w) \/ Compensate(w)
      PROVE  Onward
  <2>1. Active(w) /\ StepBack(w) /\ plan' = plan
    BY <1>5 DEF Refuse, Compensate, Active
  <2>2. OthersStay(w) /\ mode'[w] \in {"compensated", "compensating"}
    BY <2>1, StepBackMoves
  <2> QED
    BY <1>1, <2>1, <2>2 DEF Onward, OthersStay
<1>6. ASSUME NEW w \in Workflows, GetStuck(w)
      PROVE  Onward
  <2>1. plan' = plan /\ at' = at /\ mode' = [mode EXCEPT ![w] = "stuck"]
    BY <1>6 DEF GetStuck
  <2>2. mode \in [Workflows -> Modes]
    BY DEF Typed, TypeOK
  <2> QED
    BY <1>1, <2>1, <2>2 DEF Onward
<1> QED
  BY <1>2, <1>3, <1>4, <1>5, <1>6, StepsAre

LEMMA IdsStayUsed ==
  ASSUME Typed, Onward, NEW id, IdUsed(id)
  PROVE  IdUsedNext(id) /\ IdUsed(id)'
<1> SUFFICES ASSUME id[1] \in Workflows
             PROVE  /\ id[2] \in DOMAIN plan'[id[1]]
                    /\ mode'[id[1]] = "running" => id[2] < at'[id[1]]
  BY DEF IdUsed, IdUsedNext, UsedIn
<1> DEFINE v == id[1]
<1>1. id[2] \in DOMAIN plan[v] /\ (mode[v] = "running" => id[2] < at[v])
  BY DEF IdUsed, UsedIn
<1>2. DOMAIN plan[v] = 1..Len(plan[v]) /\ Len(plan[v]) \in Nat /\ at[v] \in Nat
  BY Places
<1>3. mode'[v] = "running" => mode[v] = "running" /\ at'[v] \in Nat /\ at'[v] >= at[v]
  BY DEF Onward
<1> QED
  BY <1>1, <1>2, <1>3 DEF Onward

\* What may become of an allocation.
RowStep(k) ==
  LET old == erp.allocations[k]
      new == erp'.allocations[k]
  IN \/ new = old
     \/ new.id = old.id /\ old.id # NoAllocation.id /\ new.version > old.version
     \/ ~IdUsed(new.id) /\ IdUsedNext(new.id)
     \/ new = NoAllocation

LEMMA CommitRows ==
  ASSUME Typed, Typed', LocksInv, StockInv, NEW w \in Workflows, Commit(w)
  PROVE  \A k \in AllocationKeys : RowStep(k)
<1>1. CASE SameStock
  BY <1>1 DEF SameStock, RowStep
<1>2. ASSUME NEW r \in MoveResults, MoveWrites(w, r), NEW k \in AllocationKeys
      PROVE  RowStep(k)
  <2> DEFINE target == Allocation(r.lot, r.to)
             source == Allocation(r.lot, r.from)
  <2>1. /\ r.lot \in Lots /\ r.to \in Productions /\ r.from \in Productions \cup {None}
        /\ \A j \in AllocationKeys : erp.allocations[j] \in AllocationRecord
    BY DEF MoveResults, Typed, TypeOK, Tables
  <2>2. /\ <<r.lot, r.to>> \in AllocationKeys
        /\ k = <<r.lot, r.from>> => r.from # None
    BY <2>1, RecordsAssumption DEF AllocationKeys
  <2>3. target.version \in Nat /\ (k = <<r.lot, r.from>> => source.version \in Nat)
    BY <2>1, <2>2 DEF Allocation, AllocationRecord
  <2>4. \A j \in AllocationKeys : erp.allocations[j] # NoAllocation => erp.allocations[j].id # NoAllocation.id
    BY DEF StockInv, RowsInv
  <2>5. CASE k = <<r.lot, r.to>>
    <3>1. CASE target = NoAllocation
      <4> DEFINE id == <<w, at[w]>>
      <4>1. erp'.allocations[k].id = id
        BY <1>2, <2>5, <3>1 DEF MoveWrites
      <4>2. /\ mode[w] = "running" /\ at[w] \in DOMAIN plan[w] /\ at[w] \in Nat
            /\ plan' = plan
            /\ mode'[w] = "running" => at'[w] = at[w] + 1
        <5>1. mode[w] = "running" /\ Active(w)
          BY DEF Commit, Active
        <5> QED
          BY <5>1, CommitMoves, Places
      <4>3. ~IdUsed(id)
        BY <4>2 DEF IdUsed, UsedIn
      <4>4. IdUsedNext(id)
        BY <4>2 DEF IdUsedNext, UsedIn
      <4> HIDE DEF id
      <4> QED
        BY <4>1, <4>3, <4>4 DEF RowStep
    <3>2. CASE target # NoAllocation
      <4>1. erp'.allocations[k].id = target.id /\ erp'.allocations[k].version = target.version + 1
        BY <1>2, <2>5, <3>2 DEF MoveWrites
      <4> QED
        BY <2>2, <2>3, <2>4, <2>5, <3>2, <4>1 DEF RowStep, Allocation
    <3> QED
      BY <3>1, <3>2
  <2>6. CASE k = <<r.lot, r.from>>
    <3>1. /\ erp'.allocations[k].id = source.id /\ erp'.allocations[k].version = source.version + 1
          /\ source # NoAllocation
      BY <1>2, <2>2, <2>6 DEF MoveWrites
    <3> QED
      BY <2>3, <2>4, <2>6, <3>1 DEF RowStep, Allocation
  <2>7. CASE k \notin {<<r.lot, r.to>>, <<r.lot, r.from>>}
    BY <1>2, <2>7 DEF MoveWrites, RowStep
  <2> QED
    BY <2>5, <2>6, <2>7
<1> QED
  BY <1>1, <1>2, CommitStock

LEMMA CompensateRows ==
  ASSUME Typed, LocksInv, StockInv, NEW w \in Workflows, Compensate(w)
  PROVE  \A k \in AllocationKeys : RowStep(k)
<1>1. CASE SameStock
  BY <1>1 DEF SameStock, RowStep
<1>2. CASE Stored(w) \in MoveResults /\ MoveReturns(Stored(w))
  <2> DEFINE r == Stored(w)
             target == Allocation(r.lot, r.to)
             source == Allocation(r.lot, r.from)
  <2> SUFFICES ASSUME NEW k \in AllocationKeys PROVE RowStep(k)
    OBVIOUS
  <2>1. /\ r.lot \in Lots /\ r.to \in Productions /\ r.from \in Productions \cup {None}
        /\ r.tool = "reallocate_lot"
        /\ \A j \in AllocationKeys : erp.allocations[j] \in AllocationRecord
    BY <1>2 DEF MoveResults, Typed, TypeOK, Tables
  <2>2. /\ <<r.lot, r.to>> \in AllocationKeys
        /\ k = <<r.lot, r.from>> => r.from # None
    BY <2>1, RecordsAssumption DEF AllocationKeys
  <2>3. target.version \in Nat /\ (k = <<r.lot, r.from>> => source.version \in Nat)
    BY <2>1, <2>2 DEF Allocation, AllocationRecord
  <2>4. MoveInv(r)
    <3>1. at[w] \in DOMAIN plan[w]
      BY Places DEF Compensate, Active
    <3> QED
      BY <2>1, <3>1 DEF StockInv, Stored
  <2> HIDE DEF r
  <2>5. CASE k = <<r.lot, r.to>>
    BY <1>2, <2>2, <2>3, <2>4, <2>5 DEF MoveReturns, RowStep, Allocation, MoveInv, r
  <2>6. CASE k = <<r.lot, r.from>>
    BY <1>2, <2>2, <2>3, <2>4, <2>6 DEF MoveReturns, RowStep, Allocation, MoveInv, r
  <2>7. CASE k \notin {<<r.lot, r.to>>, <<r.lot, r.from>>}
    BY <1>2, <2>7 DEF MoveReturns, RowStep, r
  <2> QED
    BY <2>5, <2>6, <2>7
<1> QED
  BY <1>1, <1>2, CompensateStock

\* A result of the journal stays linked to the rows it names.
LEMMA LinksNext ==
  ASSUME Typed, Typed', Onward, \A k \in AllocationKeys : RowStep(k),
         NEW r \in MoveResults, MoveInv(r)
  PROVE  MoveInv(r)'
<1>1. /\ r.lot \in Lots /\ r.to \in Productions /\ r.from \in Productions \cup {None}
      /\ r.written.version \in Nat /\ r.previousSource.version \in Nat
  BY DEF MoveResults, AllocationRecord
<1>2. IdUsed(r.written.id)' /\ (r.from # None => IdUsed(r.previousSource.id)')
  BY IdsStayUsed DEF MoveInv
<1>3. \A k \in AllocationKeys :
        erp.allocations[k] \in AllocationRecord /\ erp'.allocations[k] \in AllocationRecord
  BY DEF Typed, TypeOK, Tables
<1> DEFINE key == <<r.lot, r.to>>
<1>4. LET target == erp'.allocations[key] IN
      target.id = r.written.id =>
        /\ target.version >= r.written.version
        /\ target.version = r.written.version => target.quantity = r.written.quantity
  <2>1. key \in AllocationKeys
    BY <1>1 DEF AllocationKeys
  <2>2. erp.allocations[key].version \in Nat /\ erp'.allocations[key].version \in Nat
    BY <1>3, <2>1 DEF AllocationRecord
  <2>3. erp.allocations[key].id = r.written.id =>
          /\ erp.allocations[key].version >= r.written.version
          /\ erp.allocations[key].version = r.written.version =>
               erp.allocations[key].quantity = r.written.quantity
    BY DEF MoveInv, Links, Allocation
  <2>4. IdUsed(r.written.id) /\ r.written.id # NoAllocation.id
    BY DEF MoveInv
  <2> HIDE DEF key
  <2>5. RowStep(key)
    BY <2>1
  <2> QED
    BY <1>1, <2>2, <2>3, <2>4, <2>5 DEF RowStep
<1>5. ASSUME r.from # None
      PROVE  LET source == erp'.allocations[<<r.lot, r.from>>] IN
             source.id = r.previousSource.id =>
               /\ source.version >= r.previousSource.version + 1
               /\ source.version = r.previousSource.version + 1 =>
                    source.quantity = r.previousSource.quantity - r.quantity
  <2> DEFINE from == <<r.lot, r.from>>
  <2>1. from \in AllocationKeys
    BY <1>1, <1>5 DEF AllocationKeys
  <2>2. erp.allocations[from].version \in Nat /\ erp'.allocations[from].version \in Nat
    BY <1>3, <2>1 DEF AllocationRecord
  <2>3. erp.allocations[from].id = r.previousSource.id =>
          /\ erp.allocations[from].version >= r.previousSource.version + 1
          /\ erp.allocations[from].version = r.previousSource.version + 1 =>
               erp.allocations[from].quantity = r.previousSource.quantity - r.quantity
    BY <1>5 DEF MoveInv, Links, Allocation
  <2>4. IdUsed(r.previousSource.id) /\ r.previousSource.id # NoAllocation.id
    BY <1>5 DEF MoveInv
  <2> HIDE DEF from
  <2>5. RowStep(from)
    BY <2>1
  <2>6. LET source == erp'.allocations[from] IN
             source.id = r.previousSource.id =>
               /\ source.version >= r.previousSource.version + 1
               /\ source.version = r.previousSource.version + 1 =>
                    source.quantity = r.previousSource.quantity - r.quantity
    BY <1>1, <2>2, <2>3, <2>4, <2>5 DEF RowStep
  <2> QED
    BY <2>6 DEF from
<1>6. Links(r)'
  BY <1>4, <1>5 DEF Links, Allocation
<1> QED
  BY <1>2, <1>6 DEF MoveInv, NoAllocation

\* The result a commit adds, or a compensation removes, and the others.
LEMMA JournalNext ==
  ASSUME Typed, NEW w \in Workflows, Active(w), NEW r \in Results, Recorded(w, r),
         NEW v \in Workflows, NEW i \in DOMAIN plan[v]
  PROVE  result'[v][i] = result[v][i] \/ (v = w /\ i = at[w] /\ result'[v][i] = r)
<1>1. CASE v = w
  <2>1. result'[w][at[w]] = r /\ \A j \in DOMAIN plan[w] \ {at[w]} : result'[w][j] = result[w][j]
    BY RecordedRows
  <2> QED
    BY <1>1, <2>1
<1>2. CASE v # w
  <2>1. result'[v] = result[v]
    BY <1>2, RecordedRows
  <2> QED
    BY <2>1
<1> QED
  BY <1>1, <1>2

LEMMA RowsNext ==
  ASSUME Typed, Onward, RowsInv, \A k \in AllocationKeys : RowStep(k)
  PROVE  RowsInv'
<1> SUFFICES ASSUME NEW k \in AllocationKeys
             PROVE  LET new == erp'.allocations[k] IN
                    /\ new.id = NoAllocation.id => new = NoAllocation
                    /\ IdUsedNext(new.id)
  BY DEF RowsInv, NoAllocation, IdUsed, IdUsedNext
<1> DEFINE old == erp.allocations[k]
           new == erp'.allocations[k]
<1>1. (old.id = NoAllocation.id => old = NoAllocation) /\ IdUsed(old.id)
  BY DEF RowsInv
<1>2. IdUsedNext(old.id)
  <2> DEFINE id == old.id
  <2>1. IdUsed(id)
    BY <1>1
  <2>2. UsedIn(id, plan, mode, at)
    BY <2>1 DEF IdUsed
  <2>3. id[1] \in Workflows =>
          /\ id[2] \in DOMAIN plan[id[1]]
          /\ mode[id[1]] = "running" => id[2] < at[id[1]]
    BY <2>2 DEF UsedIn
  <2> HIDE DEF id
  <2>4. id[1] \in Workflows =>
          /\ id[2] \in DOMAIN plan'[id[1]]
          /\ mode'[id[1]] = "running" => id[2] < at'[id[1]]
    <3> SUFFICES ASSUME id[1] \in Workflows
                 PROVE  /\ id[2] \in DOMAIN plan'[id[1]]
                        /\ mode'[id[1]] = "running" => id[2] < at'[id[1]]
      OBVIOUS
    <3>1. DOMAIN plan[id[1]] = 1..Len(plan[id[1]]) /\ Len(plan[id[1]]) \in Nat /\ at[id[1]] \in Nat
      BY Places
    <3> QED
      BY <2>3, <3>1 DEF Onward
  <2>5. UsedIn(id, plan', mode', at')
    BY <2>4 DEF UsedIn
  <2> QED
    BY <2>5 DEF IdUsedNext, id
<1>3. IdUsedNext(NoAllocation.id)
  BY RecordsAssumption DEF IdUsedNext, UsedIn, NoAllocation
<1>4. RowStep(k)
  OBVIOUS
<1>5. \/ new = old
      \/ new.id = old.id /\ old.id # NoAllocation.id
      \/ ~IdUsed(new.id) /\ IdUsedNext(new.id)
      \/ new = NoAllocation
  BY <1>4 DEF RowStep
<1>6. IdUsed(NoAllocation.id)
  BY RecordsAssumption DEF IdUsed, UsedIn, NoAllocation
<1> HIDE DEF old, new
<1>7. /\ new.id = NoAllocation.id => new = NoAllocation
      /\ IdUsedNext(new.id)
  BY <1>1, <1>2, <1>3, <1>5, <1>6
<1> QED
  BY <1>7 DEF new

\* What a committed move leaves in the journal.
LEMMA NewMove ==
  ASSUME Typed, Typed', Onward, RowsInv, RowsInv',
         NEW w \in Workflows, NEW r \in MoveResults, MoveWrites(w, r)
  PROVE  MoveInv(r)'
<1>1. /\ r.lot \in Lots /\ r.to \in Productions /\ r.from \in Productions \cup {None}
      /\ r.quantity \in Nat \ {0} /\ r.previousTarget \in Nat
      /\ r.written.version \in Nat /\ r.previousSource.version \in Nat
  BY DEF MoveResults, AllocationRecord
<1> DEFINE key == <<r.lot, r.to>>
           from == <<r.lot, r.from>>
<1>2. key \in AllocationKeys /\ (r.from # None => from \in AllocationKeys)
  BY <1>1 DEF AllocationKeys
<1>3. /\ r.written = erp'.allocations[key]
      /\ r.written.quantity = r.previousTarget + r.quantity
  BY DEF MoveWrites
<1>4. r.written.id # NoAllocation.id /\ IdUsed(r.written.id)'
  <2>1. /\ erp'.allocations[key].id = NoAllocation.id => erp'.allocations[key] = NoAllocation
        /\ IdUsedNext(erp'.allocations[key].id)
    BY <1>2 DEF RowsInv, NoAllocation, IdUsed, IdUsedNext
  <2>2. r.written.quantity # 0
    BY <1>1, <1>3
  <2> HIDE DEF key
  <2>3. r.written.id # NoAllocation.id /\ IdUsedNext(r.written.id)
    BY <1>3, <2>1, <2>2 DEF NoAllocation
  <2> QED
    BY <2>3 DEF IdUsed, IdUsedNext
<1>5. ASSUME r.from # None
      PROVE  /\ r.previousSource.quantity >= r.quantity
             /\ r.previousSource.id # NoAllocation.id
             /\ IdUsed(r.previousSource.id)'
             /\ erp'.allocations[from].version = r.previousSource.version + 1
             /\ erp'.allocations[from].quantity = r.previousSource.quantity - r.quantity
  <2>1. /\ r.previousSource = erp.allocations[from] /\ r.previousSource # NoAllocation
        /\ r.previousSource.quantity >= r.quantity
        /\ erp'.allocations[from].version = r.previousSource.version + 1
        /\ erp'.allocations[from].quantity = r.previousSource.quantity - r.quantity
    BY <1>5 DEF MoveWrites, Allocation
  <2>2. r.previousSource.id # NoAllocation.id /\ IdUsed(r.previousSource.id)
    BY <1>2, <1>5, <2>1 DEF RowsInv
  <2>3. IdUsed(r.previousSource.id)'
    BY <2>2, IdsStayUsed
  <2> QED
    BY <2>1, <2>2, <2>3
<1>6. Links(r)'
  BY <1>1, <1>3, <1>5 DEF Links, Allocation
<1> QED
  BY <1>3, <1>4, <1>5, <1>6 DEF MoveInv, NoAllocation

LEMMA StockNext ==
  ASSUME Typed, Typed', Onward, StockInv, \A k \in AllocationKeys : RowStep(k),
         \A v \in Workflows : \A i \in DOMAIN plan[v] :
           \/ result'[v][i] = result[v][i]
           \/ result'[v][i].tool # "reallocate_lot"
           \/ \E r \in MoveResults : result'[v][i] = r /\ MoveInv(r)'
  PROVE  StockInv'
<1>1. RowsInv'
  BY RowsNext DEF StockInv
<1>2. plan' = plan
  BY DEF Onward
<1>3. ASSUME NEW v \in Workflows, NEW i \in DOMAIN plan'[v],
             result'[v][i].tool = "reallocate_lot"
      PROVE  \E r \in MoveResults : result'[v][i] = r /\ MoveInv(r)'
  <2>1. i \in DOMAIN plan[v]
    BY <1>2
  <2>2. CASE result'[v][i] = result[v][i]
    <3>1. result[v][i] \in Results
      BY <2>1, Places
    <3>2. result[v][i] \in MoveResults /\ MoveInv(result[v][i])
      BY <1>3, <2>1, <2>2, <3>1, ResultKinds DEF StockInv
    <3>3. PICK r \in MoveResults : r = result[v][i]
      BY <3>2
    <3>4. MoveInv(r)'
      BY <3>2, <3>3, LinksNext
    <3> QED
      BY <2>2, <3>3, <3>4
  <2>3. CASE result'[v][i] # result[v][i]
    BY <1>3, <2>1, <2>3
  <2> QED
    BY <2>2, <2>3
<1>4. (\A v \in Workflows : \A i \in DOMAIN plan[v] :
         result[v][i].tool = "reallocate_lot" => MoveInv(result[v][i]))'
  <2> SUFFICES ASSUME NEW v \in Workflows, NEW i \in DOMAIN plan'[v],
                      result'[v][i].tool = "reallocate_lot"
               PROVE  MoveInv(result[v][i])'
    OBVIOUS
  <2>1. PICK r \in MoveResults : result'[v][i] = r /\ MoveInv(r)'
    BY <1>3
  <2> QED
    BY <2>1 DEF MoveInv, Links, Allocation, IdUsed
<1> QED
  BY <1>1, <1>4 DEF StockInv

LEMMA StockStep ==
  ASSUME Typed, LocksInv, StockInv, [Next]_vars
  PROVE  StockInv'
<1>1. Typed' /\ Onward
  BY TypedStep, OnwardStep
<1>2. CASE UNCHANGED result /\ erp'.allocations = erp.allocations
  <2>1. \A k \in AllocationKeys : RowStep(k)
    BY <1>2 DEF RowStep
  <2> QED
    BY <1>1, <1>2, <2>1, StockNext
<1>3. ASSUME NEW w \in Workflows, Commit(w) PROVE StockInv'
  <2>1. \A k \in AllocationKeys : RowStep(k)
    BY <1>1, <1>3, CommitRows
  <2>2. Active(w) /\ RowsInv /\ RowsInv'
    BY <1>1, <1>3, <2>1, RowsNext DEF Commit, Active, StockInv
  <2>3. CASE \E r \in Results : r.tool # "reallocate_lot" /\ Recorded(w, r)
    BY <1>1, <2>1, <2>2, <2>3, JournalNext, StockNext
  <2>4. ASSUME NEW r \in MoveResults, Recorded(w, r), MoveWrites(w, r)
        PROVE  StockInv'
    <3>1. MoveInv(r)'
      BY <1>1, <2>2, <2>4, NewMove
    <3>2. r \in Results
      BY DEF Results
    <3> QED
      BY <1>1, <2>1, <2>2, <2>4, <3>1, <3>2, JournalNext, StockNext
  <2> QED
    BY <1>3, <2>3, <2>4, CommitStock
<1>4. ASSUME NEW w \in Workflows, Compensate(w) PROVE StockInv'
  <2>1. \A k \in AllocationKeys : RowStep(k)
    BY <1>4, CompensateRows
  <2>2. Active(w) /\ Recorded(w, NoResult) /\ NoResult \in Results
        /\ NoResult.tool # "reallocate_lot"
    BY <1>4, CompensateWrites DEF Compensate, Active, Results, NoResult
  <2> HIDE DEF NoResult
  <2> QED
    BY <1>1, <2>1, <2>2, JournalNext, StockNext
<1>5. CASE Others \/ UNCHANGED vars
  BY <1>2, <1>5, OthersWrite DEF vars, recordVars
<1>6. ASSUME NEW w \in Workflows, Lock(w) \/ Refuse(w) \/ GetStuck(w) \/ RollBack(w)
      PROVE  StockInv'
  BY <1>2, <1>6 DEF Lock, Refuse, GetStuck, RollBack, recordVars
<1> QED
  BY <1>3, <1>4, <1>5, <1>6, StepsAre

LEMMA StockInit ==
  ASSUME Init
  PROVE  StockInv
<1>1. PICK s \in Situations : erp = s.erp /\ plan = s.plan
  BY DEF Init
<1>2. IsSeeded(erp)
  BY <1>1, SituationsAssumption
<1>3. RowsInv
  <2>1. \A k \in AllocationKeys :
          /\ erp.allocations[k].id[1] = None
          /\ erp.allocations[k].id = NoAllocation.id => erp.allocations[k] = NoAllocation
    BY <1>2 DEF IsSeeded
  <2> QED
    BY <2>1, RecordsAssumption DEF RowsInv, IdUsed, UsedIn
<1>4. ASSUME NEW w \in Workflows, NEW i \in DOMAIN plan[w]
      PROVE  result[w][i] = NoResult
  <2>1. plan \in [Workflows -> Seq(Calls)]
    BY <1>1, SituationsAssumption
  <2>2. DOMAIN plan[w] = 1..Len(plan[w])
    BY <2>1
  <2>3. result[w] = [j \in 1..Len(plan[w]) |-> NoResult]
    BY DEF Init
  <2> HIDE DEF NoResult
  <2> QED
    BY <2>2, <2>3
<1>5. NoResult.tool # "reallocate_lot"
  BY DEF NoResult
<1> QED
  BY <1>3, <1>4, <1>5 DEF StockInv

-----------------------------------------------------------------------------
(* Stock: the sums.                                                        *)

\* A move of q, or the restoration of a move of -q.
Shift(l, to, from, q) ==
  /\ erp'.allocations[<<l, to>>].quantity = erp.allocations[<<l, to>>].quantity + q
  /\ from # None =>
       erp'.allocations[<<l, from>>].quantity = erp.allocations[<<l, from>>].quantity - q
  /\ erp'.lots[l].allocated = erp.lots[l].allocated + (IF from = None THEN q ELSE 0)
  /\ erp'.lots[l].allocated <= erp.lots[l].quantity
  /\ erp'.lots[l].quantity = erp.lots[l].quantity
  /\ \A m \in Lots \ {l} : erp'.lots[m] = erp.lots[m]
  /\ \A k \in AllocationKeys \ {<<l, to>>, <<l, from>>} : erp'.allocations[k] = erp.allocations[k]

LEMMA CommitShifts ==
  ASSUME Typed, Typed', LotsCovered, NEW w \in Workflows,
         NEW r \in MoveResults, MoveWrites(w, r)
  PROVE  Shift(r.lot, r.to, r.from, r.quantity)
<1>1. /\ r.lot \in Lots /\ r.to \in Productions /\ r.from \in Productions \cup {None}
      /\ r.quantity \in Nat \ {0}
  BY DEF MoveResults
<1>2. /\ erp.lots[r.lot].allocated \in Nat /\ erp.lots[r.lot].quantity \in Nat
      /\ erp.allocations[<<r.lot, r.to>>].quantity \in Nat
      /\ erp.lots[r.lot].allocated <= erp.lots[r.lot].quantity
  <2>1. erp.lots[r.lot] \in Lot /\ erp.allocations[<<r.lot, r.to>>] \in AllocationRecord
    BY <1>1 DEF Typed, TypeOK, Tables, AllocationKeys
  <2> QED
    BY <1>1, <2>1 DEF Lot, AllocationRecord, LotsCovered
<1>3. r.from = None => r.quantity <= erp.lots[r.lot].quantity - erp.lots[r.lot].allocated
  BY DEF MoveWrites
<1>4. erp'.lots[r.lot].allocated = erp.lots[r.lot].allocated + (IF r.from = None THEN r.quantity ELSE 0)
  BY <1>2 DEF MoveWrites
<1> QED
  BY <1>1, <1>2, <1>3, <1>4 DEF MoveWrites, Shift, Allocation

LEMMA CompensateShifts ==
  ASSUME Typed, Typed', LotsCovered,
         NEW r \in MoveResults, MoveInv(r), MoveReturns(r)
  PROVE  Shift(r.lot, r.to, r.from, -r.quantity)
<1>1. /\ r.lot \in Lots /\ r.to \in Productions /\ r.from \in Productions \cup {None}
      /\ r.quantity \in Nat \ {0} /\ r.previousTarget \in Nat
      /\ r.previousSource.quantity \in Nat
  BY DEF MoveResults, AllocationRecord
<1>2. /\ erp.lots[r.lot].allocated \in Nat /\ erp.lots[r.lot].quantity \in Nat
      /\ erp'.lots[r.lot].allocated \in Nat
      /\ erp.lots[r.lot].allocated <= erp.lots[r.lot].quantity
  <2>1. erp.lots[r.lot] \in Lot /\ erp'.lots[r.lot] \in Lot
    BY <1>1 DEF Typed, TypeOK, Tables
  <2> QED
    BY <1>1, <2>1 DEF Lot, LotsCovered
<1>3. /\ erp.allocations[<<r.lot, r.to>>].quantity = r.previousTarget + r.quantity
      /\ erp'.allocations[<<r.lot, r.to>>].quantity = r.previousTarget
  <2>1. /\ Allocation(r.lot, r.to).quantity = r.written.quantity
        /\ r.written.quantity = r.previousTarget + r.quantity
    BY DEF MoveReturns, MoveInv, Links
  <2>2. erp'.allocations[<<r.lot, r.to>>].quantity = r.previousTarget
    BY <1>1 DEF MoveReturns, NoAllocation
  <2> QED
    BY <2>1, <2>2 DEF Allocation
<1>4. r.from # None =>
        /\ erp.allocations[<<r.lot, r.from>>].quantity = r.previousSource.quantity - r.quantity
        /\ erp'.allocations[<<r.lot, r.from>>].quantity = r.previousSource.quantity
  BY DEF MoveReturns, MoveInv, Links, Allocation
<1>5. /\ r.from # None => erp'.lots[r.lot].allocated = erp.lots[r.lot].allocated
      /\ r.from = None => erp.lots[r.lot].allocated = erp'.lots[r.lot].allocated + r.quantity
      /\ erp'.lots[r.lot].quantity = erp.lots[r.lot].quantity
      /\ \A l \in Lots \ {r.lot} : erp'.lots[l] = erp.lots[l]
      /\ \A k \in AllocationKeys \ {<<r.lot, r.to>>, <<r.lot, r.from>>} :
           erp'.allocations[k] = erp.allocations[k]
  BY DEF MoveReturns
<1> QED
  BY <1>1, <1>2, <1>3, <1>4, <1>5 DEF Shift

\* A move leaves as much allocated as the lot says is.
LEMMA ShiftCovers ==
  ASSUME Typed, Typed', LotsCovered, NEW l \in Lots, NEW to \in Productions,
         NEW from \in Productions \cup {None}, from # to, NEW q \in Int, Shift(l, to, from, q)
  PROVE  LotsCovered'
<1>1. /\ \A k \in AllocationKeys :
           erp.allocations[k].quantity \in Nat /\ erp'.allocations[k].quantity \in Nat
      /\ \A m \in Lots : erp.lots[m].allocated \in Nat /\ erp.lots[m].quantity \in Nat
  BY DEF Typed, TypeOK, Tables, AllocationRecord, Lot
<1> SUFFICES ASSUME NEW m \in Lots
             PROVE  /\ erp'.lots[m].allocated = AllocatedOf(m)'
                    /\ erp'.lots[m].allocated <= erp'.lots[m].quantity
  BY DEF LotsCovered
<1> DEFINE f == [p \in Productions |-> erp.allocations[<<m, p>>].quantity]
           h == [p \in Productions |-> erp'.allocations[<<m, p>>].quantity]
<1>2. erp.lots[m].allocated = SumOf(f) /\ erp.lots[m].allocated <= erp.lots[m].quantity
  BY DEF LotsCovered, AllocatedOf, Allocation
<1>3. AllocatedOf(m)' = SumOf(h)
  BY DEF AllocatedOf, Allocation
<1>4. f \in [Productions -> Int] /\ h \in [Productions -> Int]
  BY <1>1 DEF AllocationKeys
<1>5. CASE m # l
  <2>1. \A p \in Productions : erp'.allocations[<<m, p>>] = erp.allocations[<<m, p>>]
    BY <1>5 DEF Shift, AllocationKeys
  <2>2. f = h
    BY <2>1
  <2>3. erp'.lots[m] = erp.lots[m]
    BY <1>5 DEF Shift
  <2> QED
    BY <1>2, <1>3, <2>2, <2>3
<1>6. CASE m = l /\ from = None
  <2>1. \A p \in Productions \ {to} : h[p] = f[p]
    BY <1>6, RecordsAssumption DEF Shift, AllocationKeys
  <2>2. h[to] = f[to] + q
    BY <1>6 DEF Shift
  <2> HIDE DEF f, h
  <2>3. SumOf(f) \in Int /\ SumOf(h) = SumOf(f) + h[to] - f[to]
    BY <1>4, <2>1, SumUpdate, RecordsAssumption
  <2>4. SumOf(h) = SumOf(f) + q
    BY <1>4, <2>2, <2>3
  <2> QED
    BY <1>2, <1>3, <1>6, <2>4 DEF Shift
<1>7. CASE m = l /\ from # None
  <2> DEFINE g == [f EXCEPT ![to] = h[to]]
  <2>1. \A p \in Productions \ {to, from} : h[p] = f[p]
    BY <1>7 DEF Shift, AllocationKeys
  <2>2. h[to] = f[to] + q /\ h[from] = f[from] - q
    BY <1>7 DEF Shift
  <2> HIDE DEF f, h
  <2>3. g \in [Productions -> Int] /\ g[to] = h[to]
        /\ \A p \in Productions \ {to} : g[p] = f[p]
    BY <1>4
  <2> HIDE DEF g
  <2>4. SumOf(f) \in Int /\ SumOf(g) \in Int /\ SumOf(g) = SumOf(f) + g[to] - f[to]
    BY <1>4, <2>3, SumUpdate, RecordsAssumption
  <2>5. from \in Productions /\ \A p \in Productions \ {from} : h[p] = g[p]
    BY <1>7, <2>1, <2>3
  <2>6. SumOf(h) = SumOf(g) + h[from] - g[from]
    BY <1>4, <2>3, <2>5, SumUpdate, RecordsAssumption
  <2>7. SumOf(h) = SumOf(f)
    <3>1. g[from] = f[from] /\ f[from] \in Int /\ f[to] \in Int
      BY <1>4, <2>3, <2>5
    <3> QED
      BY <2>2, <2>3, <2>4, <2>6, <3>1
  <2> QED
    BY <1>1, <1>2, <1>3, <1>7, <2>7 DEF Shift
<1> QED
  BY <1>5, <1>6, <1>7

\* What a step does to the stock of the model.
SameBooks ==
  /\ erp'.allocations = erp.allocations
  /\ \A l \in Lots : /\ erp'.lots[l].quantity = erp.lots[l].quantity
                    /\ erp'.lots[l].allocated = erp.lots[l].allocated

LEMMA SameBooksCover ==
  ASSUME LotsCovered, SameBooks
  PROVE  LotsCovered'
<1> SUFFICES ASSUME NEW l \in Lots
             PROVE  /\ erp'.lots[l].allocated = AllocatedOf(l)'
                    /\ erp'.lots[l].allocated <= erp'.lots[l].quantity
  BY DEF LotsCovered
<1>1. AllocatedOf(l)' = AllocatedOf(l)
  BY DEF AllocatedOf, Allocation, SameBooks
<1> QED
  BY <1>1 DEF LotsCovered, SameBooks

\* Every step leaves the books alone, adds a move to them and to the journal,
\* or takes a move of the journal from both.
LEMMA BookSteps ==
  ASSUME Typed, LocksInv, StockInv, LotsCovered, [Next]_vars
  PROVE  \/ SameBooks /\ result' = result
         \/ \E w \in Workflows : Active(w) /\
              \/ /\ SameBooks /\ Stored(w).tool # "reallocate_lot"
                 /\ \E r \in Results : r.tool # "reallocate_lot" /\ Recorded(w, r)
              \/ /\ Stored(w).tool # "reallocate_lot"
                 /\ \E r \in MoveResults : Recorded(w, r) /\ Shift(r.lot, r.to, r.from, r.quantity)
              \/ LET r == Stored(w) IN
                 r \in MoveResults /\ Recorded(w, NoResult)
                 /\ Shift(r.lot, r.to, r.from, -r.quantity)
<1>1. Typed'
  BY TypedStep
<1>2. CASE Others
  BY <1>2, OthersWrite DEF SameBooks
<1>3. CASE UNCHANGED vars
  BY <1>3 DEF SameBooks, vars, recordVars
<1>4. ASSUME NEW w \in Workflows, Lock(w) \/ Refuse(w) \/ GetStuck(w) \/ RollBack(w)
      PROVE  SameBooks /\ result' = result
  BY <1>4 DEF SameBooks, recordVars, Lock, Refuse, GetStuck, RollBack
<1>5. ASSUME NEW w \in Workflows, Commit(w)
      PROVE  /\ Active(w) /\ Stored(w).tool # "reallocate_lot"
             /\ \/ /\ SameBooks
                   /\ \E r \in Results : r.tool # "reallocate_lot" /\ Recorded(w, r)
                \/ \E r \in MoveResults : Recorded(w, r) /\ Shift(r.lot, r.to, r.from, r.quantity)
  <2>1. Active(w) /\ mode[w] = "running"
    BY <1>5 DEF Commit, Active
  <2>2. at[w] \in DOMAIN plan[w] /\ at[w] \in Nat /\ Phase(w)
    BY <2>1, Places
  <2>3. Stored(w).tool # "reallocate_lot"
    BY <2>1, <2>2 DEF Phase, InJournal, Stored
  <2> QED
    BY <1>1, <1>5, <2>1, <2>3, CommitStock, CommitShifts DEF SameStock, SameBooks
<1>6. ASSUME NEW w \in Workflows, Compensate(w)
      PROVE  /\ Active(w) /\ Recorded(w, NoResult)
             /\ \/ SameBooks /\ Stored(w).tool # "reallocate_lot"
                \/ LET r == Stored(w) IN
                   r \in MoveResults /\ Shift(r.lot, r.to, r.from, -r.quantity)
  <2>1. Active(w) /\ Recorded(w, NoResult)
    BY <1>6, CompensateWrites DEF Compensate, Active
  <2>2. CASE SameStock /\ Stored(w).tool # "reallocate_lot"
    BY <2>1, <2>2 DEF SameStock, SameBooks
  <2>3. CASE Stored(w) \in MoveResults /\ MoveReturns(Stored(w))
    <3> DEFINE r == Stored(w)
    <3>1. r.tool = "reallocate_lot" /\ at[w] \in DOMAIN plan[w]
      BY <2>1, <2>3, Places DEF MoveResults
    <3>2. MoveInv(r)
      BY <3>1 DEF StockInv, Stored
    <3>3. r \in MoveResults /\ MoveReturns(r)
      BY <2>3
    <3> HIDE DEF r
    <3>4. Shift(r.lot, r.to, r.from, -r.quantity)
      BY <1>1, <3>2, <3>3, CompensateShifts
    <3> QED
      BY <2>1, <3>3, <3>4 DEF r
  <2> QED
    BY <1>6, <2>2, <2>3, CompensateStock
<1>7. NoResult \in Results /\ NoResult.tool # "reallocate_lot"
  BY DEF Results, NoResult
<1> QED
  BY <1>2, <1>3, <1>4, <1>5, <1>6, <1>7, StepsAre

LEMMA CoveredStep ==
  ASSUME Typed, LocksInv, StockInv, LotsCovered, [Next]_vars
  PROVE  LotsCovered'
<1>1. Typed'
  BY TypedStep
<1>2. ASSUME NEW r \in MoveResults, NEW q \in {r.quantity, -r.quantity},
             Shift(r.lot, r.to, r.from, q)
      PROVE  LotsCovered'
  <2> DEFINE l == r.lot
             to == r.to
             from == r.from
  <2>1. /\ l \in Lots /\ to \in Productions /\ from \in Productions \cup {None}
        /\ from # to /\ q \in Int
    BY DEF MoveResults
  <2>2. Shift(l, to, from, q)
    BY <1>2
  <2> HIDE DEF l, to, from
  <2> QED
    BY <1>1, <2>1, <2>2, ShiftCovers
<1> QED
  BY <1>2, BookSteps, SameBooksCover

\* A lot's allocated quantity is the sum of its allocations and never exceeds
\* the lot: PostgresToolAdapter writes both in one transaction that holds the
\* lot's row, and a restoration only touches rows that are still as the move
\* left them.
THEOREM LotsStayCovered == Spec => []LotsCovered
<1>1. Init => Typed /\ LocksInv /\ StockInv /\ LotsCovered
  <2> SUFFICES ASSUME Init PROVE LotsCovered
    BY TypedInit, StockInit
  <2>1. PICK s \in Situations : erp = s.erp /\ plan = s.plan
    BY DEF Init
  <2>2. IsSeeded(erp)
    BY <2>1, SituationsAssumption
  <2> QED
    BY <2>2 DEF IsSeeded, LotsCovered, AllocatedOf, Allocation
<1>2. Typed /\ LocksInv /\ StockInv /\ LotsCovered /\ [Next]_vars
      => (Typed /\ LocksInv /\ StockInv /\ LotsCovered)'
  BY TypedStep, StockStep, CoveredStep
<1> QED
  BY <1>1, <1>2, PTL DEF Spec

-----------------------------------------------------------------------------
(* Stock: the books.                                                       *)

LEMMA MovedInt ==
  ASSUME NEW r \in Results, NEW l, NEW p
  PROVE  Moved(r, l, p) \in Int
<1>1. CASE r.tool = "reallocate_lot"
  <2>1. r.quantity \in Nat
    BY <1>1, ResultKinds DEF MoveResults
  <2> QED
    BY <2>1 DEF Moved
<1>2. CASE r.tool # "reallocate_lot"
  BY <1>2 DEF Moved
<1> QED
  BY <1>1, <1>2

\* MovedTo follows the one result that changes.
LEMMA MovedToChange ==
  ASSUME Typed, NEW w \in Workflows, Active(w), NEW r \in Results, Recorded(w, r),
         NEW l \in Lots, NEW p \in Productions
  PROVE  /\ MovedTo(l, p) \in Int
         /\ MovedTo(l, p)' = MovedTo(l, p) + Moved(r, l, p) - Moved(Stored(w), l, p)
<1> DEFINE D == DOMAIN plan[w]
           f == [i \in D |-> Moved(result[w][i], l, p)]
           h == [i \in D |-> Moved(result'[w][i], l, p)]
           F == [v \in Workflows |-> SumOf([i \in DOMAIN result[v] |-> Moved(result[v][i], l, p)])]
           H == [v \in Workflows |-> SumOf([i \in DOMAIN result'[v] |-> Moved(result'[v][i], l, p)])]
<1>1. /\ result[w] \in [D -> Results] /\ result'[w] \in [D -> Results]
      /\ result'[w][at[w]] = r
      /\ \A i \in D \ {at[w]} : result'[w][i] = result[w][i]
      /\ \A v \in Workflows \ {w} : result'[v] = result[v]
      /\ at[w] \in D
  BY Places, RecordedRows
<1>2. ASSUME NEW v \in Workflows PROVE F[v] \in Int
  <2> DEFINE E == DOMAIN plan[v]
             g == [i \in E |-> Moved(result[v][i], l, p)]
  <2>1. result[v] \in [E -> Results] /\ E = 1..Len(plan[v]) /\ Len(plan[v]) \in Nat
    BY Places
  <2>2. IsFiniteSet(E)
    BY <2>1, FS_Interval
  <2>3. g \in [E -> Int]
    BY <2>1, MovedInt
  <2>4. F[v] = SumOf(g)
    BY <2>1
  <2> HIDE DEF E, g
  <2>5. SumOf(g) \in Int
    BY <2>2, <2>3, SumInt
  <2> QED
    BY <2>4, <2>5
<1>3. H[w] = F[w] + Moved(r, l, p) - Moved(Stored(w), l, p)
  <2>1. D = 1..Len(plan[w]) /\ Len(plan[w]) \in Nat
    BY Places
  <2>2. IsFiniteSet(D)
    BY <2>1, FS_Interval
  <2>3. f \in [D -> Int] /\ h \in [D -> Int]
    BY <1>1, MovedInt
  <2>4. F[w] = SumOf(f) /\ H[w] = SumOf(h)
    BY <1>1
  <2>5. /\ \A i \in D \ {at[w]} : h[i] = f[i]
        /\ h[at[w]] = Moved(r, l, p) /\ f[at[w]] = Moved(Stored(w), l, p)
    BY <1>1 DEF Stored
  <2> DEFINE x == at[w]
  <2>6. x \in D /\ \A i \in D \ {x} : h[i] = f[i]
    BY <1>1, <2>5
  <2> HIDE DEF D, f, h, x
  <2>7. SumOf(h) = SumOf(f) + h[x] - f[x]
    BY <2>2, <2>3, <2>6, SumUpdate
  <2> QED
    BY <2>4, <2>5, <2>7 DEF x
<1>4. \A v \in Workflows \ {w} : H[v] = F[v]
  BY <1>1
<1>5. MovedTo(l, p) = SumOf(F) /\ MovedTo(l, p)' = SumOf(H)
  BY DEF MovedTo
<1>6. Moved(r, l, p) \in Int /\ Moved(Stored(w), l, p) \in Int
  BY MovedInt, CurrentCall
<1>7. DOMAIN F = Workflows /\ DOMAIN H = Workflows
      /\ F = [v \in Workflows |-> F[v]] /\ H = [v \in Workflows |-> H[v]]
  OBVIOUS
<1> HIDE DEF F, H
<1>8. F \in [Workflows -> Int] /\ H \in [Workflows -> Int]
  <2>1. \A v \in Workflows : F[v] \in Int /\ H[v] \in Int
    BY <1>2, <1>3, <1>4, <1>6
  <2> QED
    BY <1>7, <2>1
<1>9. SumOf(F) \in Int /\ SumOf(H) = SumOf(F) + H[w] - F[w]
  BY <1>4, <1>8, SumUpdate, RecordsAssumption
<1> QED
  BY <1>2, <1>3, <1>5, <1>6, <1>9

LEMMA ShiftMoved ==
  ASSUME Typed, NEW r \in MoveResults, NEW q, q = r.quantity \/ q = -r.quantity,
         Shift(r.lot, r.to, r.from, q), NEW l \in Lots, NEW p \in Productions
  PROVE  erp'.allocations[<<l, p>>].quantity
         = erp.allocations[<<l, p>>].quantity
           + (IF q = r.quantity THEN Moved(r, l, p) ELSE -Moved(r, l, p))
<1>1. /\ r.lot \in Lots /\ r.to \in Productions /\ r.from \in Productions \cup {None}
      /\ r.from # r.to /\ r.quantity \in Nat \ {0} /\ r.tool = "reallocate_lot"
  BY DEF MoveResults
<1>2. erp.allocations[<<l, p>>].quantity \in Nat
  BY DEF Typed, TypeOK, Tables, AllocationKeys, AllocationRecord
<1>3. CASE r.lot = l /\ r.to = p
  BY <1>1, <1>2, <1>3 DEF Shift, Moved
<1>4. CASE r.lot = l /\ r.from = p
  BY <1>1, <1>2, <1>4, RecordsAssumption DEF Shift, Moved
<1>5. CASE r.lot # l \/ (r.to # p /\ r.from # p)
  <2>1. Moved(r, l, p) = 0
    BY <1>1, <1>5 DEF Moved
  <2>2. erp'.allocations[<<l, p>>] = erp.allocations[<<l, p>>]
    BY <1>1, <1>5 DEF Shift, AllocationKeys
  <2> QED
    BY <1>2, <2>1, <2>2
<1> QED
  BY <1>3, <1>4, <1>5

LEMMA BooksStep ==
  ASSUME Typed, LocksInv, StockInv, LotsCovered, [Next]_vars,
         NEW l \in Lots, NEW p \in Productions
  PROVE  Allocation(l, p)'.quantity - MovedTo(l, p)' = Allocation(l, p).quantity - MovedTo(l, p)
<1> DEFINE here  == erp.allocations[<<l, p>>].quantity
           after == erp'.allocations[<<l, p>>].quantity
<1>1. Allocation(l, p)'.quantity = after /\ Allocation(l, p).quantity = here
  BY DEF Allocation
<1>2. here \in Nat
  BY DEF Typed, TypeOK, Tables, AllocationKeys, AllocationRecord
<1>3. CASE SameBooks /\ result' = result
  BY <1>3 DEF SameBooks, Allocation, MovedTo
<1>4. ASSUME NEW w \in Workflows, Active(w), SameBooks, Stored(w).tool # "reallocate_lot",
             NEW r \in Results, r.tool # "reallocate_lot", Recorded(w, r)
      PROVE  after - MovedTo(l, p)' = here - MovedTo(l, p)
  <2>1. /\ MovedTo(l, p) \in Int
        /\ MovedTo(l, p)' = MovedTo(l, p) + Moved(r, l, p) - Moved(Stored(w), l, p)
    BY <1>4, MovedToChange
  <2>2. Moved(r, l, p) = 0 /\ Moved(Stored(w), l, p) = 0
    BY <1>4 DEF Moved
  <2> QED
    BY <1>2, <1>4, <2>1, <2>2 DEF SameBooks
<1>5. ASSUME NEW w \in Workflows, Active(w), Stored(w).tool # "reallocate_lot",
             NEW r \in MoveResults, Recorded(w, r), Shift(r.lot, r.to, r.from, r.quantity)
      PROVE  after - MovedTo(l, p)' = here - MovedTo(l, p)
  <2>1. r \in Results
    BY DEF Results
  <2>2. /\ MovedTo(l, p) \in Int
        /\ MovedTo(l, p)' = MovedTo(l, p) + Moved(r, l, p) - Moved(Stored(w), l, p)
    BY <1>5, <2>1, MovedToChange
  <2>3. Moved(Stored(w), l, p) = 0 /\ Moved(r, l, p) \in Int
    BY <1>5, <2>1, MovedInt DEF Moved
  <2>4. after = here + Moved(r, l, p)
    BY <1>5, ShiftMoved
  <2> QED
    BY <1>2, <2>2, <2>3, <2>4
<1>6. ASSUME NEW w \in Workflows, Active(w), Recorded(w, NoResult), Stored(w) \in MoveResults,
             LET r == Stored(w) IN Shift(r.lot, r.to, r.from, -r.quantity)
      PROVE  after - MovedTo(l, p)' = here - MovedTo(l, p)
  <2> DEFINE r == Stored(w)
             none == NoResult
             q == -r.quantity
  <2>1. /\ r \in MoveResults /\ r \in Results /\ r.quantity \in Nat \ {0}
        /\ Shift(r.lot, r.to, r.from, q)
        /\ none \in Results /\ Recorded(w, none)
    BY <1>6 DEF Results, MoveResults
  <2>2. Moved(none, l, p) = 0
    BY DEF Moved, NoResult
  <2>3. q # r.quantity /\ q = -r.quantity
    BY <2>1
  <2> HIDE DEF none, q
  <2>4. /\ MovedTo(l, p) \in Int
        /\ MovedTo(l, p)' = MovedTo(l, p) + Moved(none, l, p) - Moved(r, l, p)
    BY <1>6, <2>1, MovedToChange
  <2> HIDE DEF r
  <2>5. Moved(r, l, p) \in Int
    BY <2>1, MovedInt
  <2>6. after = here + (IF q = r.quantity THEN Moved(r, l, p) ELSE -Moved(r, l, p))
    BY <2>1, <2>3, ShiftMoved
  <2> QED
    BY <1>2, <2>2, <2>3, <2>4, <2>5, <2>6
<1> QED
  BY <1>1, <1>3, <1>4, <1>5, <1>6, BookSteps

\* Every allocation is what it was at the start plus the moves in force: no
\* reallocation or restoration is lost or applied over another one.
THEOREM BooksAlwaysBalance == Spec => BooksBalance
<1> DEFINE I == Typed /\ LocksInv /\ StockInv /\ LotsCovered
           A == \A l \in Lots, p \in Productions :
                  Allocation(l, p)'.quantity - MovedTo(l, p)' = Allocation(l, p).quantity - MovedTo(l, p)
<1>1. I /\ [Next]_vars => A
  BY BooksStep
<1>2. I /\ [Next]_vars => [A]_vars
  BY <1>1
<1>3. Init => StockInv
  BY StockInit
<1>4. Typed /\ LocksInv /\ StockInv /\ LotsCovered /\ [Next]_vars => StockInv'
  BY StockStep
<1>5. Spec => []StockInv
  BY <1>3, <1>4, TypedAlways, LotsStayCovered, PTL DEF Spec
<1> QED
  BY <1>2, <1>5, TypedAlways, LotsStayCovered, PTL DEF Spec, BooksBalance

-----------------------------------------------------------------------------
(* Supply.                                                                 *)

OrderTools == {"create_replacement_po", "reduce_or_cancel_po"}

\* Replacements are created and originals reduced by po_reroute:v1 alone, in
\* its first and its second step.
LEMMA JournalShape ==
  ASSUME Typed, NEW w \in Workflows, NEW i \in DOMAIN plan[w], result[w][i].tool \in OrderTools
  PROVE  /\ IsReroute(plan[w]) /\ DOMAIN plan[w] = 1..4
         /\ result[w][i].tool = "create_replacement_po" => i = 1
         /\ result[w][i].tool = "reduce_or_cancel_po" => i = 2
<1>1. DOMAIN plan[w] = 1..Len(plan[w]) /\ Phase(w) /\ (IsReroute(plan[w]) \/ IsBounded(plan[w]))
  BY Places
<1>2. result[w][i].tool = plan[w][i].tool
  BY <1>1 DEF Phase, InJournal, OrderTools
<1>3. IsReroute(plan[w])
  BY <1>1, <1>2 DEF IsBounded, OrderTools
<1>4. i \in 1..4
  BY <1>1, <1>3 DEF IsReroute
<1> QED
  BY <1>1, <1>2, <1>3, <1>4 DEF IsReroute

LEMMA ReplacesAt ==
  ASSUME Typed, NEW w \in Workflows, NEW o
  PROVE  Replaces(w, o) <=>
           \E i \in DOMAIN plan[w] : /\ result[w][i].tool = "reduce_or_cancel_po"
                                     /\ result[w][i].order = o
<1>1. DOMAIN result[w] = DOMAIN plan[w]
  BY Places
<1> QED
  BY <1>1 DEF Replaces, InForce

ReplacesNow == \A w \in Workflows : \A o \in Originals :
  Replaces(w, o) <=>
    \E i \in DOMAIN plan[w] : /\ result[w][i].tool = "reduce_or_cancel_po"
                              /\ result[w][i].order = o

LEMMA TypedReplaces == Typed => ReplacesNow
BY ReplacesAt DEF ReplacesNow

LEMMA ReplacesNext ==
  ASSUME Typed', plan' = plan, NEW w \in Workflows, NEW o \in Originals
  PROVE  Replaces(w, o)' <=>
           \E i \in DOMAIN plan[w] : /\ result'[w][i].tool = "reduce_or_cancel_po"
                                     /\ result'[w][i].order = o
<1>1. ReplacesNow'
  BY TypedReplaces, PTL
<1> QED
  BY <1>1 DEF ReplacesNow

\* An original that is reduced stays as the reduction left it.
LEMMA ReplacedIsCancelled ==
  ASSUME Typed, SupplyInv, NEW w \in Workflows, NEW o \in Originals, Replaces(w, o)
  PROVE  erp.orders[o].status = "cancelled"
<1>1. PICK i \in DOMAIN plan[w] : /\ result[w][i].tool = "reduce_or_cancel_po"
                                  /\ result[w][i].order = o
  BY ReplacesAt
<1> QED
  BY <1>1 DEF SupplyInv, OrderInv

\* A step that neither creates nor cancels an order.
QuietOrders ==
  \A o \in Orders :
    \/ erp'.orders[o] = erp.orders[o]
    \/ /\ erp.orders[o].status # "cancelled" /\ erp'.orders[o].status # "cancelled"
       /\ o \in Workflows => /\ erp'.orders[o].status # "delayed"
                             /\ Supplied(o)' <=> Supplied(o)

QuietJournal ==
  \A v \in Workflows : \A i \in DOMAIN plan[v] :
    \/ result'[v][i] = result[v][i]
    \/ /\ result[v][i].tool \notin OrderTools /\ result'[v][i].tool \notin OrderTools
       /\ result'[v][i].tool = "place_purchase_order_hold" =>
            result'[v][i].previous.status = "open"

LEMMA QuietSupply ==
  ASSUME Typed, Typed', plan' = plan, SupplyInv, QuietOrders, QuietJournal
  PROVE  SupplyInv'
<1>1. ASSUME NEW w \in Workflows, NEW o \in Originals
      PROVE  Replaces(w, o)' <=> Replaces(w, o)
  BY ReplacesAt, ReplacesNext DEF QuietJournal, OrderTools
<1>2. ASSUME NEW w \in Workflows, NEW i \in DOMAIN plan[w]
      PROVE  OrderInv(w, i)'
  <2>1. CASE result'[w][i] = result[w][i]
    <3> DEFINE r == result[w][i]
    <3>1. OrderInv(w, i) /\ r \in Results
      BY Places DEF SupplyInv
    <3>2. CASE r.tool = "reduce_or_cancel_po"
      <4>1. r.order \in Orders
        BY <3>1, <3>2, ResultKinds DEF OrderResults, Orders
      <4>2. erp.orders[r.order].status = "cancelled" /\ erp.orders[r.order] = r.written
        BY <3>1, <3>2 DEF OrderInv
      <4> HIDE DEF r
      <4>3. erp'.orders[r.order] = erp.orders[r.order]
        BY <4>1, <4>2 DEF QuietOrders
      <4> QED
        BY <2>1, <3>1, <3>2, <4>2, <4>3 DEF OrderInv, r
    <3>3. CASE r.tool # "reduce_or_cancel_po"
      BY <2>1, <3>1, <3>3 DEF OrderInv
    <3> QED
      BY <3>2, <3>3
  <2>2. CASE result'[w][i] # result[w][i]
    BY <2>2 DEF QuietJournal, OrderInv, OrderTools
  <2> QED
    BY <2>1, <2>2
<1>3. ASSUME NEW o \in Originals, erp'.orders[o].status = "cancelled"
      PROVE  \E w \in Workflows : Replaces(w, o)'
  <2>1. erp.orders[o].status = "cancelled"
    BY <1>3 DEF QuietOrders, Orders
  <2> QED
    BY <1>1, <2>1 DEF SupplyInv
<1>4. ASSUME NEW w \in Workflows
      PROVE  /\ erp'.orders[w].status # "delayed"
             /\ Supplied(w)' <=> \E i \in DOMAIN plan'[w] : result'[w][i].tool = "create_replacement_po"
  <2>1. erp'.orders[w].status # "delayed" /\ (Supplied(w)' <=> Supplied(w))
    BY DEF SupplyInv, QuietOrders, Orders, Supplied
  <2>2. (\E i \in DOMAIN plan[w] : result'[w][i].tool = "create_replacement_po")
        <=> (\E i \in DOMAIN plan[w] : result[w][i].tool = "create_replacement_po")
    BY DEF QuietJournal, OrderTools
  <2> QED
    BY <2>1, <2>2 DEF SupplyInv
<1>5. \A v, w \in Workflows, o \in Originals : (Replaces(v, o) /\ Replaces(w, o))' => v = w
  BY <1>1 DEF SupplyInv
<1> QED
  BY <1>2, <1>3, <1>4, <1>5 DEF SupplyInv

\* The journal beside the step that is committed or undone.
LEMMA JournalBeside ==
  ASSUME Typed, NEW w \in Workflows, Active(w), NEW r \in Results, Recorded(w, r)
  PROVE  /\ result'[w][at[w]] = r /\ result[w][at[w]] = Stored(w) /\ at[w] \in DOMAIN plan[w]
         /\ \A v \in Workflows : \A i \in DOMAIN plan[v] :
              v # w \/ i # at[w] => result'[v][i] = result[v][i]
<1>1. result'[w][at[w]] = r /\ at[w] \in DOMAIN plan[w]
  BY RecordedRows, Places
<1>2. \A i \in DOMAIN plan[w] \ {at[w]} : result'[w][i] = result[w][i]
  BY RecordedRows
<1>3. \A v \in Workflows \ {w} : result'[v] = result[v]
  BY RecordedRows
<1> QED
  BY <1>1, <1>2, <1>3 DEF Stored

LEMMA CreateSupply ==
  ASSUME Typed, Typed', plan' = plan, SupplyInv, NEW w \in Workflows,
         Committing(w, {"create_replacement_po"}), Stored(w).tool = "none"
  PROVE  SupplyInv'
<1>1. PICK r \in PlainResults : r.tool = "create_replacement_po" /\ Recorded(w, r)
  BY CommitCreate DEF Committing
<1>2. /\ result'[w][at[w]] = r /\ result[w][at[w]].tool = "none" /\ at[w] \in DOMAIN plan[w]
      /\ \A v \in Workflows : \A i \in DOMAIN plan[v] :
           v # w \/ i # at[w] => result'[v][i] = result[v][i]
  BY <1>1, JournalBeside DEF Results, Committing, Active
<1>3. erp'.orders[w].status = "open" /\ \A o \in Orders \ {w} : erp'.orders[o] = erp.orders[o]
  <2>1. erp.orders \in [Orders -> Order]
    BY DEF Typed, TypeOK, Tables
  <2> DEFINE n == [ordered |-> Call(w).quantity, received |-> 0, status |-> "open", version |-> 1]
  <2>2. erp'.orders = [erp.orders EXCEPT ![w] = n] /\ n.status = "open"
    BY CommitCreate
  <2> HIDE DEF n
  <2> QED
    BY <2>1, <2>2 DEF Orders
<1>4. w \notin Originals
  BY RecordsAssumption
<1>5. ASSUME NEW v \in Workflows, NEW o \in Originals
      PROVE  Replaces(v, o)' <=> Replaces(v, o)
  <2>1. \A i \in DOMAIN plan[v] :
          \/ result'[v][i] = result[v][i]
          \/ /\ result[v][i].tool # "reduce_or_cancel_po"
             /\ result'[v][i].tool # "reduce_or_cancel_po"
    BY <1>1, <1>2
  <2> QED
    BY <2>1, ReplacesAt, ReplacesNext
<1>6. ASSUME NEW v \in Workflows, NEW i \in DOMAIN plan[v]
      PROVE  OrderInv(v, i)'
  <2>1. CASE v = w /\ i = at[w]
    BY <1>1, <1>2, <2>1 DEF OrderInv
  <2>2. CASE v # w \/ i # at[w]
    <3> DEFINE q == result[v][i]
    <3>1. OrderInv(v, i) /\ q \in Results /\ result'[v][i] = q
      BY <1>2, <2>2, Places DEF SupplyInv
    <3>2. q.tool = "reduce_or_cancel_po" => q.order \in Originals
      BY <3>1, ResultKinds DEF OrderResults
    <3>3. q.tool = "reduce_or_cancel_po" => erp'.orders[q.order] = erp.orders[q.order]
      BY <1>3, <1>4, <3>2 DEF Orders
    <3> QED
      BY <3>1, <3>3 DEF OrderInv
  <2> QED
    BY <2>1, <2>2
<1>7. ASSUME NEW v \in Workflows
      PROVE  /\ erp'.orders[v].status # "delayed"
             /\ Supplied(v)' <=> \E i \in DOMAIN plan'[v] : result'[v][i].tool = "create_replacement_po"
  <2>1. CASE v = w
    BY <1>1, <1>2, <1>3, <2>1 DEF Supplied
  <2>2. CASE v # w
    <3>1. erp'.orders[v] = erp.orders[v]
      BY <1>3, <2>2 DEF Orders
    <3>2. \A i \in DOMAIN plan[v] : result'[v][i] = result[v][i]
      BY <1>2, <2>2
    <3> QED
      BY <3>1, <3>2 DEF SupplyInv, Supplied
  <2> QED
    BY <2>1, <2>2
<1>8. \A o \in Originals : erp'.orders[o] = erp.orders[o]
  BY <1>3, <1>4 DEF Orders
<1> QED
  BY <1>5, <1>6, <1>7, <1>8 DEF SupplyInv

LEMMA ReduceSupply ==
  ASSUME Typed, Typed', plan' = plan, SupplyInv, NEW w \in Workflows,
         Committing(w, {"reduce_or_cancel_po"}), Stored(w).tool = "none"
  PROVE  SupplyInv'
<1>1. PICK r \in OrderResults :
        /\ r.tool = "reduce_or_cancel_po" /\ Recorded(w, r)
        /\ r.previous = erp.orders[r.order]
        /\ r.previous.status \in {"open", "delayed"}
        /\ r.written.status = "cancelled"
        /\ erp'.orders = [erp.orders EXCEPT ![r.order] = r.written]
  BY CommitReduce DEF Committing
<1>2. /\ result'[w][at[w]] = r /\ result[w][at[w]].tool = "none" /\ at[w] \in DOMAIN plan[w]
      /\ \A v \in Workflows : \A i \in DOMAIN plan[v] :
           v # w \/ i # at[w] => result'[v][i] = result[v][i]
  BY <1>1, JournalBeside DEF Results, Committing, Active
<1>3. /\ r.order \in Originals /\ erp'.orders[r.order] = r.written
      /\ \A o \in Orders \ {r.order} : erp'.orders[o] = erp.orders[o]
  <2>1. erp.orders \in [Orders -> Order] /\ r.order \in Originals
    BY DEF Typed, TypeOK, Tables, OrderResults
  <2> QED
    BY <1>1, <2>1 DEF Orders
<1>4. ASSUME NEW v \in Workflows, NEW o \in Originals
      PROVE  Replaces(v, o)' <=> Replaces(v, o) \/ (v = w /\ o = r.order)
  <2>1. \A i \in DOMAIN plan[v] :
          \/ result'[v][i] = result[v][i]
          \/ /\ v = w /\ result[v][i].tool # "reduce_or_cancel_po"
             /\ result'[v][i] = r
    BY <1>2
  <2>2. Replaces(v, o)' => Replaces(v, o) \/ (v = w /\ o = r.order)
    BY <2>1, ReplacesAt, ReplacesNext
  <2>3. Replaces(v, o) => Replaces(v, o)'
    BY <2>1, ReplacesAt, ReplacesNext
  <2>4. v = w /\ o = r.order => Replaces(v, o)'
    BY <1>1, <1>2, ReplacesNext
  <2> QED
    BY <2>2, <2>3, <2>4
<1>5. \A v \in Workflows : ~Replaces(v, r.order)
  BY <1>1, <1>3, ReplacedIsCancelled
<1>6. ASSUME NEW v \in Workflows, NEW i \in DOMAIN plan[v]
      PROVE  OrderInv(v, i)'
  <2>1. CASE v = w /\ i = at[w]
    <3>1. result'[v][i] = r
      BY <1>2, <2>1
    <3>2. r.previous.status \in {"open", "delayed"} /\ r.written.status = "cancelled"
          /\ erp'.orders[r.order] = r.written /\ r.tool = "reduce_or_cancel_po"
      BY <1>1, <1>3
    <3> QED
      BY <3>1, <3>2 DEF OrderInv
  <2>2. CASE v # w \/ i # at[w]
    <3> DEFINE q == result[v][i]
    <3>1. OrderInv(v, i) /\ q \in Results /\ result'[v][i] = q
      BY <1>2, <2>2, Places DEF SupplyInv
    <3>2. q.tool = "reduce_or_cancel_po" => q.order \in Originals /\ Replaces(v, q.order)
      BY <3>1, ResultKinds, ReplacesAt DEF OrderResults
    <3>3. q.tool = "reduce_or_cancel_po" => erp'.orders[q.order] = erp.orders[q.order]
      BY <1>3, <1>5, <3>2 DEF Orders
    <3> HIDE DEF q
    <3>4. /\ q.tool = "reduce_or_cancel_po" =>
                /\ q.previous.status \in {"open", "delayed"}
                /\ q.written.status = "cancelled"
                /\ erp'.orders[q.order] = q.written
          /\ q.tool = "place_purchase_order_hold" => q.previous.status = "open"
      BY <3>1, <3>3 DEF OrderInv, q
    <3> QED
      BY <3>1, <3>4 DEF OrderInv
  <2> QED
    BY <2>1, <2>2
<1>7. ASSUME NEW v \in Workflows
      PROVE  /\ erp'.orders[v].status # "delayed"
             /\ Supplied(v)' <=> \E i \in DOMAIN plan'[v] : result'[v][i].tool = "create_replacement_po"
  <2>1. erp'.orders[v] = erp.orders[v]
    BY <1>3, RecordsAssumption DEF Orders
  <2>2. \A i \in DOMAIN plan[v] :
          result'[v][i].tool = "create_replacement_po" <=> result[v][i].tool = "create_replacement_po"
    BY <1>1, <1>2
  <2> QED
    BY <2>1, <2>2 DEF SupplyInv, Supplied
<1>8. ASSUME NEW o \in Originals, erp'.orders[o].status = "cancelled"
      PROVE  \E v \in Workflows : Replaces(v, o)'
  <2>1. CASE o = r.order
    BY <1>4, <2>1
  <2>2. CASE o # r.order
    BY <1>3, <1>4, <1>8, <2>2 DEF SupplyInv, Orders
  <2> QED
    BY <2>1, <2>2
<1>9. ASSUME NEW u \in Workflows, NEW v \in Workflows, NEW o \in Originals,
             Replaces(u, o)', Replaces(v, o)'
      PROVE  u = v
  BY <1>4, <1>5, <1>9 DEF SupplyInv
<1> QED
  BY <1>6, <1>7, <1>8, <1>9 DEF SupplyInv

LEMMA UndoCreateSupply ==
  ASSUME Typed, Typed', plan' = plan, SupplyInv, NEW w \in Workflows,
         Undoing(w, {"create_replacement_po"}), Recorded(w, NoResult)
  PROVE  SupplyInv'
<1> DEFINE none == NoResult
<1>1. none \in Results /\ none.tool = "none" /\ Recorded(w, none)
  BY DEF Results, NoResult
<1> HIDE DEF none
<1>2. Active(w) /\ Stored(w).tool = "create_replacement_po" /\ mode[w] = "compensating"
  BY DEF Undoing, Active
<1>3. /\ result'[w][at[w]] = none /\ result[w][at[w]] = Stored(w) /\ at[w] \in DOMAIN plan[w]
      /\ \A v \in Workflows : \A i \in DOMAIN plan[v] :
           v # w \/ i # at[w] => result'[v][i] = result[v][i]
  BY <1>1, <1>2, JournalBeside
<1>4. erp'.orders[w].status = "cancelled" /\ \A o \in Orders \ {w} : erp'.orders[o] = erp.orders[o]
  <2>1. erp.orders \in [Orders -> Order]
    BY DEF Typed, TypeOK, Tables
  <2>2. PICK n \in Order : n.status = "cancelled" /\ erp'.orders = [erp.orders EXCEPT ![w] = n]
    BY UndoCreate
  <2> QED
    BY <2>1, <2>2 DEF Orders
<1>5. w \notin Originals
  BY RecordsAssumption
<1>6. ASSUME NEW v \in Workflows, NEW o \in Originals
      PROVE  Replaces(v, o)' <=> Replaces(v, o)
  <2>1. \A i \in DOMAIN plan[v] :
          \/ result'[v][i] = result[v][i]
          \/ /\ result[v][i].tool # "reduce_or_cancel_po"
             /\ result'[v][i].tool # "reduce_or_cancel_po"
    BY <1>1, <1>2, <1>3
  <2> QED
    BY <2>1, ReplacesAt, ReplacesNext
<1>7. ASSUME NEW v \in Workflows, NEW i \in DOMAIN plan[v]
      PROVE  OrderInv(v, i)'
  <2>1. CASE v = w /\ i = at[w]
    BY <1>1, <1>3, <2>1 DEF OrderInv
  <2>2. CASE v # w \/ i # at[w]
    <3> DEFINE q == result[v][i]
    <3>1. OrderInv(v, i) /\ q \in Results /\ result'[v][i] = q
      BY <1>3, <2>2, Places DEF SupplyInv
    <3>2. q.tool = "reduce_or_cancel_po" => q.order \in Originals
      BY <3>1, ResultKinds DEF OrderResults
    <3>3. q.tool = "reduce_or_cancel_po" => erp'.orders[q.order] = erp.orders[q.order]
      BY <1>4, <1>5, <3>2 DEF Orders
    <3> HIDE DEF q
    <3>4. /\ q.tool = "reduce_or_cancel_po" =>
                /\ q.previous.status \in {"open", "delayed"}
                /\ q.written.status = "cancelled"
                /\ erp'.orders[q.order] = q.written
          /\ q.tool = "place_purchase_order_hold" => q.previous.status = "open"
      BY <3>1, <3>3 DEF OrderInv, q
    <3> QED
      BY <3>1, <3>4 DEF OrderInv
  <2> QED
    BY <2>1, <2>2
<1>8. ASSUME NEW v \in Workflows
      PROVE  /\ erp'.orders[v].status # "delayed"
             /\ Supplied(v)' <=> \E i \in DOMAIN plan'[v] : result'[v][i].tool = "create_replacement_po"
  <2>1. CASE v = w
    <3>1. \A i \in DOMAIN plan[w] : result'[w][i].tool # "create_replacement_po"
      <4>1. at[w] = 1
        BY <1>2, <1>3, JournalShape DEF OrderTools
      <4> SUFFICES ASSUME NEW i \in DOMAIN plan[w], result'[w][i].tool = "create_replacement_po"
                   PROVE  FALSE
        OBVIOUS
      <4>2. i # at[w] /\ result[w][i].tool = "create_replacement_po"
        BY <1>1, <1>3
      <4>3. i = 1
        BY <4>2, JournalShape DEF OrderTools
      <4> QED
        BY <4>1, <4>2, <4>3
    <3> QED
      BY <1>4, <2>1, <3>1 DEF Supplied
  <2>2. CASE v # w
    <3>1. erp'.orders[v] = erp.orders[v]
      BY <1>4, <2>2 DEF Orders
    <3>2. \A i \in DOMAIN plan[v] : result'[v][i] = result[v][i]
      BY <1>3, <2>2
    <3> QED
      BY <3>1, <3>2 DEF SupplyInv, Supplied
  <2> QED
    BY <2>1, <2>2
<1>9. \A o \in Originals : erp'.orders[o] = erp.orders[o]
  BY <1>4, <1>5 DEF Orders
<1> QED
  BY <1>6, <1>7, <1>8, <1>9 DEF SupplyInv

LEMMA UndoReduceSupply ==
  ASSUME Typed, Typed', plan' = plan, SupplyInv, NEW w \in Workflows,
         Undoing(w, {"reduce_or_cancel_po"}), Recorded(w, NoResult)
  PROVE  SupplyInv'
<1> DEFINE none == NoResult
           r == Stored(w)
<1>1. none \in Results /\ none.tool = "none" /\ Recorded(w, none)
  BY DEF Results, NoResult
<1> HIDE DEF none
<1>2. Active(w) /\ r.tool = "reduce_or_cancel_po" /\ mode[w] = "compensating"
      /\ r \in OrderResults
  BY UndoReduce DEF Undoing, Active
<1>3. /\ result'[w][at[w]] = none /\ result[w][at[w]] = r /\ at[w] \in DOMAIN plan[w]
      /\ \A v \in Workflows : \A i \in DOMAIN plan[v] :
           v # w \/ i # at[w] => result'[v][i] = result[v][i]
  BY <1>1, <1>2, JournalBeside
<1>4. PICK n \in Order : n.status = r.previous.status /\ erp'.orders = [erp.orders EXCEPT ![r.order] = n]
  BY UndoReduce
<1>5. r.order \in Originals /\ r.previous.status \in {"open", "delayed"}
  BY <1>2, <1>3 DEF SupplyInv, OrderInv, OrderResults
<1> HIDE DEF r
<1>6. /\ erp'.orders[r.order].status \in {"open", "delayed"}
      /\ \A o \in Orders \ {r.order} : erp'.orders[o] = erp.orders[o]
  <2>1. erp.orders \in [Orders -> Order]
    BY DEF Typed, TypeOK, Tables
  <2> QED
    BY <1>4, <1>5, <2>1 DEF Orders
<1>7. at[w] = 2
  BY <1>2, <1>3, JournalShape DEF OrderTools
<1>8. ASSUME NEW v \in Workflows, NEW i \in DOMAIN plan[v], v # w \/ i # at[w],
             result[v][i].tool = "reduce_or_cancel_po"
      PROVE  result[v][i].order # r.order
  <2> SUFFICES ASSUME result[v][i].order = r.order PROVE FALSE
    OBVIOUS
  <2>1. Replaces(v, r.order) /\ Replaces(w, r.order)
    BY <1>2, <1>3, <1>8, ReplacesAt
  <2>2. v = w
    BY <1>5, <2>1 DEF SupplyInv
  <2>3. i = 2
    BY <1>8, JournalShape DEF OrderTools
  <2> QED
    BY <1>7, <1>8, <2>2, <2>3
<1>9. ASSUME NEW v \in Workflows, NEW o \in Originals
      PROVE  Replaces(v, o)' <=> Replaces(v, o) /\ o # r.order
  <2>1. Replaces(v, o)' =>
          \E i \in DOMAIN plan[v] : /\ v # w \/ i # at[w]
                                    /\ result[v][i].tool = "reduce_or_cancel_po"
                                    /\ result[v][i].order = o
    BY <1>1, <1>3, ReplacesNext
  <2>2. ASSUME Replaces(v, o), o # r.order PROVE Replaces(v, o)'
    <3>1. PICK i \in DOMAIN plan[v] : /\ result[v][i].tool = "reduce_or_cancel_po"
                                      /\ result[v][i].order = o
      BY <2>2, ReplacesAt
    <3>2. v # w \/ i # at[w]
      BY <1>3, <2>2, <3>1
    <3> QED
      BY <1>3, <3>1, <3>2, ReplacesNext
  <2> QED
    BY <1>8, <2>1, <2>2, ReplacesAt
<1>10. ASSUME NEW v \in Workflows, NEW i \in DOMAIN plan[v]
      PROVE  OrderInv(v, i)'
  <2>1. CASE v = w /\ i = at[w]
    BY <1>1, <1>3, <2>1 DEF OrderInv
  <2>2. CASE v # w \/ i # at[w]
    <3> DEFINE q == result[v][i]
    <3>1. OrderInv(v, i) /\ q \in Results /\ result'[v][i] = q
      BY <1>3, <2>2, Places DEF SupplyInv
    <3>2. q.tool = "reduce_or_cancel_po" => q.order \in Originals /\ q.order # r.order
      BY <1>8, <2>2, <3>1, ResultKinds DEF OrderResults
    <3>3. q.tool = "reduce_or_cancel_po" => erp'.orders[q.order] = erp.orders[q.order]
      BY <1>6, <3>2 DEF Orders
    <3> HIDE DEF q
    <3>4. /\ q.tool = "reduce_or_cancel_po" =>
                /\ q.previous.status \in {"open", "delayed"}
                /\ q.written.status = "cancelled"
                /\ erp'.orders[q.order] = q.written
          /\ q.tool = "place_purchase_order_hold" => q.previous.status = "open"
      BY <3>1, <3>3 DEF OrderInv, q
    <3> QED
      BY <3>1, <3>4 DEF OrderInv
  <2> QED
    BY <2>1, <2>2
<1>11. ASSUME NEW v \in Workflows
      PROVE  /\ erp'.orders[v].status # "delayed"
             /\ Supplied(v)' <=> \E i \in DOMAIN plan'[v] : result'[v][i].tool = "create_replacement_po"
  <2>1. erp'.orders[v] = erp.orders[v]
    BY <1>5, <1>6, RecordsAssumption DEF Orders
  <2>2. \A i \in DOMAIN plan[v] :
          result'[v][i].tool = "create_replacement_po" <=> result[v][i].tool = "create_replacement_po"
    BY <1>1, <1>2, <1>3
  <2> QED
    BY <2>1, <2>2 DEF SupplyInv, Supplied
<1>12. ASSUME NEW o \in Originals, erp'.orders[o].status = "cancelled"
      PROVE  \E v \in Workflows : Replaces(v, o)'
  <2>1. o # r.order
    BY <1>6, <1>12
  <2> QED
    BY <1>6, <1>9, <1>12, <2>1 DEF SupplyInv, Orders
<1>13. ASSUME NEW u \in Workflows, NEW v \in Workflows, NEW o \in Originals,
             Replaces(u, o)', Replaces(v, o)'
      PROVE  u = v
  BY <1>9, <1>13 DEF SupplyInv
<1> QED
  BY <1>10, <1>11, <1>12, <1>13 DEF SupplyInv

LEMMA SupplyStep ==
  ASSUME Typed, LocksInv, SupplyInv, [Next]_vars
  PROVE  SupplyInv'
<1>1. Typed' /\ plan' = plan
  BY TypedStep, OnwardStep DEF Onward
<1>2. CASE UNCHANGED <<erp, result>>
  BY <1>1, <1>2, QuietSupply DEF QuietOrders, QuietJournal
<1>3. CASE Others
  <2>1. QuietJournal
    BY <1>3, OthersWrite DEF QuietJournal
  <2>2. QuietOrders
    <3> SUFFICES ASSUME NEW o \in Orders, erp'.orders[o] # erp.orders[o]
                 PROVE  /\ erp.orders[o].status # "cancelled" /\ erp'.orders[o].status # "cancelled"
                        /\ o \in Workflows => /\ erp'.orders[o].status # "delayed"
                                              /\ Supplied(o)' <=> Supplied(o)
      BY DEF QuietOrders
    <3>1. /\ erp.orders[o].status \in {"open", "delayed"}
          /\ erp'.orders[o].status \in {erp.orders[o].status, "received"}
      BY <1>3, OthersWrite
    <3>2. o \in Workflows => erp.orders[o].status = "open"
      BY <3>1 DEF SupplyInv
    <3> QED
      BY <3>1, <3>2 DEF Supplied
  <2> QED
    BY <1>1, <2>1, <2>2, QuietSupply
<1>4. ASSUME NEW w \in Workflows, NEW r \in Results, Active(w), Recorded(w, r),
             r.tool \notin OrderTools, Stored(w).tool \notin OrderTools,
             r.tool = "place_purchase_order_hold" => r.previous.status = "open"
      PROVE  QuietJournal
  BY <1>4, JournalBeside DEF QuietJournal
<1>5. ASSUME NEW w \in Workflows, Commit(w) PROVE SupplyInv'
  <2>1. /\ mode[w] = "running" /\ ~Wants(w) /\ ~Refused(w) /\ Effect(w, at[w], Call(w))
        /\ Active(w) /\ Call(w) \in Calls
    BY <1>5, CurrentCall DEF Commit, Active
  <2>2. Stored(w).tool = "none"
    <3>1. at[w] \in DOMAIN plan[w] /\ at[w] \in Nat /\ Phase(w)
      BY <2>1, Places
    <3> QED
      BY <2>1, <3>1 DEF Phase, InJournal, Stored
  <2>3. CASE Call(w).tool = "create_replacement_po"
    BY <1>1, <2>1, <2>2, <2>3, CreateSupply DEF Committing
  <2>4. CASE Call(w).tool = "reduce_or_cancel_po"
    BY <1>1, <2>1, <2>2, <2>4, ReduceSupply DEF Committing
  <2>5. CASE Call(w).tool = "place_purchase_order_hold"
    <3>1. PICK r \in OrderResults :
            /\ r.tool = Call(w).tool /\ Recorded(w, r) /\ r.previous = erp.orders[r.order]
            /\ r.previous.status = "open" /\ r.written.status = "on_hold"
            /\ erp'.orders = [erp.orders EXCEPT ![r.order] = r.written]
      BY <2>1, <2>5, CommitHold DEF Committing
    <3>2. r \in Results
      BY DEF Results
    <3>3. QuietJournal
      BY <1>4, <2>1, <2>2, <2>5, <3>1, <3>2 DEF OrderTools
    <3>4. erp.orders \in [Orders -> Order] /\ r.order \in Originals
      BY DEF Typed, TypeOK, Tables, OrderResults
    <3>5. r.order \notin Workflows
      BY <3>4, RecordsAssumption
    <3>6. QuietOrders
      BY <3>1, <3>4, <3>5 DEF QuietOrders, Orders
    <3> QED
      BY <1>1, <3>3, <3>6, QuietSupply
  <2>6. CASE Call(w).tool \notin OrderTools \cup {"place_purchase_order_hold"}
    <3>1. SameOrders /\ \E r \in Results : r.tool = Call(w).tool /\ Recorded(w, r)
      <4>1. CASE Call(w).tool \in {"notify_production", "flag_shortage_to_purchasing"}
        BY <2>1, <4>1, CommitMessage DEF Committing, Results
      <4>2. CASE Call(w).tool = "schedule_arrival_check"
        BY <2>1, <4>2, CommitCheck DEF Committing, Results
      <4>3. CASE Call(w).tool = "reallocate_lot"
        BY <2>1, <4>3, CommitMove DEF Committing, Results
      <4> QED
        BY <2>1, <2>6, <4>1, <4>2, <4>3, CallFields DEF OrderTools
    <3>2. QuietJournal
      BY <1>4, <2>1, <2>2, <2>6, <3>1 DEF OrderTools
    <3> QED
      BY <1>1, <3>1, <3>2, QuietSupply DEF QuietOrders, SameOrders
  <2> QED
    BY <2>3, <2>4, <2>5, <2>6 DEF OrderTools
<1>6. ASSUME NEW w \in Workflows, Compensate(w) PROVE SupplyInv'
  <2> DEFINE none == NoResult
  <2>1. /\ mode[w] = "compensating" /\ ~Wants(w) /\ ~Refused(w)
        /\ ReverseEffect(w, at[w], Stored(w)) /\ Active(w) /\ Recorded(w, none)
    BY <1>6, CompensateWrites DEF Compensate, Active
  <2>2. none \in Results /\ none.tool = "none"
    BY DEF Results, NoResult
  <2>3. CASE Stored(w).tool = "create_replacement_po"
    BY <1>1, <2>1, <2>3, UndoCreateSupply DEF Undoing
  <2>4. CASE Stored(w).tool = "reduce_or_cancel_po"
    BY <1>1, <2>1, <2>4, UndoReduceSupply DEF Undoing
  <2> HIDE DEF none
  <2>5. Stored(w).tool \notin OrderTools => QuietJournal
    BY <1>4, <2>1, <2>2 DEF OrderTools
  <2>6. CASE Stored(w).tool = "place_purchase_order_hold"
    <3> DEFINE r == Stored(w)
    <3>1. Undoing(w, {"place_purchase_order_hold"})
      BY <2>1, <2>6 DEF Undoing
    <3>2. r \in OrderResults /\ erp.orders[r.order].status = "on_hold"
      BY <3>1, UndoHold
    <3>3. PICK n \in Order : /\ n.status = r.previous.status
                             /\ erp'.orders = [erp.orders EXCEPT ![r.order] = n]
      BY <3>1, UndoHold
    <3>4. r.previous.status = "open"
      <4>1. at[w] \in DOMAIN plan[w]
        BY <2>1, Places
      <4> QED
        BY <2>6, <4>1 DEF SupplyInv, OrderInv, Stored
    <3>5. erp.orders \in [Orders -> Order] /\ r.order \in Originals
      BY <3>2 DEF Typed, TypeOK, Tables, OrderResults
    <3> HIDE DEF r
    <3>6. r.order \notin Workflows
      BY <3>5, RecordsAssumption
    <3>7. QuietOrders
      BY <3>2, <3>3, <3>4, <3>5, <3>6 DEF QuietOrders, Orders
    <3> QED
      BY <1>1, <2>5, <2>6, <3>7, QuietSupply DEF OrderTools
  <2>7. CASE Stored(w).tool \notin OrderTools \cup {"place_purchase_order_hold"}
    <3>1. SameOrders
      <4>1. CASE Stored(w).tool \in {"notify_production", "flag_shortage_to_purchasing"}
        BY <2>1, <4>1, UndoMessage DEF Undoing
      <4>2. CASE Stored(w).tool = "schedule_arrival_check"
        BY <2>1, <4>2, UndoCheck DEF Undoing
      <4>3. CASE Stored(w).tool = "reallocate_lot"
        BY <2>1, <4>3, UndoMove DEF Undoing
      <4> QED
        BY <2>1, <2>7, <4>1, <4>2, <4>3 DEF OrderTools, ReverseEffect
    <3> QED
      BY <1>1, <2>5, <2>7, <3>1, QuietSupply DEF QuietOrders, SameOrders
  <2> QED
    BY <2>3, <2>4, <2>6, <2>7 DEF OrderTools
<1>7. ASSUME NEW w \in Workflows, Lock(w) \/ Refuse(w) \/ GetStuck(w) \/ RollBack(w)
      PROVE  UNCHANGED <<erp, result>>
  BY <1>7 DEF Lock, Refuse, GetStuck, RollBack, recordVars
<1>8. CASE UNCHANGED vars
  BY <1>2, <1>8 DEF vars, recordVars
<1> QED
  BY <1>2, <1>3, <1>5, <1>6, <1>7, <1>8, StepsAre

LEMMA EmptyJournal ==
  ASSUME Init
  PROVE  \A w \in Workflows : \A i \in DOMAIN plan[w] : result[w][i].tool = "none"
<1>1. PICK s \in Situations : plan = s.plan
  BY DEF Init
<1>2. plan \in [Workflows -> Seq(Calls)]
  BY <1>1, SituationsAssumption
<1> SUFFICES ASSUME NEW w \in Workflows, NEW i \in DOMAIN plan[w] PROVE result[w][i].tool = "none"
  OBVIOUS
<1>3. DOMAIN plan[w] = 1..Len(plan[w])
  BY <1>2
<1>4. result[w] = [j \in 1..Len(plan[w]) |-> NoResult]
  BY DEF Init
<1>5. result[w][i] = NoResult
  <2> HIDE DEF NoResult
  <2> QED
    BY <1>3, <1>4
<1> QED
  BY <1>5 DEF NoResult

LEMMA SupplyInit ==
  ASSUME Init
  PROVE  SupplyInv
<1>1. PICK s \in Situations : erp = s.erp /\ plan = s.plan
  BY DEF Init
<1>2. IsSeeded(erp)
  BY <1>1, SituationsAssumption
<1>3. \A w \in Workflows : \A i \in DOMAIN plan[w] : result[w][i].tool = "none"
  BY EmptyJournal
<1>4. \A w \in Workflows, o \in Originals : ~Replaces(w, o)
  BY <1>3, TypedInit, ReplacesAt
<1>5. \A o \in Originals : erp.orders[o].status # "cancelled"
  BY <1>2 DEF IsSeeded
<1>6. \A w \in Workflows : erp.orders[w].status = "absent"
  BY <1>2 DEF IsSeeded, NoOrder
<1> QED
  BY <1>3, <1>4, <1>5, <1>6 DEF SupplyInv, OrderInv, Supplied

LEMMA SupplyAlways == Spec => []SupplyInv
<1>1. Init => SupplyInv
  BY SupplyInit
<1>2. Typed /\ LocksInv /\ SupplyInv /\ [Next]_vars => SupplyInv'
  BY SupplyStep
<1> QED
  BY <1>1, <1>2, TypedAlways, PTL DEF Spec

\* What stands in the journal was journalled in the order of the plan.
LEMMA ReplacedIsSupplied ==
  ASSUME Typed, SupplyInv, NEW w \in Workflows, NEW i \in DOMAIN plan[w],
         result[w][i].tool = "reduce_or_cancel_po"
  PROVE  Supplied(w)
<1>1. IsReroute(plan[w]) /\ DOMAIN plan[w] = 1..4 /\ i = 2
  BY JournalShape DEF OrderTools
<1>2. Phase(w) /\ at[w] \in Nat /\ mode[w] \in Modes
  BY Places
<1>3. 1 \in DOMAIN plan[w] /\ 2 \in DOMAIN plan[w] /\ InJournal(w, 2)
  BY <1>1 DEF InJournal
<1>4. InJournal(w, 1)
  BY <1>2, <1>3 DEF Phase, Modes
<1>5. result[w][1].tool = "create_replacement_po"
  BY <1>1, <1>2, <1>3, <1>4 DEF Phase, IsReroute
<1> QED
  BY <1>3, <1>5 DEF SupplyInv

LEMMA SupplyMeans ==
  ASSUME Typed, SupplyInv
  PROVE  SupplyKept
<1>1. ASSUME NEW o \in Originals
      PROVE  Cardinality({w \in Workflows : Replaces(w, o)}) <= 1
  <2> DEFINE S == {w \in Workflows : Replaces(w, o)}
  <2>1. CASE S = {}
    BY <2>1, FS_EmptySet
  <2>2. CASE S # {}
    <3>1. PICK v \in S : TRUE
      BY <2>2
    <3>2. S = {v}
      BY <3>1 DEF SupplyInv
    <3> HIDE DEF S
    <3>3. Cardinality(S) = 1
      BY <3>2, FS_Singleton
    <3> QED
      BY <3>3 DEF S
  <2> QED
    BY <2>1, <2>2
<1>2. ASSUME NEW o \in Originals, erp.orders[o].status = "cancelled"
      PROVE  \E w \in Workflows : Replaces(w, o) /\ Supplied(w)
  <2>1. PICK w \in Workflows : Replaces(w, o)
    BY <1>2 DEF SupplyInv
  <2>2. Supplied(w)
    BY <2>1, ReplacesAt, ReplacedIsSupplied
  <2> QED
    BY <2>1, <2>2
<1>3. ASSUME NEW w \in Workflows, NEW o \in Originals, Replaces(w, o) PROVE Supplied(w)
  BY <1>3, ReplacesAt, ReplacedIsSupplied
<1>4. ASSUME NEW w \in Workflows, mode[w] \in {"succeeded", "compensated"}, Supplied(w)
      PROVE  \E o \in Originals : Replaces(w, o)
  <2>1. PICK i \in DOMAIN plan[w] : result[w][i].tool = "create_replacement_po"
    BY <1>4 DEF SupplyInv
  <2>2. IsReroute(plan[w]) /\ DOMAIN plan[w] = 1..4
    BY <2>1, JournalShape DEF OrderTools
  <2>3. mode[w] = "succeeded"
    BY <1>4, <2>1, Places DEF Phase, InJournal
  <2>4. 2 \in DOMAIN plan[w] /\ result[w][2].tool = "reduce_or_cancel_po" /\ result[w][2] \in Results
    BY <2>2, <2>3, Places DEF Phase, IsReroute
  <2>5. result[w][2].order \in Originals
    BY <2>4, ResultKinds DEF OrderResults
  <2> QED
    BY <2>4, <2>5, ReplacesAt
<1> QED
  BY <1>1, <1>2, <1>3, <1>4 DEF SupplyKept

\* An original purchase order is closed for one workflow only and never
\* without that workflow's replacement; a finished workflow has done both or
\* neither.
THEOREM SupplyAlwaysKept == Spec => []SupplyKept
BY SupplyMeans, TypedAlways, SupplyAlways, PTL

-----------------------------------------------------------------------------
(* Notices.                                                                *)

NoticeTools == {"notify_production", "flag_shortage_to_purchasing"}

\* Nothing was told about v, and its arrival check is not put back.
LEMMA NoticesKept ==
  ASSUME Typed, NEW v \in Workflows, NoticesOf(v), Steady(v),
         \A i \in DOMAIN plan[v] : \A kind \in {"notice", "correction"} :
           Told(v, i, kind)' <=> Told(v, i, kind),
         erp'.checks[v] = "pending" => erp.checks[v] = "pending"
  PROVE  NoticesOf(v)'
BY DEF NoticesOf, Steady

\* What a step of w tells, and what it leaves in the journal.
LEMMA CommitNotices ==
  ASSUME Typed, LocksInv, NEW w \in Workflows, Commit(w)
  PROVE  /\ \E r \in Results : r.tool = Call(w).tool /\ Recorded(w, r)
         /\ erp'.messages = IF Call(w).tool \in NoticeTools
                            THEN erp.messages \cup {<<w, at[w], "notice">>} ELSE erp.messages
         /\ \A v \in Workflows : erp'.checks[v] = "pending" =>
              erp.checks[v] = "pending" \/ (v = w /\ Call(w).tool = "schedule_arrival_check")
<1>1. mode[w] = "running" /\ ~Wants(w) /\ ~Refused(w) /\ Effect(w, at[w], Call(w))
  BY DEF Commit
<1>2. Call(w) \in Calls
  BY <1>1, CurrentCall DEF Active
<1>3. \E r \in Results : r.tool = Call(w).tool /\ Recorded(w, r)
  BY CommitWrites
<1>4. CASE Call(w).tool = "create_replacement_po"
  BY <1>1, <1>3, <1>4, CommitCreate DEF Committing, SameNews, NoticeTools
<1>5. CASE Call(w).tool = "reduce_or_cancel_po"
  BY <1>1, <1>3, <1>5, CommitReduce DEF Committing, SameNews, NoticeTools
<1>6. CASE Call(w).tool = "place_purchase_order_hold"
  BY <1>1, <1>3, <1>6, CommitHold DEF Committing, SameNews, NoticeTools
<1>7. CASE Call(w).tool \in {"notify_production", "flag_shortage_to_purchasing"}
  BY <1>1, <1>3, <1>7, CommitMessage DEF Committing, NoticeTools
<1>8. CASE Call(w).tool = "schedule_arrival_check"
  <2>1. erp.checks \in [Workflows -> {"absent", "pending", "claimed", "cancelled"}]
    BY DEF Typed, TypeOK, Tables
  <2> QED
    BY <1>1, <1>3, <1>8, <2>1, CommitCheck DEF Committing, NoticeTools
<1>9. CASE Call(w).tool = "reallocate_lot"
  BY <1>1, <1>3, <1>9, CommitMove DEF Committing, SameNews, NoticeTools
<1> QED
  BY <1>2, <1>4, <1>5, <1>6, <1>7, <1>8, <1>9, CallFields

LEMMA CompensateNotices ==
  ASSUME Typed, LocksInv, NEW w \in Workflows, Compensate(w)
  PROVE  /\ Recorded(w, NoResult)
         /\ Stored(w).tool \in NoticeTools => <<w, at[w], "notice">> \in erp.messages
         /\ erp'.messages = IF Stored(w).tool \in NoticeTools
                            THEN erp.messages \cup {<<w, at[w], "correction">>} ELSE erp.messages
         /\ \A v \in Workflows : erp'.checks[v] = "pending" =>
              erp.checks[v] = "pending" /\ (v = w => Stored(w).tool # "schedule_arrival_check")
<1>1. mode[w] = "compensating" /\ ~Wants(w) /\ ~Refused(w) /\ ReverseEffect(w, at[w], Stored(w))
  BY DEF Compensate
<1>2. Recorded(w, NoResult)
  BY CompensateWrites
<1>3. CASE Stored(w).tool = "create_replacement_po"
  BY <1>1, <1>2, <1>3, UndoCreate DEF Undoing, SameNews, NoticeTools
<1>4. CASE Stored(w).tool = "reduce_or_cancel_po"
  BY <1>1, <1>2, <1>4, UndoReduce DEF Undoing, SameNews, NoticeTools
<1>5. CASE Stored(w).tool = "place_purchase_order_hold"
  BY <1>1, <1>2, <1>5, UndoHold DEF Undoing, SameNews, NoticeTools
<1>6. CASE Stored(w).tool \in {"notify_production", "flag_shortage_to_purchasing"}
  BY <1>1, <1>2, <1>6, UndoMessage DEF Undoing, NoticeTools
<1>7. CASE Stored(w).tool = "schedule_arrival_check"
  <2>1. erp.checks \in [Workflows -> {"absent", "pending", "claimed", "cancelled"}]
    BY DEF Typed, TypeOK, Tables
  <2> QED
    BY <1>1, <1>2, <1>7, <2>1, UndoCheck DEF Undoing, NoticeTools
<1>8. CASE Stored(w).tool = "reallocate_lot"
  BY <1>1, <1>2, <1>8, UndoMove DEF Undoing, SameNews, NoticeTools
<1> QED
  BY <1>1, <1>3, <1>4, <1>5, <1>6, <1>7, <1>8 DEF ReverseEffect

LEMMA CommitTells ==
  ASSUME Typed, LocksInv, NoticesInv, NEW w \in Workflows, Commit(w)
  PROVE  NoticesInv'
<1>1. PICK r \in Results : r.tool = Call(w).tool /\ Recorded(w, r)
  BY CommitNotices
<1>2. /\ erp'.messages = IF Call(w).tool \in NoticeTools
                         THEN erp.messages \cup {<<w, at[w], "notice">>} ELSE erp.messages
      /\ \A v \in Workflows : erp'.checks[v] = "pending" =>
           erp.checks[v] = "pending" \/ (v = w /\ Call(w).tool = "schedule_arrival_check")
  BY CommitNotices
<1>3. /\ plan' = plan /\ OthersStay(w)
      /\ \/ at[w] = Len(plan[w]) /\ mode'[w] = "succeeded" /\ at'[w] = at[w]
         \/ at[w] < Len(plan[w]) /\ mode'[w] = "running" /\ at'[w] = at[w] + 1
  BY CommitMoves
<1>4. mode[w] = "running" /\ Active(w)
  BY DEF Commit, Active
<1>5. /\ at[w] \in Nat /\ DOMAIN plan[w] = 1..Len(plan[w]) /\ Len(plan[w]) \in Nat /\ Phase(w)
  BY Places
<1>6. /\ result'[w][at[w]] = r /\ result[w][at[w]] = Stored(w) /\ at[w] \in DOMAIN plan[w]
      /\ \A v \in Workflows : \A i \in DOMAIN plan[v] :
           v # w \/ i # at[w] => result'[v][i] = result[v][i]
  BY <1>1, <1>4, JournalBeside
<1>7. ASSUME NEW v \in Workflows \ {w} PROVE NoticesOf(v)'
  <2>1. Steady(v)
    BY <1>1, <1>3, <1>4, RecordedRows DEF Steady, OthersStay
  <2> QED
    BY <1>2, <2>1, NoticesKept DEF NoticesInv, Told
<1>8. NoticesOf(w)'
  <2>1. NoticesOf(w)
    BY DEF NoticesInv
  <2>2. erp'.checks[w] = "pending" =>
          \E i \in DOMAIN plan[w] : result'[w][i].tool = "schedule_arrival_check"
    <3>1. CASE Call(w).tool = "schedule_arrival_check"
      BY <1>1, <1>6, <3>1
    <3>2. CASE Call(w).tool # "schedule_arrival_check"
      <4> SUFFICES ASSUME erp'.checks[w] = "pending"
                   PROVE  \E i \in DOMAIN plan[w] : result'[w][i].tool = "schedule_arrival_check"
        OBVIOUS
      <4>1. PICK i \in DOMAIN plan[w] : result[w][i].tool = "schedule_arrival_check"
        BY <1>2, <2>1, <3>2 DEF NoticesOf
      <4>2. i # at[w]
        BY <1>4, <1>5, <1>6, <4>1 DEF Phase, InJournal
      <4> QED
        BY <1>6, <4>1, <4>2
    <3> QED
      BY <3>1, <3>2
  <2>3. ASSUME NEW i \in DOMAIN plan[w]
        PROVE  /\ Told(w, i, "correction")' <=> Told(w, i, "correction")
               /\ Told(w, i, "notice")' <=>
                    Told(w, i, "notice") \/ (i = at[w] /\ Call(w).tool \in NoticeTools)
    BY <1>2 DEF Told
  <2>4. \A i \in DOMAIN plan[w] :
          /\ Told(w, i, "notice")' => plan[w][i].tool \in NoticeTools
          /\ ~Told(w, i, "correction")'
          /\ Told(w, i, "notice")' => i <= at[w]
    BY <1>4, <1>5, <2>1, <2>3 DEF NoticesOf, NoticeTools, Call
  <2> QED
    BY <1>3, <1>5, <2>2, <2>4 DEF NoticesOf, NoticeTools
<1> QED
  BY <1>7, <1>8 DEF NoticesInv

LEMMA CompensateTells ==
  ASSUME Typed, LocksInv, NoticesInv, NEW w \in Workflows, Compensate(w)
  PROVE  NoticesInv'
<1> DEFINE none == NoResult
<1>1. none \in Results /\ none.tool = "none" /\ Recorded(w, none)
  BY CompensateNotices DEF Results, NoResult
<1> HIDE DEF none
<1>2. /\ Stored(w).tool \in NoticeTools => <<w, at[w], "notice">> \in erp.messages
      /\ erp'.messages = IF Stored(w).tool \in NoticeTools
                         THEN erp.messages \cup {<<w, at[w], "correction">>} ELSE erp.messages
      /\ \A v \in Workflows : erp'.checks[v] = "pending" =>
           erp.checks[v] = "pending" /\ (v = w => Stored(w).tool # "schedule_arrival_check")
  BY CompensateNotices
<1>3. mode[w] = "compensating" /\ Active(w) /\ StepBack(w) /\ plan' = plan
  BY DEF Compensate, Active
<1>4. /\ OthersStay(w)
      /\ \/ at[w] = 1 /\ mode'[w] = "compensated" /\ at'[w] = at[w]
         \/ at[w] > 1 /\ mode'[w] = "compensating" /\ at'[w] = at[w] - 1
  BY <1>3, StepBackMoves
<1>5. /\ at[w] \in Nat /\ DOMAIN plan[w] = 1..Len(plan[w]) /\ Len(plan[w]) \in Nat /\ Phase(w)
  BY Places
<1>6. /\ result'[w][at[w]] = none /\ result[w][at[w]] = Stored(w) /\ at[w] \in DOMAIN plan[w]
      /\ \A v \in Workflows : \A i \in DOMAIN plan[v] :
           v # w \/ i # at[w] => result'[v][i] = result[v][i]
  BY <1>1, <1>3, JournalBeside
<1>7. ASSUME NEW v \in Workflows \ {w} PROVE NoticesOf(v)'
  <2>1. Steady(v)
    BY <1>1, <1>3, <1>4, RecordedRows DEF Steady, OthersStay
  <2> QED
    BY <1>2, <2>1, NoticesKept DEF NoticesInv, Told
<1>8. NoticesOf(w)'
  <2>1. NoticesOf(w)
    BY DEF NoticesInv
  <2>2. erp'.checks[w] = "pending" =>
          \E i \in DOMAIN plan[w] : result'[w][i].tool = "schedule_arrival_check"
    <3> SUFFICES ASSUME erp'.checks[w] = "pending"
                 PROVE  \E i \in DOMAIN plan[w] : result'[w][i].tool = "schedule_arrival_check"
      OBVIOUS
    <3>1. Stored(w).tool # "schedule_arrival_check"
      BY <1>2
    <3>2. PICK i \in DOMAIN plan[w] : result[w][i].tool = "schedule_arrival_check"
      BY <1>2, <2>1 DEF NoticesOf
    <3> QED
      BY <1>6, <3>1, <3>2
  <2>3. ASSUME NEW i \in DOMAIN plan[w]
        PROVE  /\ Told(w, i, "notice")' <=> Told(w, i, "notice")
               /\ Told(w, i, "correction")' <=>
                    Told(w, i, "correction") \/ (i = at[w] /\ Stored(w).tool \in NoticeTools)
    BY <1>2 DEF Told
  <2>4. Stored(w).tool = plan[w][at[w]].tool
    BY <1>3, <1>5, <1>6 DEF Phase, InJournal
  <2>5. \A i \in DOMAIN plan[w] :
          /\ Told(w, i, "notice")' => plan[w][i].tool \in NoticeTools
          /\ i < at[w] => ~Told(w, i, "correction")'
          /\ i > at[w] => (Told(w, i, "correction")' <=> Told(w, i, "notice")')
    BY <1>3, <1>5, <2>1, <2>3 DEF NoticesOf, NoticeTools
  <2>6. ASSUME NEW i \in DOMAIN plan[w], i = at[w]
        PROVE  Told(w, i, "correction")' <=> Told(w, i, "notice")'
    <3>1. ~Told(w, i, "correction")
      BY <1>3, <1>5, <2>1, <2>6 DEF NoticesOf
    <3>2. Told(w, i, "notice") => Stored(w).tool \in NoticeTools
      BY <2>1, <2>4, <2>6 DEF NoticesOf, NoticeTools
    <3>3. Stored(w).tool \in NoticeTools => Told(w, i, "notice")
      BY <1>2, <2>6 DEF Told
    <3> QED
      BY <2>3, <2>6, <3>1, <3>2, <3>3
  <2> QED
    BY <1>3, <1>4, <1>5, <2>2, <2>5, <2>6 DEF NoticesOf, NoticeTools
<1> QED
  BY <1>7, <1>8 DEF NoticesInv

LEMMA RefuseTells ==
  ASSUME Typed, NoticesInv, NEW w \in Workflows, Refuse(w) \/ GetStuck(w)
  PROVE  NoticesInv'
<1>1. UNCHANGED <<erp, result, plan>>
  BY DEF Refuse, GetStuck, recordVars
<1>2. /\ at[w] \in Nat \ {0} /\ DOMAIN plan[w] = 1..Len(plan[w]) /\ Len(plan[w]) \in Nat
      /\ NoticesOf(w)
  BY Places DEF NoticesInv
<1>3. OthersStay(w) /\ NoticesOf(w)'
  <2>1. ASSUME NEW i \in DOMAIN plan[w]
        PROVE  /\ Told(w, i, "notice")' <=> Told(w, i, "notice")
               /\ Told(w, i, "correction")' <=> Told(w, i, "correction")
    BY <1>1 DEF Told
  <2>4. erp'.checks[w] = "pending" =>
          \E i \in DOMAIN plan'[w] : result'[w][i].tool = "schedule_arrival_check"
    BY <1>1, <1>2 DEF NoticesOf
  <2>5. ASSUME NEW i \in DOMAIN plan[w]
        PROVE  Told(w, i, "notice")' => plan[w][i].tool \in NoticeTools
    BY <1>2, <2>1 DEF NoticesOf, NoticeTools
  <2>2. CASE Refuse(w)
    <3>1. mode[w] = "running" /\ Active(w) /\ StepBack(w)
      BY <2>2 DEF Refuse, Active
    <3>2. /\ OthersStay(w)
          /\ \/ at[w] = 1 /\ mode'[w] = "compensated" /\ at'[w] = at[w]
             \/ at[w] > 1 /\ mode'[w] = "compensating" /\ at'[w] = at[w] - 1
      BY <3>1, StepBackMoves
    <3>3. ASSUME NEW i \in DOMAIN plan[w]
          PROVE  /\ ~Told(w, i, "correction")'
                 /\ Told(w, i, "notice")' => i < at[w]
      BY <1>2, <2>1, <3>1 DEF NoticesOf
    <3>4. \A i \in DOMAIN plan[w] : i > at'[w] => ~Told(w, i, "notice")' \/ at[w] = 1
      BY <1>2, <3>2, <3>3
    <3>5. at[w] = 1 => \A i \in DOMAIN plan[w] : ~Told(w, i, "notice")'
      BY <1>2, <3>3
    <3>6. NoticesOf(w)'
      BY <1>1, <2>4, <2>5, <3>2, <3>3, <3>4, <3>5 DEF NoticesOf, NoticeTools
    <3> QED
      BY <3>2, <3>6
  <2>3. CASE GetStuck(w)
    <3>1. mode[w] = "compensating" /\ at' = at /\ mode' = [mode EXCEPT ![w] = "stuck"]
      BY <2>3 DEF GetStuck
    <3>2. mode'[w] = "stuck" /\ OthersStay(w)
      BY <3>1 DEF Typed, TypeOK, OthersStay
    <3>3. ASSUME NEW i \in DOMAIN plan[w]
          PROVE  /\ i <= at[w] => ~Told(w, i, "correction")'
                 /\ i > at[w] => (Told(w, i, "correction")' <=> Told(w, i, "notice")')
      BY <1>2, <2>1, <3>1 DEF NoticesOf
    <3>4. NoticesOf(w)'
      BY <1>1, <2>4, <2>5, <3>1, <3>2, <3>3 DEF NoticesOf, NoticeTools
    <3> QED
      BY <3>2, <3>4
  <2> QED
    BY <2>2, <2>3
<1>4. ASSUME NEW v \in Workflows \ {w} PROVE NoticesOf(v)'
  BY <1>1, <1>3, NoticesKept DEF NoticesInv, Told, Steady, OthersStay
<1> QED
  BY <1>3, <1>4 DEF NoticesInv

LEMMA NoticesStep ==
  ASSUME Typed, LocksInv, NoticesInv, [Next]_vars
  PROVE  NoticesInv'
<1>1. ASSUME erp'.messages = erp.messages, UNCHANGED <<result, plan, mode, at>>,
             \A v \in Workflows : erp'.checks[v] = "pending" => erp.checks[v] = "pending"
      PROVE  NoticesInv'
  <2> SUFFICES ASSUME NEW v \in Workflows PROVE NoticesOf(v)'
    BY DEF NoticesInv
  <2>1. Steady(v) /\ NoticesOf(v)
    BY <1>1 DEF Steady, NoticesInv
  <2> QED
    BY <1>1, <2>1, NoticesKept DEF Told
<1>2. CASE Others
  <2>1. /\ erp'.messages = erp.messages
        /\ \A v \in Workflows : erp'.checks[v] = "pending" => erp.checks[v] = "pending"
        /\ UNCHANGED <<result, plan, mode, at>>
    BY <1>2, OthersWrite DEF flowVars
  <2> QED
    BY <1>1, <2>1
<1>3. CASE UNCHANGED vars
  BY <1>1, <1>3 DEF vars, recordVars, flowVars
<1>4. ASSUME NEW w \in Workflows, Lock(w) \/ RollBack(w) PROVE NoticesInv'
  BY <1>1, <1>4 DEF Lock, RollBack, recordVars
<1> QED
  BY <1>2, <1>3, <1>4, StepsAre, CommitTells, CompensateTells, RefuseTells

LEMMA NoticesInit ==
  ASSUME Init
  PROVE  NoticesInv
<1>1. PICK s \in Situations : erp = s.erp
  BY DEF Init
<1>2. IsSeeded(erp)
  BY <1>1, SituationsAssumption
<1>3. erp.messages = {} /\ \A w \in Workflows : erp.checks[w] = "absent"
  BY <1>2 DEF IsSeeded
<1> QED
  BY <1>3 DEF NoticesInv, NoticesOf, Told

LEMMA NoticesMean ==
  ASSUME Typed, NoticesInv
  PROVE  NoticesTrue
<1> SUFFICES ASSUME NEW w \in Workflows, NEW i \in DOMAIN plan[w]
             PROVE  LET sent == <<w, i, "notice">> \in erp.messages
                        corrected == <<w, i, "correction">> \in erp.messages
                    IN /\ mode[w] = "compensated" => corrected = sent /\ erp.checks[w] # "pending"
                       /\ mode[w] = "succeeded" => ~corrected
  <2>1. \A w \in Workflows : DOMAIN result[w] = DOMAIN plan[w]
    BY DEF Typed, TypeOK
  <2> QED
    BY <2>1 DEF NoticesTrue
<1>1. NoticesOf(w) /\ Phase(w)
  BY Places DEF NoticesInv
<1>2. mode[w] = "compensated" => erp.checks[w] # "pending"
  BY <1>1 DEF NoticesOf, Phase, InJournal
<1> QED
  BY <1>1, <1>2 DEF NoticesOf, Told

\* A compensated workflow has corrected every notice it sent and left no
\* arrival check waiting; a succeeded one has corrected none.
THEOREM NoticesAlwaysTrue == Spec => []NoticesTrue
<1>1. Init => NoticesInv
  BY NoticesInit
<1>2. Typed /\ LocksInv /\ NoticesInv /\ [Next]_vars => NoticesInv'
  BY NoticesStep
<1>3. Typed /\ NoticesInv => NoticesTrue
  BY NoticesMean
<1> QED
  BY <1>1, <1>2, <1>3, TypedAlways, PTL DEF Spec
=============================================================================
