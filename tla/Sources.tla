------------------------------ MODULE Sources ------------------------------
(***************************************************************************)
(* The rows of the enterprise systems and what their providers let an      *)
(* actor read.  A query runs one SELECT per record type, in the order of   *)
(* the type names, each on what is committed when it runs: evidence of two *)
(* types need not have been true at the same time.                         *)
(*                                                                         *)
(* A row is a record with its type, id and version and the columns the     *)
(* program decides by.  The systems that change the rows are external.     *)
(***************************************************************************)
EXTENDS Integers, FiniteSets, Sequences

CONSTANTS
  Plants,       \* actor.plant_ids, the plants the actor may see
  Edited(_),    \* the rows another user may turn a row into
  Arrivals,     \* rows that may be added
  MaxEdits      \* bound on the changes others make

\* No row is of the type that stands for a production order with its lots, and
\* every production order has its start.
IsRow(r) ==
  /\ {"type", "id", "version"} \subseteq DOMAIN r
  /\ r.type # "production_impact"
  /\ r.type = "production_order" => "start" \in DOMAIN r
  /\ r.version \in Nat \ {0}

ASSUME SourcesAssumption ==
  /\ MaxEdits \in Nat
  /\ \A r \in Arrivals : IsRow(r)

VARIABLES
  rows,     \* the rows of every source
  edits     \* changes made so far

sourceVars == <<rows, edits>>

\* The types whose rows carry a version that every change increments; the
\* providers report version 1 for all others.
Versioned ==
  {"inventory", "purchase_order", "supplier", "quality_lot",
   "production_allocation", "supplier_risk_bulletin"}

Of(evidence, type) == {e \in evidence : e.type = type}

-----------------------------------------------------------------------------
InPlants(type) == {e \in Of(rows, type) : e.plant \in Plants}

\* production_allocation: the plant is its lot's.
Allocations ==
  {a \in Of(rows, "production_allocation") :
     \E lot \in InPlants("quality_lot") : lot.id = a.lot}

\* production_impact: a production order with an allocation in sight.
Impacts ==
  {[p EXCEPT !.type = "production_impact"] :
     p \in {p \in Of(rows, "production_order") :
              \E a \in Allocations : a.order = p.id}}

Bulletins ==
  {b \in InPlants("supplier_risk_bulletin") :
     b.status = "active" /\ b.superseded_by = "none"}

\* The actor's events that touch the days from first to last.
Events(first, last) ==
  {e \in Of(rows, "calendar_event") : e.ends >= first /\ e.starts <= last}

\* The SELECT of one record type; from is the first day the caller's
\* calendar query covers, the day after it the last.
Select(type, from) ==
  CASE type = "production_allocation"  -> Allocations
    [] type = "production_impact"      -> Impacts
    [] type = "supplier_risk_bulletin" -> Bulletins
    [] type = "message"                -> Of(rows, type)
    [] type = "calendar_event"         -> Events(from, from + 1)
    [] OTHER                           -> InPlants(type)

\* A query still running: the statements to come and the evidence read.
Query(types) == [todo |-> types, seen |-> {}]

\* One statement of a query.
Read(query, from) ==
  [todo |-> Tail(query.todo),
   seen |-> query.seen \cup Select(Head(query.todo), from)]

Finished(query) == query.todo = << >>

\* The source-version map of a set of evidence.
VersionsOf(evidence) == {<<e.type, e.id, e.version>> : e \in evidence}

-----------------------------------------------------------------------------
\* An UPDATE leaves the key alone and gives a versioned row its next version.
Updated(old, new) ==
  [column \in DOMAIN old |->
     CASE column \in {"type", "id"} -> old[column]
       [] column = "version" -> IF old.type \in Versioned THEN old.version + 1
                                                          ELSE old.version
       [] OTHER -> new[column]]

\* Another user changes a row.
Edit ==
  /\ edits < MaxEdits
  /\ edits' = edits + 1
  /\ \E old \in rows : \E new \in Edited(old) :
       rows' = (rows \ {old}) \cup {Updated(old, new)}

SameKey(e, f) == e.type = f.type /\ e.id = f.id

\* Another user adds a row: a message arrives, an event is entered.
Arrive ==
  /\ edits < MaxEdits
  /\ edits' = edits + 1
  /\ \E new \in Arrivals :
       /\ \A r \in rows : ~SameKey(r, new)
       /\ rows' = rows \cup {new}
=============================================================================
