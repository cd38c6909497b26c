--------------------------- MODULE RestaurantOrders ---------------------------
(***************************************************************************)
(* Orders of a restaurant and their tables (src/backend/apps/pos): an      *)
(* order is taken, goes to the kitchen and is finalised, which sells its   *)
(* items as an invoice, books the receipt and frees the table.             *)
(*                                                                         *)
(* A request works on the order it loaded (`seen`); nothing is locked.     *)
(* The invoice itself is the subject of InvoiceLifecycle; modifiers, bill  *)
(* splits, tenders, tickets and their own statuses are left out.           *)
(***************************************************************************)
EXTENDS Integers, FiniteSets

CONSTANTS
    Workers, Orders, Tables,
    MaxRequests   \* bound: requests after an order's creation

RestaurantAssumption == "none" \notin Tables /\ MaxRequests \in Nat

VARIABLES
    order,     \* rows: status, table, whether it names an invoice, deleted
    items,     \* of an order: none, some no invoice has, or all sold
    sales,     \* invoices made from an order
    receipt,   \* orders whose receipt is in the ledger (pos_receipt, order)
    table,     \* RestaurantTable.status: occupied or not
    work, requests,
    lapses     \* history: the ways in which orders, sales and tables part

vars == <<order, items, sales, receipt, table, work, requests, lapses>>

None == "none"
Kitchen == {"open", "preparing", "ready", "served"}
Statuses == Kitchen \cup {"completed", "cancelled"}
NoOrder == [status |-> None, table |-> None, invoiced |-> FALSE, deleted |-> FALSE]
Idle == [op |-> "idle"]

Init ==
    /\ order = [o \in Orders |-> NoOrder] /\ items = [o \in Orders |-> None] /\ sales = [o \in Orders |-> 0] /\ receipt = {}
    /\ table = [t \in Tables |-> "available"]
    /\ work = [w \in Workers |-> Idle] /\ requests = 0 /\ lapses = {}

Lapse(cond, name) == IF cond THEN {name} ELSE {}
Finished(w) == work' = [work EXCEPT ![w] = Idle]
Live(o) == order[o].status # None /\ ~order[o].deleted
Sits(o, t) == Live(o) /\ order[o].status \in Kitchen /\ order[o].table = t
Freed(t) == [x \in Tables |-> IF x = t THEN "available" ELSE table[x]]
\* Freeing t while another order sits there.
Shared(o, t) == Lapse(t # None /\ \E p \in Orders \ {o} : Sits(p, t), "shared table")

-----------------------------------------------------------------------------
\* POSOrderService.create_order, at a table or not, perhaps empty.
Create(o, t, filled) ==
    /\ order[o].status = None
    /\ order' = [order EXCEPT ![o] = [NoOrder EXCEPT !.status = "open", !.table = t]]
    /\ items' = [items EXCEPT ![o] = IF filled THEN "unsold" ELSE None]
    /\ table' = [x \in Tables |-> IF x = t THEN "occupied" ELSE table[x]]
    /\ UNCHANGED <<sales, receipt, work, requests, lapses>>

\* get_object.
Load(w, o, op) ==
    /\ work[w] = Idle /\ Live(o) /\ requests < MaxRequests /\ requests' = requests + 1
    /\ work' = [work EXCEPT ![w] = [op |-> op, order |-> o, seen |-> order[o]]]
    /\ UNCHANGED <<order, items, sales, receipt, table, lapses>>

At(w, op) == work[w].op = op
Overtaken(w) == Lapse(order[work[w].order] # work[w].seen, "stale")
\* A completed order takes a status again, or an unsold one is completed.
Reopened(o, s) ==
    Lapse(sales[o] > 0 /\ s # "completed", "reopened") \cup Lapse(sales[o] = 0 /\ s = "completed", "by hand")

\* add_items, unless the copy was finished.
AddItems(w) ==
    LET o == work[w].order
    IN /\ At(w, "add")
       /\ items' = IF work[w].seen.status \in Kitchen THEN [items EXCEPT ![o] = "unsold"] ELSE items
       /\ lapses' = lapses \cup Overtaken(w)
       /\ Finished(w) /\ UNCHANGED <<order, sales, receipt, table, requests>>

\* set_status, any status after any other; the table of a finished order is freed.
SetStatus(w, s) ==
    LET o == work[w].order
        t == work[w].seen.table
    IN /\ At(w, "status")
       /\ order' = [order EXCEPT ![o].status = s]
       /\ table' = IF s \in Kitchen THEN table ELSE Freed(t)
       /\ lapses' = lapses \cup Overtaken(w) \cup Reopened(o, s)
                           \cup (IF s \in Kitchen
                                 THEN Lapse(order[o].status \notin Kitchen, "reopened")
                                 ELSE Shared(o, t))
       /\ Finished(w) /\ UNCHANGED <<items, sales, receipt, requests>>

\* generate_kot moves an order it loaded as open to the kitchen.
SendToKitchen(w) ==
    LET o == work[w].order
        moves == work[w].seen.status = "open"
    IN /\ At(w, "kitchen")
       /\ order' = IF moves THEN [order EXCEPT ![o].status = "preparing"] ELSE order
       /\ lapses' = lapses \cup Lapse(moves /\ order[o] # work[w].seen, "stale")
       /\ Finished(w) /\ UNCHANGED <<items, sales, receipt, table, requests>>

\* PATCH: status or table from the request, the other columns from the copy; tables stay.
Patch(w, s, t) ==
    LET o == work[w].order
        new == [work[w].seen EXCEPT !.status = s, !.table = t]
    IN /\ At(w, "patch")
       /\ order' = [order EXCEPT ![o] = new]
       /\ lapses' = lapses \cup Overtaken(w) \cup Reopened(o, s) \cup Lapse(t # work[w].seen.table, "moved")
                           \cup Lapse(s \in Kitchen /\ order[o].status \notin Kitchen, "reopened")
       /\ Finished(w) /\ UNCHANGED <<items, sales, receipt, table, requests>>

Delete(w) ==
    /\ At(w, "delete")
    /\ order' = [order EXCEPT ![work[w].order].deleted = TRUE]
    /\ Finished(w) /\ UNCHANGED <<items, sales, receipt, table, requests, lapses>>

\* finalize_order, one transaction: an unpaid sale, the receipt under the order (once),
\* the payments, the order's invoice and status, the table.
Finalizable_always(seen, o) == items[o] # None
Finalizable(seen, o) == seen.status # "completed" /\ items[o] # None
Finalize(w) ==
    LET o == work[w].order
        t == work[w].seen.table
    IN /\ At(w, "finalize") /\ Finalizable(work[w].seen, o)
       /\ sales' = [sales EXCEPT ![o] = @ + 1]
       /\ receipt' = receipt \cup {o}
       /\ order' = [order EXCEPT ![o].status = "completed", ![o].invoiced = TRUE]
       /\ table' = Freed(t)
       /\ lapses' = lapses \cup Overtaken(w) \cup Shared(o, t)
       /\ items' = [items EXCEPT ![o] = "sold"]
       /\ Finished(w) /\ UNCHANGED requests

Refuse(w) ==
    /\ At(w, "finalize") /\ ~Finalizable(work[w].seen, work[w].order)
    /\ Finished(w) /\ UNCHANGED <<order, items, sales, receipt, table, requests, lapses>>

\* The table's own page.
SetTable(t, s) ==
    /\ requests < MaxRequests /\ requests' = requests + 1
    /\ table' = [table EXCEPT ![t] = s]
    /\ lapses' = lapses \cup Lapse(s # "occupied" /\ \E o \in Orders : Sits(o, t), "moved")
    /\ UNCHANGED <<order, items, sales, receipt, work>>

Next ==
    \/ \E o \in Orders, t \in Tables \cup {None}, filled \in BOOLEAN : Create(o, t, filled)
    \/ \E w \in Workers :
          \/ \E o \in Orders, op \in {"add", "status", "kitchen", "patch", "delete", "finalize"} : Load(w, o, op)
          \/ \E s \in Statuses : SetStatus(w, s) \/ \E t \in Tables \cup {None} : Patch(w, s, t)
          \/ AddItems(w) \/ SendToKitchen(w) \/ Delete(w) \/ Finalize(w) \/ Refuse(w)
    \/ \E t \in Tables, s \in {"available", "occupied", "reserved"} : SetTable(t, s)

Spec == Init /\ [][Next]_vars

-----------------------------------------------------------------------------
\* The types of the variables.
TypeOK ==
    /\ order \in [Orders -> [status : Statuses \cup {None}, table : Tables \cup {None},
                             invoiced : BOOLEAN, deleted : BOOLEAN]]
    /\ items \in [Orders -> {None, "unsold", "sold"}] /\ sales \in [Orders -> Nat] /\ receipt \subseteq Orders
    /\ table \in [Tables -> {"available", "occupied", "reserved"}] /\ requests \in 0..MaxRequests

\* An order is sold at most once, with all its items, and every sale has its receipt in
\* the ledger, unless a copy was overtaken or the order reopened; a completed order was
\* sold, unless its status was set by hand.
OrderSoldOnce ==
    \A o \in Orders :
        /\ lapses \cap {"stale", "reopened"} = {} =>
              sales[o] <= 1 /\ (o \in receipt <=> sales[o] = 1) /\ (order[o].invoiced <=> sales[o] = 1)
              /\ (sales[o] = 1 => items[o] = "sold")
        /\ lapses \cap {"stale", "by hand"} = {} /\ order[o].status = "completed" => sales[o] > 0

\* A table where an unfinished order sits is not offered to others: unless it was freed
\* by another order that sat there too, or the order or the table was changed by hand.
TableIsTaken ==
    lapses \cap {"stale", "shared table", "moved", "reopened"} = {} =>
        \A o \in Orders, t \in Tables : Sits(o, t) => table[t] = "occupied"
=============================================================================
