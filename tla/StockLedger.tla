---------------------------- MODULE StockLedger ----------------------------
(***************************************************************************)
(* The stock ledger of apps/inventory: every change of stock goes through  *)
(* InventoryService.record_movement, which locks one StockItem row, checks *)
(* the balance, maintains the FIFO/LIFO cost layers and appends one        *)
(* StockMovement.  Requests run as database transactions: a request owns   *)
(* the rows it has locked until it commits or rolls back, and what it has  *)
(* written is private to it until then.                                    *)
(*                                                                         *)
(* A quantity is a number of indivisible units, and the cost layers of an  *)
(* item are the sequence of the unit costs still in stock, oldest first: a *)
(* StockCostLayer row of quantity n at cost c is n copies of c.            *)
(***************************************************************************)
EXTENDS Integers, Sequences, FiniteSets, Functions

CONSTANTS
    Products, Warehouses,
    Requests,         \* concurrent HTTP requests
    Method,           \* Product.costing_method of each product
    Costs,            \* unit costs that occur
    CostPrice,        \* Product.cost_price, the cost of a move that names none
    MaxQty,           \* largest quantity in one line of a request
    MaxLines,         \* most lines in one sale
    OpeningTargets,   \* opening balances a user types
    MaxMoves          \* bound: no request starts once so many moves are committed

Methods == {"fifo", "lifo", "average", "specific"}

ASSUME MethodAssumption == Method \in [Products -> Methods]
ASSUME CostAssumption == Costs \subseteq Nat \ {0} /\ CostPrice \in Costs
ASSUME BoundAssumption ==
    MaxQty \in Nat /\ MaxLines \in Nat /\ MaxMoves \in Nat /\ OpeningTargets \subseteq Nat

Items == Products \X Warehouses
NoItem == <<>>
Kinds == {"in", "out", "sale", "opening"}

Leg == [item : Items, qty : Int, cost : Costs, kind : Kinds]
Row == [status : {"none", "live", "removed"}, onHand : Nat]
Movement == [kind : Kinds, qty : Int, after : Nat, costs : Seq(Costs)]
Work == [row : Row, layers : Seq(Costs), entries : Seq(Movement)]

VARIABLES
    row,      \* committed StockItem rows
    layers,   \* committed StockCostLayer rows
    ledger,   \* committed StockMovement rows
    req,      \* what each request still has to do
    work      \* what each request has locked, and written there

vars == <<row, layers, ledger, req, work>>

Idle == [active |-> FALSE, legs |-> <<>>, remove |-> NoItem]

Init ==
    /\ row = [i \in Items |-> [status |-> "none", onHand |-> 0]]
    /\ layers = [i \in Items |-> <<>>]
    /\ ledger = [i \in Items |-> <<>>]
    /\ req = [r \in Requests |-> Idle]
    /\ work = [r \in Requests |-> <<>>]

-----------------------------------------------------------------------------
(* Row locks.  SELECT ... FOR UPDATE on the row, or the unique index entry *)
(* while the row is being created: one owner at a time.                    *)

Owns(r, i) == i \in DOMAIN work[r]
Free_without_lock(r, i) == TRUE
Free(r, i) == \A q \in Requests \ {r} : ~Owns(q, i)

\* The row as the owner of its lock sees it: its own writes, else the
\* committed version.
Seen(r, i) ==
    IF Owns(r, i) THEN work[r][i]
    ELSE [row |-> row[i], layers |-> layers[i], entries |-> <<>>]

\* The row lock a request asks for next.
NextLock(r) ==
    IF req[r].legs # <<>> THEN Head(req[r].legs).item ELSE req[r].remove

WaitsFor(r, q) == req[r].active /\ q # r /\ Owns(q, NextLock(r))

\* r is on a cycle of requests that wait for one another.
Deadlocked(r) ==
    \E C \in SUBSET Requests :
        /\ r \in C
        /\ \A p \in C : (\E q \in C : WaitsFor(p, q)) /\ (\E q \in C : WaitsFor(q, p))

-----------------------------------------------------------------------------
(* One movement.                                                           *)

Minimum(a, b) == IF a < b THEN a ELSE b
Total(s) == SumFunction(s)
Times(n, c) == [k \in 1..n |-> c]

UsesLayers(leg) == leg.kind = "sale" /\ Method[leg.item[1]] \in {"fifo", "lifo"}

\* _consume_layers: what is taken, from the old or the new end, and what stays.
Taken(s, n, method) ==
    LET k == Minimum(n, Len(s))
    IN IF method = "fifo" THEN SubSeq(s, 1, k) ELSE SubSeq(s, Len(s) - k + 1, Len(s))
Kept_at_other_end(s, n, method) ==
    LET k == Minimum(n, Len(s))
    IN IF method = "fifo" THEN SubSeq(s, 1, Len(s) - k) ELSE SubSeq(s, k + 1, Len(s))
Kept(s, n, method) ==
    LET k == Minimum(n, Len(s))
    IN IF method = "fifo" THEN SubSeq(s, k + 1, Len(s)) ELSE SubSeq(s, 1, Len(s) - k)

LayersAfter_without_opening(s, leg) ==
    IF leg.kind = "in" THEN s \o Times(leg.qty, leg.cost)
    ELSE IF UsesLayers(leg) THEN Kept(s, -leg.qty, Method[leg.item[1]])
    ELSE s

\* Inbound stock adds a layer; an outbound sale of a FIFO/LIFO product consumes
\* layers; every other outbound move leaves them alone.
LayersAfter(s, leg) ==
    IF leg.qty > 0 THEN s \o Times(leg.qty, leg.cost)
    ELSE IF UsesLayers(leg) THEN Kept(s, -leg.qty, Method[leg.item[1]])
    ELSE s

\* The unit costs a movement is valued at: those of the layers a costed sale
\* consumes, then the fallback for the units that no layer covers.
UnitCosts(s, leg) ==
    IF leg.qty > 0 THEN Times(leg.qty, leg.cost)
    ELSE IF UsesLayers(leg)
    THEN LET taken == Taken(s, -leg.qty, Method[leg.item[1]])
         IN taken \o Times(-leg.qty - Len(taken), leg.cost)
    ELSE Times(-leg.qty, leg.cost)

Accepted_without_balance(w, leg) == w.row.status # "removed"

\* The negative-stock rule, and the unique index that a soft-deleted row still
\* occupies: get_or_create neither finds it nor can create another.
Accepted(w, leg) == w.row.status # "removed" /\ w.row.onHand + leg.qty >= 0

Moved(w, leg) ==
    LET balance == w.row.onHand + leg.qty
    IN [row |-> [status |-> "live", onHand |-> balance],
        layers |-> LayersAfter(w.layers, leg),
        entries |-> Append(w.entries, [kind |-> leg.kind, qty |-> leg.qty,
                                       after |-> balance, costs |-> UnitCosts(w.layers, leg)])]

Write(r, i, w) ==
    work' = [work EXCEPT ![r] = [j \in DOMAIN work[r] \cup {i} |->
                                    IF j = i THEN w ELSE work[r][j]]]

-----------------------------------------------------------------------------
(* The requests: each starts with the list of movements it will make.      *)

Moves == Total([i \in Items |-> Len(ledger[i])])

Start(r, legs, remove) ==
    /\ ~req[r].active
    /\ Moves < MaxMoves
    /\ req' = [req EXCEPT ![r] = [active |-> TRUE, legs |-> legs, remove |-> remove]]
    /\ UNCHANGED <<row, layers, ledger, work>>

Move(i, q, c, kind) == [item |-> i, qty |-> q, cost |-> c, kind |-> kind]

\* A purchase receipt line: inbound at the order's unit cost.
ReceiveStock(r) ==
    \E i \in Items, q \in 1..MaxQty, c \in Costs :
        Start(r, <<Move(i, q, c, "in")>>, NoItem)

\* adjust_stock: either sign, at the product's cost price, never the costing engine.
AdjustStock(r) ==
    \E i \in Items, q \in -MaxQty..MaxQty :
        Start(r, <<Move(i, q, CostPrice, IF q > 0 THEN "in" ELSE "out")>>, NoItem)

\* transfer_stock: out of one warehouse, then into the other.
TransferStock(r) ==
    \E p \in Products, a, b \in Warehouses, q \in 1..MaxQty :
        /\ a # b
        /\ Start(r, <<Move(<<p, a>>, -q, CostPrice, "out"),
                      Move(<<p, b>>, q, CostPrice, "in")>>, NoItem)

\* The stock lines of one sale (or the components of a combo): one outbound move
\* per line, through the costing engine, in the order of the lines.  What average
\* and specific-unit costing resolve to is left open: some unit cost.
SellStock(r) ==
    \E w \in Warehouses, n \in 1..MaxLines :
        \E ps \in [1..n -> Products], q \in 1..MaxQty, c \in Costs :
            /\ (\A k \in 1..n : Method[ps[k]] \in {"fifo", "lifo"}) => c = CostPrice
            /\ Start(r, [k \in 1..n |-> Move(<<ps[k], w>>, -q, c, "sale")], NoItem)

\* set_item_opening_balance: the take-on stock already booked is read without a
\* lock, and the movement corrects the difference.
Booked(i) == Total([k \in DOMAIN ledger[i] |->
                        IF ledger[i][k].kind = "opening" THEN ledger[i][k].qty ELSE 0])
SetOpeningBalance(r) ==
    \E i \in Items, t \in OpeningTargets :
        LET delta == t - Booked(i)
        IN /\ delta \in Int \ {0}
           /\ Start(r, <<Move(i, delta, CostPrice, "opening")>>, NoItem)

\* StockItemViewSet.destroy: reads the quantity without a lock, then, in one
\* transaction, adjusts by that much and soft-deletes the row.
DestroyStockItem(r) ==
    \E i \in Items :
        /\ row[i].status = "live"
        /\ Start(r, IF row[i].onHand > 0
                    THEN <<Move(i, -row[i].onHand, CostPrice, "out")>> ELSE <<>>, i)

Begin(r) ==
    \/ ReceiveStock(r) \/ AdjustStock(r) \/ TransferStock(r)
    \/ SellStock(r) \/ SetOpeningBalance(r) \/ DestroyStockItem(r)

-----------------------------------------------------------------------------
(* The steps of a running request.                                         *)

Rollback(r) ==
    /\ req' = [req EXCEPT ![r] = Idle]
    /\ work' = [work EXCEPT ![r] = <<>>]
    /\ UNCHANGED <<row, layers, ledger>>

\* record_movement, from the row lock to the appended StockMovement.
RecordMovement(r) ==
    /\ req[r].active /\ req[r].legs # <<>>
    /\ LET leg == Head(req[r].legs)
       IN /\ Free(r, leg.item)
          /\ Accepted(Seen(r, leg.item), leg)
          /\ Write(r, leg.item, Moved(Seen(r, leg.item), leg))
          /\ req' = [req EXCEPT ![r].legs = Tail(@)]
    /\ UNCHANGED <<row, layers, ledger>>

\* "Insufficient stock", or the unique index: the exception undoes every earlier
\* movement of the request.
Refuse(r) ==
    /\ req[r].active /\ req[r].legs # <<>>
    /\ LET leg == Head(req[r].legs)
       IN Free(r, leg.item) /\ ~Accepted(Seen(r, leg.item), leg)
    /\ Rollback(r)

\* instance.delete(): a soft delete, so an UPDATE of the row.
RemoveRow(r) ==
    /\ req[r].active /\ req[r].legs = <<>> /\ req[r].remove # NoItem
    /\ LET i == req[r].remove
           w == Seen(r, i)
       IN /\ Free(r, i)
          /\ Write(r, i, [w EXCEPT !.row.status = "removed"])
    /\ req' = [req EXCEPT ![r].remove = NoItem]
    /\ UNCHANGED <<row, layers, ledger>>

Commit(r) ==
    /\ req[r].active /\ req[r].legs = <<>> /\ req[r].remove = NoItem
    /\ row' = [i \in Items |-> IF Owns(r, i) THEN work[r][i].row ELSE row[i]]
    /\ layers' = [i \in Items |-> IF Owns(r, i) THEN work[r][i].layers ELSE layers[i]]
    /\ ledger' = [i \in Items |-> IF Owns(r, i) THEN ledger[i] \o work[r][i].entries
                                  ELSE ledger[i]]
    /\ req' = [req EXCEPT ![r] = Idle]
    /\ work' = [work EXCEPT ![r] = <<>>]

AbortDeadlock_never(r) == FALSE /\ Rollback(r)

\* The database ends one transaction of a lock cycle.
AbortDeadlock(r) == Deadlocked(r) /\ Rollback(r)

Finish(r) ==
    \/ RecordMovement(r) \/ Refuse(r) \/ RemoveRow(r) \/ Commit(r) \/ AbortDeadlock(r)

Done ==   \* the bound is reached
    /\ \A r \in Requests : ~req[r].active
    /\ Moves >= MaxMoves
    /\ UNCHANGED vars

Next == (\E r \in Requests : Begin(r) \/ Finish(r)) \/ Done

Spec == Init /\ [][Next]_vars

\* A request that runs is not abandoned: the worker executes its statements and
\* the database breaks a cycle and grants a lock to those that queue for it, so a
\* request is not overtaken for ever (strong fairness).  Arrivals are not fair.
FairSpec == Spec /\ \A r \in Requests : SF_vars(Finish(r))

-----------------------------------------------------------------------------
(* Properties.                                                             *)

TypeOK ==
    /\ row \in [Items -> Row]
    /\ layers \in [Items -> Seq(Costs)]
    /\ ledger \in [Items -> Seq(Movement)]
    /\ req \in [Requests -> [active : BOOLEAN, legs : Seq(Leg), remove : Items \cup {NoItem}]]
    /\ work = [r \in Requests |-> work[r]]
    /\ \A r \in Requests : \E S \in SUBSET Items : work[r] \in [S -> Work]

\* The movements of s lead from one balance to another: every entry's balance_after
\* is the balance before it plus its own quantity.
Leads(start, s, end) ==
    /\ \A k \in DOMAIN s :
          s[k].after = (IF k = 1 THEN start ELSE s[k - 1].after) + s[k].qty
    /\ end = (IF s = <<>> THEN start ELSE s[Len(s)].after)

\* "This is the source of truth. Recalculate StockItem.quantity_on_hand by summing
\* movements" (models.py): the movements of an item form one unbroken chain of
\* balances that ends in the quantity on hand, whatever requests interleave.
LedgerExplainsStock == \A i \in Items : Leads(0, ledger[i], row[i].onHand)

\* Every unit on hand still has a cost layer, so a FIFO/LIFO sale of stock that
\* came in through record_movement never falls back to the flat cost price.
LayersCoverStock == \A i \in Items : row[i].onHand <= Len(layers[i])

\* No cost is expensed twice or lost: for a FIFO/LIFO product what came in is what
\* the layers still hold plus what sales took out of them.
CostConserved ==
    \A i \in Items : Method[i[1]] \in {"fifo", "lifo"} =>
        LET cost(k) == Total(ledger[i][k].costs)
            booked == [k \in DOMAIN ledger[i] |->
                        IF ledger[i][k].qty > 0 THEN cost(k)
                        ELSE IF ledger[i][k].kind = "sale" THEN -cost(k) ELSE 0]
        IN Total(booked) = Total(layers[i])

\* A transaction never waits on itself or forever: each request that starts ends.
RequestsEnd == \A r \in Requests : req[r].active ~> ~req[r].active
=============================================================================
