------------------------------ MODULE MCGoods ------------------------------
(* Goods sold, goods received, what is owed for them and what customers    *)
(* owe, four parts checked in one run: `part` says whether a behaviour is  *)
(* one of sales in a warehouse, of a purchase order, of a supplier's bill  *)
(* or of a customer's account; the others stay in an initial state.        *)
EXTENDS StockLedger, Partners, TLC
CONSTANTS p, o, wh, r1, r2, rice, oil, i1, i2

\* One warehouse, a LIFO product and one costed by average; sales whose lines name the
\* products in either order.
MCProducts == {p, o}
MCWarehouses == {wh}
MCRequests == {r1, r2}
MCMethod == [x \in MCProducts |-> IF x = p THEN "lifo" ELSE "average"]

\* An order of two lines, of two units and of one; one unit on the shelf.
MCLines == {rice, oil}
MCOrdered == [l \in MCLines |-> IF l = rice THEN 2 ELSE 1]
MCOnShelf == [l \in MCLines |-> IF l = rice THEN 0 ELSE 1]

\* Two invoices on credit of a customer who owes nothing, or to whom one is owed.
MCInvoices == {i1, i2}
MCOpening == {-1, 0}
Symmetry == Permutations(MCRequests) \cup Permutations(MCInvoices)

VARIABLE part

GoodsInit ==
    /\ part \in {"sale", "order", "bill", "account"}
    /\ Init /\ O!Init /\ B!Init /\ C!Init
    /\ part # "account" => opening = 0
SaleStep == part = "sale" /\ Next /\ UNCHANGED <<part, order, payable, account>>
OrderStep == part = "order" /\ O!Next /\ UNCHANGED <<part, vars, payable, account>>
BillStep == part = "bill" /\ B!Next /\ UNCHANGED <<part, vars, order, account>>
AccountStep == part = "account" /\ C!Next /\ UNCHANGED <<part, vars, order, payable>>
GoodsNext == SaleStep \/ OrderStep \/ BillStep \/ AccountStep
GoodsSpec == GoodsInit /\ [][GoodsNext]_<<part, vars, order, payable, account>>
=============================================================================
