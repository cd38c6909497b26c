------------------------------ MODULE MCTrade ------------------------------
(* Six parts of selling that share no state here, checked in one run:      *)
(* `part` says whether a behaviour is one of an invoice, of card payouts,  *)
(* of a cashier's till, of restaurant orders, of a quotation or of orders  *)
(* of the shop page; the others stay in an initial state.  Two requests at *)
(* a time.                                                                 *)
EXTENDS Trade, TLC
CONSTANTS r1, r2, i1, i2, ada

TwoRequests == {r1, r2}
TwoInvoices == {i1, i2}
Symmetry == Permutations(TwoRequests)

\* Two exports with references, the second with a payout more, and two without; two card
\* payments.  All amounts are one; the days decide.
CardExports == {"A" :> "a", "A" :> "a" @@ "B" :> "b", "row 2" :> "c", "row 2" :> "b" @@ "row 3" :> "c"}
RowNumbers == {"row 2", "row 3"}
CardPayments == {"p", "q"}
CardDay == [x \in {"a", "b", "c", "p", "q"} |-> CASE x = "c" -> 2 [] x = "q" -> 3 [] OTHER -> 1]
CardAmount == [x \in {"a", "b", "c", "p", "q"} |-> 1]

\* One cashier with two sessions; two restaurant orders at one table, and two of one
\* customer in the shop; one quotation.
OneCashier == {ada}

VARIABLE part

\* Deferred invoices are of two units; a sale on credit goes the way of a confirmed one, and
\* is tried deferred.
TradeInit ==
    /\ part \in {"invoice", "payouts", "till", "orders", "quotes", "shop"}
    /\ Init /\ P!Init /\ T!Init /\ R!Init /\ Q!Init /\ S!Init
    /\ part # "invoice" => inv = Created("proforma", FALSE, 1, 0)
    /\ (inv.status = "credit" => inv.deferred) /\ (inv.deferred => inv.total = 2)
    /\ quoted = 1 /\ product = 1

InvoiceStep == part = "invoice" /\ Next /\ UNCHANGED <<part, payouts, till, orders, quotes, webs>>
PayoutStep == part = "payouts" /\ P!Next /\ UNCHANGED <<part, vars, till, orders, quotes, webs>>
TillStep == part = "till" /\ T!Next /\ UNCHANGED <<part, vars, payouts, orders, quotes, webs>>
OrderStep == part = "orders" /\ R!Next /\ UNCHANGED <<part, vars, payouts, till, quotes, webs>>
QuoteStep == part = "quotes" /\ Q!Next /\ UNCHANGED <<part, vars, payouts, till, orders, webs>>
ShopStep == part = "shop" /\ S!Next /\ UNCHANGED <<part, vars, payouts, till, orders, quotes>>

TradeNext == InvoiceStep \/ PayoutStep \/ TillStep \/ OrderStep \/ QuoteStep \/ ShopStep
PackedSpec == TradeInit /\ [][TradeNext]_<<part, vars, payouts, till, orders, quotes, webs>>
=============================================================================
