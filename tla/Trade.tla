-------------------------------- MODULE Trade --------------------------------
(***************************************************************************)
(* Selling, beside the invoice (InvoiceLifecycle): payouts of the card     *)
(* terminals (CardPayouts), the cash of the tills (TillSessions), orders   *)
(* of a restaurant (RestaurantOrders), quotations (Quotations) and orders  *)
(* of the shop page (ShopOrders).  The requests are those of the same      *)
(* users; no variable belongs to two of the parts.                         *)
(***************************************************************************)
EXTENDS InvoiceLifecycle

CONSTANTS
    Exports, Numbered, Payments, Amount, Day, Tolerance, MaxReviews,   \* of card payouts
    Cashiers, Float, MaxSessions, MaxHandovers,                        \* of the tills
    Orders, Tables, MaxServed,                                         \* of the restaurant
    Quotes, Horizon, MaxQuoted,                                        \* of quotations
    WebOrders, Phones, Fee, MaxOrdered,                                \* of the shop page
    Prices                                                             \* of a product quoted or ordered

VARIABLES
    payout, uploaded, income, payoutWork, payoutRequests, payoutLapses,
    session, opened, drawer, safe, cash, overshort, mapped, tillWork, tillRequests, tillLapses,
    order, items, sales, receipt, table, orderWork, orderRequests, orderLapses,
    quote, quoted, day, quoteSold, quoteCharge, quoteWork, quoteRequests, late, quoteLapses,
    web, product, buyers, webSold, webCharge, webWork, webRequests, webLapses

payouts == <<payout, uploaded, income, payoutWork, payoutRequests, payoutLapses>>
till == <<session, opened, drawer, safe, cash, overshort, mapped, tillWork, tillRequests, tillLapses>>
orders == <<order, items, sales, receipt, table, orderWork, orderRequests, orderLapses>>
quotes == <<quote, quoted, day, quoteSold, quoteCharge, quoteWork, quoteRequests, late, quoteLapses>>
webs == <<web, product, buyers, webSold, webCharge, webWork, webRequests, webLapses>>

P == INSTANCE CardPayouts WITH
        Workers <- Requests, MaxRequests <- MaxReviews,
        line <- payout, work <- payoutWork, requests <- payoutRequests, lapses <- payoutLapses
T == INSTANCE TillSessions WITH
        Workers <- Requests, MaxRequests <- MaxHandovers,
        work <- tillWork, requests <- tillRequests, lapses <- tillLapses
R == INSTANCE RestaurantOrders WITH
        Workers <- Requests, MaxRequests <- MaxServed,
        work <- orderWork, requests <- orderRequests, lapses <- orderLapses
Q == INSTANCE Quotations WITH
        Workers <- Requests, MaxRequests <- MaxQuoted,
        product <- quoted, sold <- quoteSold, charge <- quoteCharge,
        work <- quoteWork, requests <- quoteRequests, lapses <- quoteLapses
S == INSTANCE ShopOrders WITH
        Workers <- Requests, Orders <- WebOrders, MaxRequests <- MaxOrdered,
        order <- web, sold <- webSold, charge <- webCharge,
        work <- webWork, requests <- webRequests, lapses <- webLapses

ASSUME TradeAssumption ==
    P!PayoutAssumption /\ T!TillAssumption /\ R!RestaurantAssumption /\ Q!QuoteAssumption /\ S!ShopAssumption

TradeSpec == Spec /\ P!Spec /\ T!Spec /\ R!Spec /\ Q!Spec /\ S!Spec

-----------------------------------------------------------------------------
\* The types of all six parts.
TradeTypeOK == TypeOK /\ P!TypeOK /\ T!TypeOK /\ R!TypeOK /\ Q!TypeOK /\ S!TypeOK

\* A payout is counted once, and settles one sale or is income (CardPayouts).
PayoutsAgree == P!SettledOnce /\ P!PayoutsAreOneThing /\ P!PayoutsAreCountedOnce

\* The ledger has the cash that was counted (TillSessions); an order is sold once, and its
\* table is taken until then (RestaurantOrders); a quotation and an order of the shop page
\* become one sale, at the price they showed (Quotations, ShopOrders).
CounterAgrees ==
    /\ T!OneTill /\ T!VariancesTie /\ T!CashIsCounted
    /\ R!OrderSoldOnce /\ R!TableIsTaken
    /\ Q!QuoteSoldOnce /\ Q!ChargedAsShown
    /\ S!ShopOrderSoldOnce /\ S!ChargedAsShown
=============================================================================
