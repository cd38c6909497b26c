----------------------------- MODULE ShopOrders -----------------------------
(***************************************************************************)
(* Orders of the public shop page (src/backend/apps/storefront): placed by *)
(* anybody, accepted by the merchant, which sells them, and given a status *)
(* by hand.  An order is accepted under its lock.  The sale itself is the  *)
(* subject of InvoiceLifecycle or, at a table, of RestaurantOrders.        *)
(***************************************************************************)
EXTENDS Integers, FiniteSets

CONSTANTS
    Workers, Orders,
    Phones,        \* what customers give, and are told apart by
    Prices,        \* of the product in the catalogue
    Fee,           \* Storefront.fixed_delivery_charge
    MaxRequests    \* bound: requests, and changes of the catalogue

ShopAssumption == Prices \subseteq Nat /\ Fee \in Nat /\ MaxRequests \in Nat

VARIABLES
    order,         \* rows: status, fulfilment, phone, the sale, price of the line, total
    product,       \* the product's price
    buyers,        \* Customer rows with a phone
    sold,          \* sales made from an order
    charge,        \* what the last of them charged
    work, requests,
    lapses         \* history: <<what happened, to which order or phone>>

vars == <<order, product, buyers, sold, charge, work, requests, lapses>>
shop == <<order, buyers>>

None == "none"
Idle == [step |-> "idle"]
Statuses == {"placed", "confirmed", "ready", "completed", "cancelled"}
Sold == {"confirmed", "ready", "completed"}
Fulfilments == {"pickup", "delivery", "table"}
NoOrder == [status |-> None, fulfilment |-> "pickup", phone |-> None, sale |-> None, line |-> 0, total |-> 0]

Init ==
    /\ order = [o \in Orders |-> NoOrder] /\ product \in Prices /\ buyers = [f \in Phones |-> 0]
    /\ sold = [o \in Orders |-> 0] /\ charge = [o \in Orders |-> 0]
    /\ work = [w \in Workers |-> Idle] /\ requests = 0 /\ lapses = {}

At(w, step) == work[w].step = step
Finished(w) == work' = [work EXCEPT ![w] = Idle]
Lapse(cond, name, x) == IF cond THEN {<<name, x>>} ELSE {}
Lapsed(x, name) == <<name, x>> \in lapses
Request == requests < MaxRequests /\ requests' = requests + 1

\* The catalogue's page.
Reprice(p) ==
    /\ Request /\ p # product /\ product' = p
    /\ UNCHANGED <<shop, sold, charge, work, lapses>>

-----------------------------------------------------------------------------
\* place_order: the catalogue's price, and the fee of a delivery.
Place(o, f, fulfilment) ==
    /\ order[o].status = None
    /\ order' = [order EXCEPT ![o] =
                    [status |-> "placed", fulfilment |-> fulfilment, phone |-> f, sale |-> None, line |-> product,
                     total |-> product + (IF fulfilment = "delivery" THEN Fee ELSE 0)]]
    /\ UNCHANGED <<product, buyers, sold, charge, work, requests, lapses>>

Held(o) == \E w \in Workers : At(w, "accept") /\ work[w].order = o

\* accept_order takes the order's lock, looks at it again, and looks for the customer ...
Acceptable_placed(r) == r.status = "placed"
Acceptable(r) == r.status = "placed" /\ r.sale = None
BeginAccept(w, o) ==
    /\ At(w, "idle") /\ Request /\ ~Held(o) /\ Acceptable(order[o])
    /\ work' = [work EXCEPT ![w] = [step |-> "accept", order |-> o, known |-> buyers[order[o].phone] > 0]]
    /\ UNCHANGED <<shop, product, sold, charge, lapses>>

\* create_sale or create_order with the lines of the order; _to_invoice, _to_pos_order.
Price_of_today(r) == product
Price(r) == r.line
Becomes(r) == IF r.fulfilment = "table" THEN "pos" ELSE "invoice"

\* ... and sells it, in the same transaction, or fails and leaves nothing.
Accept(w) ==
    LET o == work[w].order  r == order[o]  f == r.phone
        adds == Becomes(r) = "invoice" /\ ~work[w].known
    IN /\ At(w, "accept")
       /\ sold' = [sold EXCEPT ![o] = @ + 1] /\ charge' = [charge EXCEPT ![o] = Price(r)]
       /\ order' = [order EXCEPT ![o].status = "confirmed", ![o].sale = Becomes(r)]
       /\ buyers' = IF adds THEN [buyers EXCEPT ![f] = @ + 1] ELSE buyers
       /\ lapses' = lapses \cup Lapse(adds /\ buyers[f] > 0, "twice new", f)
       /\ Finished(w) /\ UNCHANGED <<product, requests>>

FailAccept(w) ==
    At(w, "accept") /\ Finished(w)
    /\ UNCHANGED <<shop, product, sold, charge, requests, lapses>>

\* set_status: any status, at any time; only that column is saved.
SetStatus(o, s) ==
    /\ order[o].status # None /\ ~Held(o) /\ Request
    /\ order' = [order EXCEPT ![o].status = s]
    /\ lapses' = lapses \cup Lapse((order[o].sale # None) # (s \in Sold), "by hand", o)
    /\ UNCHANGED <<product, buyers, sold, charge, work>>

-----------------------------------------------------------------------------
Next ==
    \/ \E p \in Prices : Reprice(p)
    \/ \E o \in Orders :
          \/ \E f \in Phones, fulfilment \in Fulfilments : Place(o, f, fulfilment)
          \/ \E s \in Statuses : SetStatus(o, s)
          \/ \E w \in Workers : BeginAccept(w, o)
    \/ \E w \in Workers : Accept(w) \/ FailAccept(w)

Spec == Init /\ [][Next]_vars

-----------------------------------------------------------------------------
\* The types of the variables.
TypeOK ==
    /\ order \in [Orders -> [status : Statuses \cup {None}, fulfilment : Fulfilments, phone : Phones \cup {None},
                             sale : {None, "pos", "invoice"}, line : Nat, total : Nat]]
    /\ product \in Prices /\ buyers \in [Phones -> Nat] /\ sold \in [Orders -> 0..MaxRequests]
    /\ charge \in [Orders -> Nat] /\ requests \in 0..MaxRequests

\* An order of the shop becomes one sale, whoever accepts it and whatever its status was
\* set to; its status agrees with that unless it was set by hand.  A phone is one customer
\* unless two orders of a new one were accepted at once.
ShopOrderSoldOnce ==
    /\ \A o \in Orders :
          /\ sold[o] <= 1 /\ (order[o].sale # None <=> sold[o] = 1)
          /\ ~Lapsed(o, "by hand") => (order[o].status \in Sold <=> sold[o] = 1)
    /\ \A f \in Phones : buyers[f] > 1 => Lapsed(f, "twice new")

\* A sale charges what the line showed when the order was placed, whatever the catalogue
\* became since: all the customer was asked for, but for the fee of a delivery.
ChargedAsShown ==
    \A o \in Orders : sold[o] > 0 =>
        charge[o] = order[o].line /\ (order[o].fulfilment # "delivery" => charge[o] = order[o].total)
=============================================================================
