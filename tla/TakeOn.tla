------------------------------- MODULE TakeOn -------------------------------
(***************************************************************************)
(* Opening balances and the year-end close (src/backend/apps/accounting/   *)
(* services.py).  Each such request reverses the entries an earlier run of *)
(* it has posted, sets figures and opening stock, and posts one new entry, *)
(* in one transaction.  Nothing is locked: what it found is `work[u].prior`*)
(* and only the unique index on reversals stops a second request.          *)
(*                                                                         *)
(* Figures are debit-positive here (Supplier.opening_balance has the other *)
(* sign), items cost 1 a unit; the suspense line always takes the rest.    *)
(***************************************************************************)
EXTENDS Integers, Sequences, FiniteSets, FiniteSetsExt

CONSTANTS
    Users, Dates,
    Accounts, Customers, Suppliers, Items,   \* what can be taken on
    Amounts,                                 \* signed amounts of a row
    MaxRequests                              \* bound: take-on and close requests

Parties == Accounts \cup Customers \cup Suppliers \cup Items
Year == "year"     \* the profit-and-loss accounts against retained earnings
Routes == {<<"single", p>> : p \in Parties} \cup {<<"accounts", d>> : d \in Dates}
          \cup {<<"subledgers", d>> : d \in Dates} \cup {<<"close">>}

TakeOnAssumption ==
    /\ Amounts \subseteq Int /\ MaxRequests \in Nat /\ Year \notin Parties
    /\ \A s, t \in {Accounts, Customers, Suppliers, Items} : s = t \/ s \cap t = {}

VARIABLES
    figure,    \* outstanding or opening balance, or opening stock; for Year, the result
    opening,   \* opening stock by reference of the movements and item
    journal,   \* entries: route, what they post on each party, whether reversed
    work,      \* what each user's request is in the middle of
    requests,
    lapses     \* history: the ways in which ledger and figures part

vars == <<figure, opening, journal, work, requests, lapses>>

Idle == [step |-> "idle"]
Init ==
    /\ figure = [p \in Parties \cup {Year} |-> 0]
    /\ opening = [r \in Routes |-> [i \in Items |-> 0]]
    /\ journal = <<>> /\ work = [u \in Users |-> Idle] /\ requests = 0 /\ lapses = {}

Active(n) == ~journal[n].reversed
ActiveOf(route) == {n \in DOMAIN journal : Active(n) /\ journal[n].route = route}
Balance(p) == MapThenSumSet(LAMBDA n : IF Active(n) THEN journal[n].post[p] ELSE 0, DOMAIN journal)
Lapse(cond, name) == IF cond THEN {name} ELSE {}

-----------------------------------------------------------------------------
(* What each request posts: rows is a function from the parties named in   *)
(* the request to signed amounts.                                          *)

\* set_account_, set_customer_, set_supplier_opening_balance: an amount that is not
\* positive clears the entry, but is stored as it came.
\* set_item_opening_balance, set_subledger_opening_balances: a negative amount is the
\* other side.
\* set_opening_balances: rows that are not positive are skipped.
\* close_year: the result without the closes and without their reversals, which are
\* dated after the year.
Result_with_closes == figure[Year] - MapThenSumSet(LAMBDA n : journal[n].post[Year], DOMAIN journal)
Result == figure[Year]
Lines(route, rows) ==
    [p \in Parties \cup {Year} |->
        IF route = <<"close">> THEN IF p = Year THEN Result ELSE 0
        ELSE IF p \notin DOMAIN rows THEN 0
        ELSE IF p \in Items \/ route[1] = "subledgers" \/ rows[p] > 0 THEN rows[p]
        ELSE 0]

Figures(route, rows) ==
    [p \in Parties \cup {Year} |->
        IF p \notin DOMAIN rows \/ p \in Items THEN figure[p]
        ELSE IF route[1] = "single" \/ Lines(route, rows)[p] # 0 THEN rows[p]
        ELSE figure[p]]

\* Opening stock: the difference to what this reference has moved so far; an item no
\* longer named is moved back.
Moves_named(stock, rows) == [i \in Items |-> IF i \in DOMAIN rows THEN rows[i] - stock[i] ELSE 0]
Moves(stock, rows) == [i \in Items |-> (IF i \in DOMAIN rows THEN rows[i] ELSE 0) - stock[i]]

Handles(route, rows) ==
    CASE route[1] = "single" -> DOMAIN rows = {route[2]}
      [] route[1] = "accounts" -> DOMAIN rows \subseteq Accounts
      [] route[1] = "subledgers" -> DOMAIN rows \subseteq Customers \cup Suppliers \cup Items
      [] OTHER -> rows = <<>>

Requested == UNION {[ps -> Amounts] : ps \in SUBSET Parties}

-----------------------------------------------------------------------------
\* The entries to reverse and the stock already moved, as first read.
Begin(u, route, rows) ==
    /\ work[u] = Idle /\ requests < MaxRequests /\ requests' = requests + 1
    /\ Handles(route, rows)
    /\ work' = [work EXCEPT ![u] = [step |-> "read", route |-> route, rows |-> rows,
                                    prior |-> ActiveOf(route), stock |-> opening[route]]]
    /\ UNCHANGED <<figure, opening, journal, lapses>>

\* _reverse_prior_entries and its unique index: each entry is reversed once.
Reversible(prior) == \A n \in prior : Active(n)
Reversed(prior) == [n \in DOMAIN journal |-> [journal[n] EXCEPT !.reversed = @ \/ n \in prior]]

Commit(u) ==
    LET route == work[u].route
        rows == work[u].rows
        prior == work[u].prior
        post == Lines(route, rows)
        moves == IF route[1] \in {"single", "subledgers"} /\ (route[1] = "single" => route[2] \in Items)
                 THEN Moves(work[u].stock, rows) ELSE [i \in Items |-> 0]
        others == {n \in DOMAIN journal : Active(n) /\ journal[n].route # route}
    IN /\ work[u] # Idle
       /\ Reversible(prior)
       /\ \A i \in Items : figure[i] + moves[i] >= 0
       /\ journal' = IF \A p \in DOMAIN post : post[p] = 0 THEN Reversed(prior)
                     ELSE Append(Reversed(prior), [route |-> route, post |-> post, reversed |-> FALSE])
       /\ opening' = [opening EXCEPT ![route] = [i \in Items |-> @[i] + moves[i]]]
       /\ figure' = [p \in DOMAIN figure |->
                        IF p \in Items THEN figure[p] + moves[p] ELSE Figures(route, rows)[p]]
       /\ lapses' = lapses
            \cup Lapse(\E n \in others, p \in Parties : p \in DOMAIN rows /\ journal[n].post[p] # 0, "other route")
            \cup Lapse(\E n \in prior, p \in Parties \ Items : journal[n].post[p] # 0 /\ p \notin DOMAIN rows, "row left out")
            \cup Lapse(\E p \in DOMAIN rows \ Items : Figures(route, rows)[p] # post[p], "not positive")
            \cup Lapse(ActiveOf(route) # prior \/ opening[route] # work[u].stock, "overtaken")
       /\ work' = [work EXCEPT ![u] = Idle]
       /\ UNCHANGED requests

\* An exception undoes the whole request: the date is in a locked month, an entry has
\* been reversed by another request, the opening stock is already used.
Refuse(u) ==
    /\ work[u] # Idle /\ work' = [work EXCEPT ![u] = Idle]
    /\ UNCHANGED <<figure, opening, journal, requests, lapses>>

\* A sale or cost dated in the year.
Trade ==
    /\ figure[Year] < 2 /\ figure' = [figure EXCEPT ![Year] = @ + 1]
    /\ UNCHANGED <<opening, journal, work, requests, lapses>>

Next ==
    \/ \E u \in Users :
          \/ \E route \in Routes, rows \in Requested : Begin(u, route, rows)
          \/ Commit(u) \/ Refuse(u)
    \/ Trade

Spec == Init /\ [][Next]_vars

-----------------------------------------------------------------------------
TypeOK ==
    /\ figure \in [Parties \cup {Year} -> Int]
    /\ opening \in [Routes -> [Items -> Int]]
    /\ \A n \in DOMAIN journal : /\ journal[n].route \in Routes /\ journal[n].reversed \in BOOLEAN
                                 /\ journal[n].post \in [Parties \cup {Year} -> Int]
    /\ DOMAIN work = Users /\ requests \in 0..MaxRequests

\* "the control account can never be posted twice", "a correction never doubles stock or
\* the GL" (services.py): what the entries in force post for a customer, supplier, account
\* or item is its figure, after any sequence of corrections.  It stops being so only when
\* a party is taken on by two routes, is left out of a later list, gets an amount that is
\* not positive, or when two requests run at once.
LedgerTiesToFigures == lapses = {} => \A p \in Parties : Balance(p) = figure[p]

\* "Re-running reverses the prior take-on": one entry of each route is in force, unless two
\* requests found the same entries; so a year is closed once.
OneEntryInForce == "overtaken" \notin lapses => \A r \in Routes : Cardinality(ActiveOf(r)) <= 1

\* "re-closing stays idempotent" (services.py): a close leaves exactly the result of the
\* year in retained earnings, however often the year was closed before.
CloseMovesTheResult ==
    [][\A u \in Users :
          (work[u] # Idle /\ work'[u] = Idle /\ work[u].route = <<"close">> /\ journal' # journal /\ lapses' = {})
          => Balance(Year)' = figure[Year]]_vars
=============================================================================
