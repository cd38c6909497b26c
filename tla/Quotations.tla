----------------------------- MODULE Quotations -----------------------------
(***************************************************************************)
(* Quotations (src/backend/apps/quotes): sent, answered, expired, changed  *)
(* and converted into a sale, by requests that load a copy and save the    *)
(* whole row, without a lock.  The sale itself is the subject of           *)
(* InvoiceLifecycle; here it is counted, with what it charges.             *)
(***************************************************************************)
EXTENDS Integers, FiniteSets

CONSTANTS
    Workers, Quotes,
    Prices,        \* of the product in the catalogue
    Horizon,       \* bound: days that pass
    MaxRequests    \* bound: requests, and changes of the catalogue

QuoteAssumption == IsFiniteSet(Workers) /\ Prices \subseteq Nat /\ Horizon \in Nat /\ MaxRequests \in Nat

VARIABLES
    quote,         \* rows: status, valid_until, converted_invoice, deleted, the price of the line
    product,       \* the product's price
    day,
    sold,          \* sales made from a quote
    charge,        \* what the last of them charged
    work, requests,
    late,          \* history: quotes sold after their date that nobody had accepted
    lapses         \* history: <<what happened, to which quote>>

vars == <<quote, product, day, sold, charge, work, requests, late, lapses>>

None == "none"
Idle == [step |-> "idle"]
Statuses == {"draft", "sent", "accepted", "rejected", "expired", "converted"}
NoQuote == [status |-> None, until |-> 0, invoice |-> 0, deleted |-> FALSE, line |-> 0]

Init ==
    /\ quote = [q \in Quotes |-> NoQuote] /\ product \in Prices /\ day = 0
    /\ sold = [q \in Quotes |-> 0] /\ charge = [q \in Quotes |-> 0]
    /\ work = [w \in Workers |-> Idle] /\ requests = 0 /\ late = {} /\ lapses = {}

At(w, step) == work[w].step = step
Finished(w) == work' = [work EXCEPT ![w] = Idle]
Lapse(cond, name, q) == IF cond THEN {<<name, q>>} ELSE {}
Lapsed(q, names) == \E n \in names : <<n, q>> \in lapses
Request == requests < MaxRequests /\ requests' = requests + 1

\* Midnight, and the catalogue's page.
Tomorrow ==
    /\ day < Horizon /\ day' = day + 1
    /\ UNCHANGED <<quote, product, sold, charge, work, requests, late, lapses>>

Reprice(p) ==
    /\ Request /\ p # product /\ product' = p
    /\ UNCHANGED <<quote, day, sold, charge, work, late, lapses>>

-----------------------------------------------------------------------------
\* create_quote: any status and date the request names.
Create(q, status, until) ==
    /\ quote[q].status = None
    /\ quote' = [quote EXCEPT ![q] = [NoQuote EXCEPT !.status = status, !.until = until, !.line = product]]
    /\ lapses' = lapses \cup Lapse(status = "converted", "by hand", q)
    /\ UNCHANGED <<product, day, sold, charge, work, requests, late>>

\* get_queryset first expires what is overdue, in a statement of its own.
Overdue_drafts(r) == r.status = "draft" /\ r.until < day
Overdue(r) == r.status \in {"draft", "sent"} /\ r.until < day
Begin(w, q, op) ==
    /\ At(w, "idle") /\ quote[q].status # None /\ Request
    /\ quote' = [p \in Quotes |-> IF Overdue(quote[p]) /\ ~quote[p].deleted
                                  THEN [quote[p] EXCEPT !.status = "expired"] ELSE quote[p]]
    /\ work' = [work EXCEPT ![w] = [step |-> "get", op |-> op, quote |-> q, day |-> day, left |-> quote'[q]]]
    /\ UNCHANGED <<product, day, sold, charge, late, lapses>>

Get(w) ==
    /\ At(w, "get")
    /\ LET r == quote[work[w].quote]
       IN /\ IF r.deleted THEN Finished(w)
             ELSE work' = [work EXCEPT ![w] = [step |-> work[w].op, quote |-> work[w].quote, seen |-> r, day |-> work[w].day]]
          /\ lapses' = lapses \cup Lapse(r # work[w].left, "slipped", work[w].quote)
    /\ UNCHANGED <<quote, product, day, sold, charge, requests, late>>

\* quote.save(): every column of the copy.
Save(w, new) ==
    LET q == work[w].quote  seen == work[w].seen
    IN /\ quote' = [quote EXCEPT ![q] = new]
       /\ lapses' = lapses \cup Lapse(quote[q] # seen, "stale", q)
                           \cup Lapse(new.invoice # 0 /\ new.status # "converted", "reopened", q)
                           \cup Lapse(new.invoice = 0 /\ new.status = "converted", "by hand", q)

\* send takes a draft; accept and reject take a quote of any status.
Answer(w) ==
    LET seen == work[w].seen
    IN /\ \/ At(w, "send") /\ seen.status = "draft" /\ Save(w, [seen EXCEPT !.status = "sent"])
          \/ At(w, "send") /\ seen.status # "draft" /\ UNCHANGED <<quote, lapses>>
          \/ At(w, "accept") /\ Save(w, [seen EXCEPT !.status = "accepted"])
          \/ At(w, "reject") /\ Save(w, [seen EXCEPT !.status = "rejected"])
       /\ Finished(w) /\ UNCHANGED <<product, day, sold, charge, requests, late>>

\* PATCH: the status and the date are the request's.
Patch(w, s, until) ==
    /\ At(w, "patch")
    /\ Save(w, [work[w].seen EXCEPT !.status = s, !.until = until])
    /\ Finished(w) /\ UNCHANGED <<product, day, sold, charge, requests, late>>

Delete(w) ==
    /\ At(w, "delete")
    /\ quote' = [quote EXCEPT ![work[w].quote].deleted = TRUE]
    /\ Finished(w) /\ UNCHANGED <<product, day, sold, charge, requests, late, lapses>>

\* The items handed to create_sale: the price of the quote's line.
Price_of_today(seen) == product
Price(seen) == seen.line

\* convert and convert_to_invoice, one transaction: by the status of the copy.
Convertible_again(s) == s \notin {"rejected", "expired"}
Convertible(s) == s \notin {"rejected", "expired", "converted"}
Convert(w) ==
    LET q == work[w].quote  seen == work[w].seen
    IN /\ At(w, "convert") /\ Convertible(seen.status)
       /\ sold' = [sold EXCEPT ![q] = @ + 1] /\ charge' = [charge EXCEPT ![q] = Price(seen)]
       /\ Save(w, [seen EXCEPT !.status = "converted", !.invoice = sold[q] + 1])
       /\ late' = late \cup {p \in {q} : seen.until < work[w].day /\ seen.status # "accepted"}
       /\ Finished(w) /\ UNCHANGED <<product, day, requests>>

\* The status forbids it, or the sale fails and everything is rolled back.
RefuseConvert(w) ==
    At(w, "convert") /\ Finished(w) /\ UNCHANGED <<quote, product, day, sold, charge, requests, late, lapses>>

-----------------------------------------------------------------------------
Next ==
    \/ Tomorrow \/ \E p \in Prices : Reprice(p)
    \/ \E q \in Quotes, s \in Statuses, until \in 0..Horizon : Create(q, s, until)
    \/ \E w \in Workers :
          \/ \E q \in Quotes, op \in {"send", "accept", "reject", "patch", "delete", "convert"} : Begin(w, q, op)
          \/ Get(w) \/ Answer(w) \/ Delete(w) \/ Convert(w) \/ RefuseConvert(w)
          \/ \E s \in Statuses, until \in 0..Horizon : Patch(w, s, until)

Spec == Init /\ [][Next]_vars

-----------------------------------------------------------------------------
\* The types of the variables.
TypeOK ==
    /\ quote \in [Quotes -> [status : Statuses \cup {None}, until : 0..Horizon, invoice : 0..MaxRequests,
                             deleted : BOOLEAN, line : Nat]]
    /\ product \in Prices /\ day \in 0..Horizon /\ sold \in [Quotes -> 0..MaxRequests]
    /\ late \subseteq Quotes /\ requests \in 0..MaxRequests

\* A quote becomes one sale and names it, unless a copy that was overtaken was saved, or a
\* converted quote took another status; its status is converted only then, unless by hand.
\* Out of date it is sold only if it had been accepted, unless its date or status changed
\* after the request expired what was overdue.
QuoteSoldOnce ==
    \A q \in Quotes :
        /\ ~Lapsed(q, {"stale", "reopened"}) => sold[q] <= 1 /\ quote[q].invoice = sold[q]
        /\ ~Lapsed(q, {"stale", "reopened", "by hand"}) => (quote[q].status = "converted" <=> sold[q] = 1)
        /\ ~Lapsed(q, {"slipped"}) => q \notin late

\* A sale charges the price the quote showed, whatever the catalogue became since.
ChargedAsShown ==
    \A q \in Quotes : sold[q] > 0 => charge[q] = quote[q].line
=============================================================================
