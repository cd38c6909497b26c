----------------------------- MODULE CardPayouts -----------------------------
(***************************************************************************)
(* Payouts of card terminals (src/backend/apps/payments/settlement_views   *)
(* with the services and models beside it):                                *)
(* exports are uploaded, their rows become lines, and each line is matched *)
(* to the card payment of a sale, booked as other income or ignored.       *)
(*                                                                         *)
(* A line is known by its reference: the provider's, or the number of its  *)
(* row in an export that has no such column (`Numbered`).  Reads and       *)
(* writes are separate: a matching works from the pool it listed, a review *)
(* from the line it loaded, and nothing is locked.  Times are days.        *)
(***************************************************************************)
EXTENDS Integers, FiniteSets, Folds

CONSTANTS
    Workers,
    Exports,       \* each a function from references to payouts
    Numbered,      \* references that are row numbers
    Payments,      \* SalePayments taken by card
    Amount, Day,   \* of payouts and payments
    Tolerance,     \* DATE_TOLERANCE_DAYS
    MaxRequests    \* bound: requests

VARIABLES
    line,      \* what was imported under a reference: payout, batch, status, payment, auto
    uploaded,  \* exports taken in
    income,    \* lines booked under (settlement_other_income, line)
    work, requests,
    lapses     \* history: the ways in which lines, payments and ledger part

vars == <<line, uploaded, income, work, requests, lapses>>

References == UNION {DOMAIN e : e \in Exports}
Payouts == UNION {{e[r] : r \in DOMAIN e} : e \in Exports}
None == "none"
Absent == [status |-> None, payment |-> None, auto |-> FALSE]
Idle == [step |-> "idle"]

\* The name a provider gives a payout is the same in every export, and no other payout has it.
Referenced == {e \in Exports : DOMAIN e \cap Numbered = {}}
PayoutAssumption ==
    /\ IsFiniteSet(References) /\ None \notin Payments /\ MaxRequests \in Nat
    /\ \A x \in Payouts \cup Payments : Day[x] \in Int
    /\ \A e, f \in Referenced : \A r \in DOMAIN e, s \in DOMAIN f : e[r] = f[s] <=> r = s

Init ==
    /\ line = [r \in References |-> Absent] /\ uploaded = {} /\ income = {}
    /\ work = [w \in Workers |-> Idle] /\ requests = 0 /\ lapses = {}

Lapse(cond, name) == IF cond THEN {name} ELSE {}
Goto(w, new) == work' = [work EXCEPT ![w] = new]
Finished(w) == Goto(w, Idle)
Began == requests < MaxRequests /\ requests' = requests + 1
Imported == {r \in References : line[r].status # None}
\* What the lines settle changed since the request listed or checked them.
Overlapped(w) == Lapse(\E r \in References : line[r].payment # work[w].all[r].payment, "overlap")

-----------------------------------------------------------------------------
\* import_rows: one transaction; a reference that is there already is skipped.
Skipped(r) == line[r].status # None
Upload(w, e) ==
    /\ work[w] = Idle /\ Began
    /\ line' = [r \in References |->
                  IF r \in DOMAIN e /\ ~Skipped(r)
                  THEN [status |-> "unmatched", payment |-> None, auto |-> FALSE, payout |-> e[r], batch |-> e]
                  ELSE line[r]]
    /\ uploaded' = uploaded \cup {e}
    /\ Goto(w, [step |-> "match", batch |-> e])
    /\ UNCHANGED <<income, lapses>>

Rematch(w, e) ==
    /\ work[w] = Idle /\ Began /\ e \in uploaded
    /\ Goto(w, [step |-> "match", batch |-> e])
    /\ UNCHANGED <<line, uploaded, income, lapses>>

\* match_batch lists the batch's unmatched lines and the payments no line settles.
Pool_of_all == Payments
Pool == Payments \ {line[r].payment : r \in References}
List(w) ==
    /\ work[w].step = "match"
    /\ Goto(w, [step |-> "listed", pool |-> Pool, all |-> line,
                lines |-> {r \in Imported : line[r].batch = work[w].batch /\ line[r].status = "unmatched"}])
    /\ UNCHANGED <<line, uploaded, income, requests, lapses>>

\* _best_match: the exact amount, in the window, the nearest in time, and no other as near.
Gap(x, p) == IF Day[x] > Day[p] THEN Day[x] - Day[p] ELSE Day[p] - Day[x]
Fits(x, p) == Amount[x] = Amount[p] /\ Gap(x, p) <= Tolerance
BestMatch(x, pool) ==
    LET options == {p \in pool : Fits(x, p)}
        best == {p \in options : \A q \in options \ {p} : Gap(x, p) < Gap(x, q)}
    IN IF best = {} THEN None ELSE CHOOSE p \in best : TRUE

\* The lines in turn, the latest payout first, each leaving the rest of the pool: the
\* earliest of them is matched after all the others.
Earliest(lines) == CHOOSE r \in lines : \A s \in lines : Day[line[r].payout] <= Day[line[s].payout]
Assigned(matching, pool) == pool \ {matching[r] : r \in DOMAIN matching}
Extended(matching, r, pool) ==
    [s \in DOMAIN matching \cup {r} |->
        IF s = r THEN BestMatch(line[r].payout, Assigned(matching, pool)) ELSE matching[s]]
Matching(lines, pool) ==
    MapThenFoldSet(LAMBDA r, matching : Extended(matching, r, pool), <<>>, LAMBDA r : r, Earliest, lines)

Match(w) ==
    LET found == Matching(work[w].lines, work[w].pool)
        hit == {r \in DOMAIN found : found[r] # None}
    IN /\ work[w].step = "listed"
       /\ line' = [r \in References |->
                     IF r \in hit
                     THEN [line[r] EXCEPT !.status = "matched", !.payment = found[r], !.auto = TRUE]
                     ELSE line[r]]
       /\ lapses' = lapses \cup Overlapped(w)
                           \cup Lapse(\E r \in hit : line[r] # work[w].all[r], "stale")
       /\ Finished(w) /\ UNCHANGED <<uploaded, income, requests>>

-----------------------------------------------------------------------------
\* A person's request on one line: get_object, and for an assignment the check that no
\* other line settles the payment.  Only other_income and ignore look at the loaded status.
Open(r, op) == op \in {"other_income", "ignore"} => line[r].status # "matched"
Load(w, r, op) ==
    /\ work[w] = Idle /\ Began /\ r \in Imported /\ Open(r, op)
    /\ Goto(w, [step |-> op, line |-> r, seen |-> line[r]])
    /\ UNCHANGED <<line, uploaded, income, lapses>>

Unsettled(r, p) == \A s \in References \ {r} : line[s].payment # p
Check(w, r, p) ==
    /\ work[w] = Idle /\ Began /\ r \in Imported /\ Unsettled(r, p)
    /\ Goto(w, [step |-> "assign", line |-> r, seen |-> line[r], payment |-> p, all |-> line])
    /\ UNCHANGED <<line, uploaded, income, lapses>>

Seen(w, r) == work[w].line = r
Overtaken(w) == Lapse(line[work[w].line] # work[w].seen, "stale")
Left(w) == Lapse(line[work[w].line].status = "other_income", "income left")

\* The saves name their columns: status and payment for assign and unmatch, status alone
\* for the others.
Assign(w) ==
    LET r == work[w].line
    IN /\ work[w].step = "assign"
       /\ line' = [line EXCEPT ![r].status = "matched", ![r].payment = work[w].payment, ![r].auto = FALSE]
       /\ lapses' = lapses \cup Overtaken(w) \cup Left(w) \cup Overlapped(w)
       /\ Finished(w) /\ UNCHANGED <<uploaded, income, requests>>

Unmatch(w) ==
    LET r == work[w].line
    IN /\ work[w].step = "unmatch"
       /\ line' = [line EXCEPT ![r].status = "unmatched", ![r].payment = None, ![r].auto = FALSE]
       /\ lapses' = lapses \cup Left(w)
       /\ Finished(w) /\ UNCHANGED <<uploaded, income, requests>>

Ignore(w) ==
    LET r == work[w].line
    IN /\ work[w].step = "ignore"
       /\ line' = [line EXCEPT ![r].status = "ignored"]
       /\ lapses' = lapses \cup Overtaken(w) \cup Left(w)
       /\ Finished(w) /\ UNCHANGED <<uploaded, income, requests>>

\* record_as_other_income posts first and saves the line afterwards.
Post(w) ==
    /\ work[w].step = "other_income"
    /\ income' = income \cup {work[w].line}
    /\ Goto(w, [work[w] EXCEPT !.step = "posted"])
    /\ lapses' = lapses \cup Lapse(line[work[w].line] # work[w].seen, "stale")
    /\ UNCHANGED <<line, uploaded, requests>>

Record(w) ==
    LET r == work[w].line
    IN /\ work[w].step = "posted"
       /\ line' = [line EXCEPT ![r].status = "other_income"]
       /\ lapses' = lapses \cup Overtaken(w)
       /\ Finished(w) /\ UNCHANGED <<uploaded, income, requests>>

\* The process ends; what was posted stays.
Kill(w) ==
    /\ work[w].step = "posted" /\ lapses' = lapses \cup {"killed"}
    /\ Finished(w) /\ UNCHANGED <<line, uploaded, income, requests>>

Next ==
    \E w \in Workers :
       \/ \E e \in Exports : Upload(w, e) \/ Rematch(w, e)
       \/ \E r \in References :
             \/ \E p \in Payments : Check(w, r, p)
             \/ \E op \in {"unmatch", "ignore", "other_income"} : Load(w, r, op)
       \/ List(w) \/ Match(w) \/ Assign(w) \/ Unmatch(w) \/ Ignore(w) \/ Post(w) \/ Record(w) \/ Kill(w)

Spec == Init /\ [][Next]_vars

-----------------------------------------------------------------------------
\* The types of the variables.
TypeOK ==
    /\ \A r \in References :
          /\ line[r].status \in {None, "unmatched", "matched", "other_income", "ignored"}
          /\ line[r].payment \in Payments \cup {None} /\ line[r].auto \in BOOLEAN
          /\ r \in Imported => line[r].payout \in Payouts /\ line[r].batch \in uploaded
    /\ uploaded \subseteq Exports /\ income \subseteq Imported /\ requests \in 0..MaxRequests

\* A card payment is settled by one payout, unless what lines settle changed between a list
\* or a check and the save; what the matcher ties by itself has the exact amount and lies in the
\* window, whatever else happened.
SettledOnce ==
    /\ "overlap" \notin lapses =>
          \A r, s \in Imported : line[r].payment # None /\ line[r].payment = line[s].payment => r = s
    /\ \A r \in Imported : line[r].status = "matched" /\ line[r].auto => Fits(line[r].payout, line[r].payment)

\* A payout is income or settles a sale, never both: the ledger has it as other income
\* exactly when its line says so, and a line has a payment exactly when it says matched,
\* unless a review replaced the income, a copy was overtaken or the process ended between.
\* Other income that is being posted is in the ledger a step early.
PayoutsAreOneThing ==
    /\ lapses \cap {"stale", "income left", "killed"} = {} =>
          \A r \in Imported :
             (r \in income) <=> \/ line[r].status = "other_income"
                                \/ \E w \in Workers : work[w].step = "posted" /\ Seen(w, r)
    /\ "stale" \notin lapses => \A r \in Imported : line[r].payment # None <=> line[r].status = "matched"

\* Every payout of an uploaded export is there, once, unless rows went by their number.
PayoutsAreCountedOnce ==
    uploaded # {} /\ (\A e \in uploaded : DOMAIN e \cap Numbered = {}) =>
        \A e \in uploaded : \A r \in DOMAIN e : \E s \in Imported :
            /\ line[s].payout = e[r]
            /\ \A t \in Imported : line[t].payout = e[r] => t = s
=============================================================================
