----------------------------- MODULE TillSessions -----------------------------
(***************************************************************************)
(* Cash in the drawers of cashiers (src/backend/apps/pos/till_services.py, *)
(* and the payments of src/backend/apps/sales that attach to a till).      *)
(*                                                                         *)
(* A session opens with a float and closes against a blind count; what the *)
(* count differs from the float and the linked cash payments is posted as  *)
(* over or short.  Cash changes hands when a request begins; the request   *)
(* commits later.  `drawer` and `safe` are where the cash is, `cash` what  *)
(* the ledger says there is.  Only cash is modelled: other tenders are     *)
(* never short.                                                            *)
(***************************************************************************)
EXTENDS Integers, FiniteSets, FiniteSetsExt, Functions

CONSTANTS
    Workers, Cashiers,
    Float,          \* opening float
    MaxSessions,    \* bound: sessions
    MaxRequests     \* bound: requests, and handfuls lost

TillAssumption ==
    /\ IsFiniteSet(Workers) /\ IsFiniteSet(Cashiers)
    /\ Float \in Nat /\ MaxSessions \in Nat /\ MaxRequests \in Nat

VARIABLES
    session,    \* rows: cashier, status, taken (linked cash), variance, gl,
                \* and whether its variance is in the ledger
    opened,     \* number of rows
    drawer, safe, cash,
    overshort,  \* Cash Over and Short: posted variances
    mapped,     \* the cash account is mapped
    work, requests,
    lapses      \* history: the ways in which cash and ledger part

vars == <<session, opened, drawer, safe, cash, overshort, mapped, work, requests, lapses>>

Sessions == 1..MaxSessions
NoTill == 0
NoRow == [status |-> "none", cashier |-> NoTill, taken |-> 0, variance |-> 0, gl |-> "pending", entry |-> FALSE]
Idle == [step |-> "idle"]

Init ==
    /\ session = [s \in Sessions |-> NoRow] /\ opened = 0
    /\ drawer = [c \in Cashiers |-> 0] /\ safe = MaxSessions * Float /\ cash = MaxSessions * Float
    /\ overshort = 0 /\ mapped = TRUE
    /\ work = [w \in Workers |-> Idle] /\ requests = 0 /\ lapses = {}

Lapse(cond, name) == IF cond THEN {name} ELSE {}
Goto(w, new) == work' = [work EXCEPT ![w] = new]
Finished(w) == Goto(w, Idle)
Began(w) == work[w] = Idle /\ requests < MaxRequests /\ requests' = requests + 1

\* current_session: the newest open till of a cashier.
OpenTills(c) == {s \in Sessions : session[s].status = "open" /\ session[s].cashier = c}
Current(c) == IF OpenTills(c) = {} THEN NoTill ELSE Max(OpenTills(c))

-----------------------------------------------------------------------------
\* TillService.open_session: checks for an open till, then creates one; the float is put
\* into the drawer.
Openable_always(c) == TRUE
Openable(c) == OpenTills(c) = {}
BeginOpen(w, c) ==
    /\ Began(w) /\ Openable(c)
    /\ Goto(w, [step |-> "open", cashier |-> c, opened |-> opened])
    /\ UNCHANGED <<session, opened, drawer, safe, cash, overshort, mapped, lapses>>

Open(w) ==
    LET c == work[w].cashier
    IN /\ work[w].step = "open" /\ opened < MaxSessions
       /\ opened' = opened + 1
       /\ session' = [session EXCEPT ![opened'] = [NoRow EXCEPT !.status = "open", !.cashier = c]]
       /\ drawer' = [drawer EXCEPT ![c] = @ + Float] /\ safe' = safe - Float
       /\ lapses' = lapses \cup Lapse(opened # work[w].opened, "overlapped")
       /\ Finished(w) /\ UNCHANGED <<cash, overshort, mapped, requests>>

\* SaleService.record_payment, one unit in cash: the till is looked up, and the payment
\* commits with it.  Without an open till the cash goes to the safe.
BeginTake(w, c) ==
    /\ Began(w)
    /\ Goto(w, [step |-> "take", till |-> Current(c)])
    /\ IF Current(c) = NoTill
       THEN safe' = safe + 1 /\ UNCHANGED drawer
       ELSE drawer' = [drawer EXCEPT ![c] = @ + 1] /\ UNCHANGED safe
    /\ UNCHANGED <<session, opened, cash, overshort, mapped, lapses>>

Take(w) ==
    LET s == work[w].till
    IN /\ work[w].step = "take"
       /\ session' = IF s = NoTill THEN session ELSE [session EXCEPT ![s].taken = @ + 1]
       /\ cash' = cash + 1
       /\ lapses' = lapses \cup Lapse(s # NoTill /\ session[s].status = "closed", "late")
       /\ Finished(w) /\ UNCHANGED <<opened, drawer, safe, overshort, mapped, requests>>

\* POSOrderService._settle_invoice: cash of a restaurant order goes into the drawer and the
\* ledger, and its payment names no till.
SettleOrder(c) ==
    /\ requests < MaxRequests /\ requests' = requests + 1
    /\ IF Current(c) = NoTill
       THEN safe' = safe + 1 /\ UNCHANGED drawer
       ELSE drawer' = [drawer EXCEPT ![c] = @ + 1] /\ UNCHANGED safe
    /\ cash' = cash + 1
    /\ lapses' = lapses \cup Lapse(Current(c) # NoTill, "unlinked")
    /\ UNCHANGED <<session, opened, overshort, mapped, work>>

\* Cash leaves a drawer and nobody records it: a loss, or a refund, which credits the
\* receivable only.
Lose(c) ==
    /\ requests < MaxRequests /\ requests' = requests + 1
    /\ drawer[c] > 0 /\ drawer' = [drawer EXCEPT ![c] = @ - 1]
    /\ UNCHANGED <<session, opened, safe, cash, overshort, mapped, work, lapses>>

-----------------------------------------------------------------------------
\* The cashier counts, then asks to close; other requests may come between.
Count(w, s) ==
    /\ Began(w) /\ session[s].status # "none"
    /\ Goto(w, [step |-> "close", session |-> s, counted |-> drawer[session[s].cashier]])
    /\ UNCHANGED <<session, opened, drawer, safe, cash, overshort, mapped, lapses>>

\* TillService.close_session: the row is locked; expected is the float and the cash linked
\* by now; the difference is posted once for a session, if the account is mapped.
Expected_without_float(s) == session[s].taken
Expected(s) == Float + session[s].taken
Closable(s) == session[s].status = "open"

\* _post_variance_journal, under the session: nothing for no variance, nothing twice.
Post(row) ==
    LET posts == mapped /\ ~row.entry /\ row.variance # 0
    IN /\ cash' = IF posts THEN cash + row.variance ELSE cash
       /\ overshort' = IF posts THEN overshort + row.variance ELSE overshort
AfterPost(row) ==
    [row EXCEPT !.gl = IF mapped THEN "posted" ELSE "failed", !.entry = @ \/ (mapped /\ row.variance # 0)]

Close(w) ==
    LET s == work[w].session
        c == session[s].cashier
        row == [session[s] EXCEPT !.status = "closed", !.variance = work[w].counted - Expected(s)]
    IN /\ work[w].step = "close" /\ Closable(s)
       /\ session' = [session EXCEPT ![s] = IF row.variance = 0 THEN [row EXCEPT !.gl = "posted"] ELSE AfterPost(row)]
       /\ Post(row)
       /\ safe' = safe + drawer[c] /\ drawer' = [drawer EXCEPT ![c] = 0]
       /\ lapses' = lapses
            \cup Lapse(drawer[c] # work[w].counted, "after the count")
            \cup Lapse(OpenTills(c) # {s}, "two tills")
            \cup Lapse(\E u \in Workers : work[u].step = "take" /\ work[u].till = s, "late")
       /\ Finished(w) /\ UNCHANGED <<opened, mapped, requests>>

RefuseClose(w) ==
    /\ work[w].step = "close" /\ ~Closable(work[w].session)
    /\ Finished(w) /\ UNCHANGED <<session, opened, drawer, safe, cash, overshort, mapped, requests, lapses>>

\* retry_gl_post posts the variance of any session, open ones too.
Retry(s) ==
    /\ session[s].status # "none"
    /\ session' = [session EXCEPT ![s] = AfterPost(@)] /\ Post(session[s])
    /\ UNCHANGED <<opened, drawer, safe, mapped, work, requests, lapses>>

Map ==
    /\ mapped' = ~mapped
    /\ UNCHANGED <<session, opened, drawer, safe, cash, overshort, work, requests, lapses>>

Next ==
    \/ \E w \in Workers :
          \/ \E c \in Cashiers : BeginOpen(w, c) \/ BeginTake(w, c)
          \/ \E s \in Sessions : Count(w, s)
          \/ Open(w) \/ Take(w) \/ Close(w) \/ RefuseClose(w)
    \/ \E c \in Cashiers : SettleOrder(c) \/ Lose(c)
    \/ \E s \in Sessions : Retry(s)
    \/ Map

Spec == Init /\ [][Next]_vars

-----------------------------------------------------------------------------
\* The types of the variables.
TypeOK ==
    /\ \A s \in Sessions :
          /\ session[s].status \in {"none", "open", "closed"} /\ session[s].taken \in Nat
          /\ session[s].variance \in Int /\ session[s].gl \in {"pending", "posted", "failed"}
    /\ opened \in 0..MaxSessions /\ drawer \in [Cashiers -> Nat] /\ safe \in Nat
    /\ {cash, overshort} \subseteq Int /\ mapped \in BOOLEAN /\ requests \in 0..MaxRequests

Closed == {s \in Sessions : session[s].status = "closed"}

\* A cashier has one till open, unless two requests to open one overlapped.
OneTill ==
    "overlapped" \notin lapses => \A c \in Cashiers : Cardinality(OpenTills(c)) <= 1

\* When every closed till reads as posted, Cash Over and Short holds what they were over or
\* short: no variance is lost or posted twice, however often it fails and is retried.
VariancesTie ==
    (\A s \in Closed : session[s].gl = "posted") =>
        overshort = SumFunction([s \in Closed |-> session[s].variance])

\* Once all tills are closed and posted and no payment is under way, the ledger has the
\* cash there is, losses included: unless a payment overlapped a count or a close, two
\* tills shared a drawer, or cash was taken that names no till.
CashIsCounted ==
    /\ lapses = {}
    /\ \A s \in Sessions : session[s].status # "open" /\ (s \in Closed => session[s].gl = "posted")
    /\ \A w \in Workers : work[w].step # "take"
    => cash = safe + SumFunction(drawer)
=============================================================================
