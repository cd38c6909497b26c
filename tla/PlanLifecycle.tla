---------------------------- MODULE PlanLifecycle ----------------------------
(***************************************************************************)
(* The life of an organisation's subscription (trial, paid period, lapse,  *)
(* cancellation) and the wallet of the partner who referred it             *)
(* (src/backend/apps/subscriptions/services.py, tasks.py and               *)
(* src/backend/apps/tenancy/commission_service.py).  Nothing here locks    *)
(* the subscription's row: a request reads it, and saves what it read.     *)
(***************************************************************************)
EXTENDS Integers, FiniteSets, FiniteSetsExt

CONSTANTS
    Clients, Own,          \* organisations a partner referred, and his own
    Workers,               \* requests and tasks under way
    References,            \* payments of the clients
    TrialDays, PeriodDays, Price, Commission,
    Horizon, MaxJobs       \* bounds: days, and requests and tasks begun

PlanAssumption ==
    /\ IsFiniteSet(References) /\ TrialDays \in Nat /\ PeriodDays \in Nat
    /\ Price \in Nat /\ Commission \in Nat /\ Horizon \in Nat /\ MaxJobs \in Nat

Orgs == Clients \cup {Own}

VARIABLES
    today,
    sub,       \* Subscription of each organisation
    settled,   \* references of PaymentHistory that have succeeded, with their organisation
    ledger,    \* CommissionLedger: its rows, in any order
    link,      \* PartnerClientLink.commission_earned of each client
    total,     \* PartnerProfile.total_commission_earned
    work, jobs,
    trials,    \* history: free trials begun by each organisation
    cover,     \* history: the day up to which each organisation has paid
    renewals,  \* history: periods renewed with credit
    lapses     \* history: <<what happened, organisation>>

vars == <<today, sub, settled, ledger, link, total, work, jobs, trials, cover, renewals, lapses>>
rows == <<ledger, link, total, settled>>
told == <<trials, cover, renewals>>

None == [none |-> TRUE]
Never == -1
Paid == [plan |-> "paid", status |-> "active", trialEnd |-> Never, end |-> PeriodDays]

\* A client may just have signed up; the partner subscribes to a plan of his own.
Init ==
    /\ today = 0 /\ sub = [o \in Orgs |-> IF o = Own THEN Paid ELSE None]
    /\ settled = {} /\ ledger = {} /\ link = [o \in Clients |-> 0] /\ total = 0
    /\ work = [w \in Workers |-> None] /\ jobs = 0
    /\ trials = [o \in Orgs |-> 0] /\ cover = [o \in Orgs |-> IF o = Own THEN PeriodDays ELSE Never]
    /\ renewals = 0 /\ lapses = {}

At(w, step) == work[w] # None /\ work[w].step = step
Goto(w, new) == work' = [work EXCEPT ![w] = new]
Take(w, new) == work[w] = None /\ jobs < MaxJobs /\ jobs' = jobs + 1 /\ Goto(w, new)
Lapse(cond, name, o) == IF cond THEN {<<name, o>>} ELSE {}

\* is_active: what the plan's features and the paid integrations depend on.
Active(row) ==
    /\ row # None
    /\ \/ row.status = "active" /\ (row.end = Never \/ today <= row.end)
       \/ row.status = "trialing" /\ (row.trialEnd = Never \/ today <= row.trialEnd)

-----------------------------------------------------------------------------
(* Requests of the owner: each loads the row, changes some fields and saves  *)
(* the whole of it.                                                          *)

Read(w, o, op) ==
    /\ Take(w, [step |-> "save", op |-> op, org |-> o, row |-> sub[o]])
    /\ UNCHANGED <<today, sub, rows, told, lapses>>

\* start_trial_for_plan: one free trial; that there was one shows in trial_end alone.
TrialUsed_forgotten(row) == FALSE
TrialUsed(row) == row # None /\ row.trialEnd # Never
Trial == [plan |-> "paid", status |-> "trialing", trialEnd |-> today + TrialDays, end |-> today + TrialDays]

\* upgrade_plan, to either plan and for no payment; activate_free_plan forgets the trial;
\* cancel keeps the dates.
Renewed_kept(row, plan) == [row EXCEPT !.plan = plan, !.status = "active"]
Renewed(row, plan) == [row EXCEPT !.plan = plan, !.status = "active", !.end = today + PeriodDays]
Free == [plan |-> "free", status |-> "active", trialEnd |-> Never, end |-> Never]
Refused(op, row) == (op = "trial" /\ TrialUsed(row)) \/ (op = "cancel" /\ row = None)
Changed(op, row) ==
    CASE op = "trial" -> Trial
      [] op \in {"upgrade", "downgrade"} ->
            LET plan == IF op = "upgrade" THEN "paid" ELSE "free"
            IN IF row = None THEN [Trial EXCEPT !.plan = plan] ELSE Renewed(row, plan)
      [] op = "free" -> Free
      [] op = "cancel" -> [row EXCEPT !.status = "canceled"]

Save(w) ==
    /\ At(w, "save")
    /\ LET o == work[w].org  row == work[w].row  op == work[w].op
           new == Changed(op, row)  starts == new.status = "trialing"
       IN IF Refused(op, row) THEN UNCHANGED <<sub, trials, lapses>>
          ELSE /\ sub' = [sub EXCEPT ![o] = new]
               /\ trials' = IF starts THEN [trials EXCEPT ![o] = @ + 1] ELSE trials
               /\ lapses' = lapses \cup Lapse(row # sub[o] /\ op # "free", "saved over", o)
                                   \cup Lapse(op = "free" /\ TrialUsed(sub[o]), "trial forgotten", o)
                                   \cup Lapse(op # "upgrade", "given up", o)
    /\ Goto(w, None) /\ UNCHANGED <<today, rows, jobs, cover, renewals>>

-----------------------------------------------------------------------------
(* A client pays: PaymentEngine.activate, under the lock of the payment.     *)

\* The referral is read first, its earnings with it.
Pay(w, o, r) ==
    /\ o \in Clients /\ ~\E s \in settled : s.reference = r
    /\ \A v \in Workers : At(v, "activate") => work[v].reference # r
    /\ Take(w, [step |-> "activate", org |-> o, reference |-> r, earned |-> link[o]])
    /\ UNCHANGED <<today, sub, rows, told, lapses>>

\* record_commission: at most one row for a payment.
Earned(r) == [kind |-> "payment", reference |-> r, amount |-> Commission, status |-> "pending", since |-> today]

\* _activate_subscription and _record_partner_commission.  The totals are raised by the
\* ledger's service and once more here: the partner's by adding, the client's from the
\* figure that was read.
Activate(w) ==
    /\ At(w, "activate")
    /\ LET o == work[w].org
       IN /\ sub' = [sub EXCEPT ![o] = Renewed(IF @ = None THEN Paid ELSE @, "paid")]
          /\ settled' = settled \cup {[reference |-> work[w].reference, org |-> o]}
          /\ ledger' = ledger \cup {Earned(work[w].reference)}
          /\ link' = [link EXCEPT ![o] = work[w].earned + Commission] /\ total' = total + 2 * Commission
          /\ cover' = [cover EXCEPT ![o] = today + PeriodDays]
          /\ lapses' = (lapses \ {<<"given up", o>>, <<"expired blindly", o>>})
                         \cup Lapse(link[o] # work[w].earned, "earnings lost", o)
    /\ Goto(w, None) /\ UNCHANGED <<today, jobs, trials, renewals>>

-----------------------------------------------------------------------------
(* The hourly task: it lists the trials that are over, marks each, then the  *)
(* periods that are over, and marks each.                                    *)

Over(query, day) ==
    {o \in Orgs :
        /\ sub[o] # None /\ sub[o].plan # "free" /\ sub[o].status = query
        /\ IF query = "trialing" THEN sub[o].trialEnd < day ELSE sub[o].end # Never /\ sub[o].end < day}

List(w) ==
    /\ Take(w, [step |-> "mark", query |-> "trialing", day |-> today, orgs |-> Over("trialing", today)])
    /\ UNCHANGED <<today, sub, rows, told, lapses>>

Mark(w, o) ==
    /\ At(w, "mark") /\ o \in work[w].orgs
    /\ sub' = [sub EXCEPT ![o].status = "past_due"]
    /\ lapses' = lapses \cup Lapse(o \notin Over(work[w].query, work[w].day), "expired blindly", o)
    /\ Goto(w, [work[w] EXCEPT !.orgs = @ \ {o}])
    /\ UNCHANGED <<today, rows, jobs, told>>

MarkedAll(w) ==
    /\ At(w, "mark") /\ work[w].orgs = {}
    /\ Goto(w, IF work[w].query = "active" THEN None
               ELSE [work[w] EXCEPT !.query = "active", !.orgs = Over("active", work[w].day)])
    /\ UNCHANGED <<today, sub, rows, jobs, told, lapses>>

-----------------------------------------------------------------------------
(* The partner's wallet.                                                     *)

Costs_nothing(plan) == 0
Costs(plan) == IF plan = "paid" THEN Price ELSE 0
Available(L) == MapThenSumSet(LAMBDA row : row.amount, {row \in L : row.status = "confirmed"})
Credits(L) == {row \in L : row.kind = "credit"}

\* confirm_pending, in one statement: what is older than the chargeback window.
Confirm ==
    /\ \E row \in ledger : row.status = "pending" /\ row.since < today
    /\ ledger' = {IF row.since < today THEN [row EXCEPT !.status = "confirmed"] ELSE row : row \in ledger}
    /\ UNCHANGED <<today, sub, settled, link, total, work, jobs, told, lapses>>

\* commission_apply: no more than what is available, towards his own subscription.
Offer(w, amount) ==
    /\ Available(ledger) > 0
    /\ LET applied == IF amount < Available(ledger) THEN amount ELSE Available(ledger)
       IN Take(w, [step |-> "check", amount |-> applied, covers |-> applied >= Costs(sub[Own].plan), row |-> sub[Own]])
    /\ UNCHANGED <<today, sub, rows, told, lapses>>

\* apply_credit looks for the key, for an earlier credit and at the balance, without a lock.
\* The key stands for subscription and person, so a second request finds the first: it
\* deducts nothing, and renews all the same.
Enough(amount) == amount <= Available(ledger)
Check(w) ==
    /\ At(w, "check")
    /\ Goto(w, IF Credits(ledger) # {} THEN [work[w] EXCEPT !.step = "apply", !.amount = 0]
               ELSE IF Enough(work[w].amount) THEN [work[w] EXCEPT !.step = "apply"] ELSE None)
    /\ UNCHANGED <<today, sub, rows, jobs, told, lapses>>

Apply(w) ==
    /\ At(w, "apply")
    /\ LET spent == work[w].amount  number == Cardinality(Credits(ledger))
           row == [kind |-> "credit", reference |-> -number, amount |-> -spent, status |-> "confirmed", since |-> today]
       IN /\ ledger' = IF spent = 0 THEN ledger ELSE ledger \cup {row}
          /\ lapses' = lapses \cup Lapse(spent = 0, "renewed again", Own)
                              \cup Lapse(spent # 0 /\ Credits(ledger) # {}, "applied twice", Own)
                              \cup Lapse(sub[Own] # work[w].row, "saved over", Own)
    /\ IF work[w].covers
       THEN LET plan == work[w].row.plan
            IN /\ sub' = [sub EXCEPT ![Own] = Renewed(work[w].row, plan)]
               /\ renewals' = renewals + (IF plan = "paid" THEN 1 ELSE 0)
               /\ cover' = [cover EXCEPT ![Own] = today + PeriodDays]
       ELSE UNCHANGED <<sub, renewals, cover>>
    /\ Goto(w, None) /\ UNCHANGED <<today, settled, link, total, jobs, trials>>

Tick == today < Horizon /\ today' = today + 1 /\ UNCHANGED <<sub, rows, work, jobs, told, lapses>>

-----------------------------------------------------------------------------
Next ==
    \/ \E w \in Workers :
          \/ \E o \in Orgs, op \in {"trial", "upgrade", "downgrade", "free", "cancel"} : Read(w, o, op)
          \/ \E o \in Clients, r \in References : Pay(w, o, r)
          \/ \E o \in Orgs : Mark(w, o)
          \/ \E amount \in {Commission, Price} : Offer(w, amount)
          \/ Save(w) \/ Activate(w) \/ List(w) \/ MarkedAll(w) \/ Check(w) \/ Apply(w)
    \/ Confirm \/ Tick

Spec == Init /\ [][Next]_vars

-----------------------------------------------------------------------------
SubscriptionRows ==
   [plan : {"paid", "free"}, status : {"trialing", "active", "past_due", "canceled"},
    trialEnd : Int, end : Int]
TypeOK ==
    /\ today \in 0 .. Horizon /\ sub \in [Orgs -> SubscriptionRows \cup {None}]
    /\ settled \subseteq [reference : References, org : Clients]
    /\ \A row \in ledger : row.kind \in {"payment", "credit"} /\ row.status \in {"pending", "confirmed"}
    /\ link \in [Clients -> Nat] /\ total \in Nat /\ renewals \in Nat
    /\ trials \in [Orgs -> Nat] /\ cover \in [Orgs -> Int]

Clear(o, names) == \A name \in names : <<name, o>> \notin lapses

\* An organisation has what it has paid for up to the day it has paid for, whatever the
\* hourly task does: unless it gave its plan up, or a row read before was saved over it.
PaidIsActive ==
    \A o \in Orgs :
        (cover[o] >= today /\ Clear(o, {"given up", "saved over", "expired blindly"})) =>
            Active(sub[o]) /\ sub[o].plan = "paid"

\* One free trial: a second one takes a free plan in between, or two requests that cross.
OneTrial == \A o \in Orgs : Clear(o, {"trial forgotten", "saved over"}) => trials[o] <= 1

\* Every payment of a client earned one commission, and the partner's wallet never goes
\* below zero: unless two requests spend it at the same time.  The total shown to the
\* partner counts every commission twice.
WalletAgrees ==
    /\ {row.reference : row \in ledger \ Credits(ledger)} = {s.reference : s \in settled}
    /\ total = 2 * Commission * Cardinality(settled)
    /\ \A o \in Clients :
          Clear(o, {"earnings lost"}) => link[o] = Commission * Cardinality({s \in settled : s.org = o})
    /\ Clear(Own, {"applied twice"}) => Available(ledger) >= 0

\* Credit pays for the periods it renews: unless the request was repeated.
CreditPaysRenewals ==
    Clear(Own, {"renewed again"}) =>
        -MapThenSumSet(LAMBDA row : row.amount, Credits(ledger)) >= Price * renewals
=============================================================================
