----------------------------- MODULE LeaveBalance -----------------------------
(***************************************************************************)
(* An employee's leave (src/backend/apps/payroll: LeaveService,            *)
(* LeaveEncashmentService, the leave views and the portal's), and the      *)
(* accrued leave accounting carries for it.                                *)
(*                                                                         *)
(* The balance is columns kept beside the requests, and no code locks it:  *)
(* a request writes the sum it made from its own read.  Saving the status  *)
(* of a request does lock that row until its transaction ends.  One leave  *)
(* type, paid; a day is worth 1.                                           *)
(***************************************************************************)
EXTENDS Integers, FiniteSets, FiniteSetsExt

CONSTANTS
    Users, Requests, Days,
    Ceiling, Share,  \* days_per_year, and a month's part of it
    MaxOps           \* bound: calls of the API and runs of a task

LeaveAssumption ==
    /\ IsFiniteSet(Requests) /\ Days \subseteq Nat
    /\ Ceiling \in Nat /\ Share \in 0..Ceiling /\ MaxOps \in Nat

VARIABLES
    direct,   \* the leave type needs no approval (fixed)
    request,  \* status and days
    rows,     \* requests whose attendance rows are written
    balance,  \* accrued, taken, pending
    cashing,  \* the encashment adjustment: status and days
    accrued,  \* GL 2850, Accrued Leave
    baseline, \* PayrollSettings.leave_accrual_last_posted_amount
    booked,   \* sources in the ledger: the days of true-ups, and the settlement
    today, work, ops,
    lapses    \* history: how the records came to differ

vars == <<direct, request, rows, balance, cashing, accrued, baseline, booked, today, work, ops, lapses>>

Idle == [step |-> "idle"]
Init ==
    /\ direct \in BOOLEAN
    /\ request = [q \in Requests |-> [status |-> "none", days |-> 0]] /\ rows = {}
    /\ balance = [accrued |-> Ceiling - Share, taken |-> 0, pending |-> 0]
    /\ cashing = [status |-> "none", days |-> 0]
    /\ accrued = 0 /\ baseline = 0 /\ booked = {} /\ today = 1
    /\ work = [u \in Users |-> Idle] /\ ops = 0 /\ lapses = {}

Available(b) == b.accrued - b.taken - b.pending
Most(a, b) == IF a < b THEN b ELSE a
Count == ops < MaxOps /\ ops' = ops + 1
At(u, step) == work[u].step = step
Goto(u, new) == work' = [work EXCEPT ![u] = new]
Finished(u) == Goto(u, Idle)
Lapse(cond, name) == IF cond THEN {name} ELSE {}
Overwrites(copy) == Lapse(balance # copy, "raced")

-----------------------------------------------------------------------------
(* Raising a request: three statements, each committed.                    *)

\* The portal refuses what the balance does not cover; a manager may overbook.
Covered(b, days) == days <= Available(b)
BeginRequest(u, q, days, portal) ==
    /\ Count /\ At(u, "idle") /\ request[q].status = "none"
    /\ \A v \in Users : ~(work[v].step = "raise" /\ work[v].request = q)
    /\ portal => Covered(balance, days)
    /\ Goto(u, [step |-> "raise", request |-> q, days |-> days, copy |-> balance,
                direct |-> direct /\ ~portal])
    /\ lapses' = lapses \cup Lapse(~portal, "overbooked")
    /\ UNCHANGED <<direct, request, rows, balance, cashing, accrued, baseline, booked, today>>

\* A request that needs no approval is saved as approved: LeaveService.approve then
\* returns at once, and neither days nor attendance are written.
SaveRequest(u) ==
    /\ At(u, "raise")
    /\ LET w == work[u]
       IN /\ request' = [request EXCEPT ![w.request] =
                             [status |-> IF w.direct THEN "approved" ELSE "pending", days |-> w.days]]
          /\ IF w.direct THEN Finished(u) ELSE Goto(u, [w EXCEPT !.step = "hold"])
          /\ lapses' = lapses \cup Lapse(w.direct, "approved unseen")
    /\ UNCHANGED <<direct, rows, balance, cashing, accrued, baseline, booked, today, ops>>

Hold(u) ==
    /\ At(u, "hold")
    /\ balance' = [balance EXCEPT !.pending = work[u].copy.pending + work[u].days]
    /\ lapses' = lapses \cup Overwrites(work[u].copy)
    /\ Finished(u)
    /\ UNCHANGED <<direct, request, rows, cashing, accrued, baseline, booked, today, ops>>

-----------------------------------------------------------------------------
(* Deciding one.                                                           *)

Decidable(op, status) ==
    CASE op = "cancel" -> status \in {"pending", "approved"}
      [] OTHER -> status = "pending"
BeginDecide(u, op, q) ==
    /\ Count /\ At(u, "idle") /\ Decidable(op, request[q].status)
    /\ Goto(u, [step |-> "read", op |-> op, request |-> q, seen |-> request[q]])
    /\ UNCHANGED <<direct, request, rows, balance, cashing, accrued, baseline, booked, today, lapses>>

\* The status is saved, which holds the row; then the balance is read.
Lock(u) ==
    /\ At(u, "read") /\ \A v \in Users : ~(At(v, "locked") /\ work[v].request = work[u].request)
    /\ Goto(u, [step |-> "locked", op |-> work[u].op, request |-> work[u].request,
                seen |-> work[u].seen, copy |-> balance])
    /\ UNCHANGED <<direct, request, rows, balance, cashing, accrued, baseline, booked, today, ops, lapses>>

\* approve, reject and cancel move the days, by the status the request was read with.
Result(op) == CASE op = "approve" -> "approved" [] op = "reject" -> "rejected" [] op = "cancel" -> "cancelled"
Released(b, days) == Most(0, b.pending - days)
Moved(op, seen, copy) ==
    CASE op = "approve" -> [balance EXCEPT !.taken = copy.taken + seen.days, !.pending = Released(copy, seen.days)]
      [] op = "reject" -> [balance EXCEPT !.pending = Released(copy, seen.days)]
      [] op = "cancel" /\ seen.status = "approved" ->
            [balance EXCEPT !.taken = Most(0, copy.taken - seen.days), !.pending = copy.pending]
      [] op = "cancel" /\ seen.status # "approved" ->
            [balance EXCEPT !.pending = Released(copy, seen.days), !.taken = copy.taken]

\* _write_attendance; cancel clears the rows of a request it read as approved.
Attended_added(op, seen, q) == IF op = "approve" THEN rows \cup {q} ELSE rows
Attended(op, seen, q) ==
    CASE op = "approve" -> rows \cup {q}
      [] op = "cancel" /\ seen.status = "approved" -> rows \ {q}
      [] OTHER -> rows

Decide(u) ==
    /\ At(u, "locked")
    /\ LET w == work[u]
           q == w.request
       IN /\ request' = [request EXCEPT ![q].status = Result(w.op)]
          /\ rows' = Attended(w.op, w.seen, q)
          /\ balance' = Moved(w.op, w.seen, w.copy)
          /\ lapses' = lapses \cup Overwrites(w.copy) \cup Lapse(request[q] # w.seen, "decided twice")
                \cup Lapse(\E v \in Users : At(v, "hold") /\ work[v].request = q, "raced")
    /\ Finished(u)
    /\ UNCHANGED <<direct, cashing, accrued, baseline, booked, today, ops>>

\* PATCH refuses the status approved and rejected, and takes any other: the row alone changes.
Patch(q, status) ==
    /\ Count /\ request[q].status \notin {"none", status} /\ \A u \in Users : work[u].step # "locked"
    /\ request' = [request EXCEPT ![q].status = status] /\ lapses' = lapses \cup {"patched"}
    /\ UNCHANGED <<direct, rows, balance, cashing, accrued, baseline, booked, today, work>>

\* accrue_month: by the task or on demand, as often as it is called, up to the entitlement.
Accrued(b) == b.accrued + Most(0, IF b.accrued + Share > Ceiling THEN Ceiling - b.accrued ELSE Share)
Accrue ==
    /\ Count /\ balance' = [balance EXCEPT !.accrued = Accrued(balance)]
    /\ UNCHANGED <<direct, request, rows, cashing, accrued, baseline, booked, today, work, lapses>>

-----------------------------------------------------------------------------
(* Encashment, and the ledger.                                             *)

\* request_encashment: one transaction, over the balance it read.
BeginEncash(u, days) ==
    /\ Count /\ At(u, "idle") /\ cashing.status = "none" /\ Covered(balance, days)
    /\ \A v \in Users : ~At(v, "encash")
    /\ Goto(u, [step |-> "encash", days |-> days, copy |-> balance])
    /\ UNCHANGED <<direct, request, rows, balance, cashing, accrued, baseline, booked, today, lapses>>

Encash(u) ==
    /\ At(u, "encash")
    /\ balance' = [balance EXCEPT !.taken = work[u].copy.taken + work[u].days]
    /\ cashing' = [status |-> "pending", days |-> work[u].days]
    /\ lapses' = lapses \cup Overwrites(work[u].copy)
    /\ Finished(u)
    /\ UNCHANGED <<direct, request, rows, accrued, baseline, booked, today, ops>>

\* The adjustment is cancelled; the days stay taken.
CancelEncashment ==
    /\ Count /\ cashing.status = "pending" /\ cashing' = [cashing EXCEPT !.status = "cancelled"]
    /\ UNCHANGED <<direct, request, rows, balance, accrued, baseline, booked, today, work, lapses>>

\* post_leave_encashment_settlement: post_journal_entry returns the entry that is there,
\* and the baseline is lowered all the same.
Settlement == 0
Posted(source, amount) == IF source \in booked THEN accrued ELSE accrued + amount
Settled(days) == baseline - days
Settle ==
    /\ Count /\ cashing.status \in {"pending", "applied"}
    /\ cashing' = [cashing EXCEPT !.status = "applied"]
    /\ accrued' = Posted(Settlement, -cashing.days) /\ booked' = booked \cup {Settlement}
    /\ baseline' = Settled(cashing.days)
    /\ lapses' = lapses \cup Lapse(Settlement \in booked, "settled twice")
    /\ UNCHANGED <<direct, request, rows, balance, today, work>>

\* post_leave_accrual_true_up, under the lock on the settings; one source for a day.
TrueUp ==
    /\ Count /\ Most(0, Available(balance)) # baseline
    /\ accrued' = Posted(today, Most(0, Available(balance)) - baseline) /\ booked' = booked \cup {today}
    /\ baseline' = Most(0, Available(balance))
    /\ lapses' = lapses \cup Lapse(today \in booked, "same day")
    /\ UNCHANGED <<direct, request, rows, balance, cashing, today, work>>

NextDay ==
    /\ Count /\ today' = today + 1
    /\ UNCHANGED <<direct, request, rows, balance, cashing, accrued, baseline, booked, work, lapses>>

-----------------------------------------------------------------------------
Next ==
    \/ \E u \in Users :
          \/ \E q \in Requests :
                \/ \E days \in Days, portal \in BOOLEAN : BeginRequest(u, q, days, portal)
                \/ \E op \in {"approve", "reject", "cancel"} : BeginDecide(u, op, q)
          \/ SaveRequest(u) \/ Hold(u) \/ Lock(u) \/ Decide(u)
          \/ \E days \in Days : BeginEncash(u, days)
          \/ Encash(u)
    \/ \E q \in Requests, status \in {"cancelled", "pending"} : Patch(q, status)
    \/ Accrue \/ CancelEncashment \/ Settle \/ TrueUp \/ NextDay
Spec == Init /\ [][Next]_vars

-----------------------------------------------------------------------------
(* Properties.                                                             *)

\* Statuses, and amounts of days; the pending days never fall below zero.
TypeOK ==
    /\ \A q \in Requests : /\ request[q].status \in {"none", "pending", "approved", "rejected", "cancelled"}
                           /\ request[q].days \in Nat
    /\ rows \subseteq Requests /\ balance.accrued \in 0..Ceiling
    /\ balance.taken \in Nat /\ balance.pending \in Nat
    /\ cashing.status \in {"none", "pending", "applied", "cancelled"}
    /\ accrued \in Int /\ baseline \in Int /\ booked \subseteq 0..today

DaysOf(status) == MapThenSumSet(LAMBDA q : request[q].days, {q \in Requests : request[q].status = status})
Quiet == \A u \in Users : ~At(u, "hold")

\* The balance holds the days of pending requests and has taken those of approved ones and
\* of the encashment, and an employee who books through the portal never overdraws it,
\* unless a request wrote over another's change to the balance, two decided one request,
\* a status was patched, or a request was approved as it was raised.
BalanceFollowsRequests ==
    Quiet /\ lapses \cap {"raced", "decided twice", "patched", "approved unseen"} = {} =>
        /\ balance.pending = DaysOf("pending")
        /\ balance.taken = DaysOf("approved") + cashing.days
        /\ "overbooked" \notin lapses => Available(balance) >= 0

\* Payroll sees an absence exactly for approved leave, through every race of decisions.
AttendanceFollowsApproval ==
    lapses \cap {"decided twice", "patched", "approved unseen"} = {} =>
        rows = {q \in Requests : request[q].status = "approved"}

\* The accrued leave in the ledger is the amount the next true-up measures from, unless
\* the settlement was posted again or a second true-up fell on one day.
LedgerIsTheBaseline == lapses \cap {"settled twice", "same day"} = {} => accrued = baseline

=============================================================================
