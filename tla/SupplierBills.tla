---------------------------- MODULE SupplierBills ----------------------------
(***************************************************************************)
(* One bill of a supplier (src/backend/apps/bills): its row, the payments  *)
(* recorded on it, and what the ledger says is owed for it.                *)
(*                                                                         *)
(* Every request loads the row (get_object) and, in one transaction later, *)
(* saves the whole copy back with its own change; nothing is locked.       *)
(* A posting fails when the month of its date is locked or an account is   *)
(* not mapped (`shut`); safe_post_gl then marks the bill and goes on.      *)
(* Dates, lines, folders, withholding tax and capitalised lines are left   *)
(* out; overlapping posts of one source are the subject of GeneralLedger.  *)
(***************************************************************************)
EXTENDS Integers, FiniteSetsExt

CONSTANTS
    Users,
    Totals,        \* of a bill as typed in
    Amounts,       \* of a payment
    MaxRequests    \* bound: requests, the creation not counted

BillAssumption == Totals \subseteq Nat \ {0} /\ Amounts \subseteq Nat \ {0} /\ MaxRequests \in Nat

VARIABLES
    bill,       \* status, total, paid, due, deleted, gl; author and origin never change
    paid,       \* sum of the BillPayments
    approved,   \* payable credited under (bill_approved, bill)
    ordered,    \* payable credited under the purchase order the bill came from
    settled,    \* payable debited under the payments
    shut, work, requests,
    lapses      \* history: the ways in which row, payments and ledger part

vars == <<bill, paid, approved, ordered, settled, shut, work, requests, lapses>>

Live == {"draft", "received", "approved", "partially_paid", "paid", "overdue", "voided"}
Idle == [op |-> "idle"]
NoBill == [status |-> "none"]

Init ==
    /\ bill = NoBill /\ paid = 0 /\ approved = 0 /\ ordered = 0 /\ settled = 0
    /\ shut = {} /\ work = [u \in Users |-> Idle] /\ requests = 0 /\ lapses = {}

Lapse(cond, name) == IF cond THEN {name} ELSE {}
Finished(u) == work' = [work EXCEPT ![u] = Idle]
Postable(month) == {month, "accounts"} \cap shut = {}
GL(ok) == IF ok THEN "posted" ELSE "failed"

\* post_bill_approved_journal: once for a bill, with the total of the copy it is given.
Booked_again(total) == IF Postable("issue") THEN approved + total ELSE approved
Booked(total) == IF Postable("issue") /\ approved = 0 THEN total ELSE approved
\* What the journal is given differs from what is there, or the order booked it before.
Misbooked(total) ==
    Lapse(Booked(total) > 0 /\ ordered > 0, "booked twice") \cup Lapse(approved \notin {0, total}, "edited")

-----------------------------------------------------------------------------
\* BillService.create_bill: a bill that is not a draft is posted.  Or a receipt of a
\* purchase order creates it, and books it under the order.
Row(u, status, total, origin, gl) ==
    [status |-> status, total |-> total, paid |-> 0, due |-> total, deleted |-> FALSE, gl |-> gl,
     author |-> u, origin |-> origin]

Create(u, status, total) ==
    /\ bill = NoBill /\ "issue" \notin shut
    /\ LET posts == status # "draft"
       IN /\ bill' = Row(u, status, total, "typed", IF posts THEN GL(Postable("issue")) ELSE "pending")
          /\ approved' = IF posts THEN Booked(total) ELSE 0
    /\ UNCHANGED <<paid, ordered, settled, shut, work, requests, lapses>>

FromOrder(u, total) ==
    /\ bill = NoBill
    /\ bill' = Row(u, "received", total, "order", GL(Postable("issue")))
    /\ ordered' = IF Postable("issue") THEN total ELSE 0
    /\ UNCHANGED <<paid, approved, settled, shut, work, requests, lapses>>

\* get_object, with the checks that look at the loaded row only.
Allowed(u, op) ==
    CASE op = "approve" -> bill.author # u
      [] op = "pay" -> bill.status # "voided"
      [] op = "edit" -> bill.status \in {"draft", "received"}
      [] OTHER -> TRUE

Load(u, op) ==
    /\ work[u] = Idle /\ requests < MaxRequests
    /\ bill # NoBill /\ ~bill.deleted /\ Allowed(u, op)
    /\ work' = [work EXCEPT ![u] = [op |-> op, copy |-> bill]]
    /\ requests' = requests + 1
    /\ UNCHANGED <<bill, paid, approved, ordered, settled, shut, lapses>>

\* Model.save: all columns of the copy.
Overtaken(u) == Lapse(work[u].copy # bill, "stale")

\* BillService.approve_bill, whatever the status was.
Approve(u) ==
    LET copy == work[u].copy
    IN /\ work[u].op = "approve"
       /\ bill' = [copy EXCEPT !.status = "approved", !.gl = GL(Postable("issue"))]
       /\ approved' = Booked(copy.total)
       /\ lapses' = lapses \cup Overtaken(u) \cup Misbooked(copy.total)
       /\ Finished(u) /\ UNCHANGED <<paid, ordered, settled, shut, requests>>

\* BillService.record_payment: no upper limit; the bill takes the outcome of this posting.
Due(total, sum) == Max({0, total - sum})
Settle(copy, amount) ==
    LET sum == copy.paid + amount
    IN [copy EXCEPT !.paid = sum, !.due = Due(copy.total, sum),
                    !.status = IF Due(copy.total, sum) = 0 THEN "paid" ELSE "partially_paid"]

Pay(u, amount) ==
    LET copy == work[u].copy
        posts == Postable("payment")
    IN /\ work[u].op = "pay"
       /\ bill' = [Settle(copy, amount) EXCEPT !.gl = GL(posts)]
       /\ paid' = paid + amount
       /\ settled' = IF posts THEN settled + amount ELSE settled
       /\ lapses' = lapses \cup Overtaken(u) \cup Lapse(~posts, "payment not booked")
                           \cup Lapse(posts /\ approved + ordered = 0, "masked")
       /\ Finished(u) /\ UNCHANGED <<approved, ordered, shut, requests>>

\* void and PATCH: one column changes, all are saved; neither touches the ledger.
Void(u) ==
    /\ work[u].op = "void"
    /\ bill' = [work[u].copy EXCEPT !.status = "voided"]
    /\ lapses' = lapses \cup Overtaken(u)
    /\ Finished(u) /\ UNCHANGED <<paid, approved, ordered, settled, shut, requests>>

Patch(u, status) ==
    /\ work[u].op = "patch"
    /\ bill' = [work[u].copy EXCEPT !.status = status]
    /\ lapses' = lapses \cup Overtaken(u)
    /\ Finished(u) /\ UNCHANGED <<paid, approved, ordered, settled, shut, requests>>

\* BillService.update_bill: new lines and total; posted when a draft leaves that status.
Edit(u, status, total) ==
    LET copy == work[u].copy
        posts == copy.status = "draft" /\ status # "draft"
    IN /\ work[u].op = "edit" /\ "issue" \notin shut
       /\ bill' = [copy EXCEPT !.status = status, !.total = total, !.due = Due(total, copy.paid),
                               !.gl = IF posts THEN GL(Postable("issue")) ELSE @]
       /\ approved' = IF posts THEN Booked(total) ELSE approved
       /\ lapses' = lapses \cup Overtaken(u)
                           \cup Lapse(approved + ordered > 0 /\ total # approved + ordered, "edited")
                           \cup (IF posts THEN Misbooked(total) ELSE {})
       /\ Finished(u) /\ UNCHANGED <<paid, ordered, settled, shut, requests>>

Refuse(u) ==
    /\ work[u].op = "edit" /\ "issue" \in shut
    /\ Finished(u) /\ UNCHANGED <<bill, paid, approved, ordered, settled, shut, requests, lapses>>

\* A soft delete saves the flag alone; AccountingService.retry_gl_post books the approval,
\* even of a draft, and saves the outcome alone.
Delete(u) ==
    /\ work[u].op = "delete"
    /\ bill' = [bill EXCEPT !.deleted = TRUE]
    /\ Finished(u) /\ UNCHANGED <<paid, approved, ordered, settled, shut, requests, lapses>>

Retry(u) ==
    LET copy == work[u].copy
    IN /\ work[u].op = "retry"
       /\ bill' = [bill EXCEPT !.gl = GL(Postable("issue"))]
       /\ approved' = Booked(copy.total)
       /\ lapses' = lapses \cup Overtaken(u) \cup Misbooked(copy.total)
       /\ Finished(u) /\ UNCHANGED <<paid, ordered, settled, shut, requests>>

\* A month is locked or unlocked, an account is unmapped or mapped.
Toggle(what) ==
    /\ shut' = IF what \in shut THEN shut \ {what} ELSE shut \cup {what}
    /\ UNCHANGED <<bill, paid, approved, ordered, settled, work, requests, lapses>>

Next ==
    \/ \E u \in Users :
          \/ \E status \in {"draft", "received", "approved"}, total \in Totals :
                Create(u, status, total) \/ Edit(u, status, total)
          \/ \E total \in Totals : FromOrder(u, total)
          \/ \E op \in {"approve", "pay", "void", "patch", "edit", "delete", "retry"} : Load(u, op)
          \/ \E amount \in Amounts : Pay(u, amount)
          \/ \E status \in {"draft", "received", "overdue"} : Patch(u, status)
          \/ Approve(u) \/ Void(u) \/ Refuse(u) \/ Delete(u) \/ Retry(u)
    \/ \E what \in {"issue", "payment", "accounts"} : Toggle(what)

Spec == Init /\ [][Next]_vars

-----------------------------------------------------------------------------
\* The types of the variables.
Rows(users) ==
    [status : Live, total : Totals, paid : Nat, due : Nat, deleted : BOOLEAN,
     gl : {"pending", "posted", "failed"}, author : users, origin : {"typed", "order"}]
TypeOK ==
    /\ bill = NoBill \/ bill \in Rows(Users)
    /\ {paid, approved, ordered, settled} \subseteq Nat
    /\ shut \subseteq {"issue", "payment", "accounts"} /\ requests \in 0..MaxRequests

\* The row is what its payments make of it: it never claims more than they paid, it claims
\* all of it unless a copy overtook another request, and what it says is due and what its
\* status says of it follow.
PaymentsExplainBill ==
    bill # NoBill =>
        /\ bill.paid <= paid /\ bill.due = Max({0, bill.total - bill.paid})
        /\ "stale" \notin lapses => bill.paid = paid
        /\ bill.status = "paid" => bill.due = 0
        /\ bill.status = "partially_paid" => bill.paid > 0 /\ bill.due > 0

\* A bill that reads as posted is in the ledger with what is still owed on it: what was
\* credited for it, by its approval or by the order, less what its payments settled.
PayablesTie ==
    bill # NoBill /\ bill.gl = "posted" /\ lapses = {} =>
        approved + ordered - settled = bill.total - bill.paid

\* The two: the bill, its payments and the ledger agree.
PayablesAgree == PaymentsExplainBill /\ PayablesTie
=============================================================================
