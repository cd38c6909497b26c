----------------------------- MODULE Settlement -----------------------------
(***************************************************************************)
(* How money reaches one invoice from outside (src/backend/apps/payments): *)
(* a provider's notifications about charges on payment links and one-time  *)
(* accounts, and bank transfers a payer claims and staff confirm.          *)
(*                                                                         *)
(* PaymentService.settle is not one transaction: it commits the event log, *)
(* then the payment, then the target's status, then its own note, and a    *)
(* worker may be killed between any two.  A provider repeats whatever was  *)
(* not answered with 2xx.  Every payment goes through                      *)
(* SaleService.record_payment, which locks the invoice.                    *)
(***************************************************************************)
EXTENDS Integers, FiniteSets, FiniteSetsExt

CONSTANTS
    Workers,          \* concurrent requests to the server
    Charges,          \* event ids of the provider's charges
    Links, Accounts,  \* payment links and one-time accounts this invoice may get
    Scenarios,        \* what the charges are about: target, reference, amount, outcome
    Claims,           \* bank transfer claims
    Amounts,          \* amounts a clerk records or a payer claims
    Total,            \* what the invoice bills
    MaxKills          \* bound: workers killed

Targets == Links \cup Accounts
Kind == [target : Targets, by : {"reference", "number"}, amount : Nat, success : BOOLEAN]

ASSUME SettlementAssumption ==
    /\ Total \in Nat \ {0} /\ Amounts \subseteq 1..Total /\ MaxKills \in Nat
    /\ Charges \cap Claims = {} /\ Links \cap Accounts = {}
    /\ \A s \in Scenarios : /\ DOMAIN s = Charges
                            /\ \A c \in Charges : s[c] \in Kind
                            /\ \A c \in Charges : s[c].by = "number" => s[c].target \in Accounts

Sources == Charges \cup Claims

ASSUME FiniteAssumption == IsFiniteSet(Sources)   \* rows of two tables

Notes == {"failed", "unmatched", "already settled", "zero", "fully paid", "overpaid", "settled"}

VARIABLES
    charge,   \* what each event id is about (fixed)
    target,   \* status of the links and accounts
    log,      \* PaymentEventLog: "none", "accepted" (its note is empty), or the note
    acked,    \* event ids answered with 2xx
    claim,    \* bank transfer claims: status and amount
    paid,     \* Invoice.amount_paid, the sum of its payments as the row has it
    credit,   \* history: the payments each charge and claim has posted, as <<number, sum>>
    cash,     \* history: the sum of the payments clerks have recorded
    work,     \* what each request is in the middle of
    kills

vars == <<charge, target, log, acked, claim, paid, credit, cash, work, kills>>

Idle == [step |-> "idle"]

Init ==
    /\ charge \in Scenarios
    /\ target = [t \in Targets |-> "none"]
    /\ log = [c \in Charges |-> "none"] /\ acked = {}
    /\ claim = [k \in Claims |-> [status |-> "none", amount |-> 0]]
    /\ paid = 0 /\ credit = [s \in Sources |-> <<0, 0>>] /\ cash = 0
    /\ work = [w \in Workers |-> Idle] /\ kills = 0

Due == Total - paid
At(w, step) == work[w].step = step
Goto(w, new) == work' = [work EXCEPT ![w] = new]
Finished(w) == Goto(w, Idle)

-----------------------------------------------------------------------------
(* SaleService.record_payment, one transaction on the locked invoice.      *)

Payable_as_read(amount) == paid < Total
Payable(amount) == paid < Total /\ amount <= Due

Post(source, amount) ==
    /\ Payable(amount)
    /\ paid' = paid + amount
    /\ credit' = [credit EXCEPT ![source] = <<@[1] + 1, @[2] + amount>>]

\* A clerk records a payment at the counter.
RecordPayment(amount) ==
    /\ Payable(amount)
    /\ paid' = paid + amount /\ cash' = cash + amount
    /\ UNCHANGED <<charge, target, log, acked, claim, credit, work, kills>>

-----------------------------------------------------------------------------
(* Links and one-time accounts.                                            *)

\* create_payment_link, create_virtual_account.  An account that is still valid is
\* handed out again, which changes nothing here.
Issue(t) ==
    /\ target[t] = "none" /\ Due > 0
    /\ target' = [target EXCEPT ![t] = "pending"]
    /\ UNCHANGED <<charge, log, acked, claim, paid, credit, cash, work, kills>>

\* expires_at has passed, and the next request for an account marks this one expired.
Expire(a) ==
    /\ target[a] = "pending" /\ Due > 0
    /\ target' = [target EXCEPT ![a] = "expired"]
    /\ UNCHANGED <<charge, log, acked, claim, paid, credit, cash, work, kills>>

-----------------------------------------------------------------------------
(* A notification: PaymentService.settle.                                  *)

Charged(c) == target[charge[c].target] # "none"

\* The unique constraint decides between two deliveries of one event.
New_always(c) == TRUE
New(c) == log[c] = "none"
Deliver(w, c) ==
    /\ At(w, "idle") /\ Charged(c) /\ New(c)
    /\ log' = [log EXCEPT ![c] = "accepted"]
    /\ Goto(w, [step |-> "logged", charge |-> c])
    /\ UNCHANGED <<charge, target, acked, claim, paid, credit, cash, kills>>

Answered_never(c) == acked
Answered(c) == acked \cup {c}
Duplicate(c) ==
    /\ log[c] # "none" /\ acked' = Answered(c)
    /\ UNCHANGED <<charge, target, log, claim, paid, credit, cash, work, kills>>

\* _find_target: by our reference, or else by the number of a pending account.
Matched(c) == charge[c].by = "reference" \/ target[charge[c].target] = "pending"
Verdict(c) ==
    IF ~charge[c].success THEN "failed"
    ELSE IF ~Matched(c) THEN "unmatched"
    ELSE IF target[charge[c].target] = "paid" THEN "already settled"
    ELSE IF charge[c].amount = 0 THEN "zero"
    ELSE IF Due <= 0 THEN "fully paid"
    ELSE IF charge[c].amount > Due THEN "overpaid" ELSE "settled"

\* The target and, by the same query, its invoice are read once, without a lock.
FindTarget(w) ==
    /\ At(w, "logged")
    /\ LET c == work[w].charge
           v == Verdict(c)
           amount == charge[c].amount
       IN Goto(w, [step |-> "found", charge |-> c, note |-> v,
                   apply |-> CASE v = "settled" -> amount [] v = "overpaid" -> Due [] OTHER -> 0])
    /\ UNCHANGED <<charge, target, log, acked, claim, paid, credit, cash, kills>>

Pays(w) == work[w].note \in {"settled", "overpaid"}
PostCharge(w) ==
    /\ At(w, "found") /\ Pays(w)
    /\ Post(work[w].charge, work[w].apply)
    /\ Goto(w, [work[w] EXCEPT !.step = "posted"])
    /\ UNCHANGED <<charge, target, log, acked, claim, cash, kills>>

\* record_payment raises ValueError, nothing catches it: 500, and the event stays logged.
AfterRefusal_ignored(w) == [work[w] EXCEPT !.step = "posted"]
AfterRefusal(w) == Idle
PostRefused(w) ==
    /\ At(w, "found") /\ Pays(w) /\ ~Payable(work[w].apply)
    /\ Goto(w, AfterRefusal(w))
    /\ UNCHANGED <<charge, target, log, acked, claim, paid, credit, cash, kills>>

\* The target's status: "paid" once the payment is in or nothing is due, "failed" for
\* a link whose charge failed, whatever it was.
Markable_early(w) == work[w].step \in {"found", "posted"}
Markable(w) == At(w, "posted") \/ (At(w, "found") /\ ~Pays(w))
MarkTarget(w) ==
    /\ Markable(w)
    /\ LET t == charge[work[w].charge].target
       IN target' = IF work[w].note \in {"settled", "overpaid", "fully paid"}
                    THEN [target EXCEPT ![t] = "paid"]
                    ELSE IF work[w].note = "failed" /\ t \in Links
                    THEN [target EXCEPT ![t] = "failed"]
                    ELSE target
    /\ Goto(w, [work[w] EXCEPT !.step = "marked"])
    /\ UNCHANGED <<charge, log, acked, claim, paid, credit, cash, kills>>

Note(w) ==
    /\ At(w, "marked")
    /\ log' = [log EXCEPT ![work[w].charge] = work[w].note]
    /\ acked' = acked \cup {work[w].charge}
    /\ Finished(w)
    /\ UNCHANGED <<charge, target, claim, paid, credit, cash, kills>>

-----------------------------------------------------------------------------
(* Transfers into the merchant's own account.                              *)

ClaimTransfer(k, amount) ==
    /\ claim[k].status = "none"
    /\ claim' = [claim EXCEPT ![k] = [status |-> "awaiting", amount |-> amount]]
    /\ UNCHANGED <<charge, target, log, acked, paid, credit, cash, work, kills>>

\* confirm_bank_transfer: one transaction that holds the lock of the claim.
Locked(k) == \E w \in Workers : At(w, "confirming") /\ work[w].claim = k
Confirmable_unlocked(k) == claim[k].status = "awaiting"
Confirmable(k) == claim[k].status = "awaiting" /\ ~Locked(k)
BeginConfirm(w, k) ==
    /\ At(w, "idle") /\ Confirmable(k) /\ Due > 0
    /\ Goto(w, [step |-> "confirming", claim |-> k, apply |-> Min({claim[k].amount, Due})])
    /\ UNCHANGED <<charge, target, log, acked, claim, paid, credit, cash, kills>>

Confirm(w) ==
    /\ At(w, "confirming")
    /\ Post(work[w].claim, work[w].apply)
    /\ claim' = [claim EXCEPT ![work[w].claim].status = "confirmed"]
    /\ Finished(w)
    /\ UNCHANGED <<charge, target, log, acked, cash, kills>>

ConfirmRefused(w) ==
    /\ At(w, "confirming") /\ ~Payable(work[w].apply) /\ Finished(w)
    /\ UNCHANGED <<charge, target, log, acked, claim, paid, credit, cash, kills>>

\* reject_bank_transfer: re-reads the claim, but without a lock.
BeginReject(w, k) ==
    /\ At(w, "idle") /\ claim[k].status = "awaiting"
    /\ Goto(w, [step |-> "rejecting", claim |-> k])
    /\ UNCHANGED <<charge, target, log, acked, claim, paid, credit, cash, kills>>

Reject(w) ==
    /\ At(w, "rejecting") /\ ~Locked(work[w].claim)
    /\ claim' = [claim EXCEPT ![work[w].claim].status = "rejected"]
    /\ Finished(w)
    /\ UNCHANGED <<charge, target, log, acked, paid, credit, cash, kills>>

-----------------------------------------------------------------------------
\* A worker dies: its transaction is rolled back, what it committed stays.
Kill(w) ==
    /\ ~At(w, "idle") /\ kills < MaxKills /\ kills' = kills + 1
    /\ Finished(w)
    /\ UNCHANGED <<charge, target, log, acked, claim, paid, credit, cash>>

Serve(w) ==
    \/ FindTarget(w) \/ PostCharge(w) \/ PostRefused(w) \/ MarkTarget(w) \/ Note(w)
    \/ Confirm(w) \/ ConfirmRefused(w) \/ Reject(w)

Notify(c) == (\E w \in Workers : Deliver(w, c)) \/ Duplicate(c)

Next ==
    \/ \E w \in Workers :
          \/ Serve(w) \/ Kill(w)
          \/ \E k \in Claims : BeginConfirm(w, k) \/ BeginReject(w, k)
    \/ \E c \in Charges : Notify(c)
    \/ \E t \in Targets : Issue(t)
    \/ \E a \in Accounts : Expire(a)
    \/ \E k \in Claims, amount \in Amounts : ClaimTransfer(k, amount)
    \/ \E amount \in Amounts : RecordPayment(amount)

Spec == Init /\ [][Next]_vars

\* A request that has started runs on, and a provider repeats a notification until it
\* is answered with 2xx; the server queues requests while all workers are busy, so a
\* repeated one is served at last (strong fairness).
FairSpec ==
    /\ Spec
    /\ \A w \in Workers : WF_vars(Serve(w))
    /\ \A c \in Charges : SF_vars(c \notin acked /\ Notify(c))

-----------------------------------------------------------------------------
(* Properties.                                                             *)

TypeOK ==
    /\ charge \in Scenarios
    /\ target \in [Targets -> {"none", "pending", "paid", "failed", "expired"}]
    /\ log \in [Charges -> {"none", "accepted"} \cup Notes] /\ acked \subseteq Charges
    /\ claim \in [Claims -> [status : {"none", "awaiting", "confirmed", "rejected"},
                             amount : Amounts \cup {0}]]
    /\ paid \in 0..Total /\ cash \in 0..Total /\ credit \in [Sources -> Nat \X (0..Total)]
    /\ DOMAIN work = Workers /\ kills \in 0..MaxKills

\* "Without this table a retry would record the same payment twice, which is the worst
\* possible bug in a payments path" (models.py, PaymentEventLog) and "someone already
\* confirmed it - never post twice": no charge and no claim is ever posted twice,
\* however often it is delivered or confirmed and whoever dies on the way.
PostedAtMostOnce == \A s \in Sources : credit[s][1] <= 1

\* "Never credit more than is outstanding" (services.py): the invoice's amount_paid is
\* what charges, claims and clerks have posted, and never more than was billed.
PaymentsExplainBalance ==
    /\ paid = cash + MapThenSumSet(LAMBDA s : credit[s][2], Sources)
    /\ paid <= Total

\* What the log tells support about an event is what happened to its money.
NotesAreTrue ==
    \A c \in Charges :
        /\ log[c] = "settled" => credit[c][2] = charge[c].amount
        /\ log[c] = "overpaid" => 0 < credit[c][2] /\ credit[c][2] < charge[c].amount
        /\ log[c] \notin {"accepted", "settled", "overpaid"} => credit[c][1] = 0

\* A confirmed claim has been posted, one still awaiting has not.
ClaimsArePosted ==
    \A k \in Claims :
        /\ claim[k].status = "confirmed" => credit[k][1] = 1
        /\ claim[k].status = "awaiting" => credit[k][1] = 0

\* A link or account is shown as paid only once a charge on it has been credited or
\* the invoice needs no more money.
PaidTargetsAreCovered ==
    \A t \in Targets : target[t] = "paid" =>
        paid = Total \/ \E c \in Charges : charge[c].target = t /\ credit[c][1] > 0

\* What the records say of money happened: the note of an event, the status of a claim
\* and the status of a link or account each tell the truth of the payments posted.
RecordsAreTrue == NotesAreTrue /\ ClaimsArePosted /\ PaidTargetsAreCovered

\* A provider is answered in the end, so it does not repeat a notification for ever,
\* also when the worker that took it was killed.
ProviderIsAnswered == \A c \in Charges : Charged(c) ~> c \in acked

\* "records the payment against the invoice ... exactly once however many times the
\* provider resends the notification" (services.py): an event that has been answered and
\* that nobody works on any more has been dealt with.
NoChargeForgotten ==
    \A c \in Charges :
        (c \in acked /\ \A w \in Workers : At(w, "idle")) => log[c] # "accepted"
=============================================================================
