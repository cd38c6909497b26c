---------------------------- MODULE CustomerCredit ----------------------------
(***************************************************************************)
(* What a customer owes (src/backend/apps/credits, with the parts of sales *)
(* that call it): the balance kept on the customer, the credit             *)
(* transactions that should explain it, the invoices sold on credit and    *)
(* the receivable in the ledger.                                           *)
(*                                                                         *)
(* CreditService works on the Customer object it is handed: the balance    *)
(* it adds to is the one that object was loaded with (`work[u].balance`),  *)
(* and only an invoice is ever locked.  One customer; all invoices are on  *)
(* credit; postings find their accounts.                                   *)
(***************************************************************************)
EXTENDS Integers, FiniteSets, FiniteSetsExt

CONSTANTS
    Users, Invoices,
    Amounts,        \* totals, payments, refunds
    CreditLimit,          \* Customer.credit_limit, 0 for none
    Store,          \* store credit at the start
    Opening,        \* balances taken on: positive when the customer owes
    MaxRequests     \* bound: requests

CreditAssumption ==
    /\ IsFiniteSet(Invoices) /\ Amounts \subseteq Nat /\ CreditLimit \in Nat /\ Store \in Nat
    /\ Opening \subseteq Int /\ MaxRequests \in Nat

VARIABLES
    balance,   \* Customer.outstanding_balance
    store,     \* Customer.store_credit
    txns,      \* sum of the CreditTransactions, debits less credits
    opening,   \* the balance taken on
    invoice,   \* status, total, paid, due; a receipt names it; its void is in the ledger
    ledger,    \* Accounts Receivable of the customer
    posted,    \* the source CRPAY-<customer> is in the ledger
    work, requests,
    lapses     \* history: the ways in which the records part

vars == <<balance, store, txns, opening, invoice, ledger, posted, work, requests, lapses>>

Idle == [step |-> "idle"]
Init ==
    /\ opening \in Opening /\ balance = opening /\ ledger = opening /\ txns = 0 /\ store = Store
    /\ invoice = [i \in Invoices |-> [status |-> "none", total |-> 0, paid |-> 0, due |-> 0,
                               stamped |-> FALSE, voided |-> FALSE]]
    /\ posted = FALSE
    /\ work = [u \in Users |-> Idle] /\ requests = 0 /\ lapses = {}

At(u, op, step) == work[u] # Idle /\ work[u].op = op /\ work[u].step = step
Goto(u, new) == work' = [work EXCEPT ![u] = new]
Finished(u) == Goto(u, Idle)
Lapse(cond, name) == IF cond THEN {name} ELSE {}
Locked(i) == \E u \in Users : work[u] # Idle /\ work[u].step = "locked" /\ work[u].invoice = i

\* post_credit_payment_journal: DR Cash / CR Receivable, under a source made of the customer
\* alone, so post_journal_entry returns the entry that is there already.
Booked(amount) == IF posted THEN ledger ELSE ledger - amount

-----------------------------------------------------------------------------
(* CreditService, given the balance of the object it works on.             *)

Blocked(known) == CreditLimit > 0 /\ known >= CreditLimit

\* record_payment never takes a customer from owing into credit.
Lowered_clamped(known, amount) == Max({known - amount, 0})
Lowered(known, amount) == IF known < 0 THEN known - amount ELSE Max({known - amount, 0})

\* record_payment: a transaction, the balance and the ledger.
Receive(known, amount) ==
    /\ txns' = txns - amount
    /\ balance' = Lowered(known, amount)
    /\ ledger' = Booked(amount) /\ posted' = TRUE

Overtaken(known) == Lapse(known # balance, "overtaken")
Clamped(known, amount) == Lapse(known >= 0 /\ amount > known, "clamped")

-----------------------------------------------------------------------------
\* A view loads the customer, with the store credit, and the invoices it may write.
Begin(u, op) ==
    /\ work[u] = Idle /\ requests < MaxRequests /\ requests' = requests + 1
    /\ Goto(u, [op |-> op, step |-> "loaded", balance |-> balance, store |-> store, seen |-> invoice])
    /\ UNCHANGED <<balance, store, txns, invoice, ledger, posted, lapses, opening>>

\* SaleService.create_sale on credit; store credit is used up to the total, and the journal
\* books the total as a receivable.
Sell(u, i, total, credit) ==
    LET used == Min({credit, total})
    IN /\ At(u, "sell", "loaded") /\ invoice[i].status = "none"
       /\ credit <= work[u].store /\ ~Blocked(work[u].balance)
       /\ invoice' = [invoice EXCEPT ![i] = [@ EXCEPT !.status = "open", !.total = total, !.due = total - used]]
       /\ txns' = txns + total - used
       /\ balance' = work[u].balance + total - used
       /\ store' = IF used > 0 THEN work[u].store - used ELSE store
       /\ ledger' = ledger + total
       /\ lapses' = lapses \cup Overtaken(work[u].balance)
                          \cup Lapse(used > 0 /\ work[u].store # store, "store overtaken")
                          \cup Lapse(used > 0, "store credit")
       /\ Finished(u) /\ UNCHANGED <<requests, posted, opening>>

\* SaleService.record_payment, from an invoice's page or from the customer's: the invoice
\* is locked, its amounts are checked and written, its customer is loaded afresh.  A
\* provider's payment has no user to record it, so CreditService fails and the failure
\* is logged: the invoice is paid and nothing else happens.
CanPay(i, amount) == invoice[i].status \in {"open", "void"} /\ amount <= invoice[i].due
LockAndLoad(u, i, amount) ==
    /\ work[u] # Idle /\ work[u].op \in {"pay", "receipt", "provider"} /\ work[u].step = "loaded"
    /\ ~Locked(i) /\ CanPay(i, amount)
    /\ Goto(u, [op |-> work[u].op, step |-> "locked", balance |-> work[u].balance, store |-> work[u].store, seen |-> work[u].seen,
                invoice |-> i, amount |-> amount, fresh |-> balance])
    /\ UNCHANGED <<balance, store, txns, invoice, ledger, posted, requests, lapses, opening>>

Paid(i, amount) ==
    LET paid == invoice[i].paid + amount
    IN [invoice[i] EXCEPT !.paid = paid, !.due = invoice[i].total - paid,
                          !.status = IF paid >= invoice[i].total THEN "paid" ELSE @]

PayInvoice(u) ==
    LET i == work[u].invoice
        amount == work[u].amount
    IN /\ At(u, "pay", "locked")
       /\ invoice' = [invoice EXCEPT ![i] = Paid(i, amount)]
       /\ Receive(work[u].fresh, amount)
       /\ lapses' = lapses \cup Overtaken(work[u].fresh) \cup Clamped(work[u].fresh, amount)
                          \cup Lapse(posted, "second payment")
       /\ Finished(u) /\ UNCHANGED <<store, requests, opening>>

PayByProvider(u) ==
    /\ At(u, "provider", "locked")
    /\ invoice' = [invoice EXCEPT ![work[u].invoice] = Paid(work[u].invoice, work[u].amount)]
    /\ lapses' = lapses \cup {"provider"}
    /\ Finished(u) /\ UNCHANGED <<balance, store, txns, ledger, posted, requests, opening>>

\* CreditTransactionViewSet.record_payment for an invoice: the transaction it looks for
\* names the invoice, which the one just written does not; finding none it records the
\* payment once more, on the customer as loaded at first, and names the invoice there.
\* A later payment finds that one, and overwrites its receipt.
PayByReceipt(u) ==
    LET i == work[u].invoice
        amount == work[u].amount
    IN /\ At(u, "receipt", "locked")
       /\ invoice' = [invoice EXCEPT ![i] = [Paid(i, amount) EXCEPT !.stamped = TRUE]]
       /\ txns' = txns - (IF invoice[i].stamped THEN amount ELSE 2 * amount)
       /\ balance' = Lowered(IF invoice[i].stamped THEN work[u].fresh ELSE work[u].balance, amount)
       /\ ledger' = Booked(amount) /\ posted' = TRUE
       /\ lapses' = lapses \cup Overtaken(work[u].fresh) \cup Overtaken(work[u].balance) \cup Clamped(work[u].fresh, amount)
                          \cup Lapse(posted, "second payment")
                          \cup Lapse(~invoice[i].stamped, "recorded twice")
       /\ Finished(u) /\ UNCHANGED <<store, requests, opening>>

\* The same without an invoice.
PayOnAccount(u, amount) ==
    /\ At(u, "receipt", "loaded")
    /\ Receive(work[u].balance, amount)
    /\ lapses' = lapses \cup Overtaken(work[u].balance) \cup Clamped(work[u].balance, amount) \cup {"on account"}
                       \cup Lapse(posted, "second payment")
    /\ Finished(u) /\ UNCHANGED <<store, invoice, requests, opening>>

-----------------------------------------------------------------------------
(* Undoing a sale.                                                         *)

\* process_return: CreditService books the refund as a payment, and the credit note is
\* booked as well; what is due on the invoice stays.
Return(u, i, refund) ==
    /\ At(u, "return", "loaded") /\ invoice[i].status \in {"open", "paid", "void"} /\ refund <= invoice[i].total
    /\ txns' = txns - refund /\ balance' = Lowered(work[u].balance, refund)
    /\ ledger' = Booked(refund) - refund /\ posted' = TRUE
    /\ lapses' = lapses \cup Overtaken(work[u].balance) \cup Clamped(work[u].balance, refund) \cup {"return"}
    /\ Finished(u) /\ UNCHANGED <<store, invoice, requests, opening>>

\* void_invoice and delete_invoice judge the copy they loaded; the row itself only makes
\* them wait, and a source that is in the ledger stops a second reversal.
Undoable(u, i, op, statuses) ==
    At(u, op, "loaded") /\ work[u].seen[i].status \in statuses /\ ~Locked(i) /\ invoice[i].status # "deleted"
Stale(u, i) == Lapse(work[u].seen[i] # invoice[i], "stale invoice")

\* void_invoice reverses the journal and leaves the balance.
Void(u, i) ==
    /\ Undoable(u, i, "void", {"open", "void"})
    /\ invoice' = [invoice EXCEPT ![i].status = "void", ![i].voided = TRUE]
    /\ ledger' = IF invoice[i].voided THEN ledger ELSE ledger - invoice[i].total
    /\ lapses' = lapses \cup {"void"}
    /\ Finished(u) /\ UNCHANGED <<balance, store, txns, posted, opening, requests>>

\* delete_invoice: the journal is reversed, and what is still due is booked as paid.
Delete(u, i) ==
    LET due == work[u].seen[i].due
    IN /\ Undoable(u, i, "delete", {"open", "paid", "void"})
       /\ invoice' = [invoice EXCEPT ![i] = [@ EXCEPT !.status = "deleted", !.due = 0]]
       /\ lapses' = lapses \cup Stale(u, i) \cup {"delete"}
                          \cup (IF due > 0 THEN Overtaken(work[u].balance) \cup Clamped(work[u].balance, due) ELSE {})
       /\ IF due > 0
          THEN /\ txns' = txns - due /\ balance' = Lowered(work[u].balance, due)
               /\ ledger' = Booked(due) - invoice[i].total /\ posted' = TRUE
          ELSE ledger' = ledger - invoice[i].total /\ UNCHANGED <<txns, balance, posted>>
       /\ Finished(u) /\ UNCHANGED <<store, requests, opening>>

\* Refused, rolled back, or the client gave up.
Refuse(u) ==
    /\ work[u] # Idle /\ Finished(u)
    /\ UNCHANGED <<balance, store, txns, invoice, ledger, posted, requests, lapses, opening>>

Next ==
    \E u \in Users :
          \/ \E op \in {"sell", "pay", "provider", "receipt", "return", "void", "delete"} : Begin(u, op)
          \/ \E i \in Invoices, total \in Amounts, credit \in Amounts \cup {0} : Sell(u, i, total, credit)
          \/ \E i \in Invoices, amount \in Amounts : LockAndLoad(u, i, amount) \/ Return(u, i, amount)
          \/ PayInvoice(u) \/ PayByProvider(u) \/ PayByReceipt(u) \/ Refuse(u)
          \/ \E amount \in Amounts : PayOnAccount(u, amount)
          \/ \E i \in Invoices : Void(u, i) \/ Delete(u, i)

Spec == Init /\ [][Next]_vars

-----------------------------------------------------------------------------
TypeOK ==
    /\ balance \in Int /\ txns \in Int /\ ledger \in Int /\ store \in Int /\ opening \in Opening
    /\ invoice \in [Invoices -> [status : {"none", "open", "paid", "void", "deleted"}, total : Nat,
                                  paid : Nat, due : Int, stamped : BOOLEAN, voided : BOOLEAN]]
    /\ DOMAIN work = Users /\ requests \in 0..MaxRequests

\* "Each credit sale debits the customer's account ... Each payment credits" (models.py):
\* the balance is the one taken on plus the transactions, unless two requests overlapped, a
\* payment was more than was owed, or a receipt recorded one payment twice.
TransactionsExplainBalance ==
    lapses \cap {"overtaken", "clamped", "recorded twice"} = {} => balance = opening + txns

\* "so the credit ledger and the invoice's payment history never drift apart" (views.py):
\* beside what was taken on a customer owes what is due on the invoices, while nothing is
\* returned, voided, paid through a provider or on account, and no store credit is used.
BalanceCoversInvoices ==
    lapses \subseteq {"delete", "second payment", "recorded twice"} =>
        balance = opening + MapThenSumSet(LAMBDA i : invoice[i].due, Invoices)

\* "Prove the control accounts tie to their subledgers" (accounting/services.py): the
\* receivable in the ledger is the balance until anything but a sale and a first payment
\* has happened.
ReceivablesTie == lapses = {} => ledger = balance

\* The three: what a customer owes, by the customer, the transactions, the invoices and the ledger.
CreditAgrees == TransactionsExplainBalance /\ BalanceCoversInvoices /\ ReceivablesTie
=============================================================================
