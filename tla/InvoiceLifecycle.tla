-------------------------- MODULE InvoiceLifecycle --------------------------
(***************************************************************************)
(* The life of one sales invoice with one line (src/backend/apps/sales:    *)
(* services.py, views.py): what concurrent requests do to its row, to its  *)
(* payments and to the stock it has taken.                                 *)
(*                                                                         *)
(* A handler first reads the invoice (get_object) and then acts.  Some     *)
(* handlers lock and re-read the row, others go on with the copy; void is  *)
(* not even one transaction.  The unit price is 1, so a total is a         *)
(* quantity.  The books this invoice writes to are modelled elsewhere.     *)
(***************************************************************************)
EXTENDS Integers, FiniteSets

CONSTANTS
    Requests,    \* concurrent HTTP requests
    Quantities,  \* quantities an invoice line can be given
    MaxOps       \* bound: requests served in a behaviour

ASSUME InvoiceAssumption == Quantities \subseteq Nat \ {0} /\ Quantities # {} /\ MaxOps \in Nat

Operations == {"pay", "fulfill", "confirm", "return", "void", "delete", "destroy", "edit", "patch"}
Statuses == {"draft", "proforma", "confirmed", "credit", "partially_paid", "paid", "overdue",
             "voided", "returned"}
Causes == Operations \cup {"stale"}
Amounts == UNION {1..q : q \in Quantities}

VARIABLES
    inv,       \* the invoice row
    line,      \* its line: quantity (0 when deleted), quantity_returned, and how much of
               \* that was restocked
    payments,  \* sum of its SalePayment rows
    stock,     \* units of its goods that have left the warehouse and not come back
    req,       \* requests: step, operation, the copy of the row and of the line they read
    ops,       \* operations begun so far
    billed,    \* history: the largest total it has had
    lapses     \* history: operations carried out where the code should have refused them

vars == <<inv, line, payments, stock, req, ops, billed, lapses>>

Idle == [step |-> "idle"]
NoLine == [qty |-> 0, returned |-> 0, restocked |-> 0]
Larger_without_floor(a, b) == a
Larger(a, b) == IF a > b THEN a ELSE b

\* create_sale: a proforma and a deferred invoice leave the stock alone.  Cash sales
\* may be created unpaid, part paid or paid.
Created(status, deferred, q, paid) ==
    [status |-> status, deferred |-> deferred, fulfilled |-> FALSE, deleted |-> FALSE,
     total |-> q, paid |-> paid, due |-> q - paid]
Init ==
    \E q \in Quantities, deferred \in BOOLEAN : \E paid \in 0..q :
      \E status \in {"proforma", "confirmed", "credit", "partially_paid", "paid"} :
        /\ status \in {"proforma", "confirmed", "credit"} <=> paid = 0
        /\ status = "paid" <=> paid = q
        /\ inv = Created(status, deferred, q, paid)
        /\ line = [qty |-> q, returned |-> 0, restocked |-> 0]
        /\ payments = paid /\ billed = q
        /\ stock = IF deferred \/ status = "proforma" THEN 0 ELSE q
        /\ req = [r \in Requests |-> Idle] /\ ops = 0 /\ lapses = {}

-----------------------------------------------------------------------------
(* The goods of an invoice are out when its row says so.                   *)

Out(i) == ~i.deleted /\ i.status \notin {"draft", "proforma", "voided"} /\ (i.deferred => i.fulfilled)
HalfVoided == \E r \in Requests : req[r].step = "restocked"

\* A lapse: the operation took place though the condition a guard should check is false.
Lapse(op, condition) == lapses' = lapses \cup (IF condition THEN {} ELSE {op})

\* A whole-row save of the copy (serializer.save, invoice.save()) overwrites what
\* others have committed since it was read.
Save(r, op, row, condition) ==
    /\ inv' = row
    /\ lapses' = lapses \cup (IF condition THEN {} ELSE {op})
                        \cup (IF req[r].copy = inv THEN {} ELSE {"stale"})

Begin(r, op) ==
    /\ req[r].step = "idle" /\ ops < MaxOps /\ ops' = ops + 1 /\ ~inv.deleted
    /\ req' = [req EXCEPT ![r] = [step |-> "read", op |-> op, copy |-> inv, items |-> line]]
    /\ UNCHANGED <<inv, line, payments, stock, billed, lapses>>

Doing(r, op) == req[r].step = "read" /\ req[r].op = op
End(r) == req' = [req EXCEPT ![r] = Idle] /\ UNCHANGED ops

\* The guards of the code failed: an error answer, no change.
Refuse(r) ==
    /\ req[r].step = "read" /\ End(r)
    /\ UNCHANGED <<inv, line, payments, stock, billed, lapses>>

-----------------------------------------------------------------------------
(* Handlers that lock and re-read the row.                                 *)

\* record_payment: the status follows the amounts whatever it was before.
Payable_unlocked(r) == req[r].copy
Payable(r) == inv
Pay(r, amount) ==
    LET i == Payable(r) IN
    /\ Doing(r, "pay") /\ ~inv.deleted /\ i.status # "paid" /\ amount <= i.due
    /\ payments' = payments + amount
    /\ inv' = [inv EXCEPT !.paid = i.paid + amount, !.due = inv.total - (i.paid + amount),
                          !.status = IF i.paid + amount >= inv.total THEN "paid" ELSE "partially_paid"]
    /\ Lapse("pay", Out(inv') = Out(inv)) /\ End(r)
    /\ UNCHANGED <<line, stock, billed>>

\* fulfill_invoice: looks at the fulfilment fields only.
Fulfillable_unlocked(r) == req[r].copy
Fulfillable(r) == inv
Fulfill(r) ==
    /\ Doing(r, "fulfill") /\ ~inv.deleted
    /\ Fulfillable(r).deferred /\ ~Fulfillable(r).fulfilled
    /\ stock' = stock + line.qty /\ inv' = [inv EXCEPT !.fulfilled = TRUE]
    /\ Lapse("fulfill", Out(inv') /\ line.restocked = 0) /\ End(r)
    /\ UNCHANGED <<line, payments, billed>>

\* confirm_proforma: looks at the status only.
ConfirmProforma(r) ==
    /\ Doing(r, "confirm") /\ ~inv.deleted /\ inv.status = "proforma"
    /\ stock' = stock + line.qty /\ inv' = [inv EXCEPT !.status = "confirmed"]
    /\ Lapse("confirm", ~inv.deferred /\ line.restocked = 0) /\ End(r)
    /\ UNCHANGED <<line, payments, billed>>

\* process_return: locks the line, not the invoice.
Returnable_unlocked(r) == req[r].items
Returnable(r) == line
ProcessReturn(r, n, restock) ==
    LET l == Returnable(r) IN
    /\ Doing(r, "return") /\ ~inv.deleted /\ n <= l.qty - l.returned
    /\ line' = [line EXCEPT !.returned = l.returned + n, !.restocked = @ + (IF restock THEN n ELSE 0)]
    /\ stock' = IF restock THEN stock - n ELSE stock
    /\ inv' = IF l.returned + n >= line.qty THEN [inv EXCEPT !.status = "returned"] ELSE inv
    /\ Lapse("return", Out(inv) /\ Out(inv') /\ ~HalfVoided) /\ End(r)
    /\ UNCHANGED <<payments, billed>>

-----------------------------------------------------------------------------
(* Handlers that act on the copy.                                          *)

\* void_invoice: the goods come back in one transaction, the status in the next.
Void(r) ==
    /\ Doing(r, "void") /\ req[r].copy.status # "paid"
    /\ stock' = stock - req[r].items.qty
    /\ Lapse("void", Out(inv) /\ req[r].items = line /\ line.restocked = 0 /\ ~HalfVoided)
    /\ req' = [req EXCEPT ![r].step = "restocked"]
    /\ UNCHANGED <<inv, line, payments, ops, billed>>
MarkVoided(r) ==
    /\ req[r].step = "restocked" /\ inv' = [inv EXCEPT !.status = "voided"]
    /\ Lapse("void", Out(inv) /\ line = req[r].items) /\ End(r)
    /\ UNCHANGED <<line, payments, stock, billed>>
\* The process is killed, or the save fails, in between.
VoidInterrupted(r) ==
    /\ req[r].step = "restocked" /\ lapses' = lapses \cup {"void"} /\ End(r)
    /\ UNCHANGED <<inv, line, payments, stock, billed>>

\* delete_invoice: what was deducted is judged from the copy.
WasDeducted(i) == i.status # "voided" /\ (i.deferred => i.fulfilled)
DeleteInvoice(r) ==
    LET i == req[r].copy IN
    /\ Doing(r, "delete")
    /\ stock' = IF WasDeducted(i) THEN stock - line.qty ELSE stock
    /\ inv' = [inv EXCEPT !.deleted = TRUE] /\ payments' = 0 /\ line' = NoLine
    /\ Lapse("delete", /\ i = inv /\ i.status \notin {"draft", "proforma"}
                       /\ line.restocked = 0 /\ ~HalfVoided)
    /\ End(r)
    /\ UNCHANGED billed

\* destroy: drafts and proformas, by the copy; only the row is marked.
Destroy(r) ==
    /\ Doing(r, "destroy") /\ req[r].copy.status \in {"draft", "proforma"}
    /\ inv' = [inv EXCEPT !.deleted = TRUE]
    /\ Lapse("destroy", ~Out(inv) /\ ~HalfVoided) /\ End(r)
    /\ UNCHANGED <<line, payments, stock, billed>>

\* update_sale: puts the old line back, takes the new one, and saves the whole row.
\* A line with returns cannot be deleted.
EditLines(r, q) ==
    LET i == req[r].copy
        moves == i.status \notin {"draft", "proforma"}
    IN
    /\ Doing(r, "edit") /\ line.returned = 0
    /\ i.status \in {"draft", "proforma", "confirmed", "credit", "partially_paid", "overdue"}
    /\ stock' = IF moves THEN stock - line.qty + q ELSE stock
    /\ line' = [qty |-> q, returned |-> 0, restocked |-> 0]
    /\ Save(r, "edit", [i EXCEPT !.total = q, !.due = Larger(q - i.paid, 0)],
            moves = Out(inv) /\ ~HalfVoided)
    /\ billed' = Larger(billed, q) /\ End(r)
    /\ UNCHANGED payments

\* update (PATCH): metadata, and the statuses it does not forbid.
Patch(r, status) ==
    LET i == req[r].copy IN
    /\ Doing(r, "patch")
    /\ \/ status = i.status
       \/ /\ i.status \notin {"paid", "voided"}
          /\ status \notin {"confirmed", "paid", "partially_paid", "voided"}
    /\ Save(r, "patch", [i EXCEPT !.status = status], Out([i EXCEPT !.status = status]) = Out(i))
    /\ End(r)
    /\ UNCHANGED <<line, payments, stock, billed>>

\* Listing invoices past their due date marks them.
MarkOverdue ==
    /\ inv.status \in {"confirmed", "partially_paid", "credit"} /\ ~inv.deleted
    /\ inv' = [inv EXCEPT !.status = "overdue"]
    /\ UNCHANGED <<line, payments, stock, req, ops, billed, lapses>>

-----------------------------------------------------------------------------

Handle(r) ==
    \/ \E op \in Operations : Begin(r, op)
    \/ \E n \in Amounts : Pay(r, n)
    \/ \E n \in Amounts, restock \in BOOLEAN : ProcessReturn(r, n, restock)
    \/ Fulfill(r) \/ ConfirmProforma(r) \/ Void(r) \/ MarkVoided(r) \/ VoidInterrupted(r)
    \/ DeleteInvoice(r) \/ Destroy(r) \/ Refuse(r)
    \/ \E q \in Quantities : EditLines(r, q)
    \/ \E status \in Statuses : Patch(r, status)

Next == MarkOverdue \/ \E r \in Requests : Handle(r)

Spec == Init /\ [][Next]_vars

-----------------------------------------------------------------------------
(* Properties.                                                             *)

TypeOK ==
    /\ inv \in [status : Statuses, deferred : BOOLEAN, fulfilled : BOOLEAN, deleted : BOOLEAN,
                total : Quantities, paid : Nat, due : Nat]
    /\ line \in [qty : Quantities \cup {0}, returned : Nat, restocked : Nat]
    /\ payments \in Nat /\ stock \in Int /\ billed \in Quantities /\ lapses \subseteq Causes
    /\ \A r \in Requests : req[r].step \in {"idle", "read", "restocked"}

\* The goods an invoice has taken from the warehouse are those its row and its line
\* say, through any interleaving of requests, unless one of the operations below was
\* carried out where no guard refuses it.  The set lapses names the culprits.
StockAgrees ==
    lapses = {} /\ ~HalfVoided => stock = IF Out(inv) THEN line.qty - line.restocked ELSE 0

\* amount_paid is the sum of the payments, except after a save of a stale copy.
PaymentsAgree == "stale" \notin lapses /\ ~inv.deleted => inv.paid = payments

\* Two cashiers never collect more than was billed ("prevent concurrent payment
\* races", record_payment), except after a save of a stale copy.
NeverOverpaid == "stale" \notin lapses => payments <= billed

\* No more of a line comes back, or is refunded, than was sold, whoever processes the
\* returns ("remaining returnable", process_return).
ReturnedWithinSold == line.restocked <= line.returned /\ line.returned <= line.qty

\* The stock an invoice took out and put back is its own, and no more than was sold.
GoodsAgree == StockAgrees /\ ReturnedWithinSold

\* An invoice is paid what its payments add up to, and never too much.
MoneyAgrees == PaymentsAgree /\ NeverOverpaid

\* "reversing its accounting and stock effects so nothing is left dangling"
\* (delete_invoice): deleting an invoice on its own leaves none of its stock out.
DeletedLeavesNothing == inv.deleted /\ ops = 1 => stock = 0
=============================================================================
