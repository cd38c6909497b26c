-------------------------- MODULE PurchaseReceipts --------------------------
(***************************************************************************)
(* One purchase order (src/backend/apps/purchases): its lines, the goods   *)
(* received and returned, the supplier's bill, and the journal entries     *)
(* both write.  Requests run as transactions.  A receipt locks each line   *)
(* it touches; saving the order's status locks the order's row, and both   *)
(* locks last until the commit.  Everything else works from the copy of    *)
(* the order that the view loaded.                                         *)
(*                                                                         *)
(* Every unit costs 1, without tax or discount, so a value is a quantity.  *)
(* The clearing account for goods in transit is configured.                *)
(***************************************************************************)
EXTENDS Integers, Sequences, FiniteSets, TLC, FiniteSetsExt, SequencesExt

CONSTANTS
    Lines,      \* lines of the order, one product each
    Ordered,    \* PurchaseOrderItem.quantity_ordered
    OnShelf,    \* units of each product in the warehouse before
    Requests,   \* concurrent HTTP requests
    MaxOps      \* bound: requests served in a behaviour

PurchaseAssumption ==
    /\ IsFiniteSet(Lines) /\ Ordered \in [Lines -> Nat \ {0}] /\ OnShelf \in [Lines -> Nat]
    /\ MaxOps \in Nat

Statuses == {"sent", "partially_received", "received", "closed", "canceled"}
Closed == {"received", "closed", "canceled"}
SumOver(f) == MapThenSumSet(LAMBDA x : f[x], DOMAIN f)
Value == SumOver(Ordered)

VARIABLES
    po,        \* the order's row: status, billed_before_receipt
    received,  \* PurchaseOrderItem.quantity_received of each line
    stock,     \* units of each product in the warehouse
    bills,     \* totals of the bills of this order
    journal,   \* amounts of the journal entries by (source_type, sequence in source_ref)
    req,       \* what each request is doing
    ops,       \* requests begun so far
    gross,     \* history: units ever received of each line
    returned,  \* history: units ever returned, what the journals of the returns add up to
    lapses     \* history: operations that worked from a copy which was no longer true

vars == <<po, received, stock, bills, journal, req, ops, gross, returned, lapses>>

None == [l \in Lines |-> 0]
Plus(f, g) == [l \in Lines |-> f[l] + g[l]]
Idle == [step |-> "idle"]

Init ==
    /\ po = [status |-> "sent", prebilled |-> FALSE]
    /\ received = None /\ stock = OnShelf /\ bills = <<>> /\ journal = <<>>
    /\ req = [r \in Requests |-> Idle] /\ ops = 0
    /\ gross = None /\ returned = None /\ lapses = {}

At(r, step) == req[r].step = step
Start(r, new) ==
    /\ At(r, "idle") /\ ops < MaxOps /\ ops' = ops + 1
    /\ req' = [req EXCEPT ![r] = new]
    /\ UNCHANGED <<po, received, stock, bills, journal, gross, returned, lapses>>
End(r) == req' = [req EXCEPT ![r] = Idle] /\ UNCHANGED ops
Lapse(op, condition) == lapses' = lapses \cup (IF condition THEN {} ELSE {op})

\* post_journal_entry is idempotent on its source: a second entry is not written.
Post(key, amount) ==
    journal' = [k \in DOMAIN journal \cup {key} |-> IF k \in DOMAIN journal THEN journal[k] ELSE amount]
Entries(source) == {k \in DOMAIN journal : k[1] = source}
Posted(source) == MapThenSumSet(LAMBDA k : journal[k], Entries(source))

OthersHold(r, l) == \E q \in Requests \ {r} : req[q].step \in {"receiving", "saving"} /\ req[q].got[l] > 0
OrderFree(r) == \A q \in Requests \ {r} : ~At(q, "saving")

-----------------------------------------------------------------------------
(* receive_purchase_order.                                                 *)

\* The lines and quantities of a request: at most two entries, in any order, also none
\* or the same line twice; or all that quick_receive finds outstanding.
Asked == SeqOf([line : Lines, qty : 1..Max(Range(Ordered))], 2)
Outstanding == {l \in Lines : received[l] < Ordered[l]}

BeginReceive(r, entries) ==
    /\ po.status \notin Closed
    /\ Start(r, [step |-> "receiving", copy |-> po, bills |-> bills, todo |-> entries,
                 got |-> None, rest |-> FALSE])

QuickReceive(r) ==
    /\ Outstanding # {}
    /\ BeginReceive(r, LET s == SetToSeq(Outstanding)
                       IN [k \in DOMAIN s |-> [line |-> s[k], qty |-> Ordered[s[k]] - received[s[k]]]])

\* What is outstanding is read under the lock of the line.
Limit_as_read(l) == Ordered[l]
Limit(l) == Ordered[l] - received[l]
ReceiveLine(r) ==
    /\ At(r, "receiving") /\ req[r].todo # <<>>
    /\ LET e == Head(req[r].todo)
           got == [req[r].got EXCEPT ![e.line] = @ + e.qty]
       IN /\ ~OthersHold(r, e.line)
          /\ got[e.line] <= Limit(e.line)
          /\ req' = [req EXCEPT ![r].todo = Tail(@), ![r].got = got,
                                ![r].rest = @ \/ received[e.line] + got[e.line] < Ordered[e.line]]
    /\ UNCHANGED <<po, received, stock, bills, journal, ops, gross, returned, lapses>>

\* po.save(): takes the lock of the order's row.
SaveOrder(r) ==
    /\ At(r, "receiving") /\ req[r].todo = <<>> /\ OrderFree(r)
    /\ req' = [req EXCEPT ![r].step = "saving"]
    /\ UNCHANGED <<po, received, stock, bills, journal, ops, gross, returned, lapses>>

\* _upsert_bill_for_po looks for the bill after that.
BillsSeen_before_lock(r) == req[r].bills
BillsSeen(r) == bills
ClearingKey_per_order == <<"po_receipt_clearing", 1>>
ClearingKey == <<"po_receipt_clearing", Cardinality(Entries("po_receipt_clearing")) + 1>>
CommitReceipt(r) ==
    LET got == req[r].got
        batch == SumOver(got)
    IN
    /\ At(r, "saving")
    /\ po' = [po EXCEPT !.status = IF req[r].rest THEN "partially_received" ELSE "received"]
    /\ received' = Plus(received, got) /\ stock' = Plus(stock, got) /\ gross' = Plus(gross, got)
    /\ \/ batch = 0 /\ UNCHANGED <<bills, journal>>
       \/ /\ batch > 0 /\ req[r].copy.prebilled
          /\ Post(ClearingKey, batch) /\ UNCHANGED bills
       \/ /\ batch > 0 /\ ~req[r].copy.prebilled /\ Post(<<"po_receipt", 0>>, batch)
          /\ \/ BillsSeen(r) = <<>> /\ bills' = Append(bills, batch)
             \/ \E b \in DOMAIN BillsSeen(r) : bills' = [bills EXCEPT ![b] = BillsSeen(r)[b] + batch]
    /\ Lapse("receive", req[r].copy.prebilled = po.prebilled) /\ End(r)
    /\ UNCHANGED returned

-----------------------------------------------------------------------------
(* convert_to_bill, PurchaseReturnService.process_return, PATCH.           *)

BeginConvert(r) ==
    /\ po.status \notin Closed /\ bills = <<>>
    /\ Start(r, [step |-> "converting"])

Convert(r) ==
    /\ At(r, "converting") /\ OrderFree(r)
    /\ bills' = Append(bills, Value)
    /\ po' = [po EXCEPT !.prebilled = TRUE]
    /\ Post(<<"po_convert_to_bill", 0>>, Value)
    /\ Lapse("convert", bills = <<>>) /\ End(r)
    /\ UNCHANGED <<received, stock, gross, returned>>

\* A return reads the line without a lock.
BeginReturn(r, l, q) == Start(r, [step |-> "returning", line |-> l, qty |-> q, seen |-> received[l]])

InStock_unchecked(l, q) == TRUE
InStock(l, q) == q <= stock[l]
Return(r) ==
    LET l == req[r].line
        q == req[r].qty
        left == Max({0, req[r].seen - q})
    IN
    /\ At(r, "returning") /\ ~OthersHold(r, l) /\ InStock(l, q)
    /\ stock' = [stock EXCEPT ![l] = @ - q]
    /\ received' = [received EXCEPT ![l] = left]
    /\ returned' = [returned EXCEPT ![l] = @ + q]
    /\ Lapse("return", req[r].seen = received[l] /\ q <= received[l]) /\ End(r)
    /\ UNCHANGED <<po, bills, journal, gross>>

\* PATCH saves the whole row it loaded; only the two receipt-driven statuses are refused.
BeginPatch(r, status) == Start(r, [step |-> "patching", row |-> [po EXCEPT !.status = status], copy |-> po])

Patch(r) ==
    /\ At(r, "patching") /\ OrderFree(r)
    /\ po' = req[r].row
    /\ Lapse("patch", req[r].copy = po) /\ End(r)
    /\ UNCHANGED <<received, stock, bills, journal, gross, returned>>

\* Over-receipt, not enough stock, a lock cycle or a lost connection: rolled back.
Rollback(r) ==
    /\ ~At(r, "idle") /\ End(r)
    /\ UNCHANGED <<po, received, stock, bills, journal, gross, returned, lapses>>

Next ==
    \E r \in Requests :
        \/ \E s \in Asked : BeginReceive(r, s)
        \/ QuickReceive(r) \/ ReceiveLine(r) \/ SaveOrder(r) \/ CommitReceipt(r)
        \/ BeginConvert(r) \/ Convert(r)
        \/ (\E l \in Lines : \E q \in 1..Ordered[l] : BeginReturn(r, l, q)) \/ Return(r)
        \/ (\E s \in {po.status, "sent", "closed"} : BeginPatch(r, s)) \/ Patch(r)
        \/ Rollback(r)

Spec == Init /\ [][Next]_vars

-----------------------------------------------------------------------------
(* Properties.                                                             *)

TypeOK ==
    /\ po \in [status : Statuses, prebilled : BOOLEAN]
    /\ received \in [Lines -> Nat] /\ stock \in [Lines -> Nat] /\ bills \in Seq(Nat)
    /\ DOMAIN journal \subseteq {"po_receipt", "po_receipt_clearing", "po_convert_to_bill"} \X Nat
    /\ DOMAIN req = Requests /\ ops \in 0..MaxOps
    /\ gross \in [Lines -> Nat] /\ returned \in [Lines -> Nat]
    /\ lapses \subseteq {"receive", "convert", "return", "patch"}

\* "Cap at what is actually outstanding" (services.py): whatever receipts interleave,
\* a line never takes in more than was ordered and not sent back.  Only a return that
\* works from a line it read without a lock can make room for more.
ReceivedWithinOrdered ==
    \A l \in Lines :
        /\ received[l] <= Ordered[l]
        /\ "return" \notin lapses => received[l] = gross[l] - returned[l]

\* "One Bill per PO - subsequent partial receipts increase the existing bill's amounts":
\* concurrent receipts neither lose an increase nor create a second bill, although the
\* bill is never locked: the lock of the order's row, taken just before, orders them.
BillsCoverReceipts ==
    lapses \cap {"receive", "convert", "patch"} = {} =>
        /\ Len(bills) <= 1
        /\ bills # <<>> => bills[1] = IF po.prebilled THEN Value ELSE SumOver(gross)
        /\ bills = <<>> => gross = None

\* "a PO can be received in several partial batches, each needing its own clearing
\* entry": for an order billed first, what left goods in transit is what arrived.
ClearingCoversReceipts ==
    po.prebilled /\ lapses \cap {"receive", "convert", "patch"} = {} =>
        Posted("po_receipt_clearing") = SumOver(gross)

\* The three: the goods, the bill and the journal of an order agree.
ReceiptsAgree == ReceivedWithinOrdered /\ BillsCoverReceipts /\ ClearingCoversReceipts

\* receive_purchase_order "Posts the GL journal (DR Inventory / CR Accounts Payable)":
\* what the journals owe the supplier is what the bills say.
LedgerOwesTheBills ==
    lapses = {} =>
        Posted("po_receipt") + Posted("po_convert_to_bill") = SumOver(bills)
=============================================================================
