------------------------------- MODULE Partners -------------------------------
(***************************************************************************)
(* Suppliers and customers: a purchase order with its receipts             *)
(* (PurchaseReceipts), a supplier's bill (SupplierBills) and a customer's  *)
(* account (CustomerCredit), side by side.  The requests of one are those  *)
(* of the same users; what a receipt adds to the bill of its order is a    *)
(* part of each model, so no variable belongs to two of them.              *)
(***************************************************************************)
EXTENDS Integers, FiniteSets

CONSTANTS
    Users,         \* requests at the same time
    Lines, Ordered, OnShelf, MaxOps,                   \* of the order
    Totals, Amounts, MaxRequests,                      \* of the bill; the amounts are any payment's
    Invoices, CreditLimit, Store, Opening, MaxSales    \* of the customer

VARIABLES
    po, received, shelf, bills, journal, orderWork, ops, gross, returned, orderLapses,
    bill, paid, approved, ordered, settled, shut, billWork, requests, billLapses,
    balance, store, txns, opening, invoice, receivable, posted, saleWork, sales, saleLapses

order == <<po, received, shelf, bills, journal, orderWork, ops, gross, returned, orderLapses>>
payable == <<bill, paid, approved, ordered, settled, shut, billWork, requests, billLapses>>
account == <<balance, store, txns, opening, invoice, receivable, posted, saleWork, sales, saleLapses>>

O == INSTANCE PurchaseReceipts WITH
        Requests <- Users, stock <- shelf, req <- orderWork, lapses <- orderLapses
B == INSTANCE SupplierBills WITH work <- billWork, lapses <- billLapses
C == INSTANCE CustomerCredit WITH
        MaxRequests <- MaxSales, ledger <- receivable, work <- saleWork, requests <- sales, lapses <- saleLapses

ASSUME PartnersAssumption == O!PurchaseAssumption /\ B!BillAssumption /\ C!CreditAssumption

PartnersSpec == O!Spec /\ B!Spec /\ C!Spec

-----------------------------------------------------------------------------
\* The types of all three.
PartnersTypeOK == O!TypeOK /\ B!TypeOK /\ C!TypeOK

\* No line takes in more than was ordered, an order has one bill, of what it received, and
\* what left goods in transit is what arrived (PurchaseReceipts).
ReceiptsAgree == O!ReceiptsAgree

\* The ledger owes what the bills of the order show; the code breaks it (PurchaseReceipts).
LedgerOwesTheBills == O!LedgerOwesTheBills

\* A bill shows what was paid on it, and the ledger what is still owed (SupplierBills).
PayablesAgree == B!PayablesAgree

\* The balance of a customer is what the credit transactions, and what is due on the
\* invoices, add up to; the receivable in the ledger is the balance (CustomerCredit).
CreditAgrees == C!CreditAgrees
=============================================================================
