----------------------------- MODULE TradeProofs -----------------------------
(***************************************************************************)
(* Proofs about selling (Trade), one part after the other, for any         *)
(* requests, amounts and number of operations.                             *)
(*                                                                         *)
(* The invoice: the types, that its payments agree with what it says and   *)
(* with what was billed, and that the goods it has out are its own.        *)
(* Orders of the shop page and of the restaurant, and quotations: each is  *)
(* sold once and at the price it showed.  Tills: the cash that was counted *)
(* is in the ledger.  Payouts of the card terminals: each is counted once  *)
(* and settles one sale or is income.                                      *)
(***************************************************************************)
EXTENDS Trade, SumTheorems

-----------------------------------------------------------------------------
(* The invoice.                                                            *)

InvType == [status : Statuses, deferred : BOOLEAN, fulfilled : BOOLEAN, deleted : BOOLEAN,
            total : Quantities, paid : Nat, due : Nat]
LineType == [qty : Quantities \cup {0}, returned : Nat, restocked : Nat]

\* Every row, and every copy of one, says what is due of what it bills.
Rows == {i \in InvType : i.due = Larger(i.total - i.paid, 0)}
Copies == {i \in Rows : ~i.deleted}
Works == {Idle} \cup [step : {"read", "restocked"}, op : Operations, copy : Copies, items : LineType]

TypesOK ==
    /\ inv \in Rows /\ line \in LineType /\ payments \in Nat /\ stock \in Int
    /\ billed \in Quantities /\ lapses \subseteq Causes
    /\ req \in [Requests -> Works]

MoneyOK ==
    "stale" \notin lapses =>
        /\ payments <= billed /\ inv.total <= billed
        /\ ~inv.deleted => inv.paid = payments

Restocked(r) == req[r].step = "restocked"
Taken == IF Out(inv) THEN line.qty - line.restocked ELSE 0

\* Between the two transactions of a void the goods are back, of the line as it is, and
\* nobody else is at the same point.
GoodsOK ==
    /\ ReturnedWithinSold
    /\ lapses = {} =>
          /\ ~HalfVoided => stock = Taken
          /\ \A r \in Requests : Restocked(r) =>
                /\ Out(inv) /\ req[r].items = line /\ line.restocked = 0 /\ stock = 0
                /\ \A v \in Requests : Restocked(v) => v = r

IInv == TypesOK /\ MoneyOK /\ GoodsOK

-----------------------------------------------------------------------------
\* Quantities are numbers, and so are the amounts below them.
LEMMA Numbers ==
    ASSUME InvoiceAssumption
    PROVE  /\ Quantities \subseteq Nat /\ \A q \in Quantities : q > 0
           /\ \A n \in Amounts : n \in Nat /\ n > 0
BY DEF InvoiceAssumption, Amounts

\* A request that has read the invoice has a copy of it, and of its line.
LEMMA ReadShape ==
    ASSUME TypesOK, NEW r \in Requests, req[r].step \in {"read", "restocked"}
    PROVE  /\ req[r] \in [step : {"read", "restocked"}, op : Operations, copy : Copies, items : LineType]
           /\ req[r].copy \in Copies /\ req[r].items \in LineType
<1>1. req[r] \in Works
  BY DEF TypesOK
<1>2. req[r] # Idle
  BY DEF Idle
<1> QED BY <1>1, <1>2 DEF Works

\* A request that ends was the only one to change.
LEMMA Ended ==
    ASSUME TypesOK, NEW r \in Requests, End(r)
    PROVE  /\ req' \in [Requests -> Works] /\ ~Restocked(r)'
           /\ \A v \in Requests : v # r => req'[v] = req[v]
<1>1. req' = [req EXCEPT ![r] = Idle] /\ Idle \in Works
  BY DEF End, Works
<1>2. req'[r] = Idle
  BY <1>1 DEF TypesOK
<1> QED BY <1>1, <1>2 DEF TypesOK, Restocked, Idle

LEMMA EndedReading ==
    ASSUME TypesOK, NEW r \in Requests, End(r), req[r].step = "read"
    PROVE  /\ req' \in [Requests -> Works] /\ HalfVoided' = HalfVoided
           /\ \A v \in Requests : Restocked(v)' = Restocked(v) /\ (Restocked(v) => req'[v] = req[v])
<1>1. /\ req' \in [Requests -> Works] /\ ~Restocked(r)' /\ ~Restocked(r)
      /\ \A v \in Requests : v # r => req'[v] = req[v]
  BY Ended DEF Restocked
<1>2. \A v \in Requests : Restocked(v)' = Restocked(v) /\ (Restocked(v) => req'[v] = req[v])
  BY <1>1 DEF Restocked
<1> QED BY <1>1, <1>2 DEF HalfVoided, Restocked

\* A step that keeps the line, the stock and whether the goods are out keeps them in order.
LEMMA GoodsKept ==
    ASSUME IInv, NEW r \in Requests, End(r), req[r].step = "read", UNCHANGED <<line, stock>>,
           lapses' = {} => lapses = {} /\ Out(inv)' = Out(inv)
    PROVE  GoodsOK'
<1>1. /\ HalfVoided' = HalfVoided
      /\ \A v \in Requests : Restocked(v)' = Restocked(v) /\ (Restocked(v) => req'[v] = req[v])
  BY EndedReading DEF IInv
<1>2. ReturnedWithinSold'
  BY DEF IInv, GoodsOK, ReturnedWithinSold
<1>3. lapses' = {} => Taken' = Taken
  BY DEF Taken
<1> QED BY <1>1, <1>2, <1>3 DEF IInv, GoodsOK

\* A step after which no void is halfway and the stock is what the row says.
LEMMA GoodsSettled ==
    ASSUME ReturnedWithinSold', lapses' = {} => ~HalfVoided' /\ stock' = Taken' PROVE GoodsOK'
<1>1. lapses' = {} => \A r \in Requests : ~Restocked(r)'
  BY DEF HalfVoided, Restocked
<1> QED BY <1>1 DEF GoodsOK

\* The types after a request has ended.
LEMMA TypesAfter ==
    ASSUME TypesOK, req' \in [Requests -> Works], inv' \in Rows, line' \in LineType, payments' \in Nat,
           stock' \in Int, billed' \in Quantities, lapses' \subseteq Causes
    PROVE  TypesOK'
BY DEF TypesOK

LEMMA LapsesOK ==
    ASSUME TypesOK, NEW op \in Operations, NEW condition, Lapse(op, condition)
    PROVE  /\ lapses \subseteq lapses' /\ lapses' \subseteq Causes /\ (lapses' = {} => lapses = {} /\ condition)
           /\ ("stale" \in lapses' <=> "stale" \in lapses)
BY DEF TypesOK, Lapse, Causes, Operations

\* A whole-row save: nothing is stale if the copy is the row as it is.
LEMMA SaveOK ==
    ASSUME TypesOK, NEW r \in Requests, NEW op \in Operations, NEW row, NEW condition, Save(r, op, row, condition)
    PROVE  /\ inv' = row /\ lapses \subseteq lapses' /\ lapses' \subseteq Causes
           /\ "stale" \notin lapses' => "stale" \notin lapses /\ req[r].copy = inv
           /\ lapses' = {} => lapses = {} /\ condition /\ req[r].copy = inv
BY DEF TypesOK, Save, Causes, Operations

-----------------------------------------------------------------------------
(* Handlers that lock and re-read the row.                                 *)

LEMMA BeginOK == ASSUME InvoiceAssumption, IInv, NEW r \in Requests, NEW op \in Operations, Begin(r, op) PROVE IInv'
<1> DEFINE new == [step |-> "read", op |-> op, copy |-> inv, items |-> line]
<1>1. /\ req[r].step = "idle" /\ ~inv.deleted /\ req' = [req EXCEPT ![r] = new]
      /\ UNCHANGED <<inv, line, payments, stock, billed, lapses>>
  BY DEF Begin
<1>2. new \in Works /\ new.step = "read"
  BY <1>1 DEF IInv, TypesOK, Works, Copies
<1> HIDE DEF new
<1>3. /\ req' \in [Requests -> Works] /\ ~Restocked(r) /\ ~Restocked(r)'
      /\ \A v \in Requests : v # r => req'[v] = req[v]
  BY <1>1, <1>2 DEF IInv, TypesOK, Restocked
<1>4. \A v \in Requests : Restocked(v)' = Restocked(v) /\ (Restocked(v) => req'[v] = req[v])
  BY <1>3 DEF Restocked
<1>5. HalfVoided' = HalfVoided
  BY <1>4 DEF HalfVoided, Restocked
<1>6. TypesOK' /\ MoneyOK'
  BY <1>1, <1>3 DEF IInv, TypesOK, MoneyOK
<1>7. GoodsOK'
  BY <1>1, <1>4, <1>5 DEF IInv, GoodsOK, ReturnedWithinSold, Taken, Out
<1> QED BY <1>6, <1>7 DEF IInv

LEMMA RefuseOK == ASSUME IInv, NEW r \in Requests, Refuse(r) PROVE IInv'
<1>1. req[r].step = "read" /\ End(r) /\ UNCHANGED <<inv, line, payments, stock, billed, lapses>>
  BY DEF Refuse
<1>2. GoodsOK'
  BY <1>1, GoodsKept
<1>3. req' \in [Requests -> Works]
  BY <1>1, Ended DEF IInv
<1> QED BY <1>1, <1>2, <1>3 DEF IInv, TypesOK, MoneyOK

LEMMA PayOK ==
    ASSUME InvoiceAssumption, IInv, NEW r \in Requests, NEW amount \in Amounts, Pay(r, amount) PROVE IInv'
<1> DEFINE status == IF inv.paid + amount >= inv.total THEN "paid" ELSE "partially_paid"
<1>1. /\ req[r].step = "read" /\ ~inv.deleted /\ amount <= inv.due /\ payments' = payments + amount /\ End(r)
      /\ inv' = [inv EXCEPT !.paid = inv.paid + amount, !.due = inv.total - (inv.paid + amount), !.status = status]
      /\ Lapse("pay", Out(inv') = Out(inv)) /\ UNCHANGED <<line, stock, billed>>
  BY DEF Pay, Payable, Doing
<1>2. /\ inv \in InvType /\ inv.due = Larger(inv.total - inv.paid, 0)
      /\ inv.total \in Nat /\ inv.paid \in Nat /\ payments \in Nat /\ billed \in Nat /\ amount \in Nat /\ amount > 0
  BY Numbers DEF IInv, TypesOK, Rows, InvType
<1>3. inv.paid + amount \in Nat /\ inv.total - (inv.paid + amount) \in Nat
  BY <1>1, <1>2 DEF Larger
<1>4. status \in Statuses
  BY DEF Statuses
<1> HIDE DEF status
<1>5. /\ inv' \in InvType /\ inv'.paid = inv.paid + amount /\ inv'.due = inv.total - (inv.paid + amount)
      /\ inv'.total = inv.total /\ inv'.deleted = inv.deleted
  BY <1>1, <1>2, <1>3, <1>4 DEF InvType
<1>6. inv' \in Rows
  BY <1>2, <1>3, <1>5 DEF Rows, Larger
<1>7. /\ lapses' \subseteq Causes /\ (lapses' = {} => lapses = {} /\ Out(inv') = Out(inv))
      /\ ("stale" \in lapses' <=> "stale" \in lapses)
  BY <1>1, LapsesOK DEF IInv, Operations
<1>8. req' \in [Requests -> Works]
  BY <1>1, Ended DEF IInv
<1>9. TypesOK'
  BY <1>1, <1>2, <1>6, <1>7, <1>8 DEF IInv, TypesOK
<1>10. MoneyOK'
  BY <1>1, <1>2, <1>3, <1>5, <1>7 DEF IInv, MoneyOK
<1>11. GoodsOK'
  BY <1>1, <1>7, GoodsKept DEF Out
<1> QED BY <1>9, <1>10, <1>11 DEF IInv

\* The quantity of a line is a number.
LEMMA QuantityOf ==
    ASSUME InvoiceAssumption, NEW l \in LineType PROVE l.qty \in Nat
<1>1. l.qty \in Quantities \cup {0}
  BY DEF LineType
<1>2. CASE l.qty \in Quantities
  BY <1>2, Numbers
<1>3. CASE l.qty = 0
  BY <1>3
<1> QED BY <1>1, <1>2, <1>3

\* What the line and the stock are, as numbers.
LEMMA LineShape ==
    ASSUME InvoiceAssumption, IInv
    PROVE  /\ line \in LineType /\ line.qty \in Nat /\ line.returned \in Nat /\ line.restocked \in Nat
           /\ stock \in Int /\ line.restocked <= line.returned /\ line.returned <= line.qty
           /\ (lapses = {} /\ ~HalfVoided => stock = Taken)
<1>1. line \in LineType /\ line.returned \in Nat /\ line.restocked \in Nat
  BY DEF IInv, TypesOK, LineType
<1>2. line.qty \in Nat
  BY <1>1, QuantityOf
<1> QED BY <1>1, <1>2 DEF IInv, TypesOK, GoodsOK, ReturnedWithinSold

\* The goods go out: they were not out before.
LEMMA TakenOut ==
    ASSUME InvoiceAssumption, IInv, NEW r \in Requests, NEW op \in Operations, NEW condition, req[r].step = "read",
           End(r), Lapse(op, condition), stock' = stock + line.qty, UNCHANGED <<line, payments, billed>>,
           inv' \in Rows, inv'.total = inv.total, inv'.paid = inv.paid, inv'.deleted = inv.deleted,
           ~Out(inv), condition => Out(inv)' /\ line.restocked = 0
    PROVE  IInv'
<1>1. /\ lapses' \subseteq Causes /\ (lapses' = {} => lapses = {} /\ condition)
      /\ ("stale" \in lapses' <=> "stale" \in lapses)
  BY LapsesOK DEF IInv
<1>2. /\ req' \in [Requests -> Works] /\ HalfVoided' = HalfVoided
      /\ \A v \in Requests : Restocked(v)' = Restocked(v) /\ (Restocked(v) => req'[v] = req[v])
  BY EndedReading DEF IInv
<1>3. stock \in Int /\ line.qty \in Nat /\ stock' \in Int
  <2>1. stock \in Int /\ line.qty \in Nat
    BY LineShape
  <2> QED BY <2>1
<1>4. TypesOK'
  BY <1>1, <1>2, <1>3 DEF IInv, TypesOK
<1>5. MoneyOK'
  BY <1>1 DEF IInv, MoneyOK
<1>6. ReturnedWithinSold'
  BY DEF IInv, GoodsOK, ReturnedWithinSold
<1>7. lapses' = {} => ~HalfVoided' /\ stock' = Taken'
  <2> SUFFICES ASSUME lapses' = {} PROVE ~HalfVoided' /\ stock' = Taken'
    OBVIOUS
  <2>1. lapses = {} /\ Out(inv)' /\ line.restocked = 0
    BY <1>1
  <2>2. ~HalfVoided
    BY <2>1 DEF IInv, GoodsOK, HalfVoided, Restocked
  <2>3. stock = 0
    BY <2>1, <2>2 DEF IInv, GoodsOK, Taken
  <2>4. Taken' = line.qty
    BY <1>3, <2>1 DEF Taken
  <2> QED BY <1>2, <1>3, <2>2, <2>3, <2>4
<1> QED BY <1>4, <1>5, <1>6, <1>7, GoodsSettled DEF IInv

LEMMA FulfillOK == ASSUME InvoiceAssumption, IInv, NEW r \in Requests, Fulfill(r) PROVE IInv'
<1>1. /\ req[r].step = "read" /\ inv.deferred /\ ~inv.fulfilled /\ End(r) /\ stock' = stock + line.qty
      /\ inv' = [inv EXCEPT !.fulfilled = TRUE] /\ Lapse("fulfill", Out(inv') /\ line.restocked = 0)
      /\ UNCHANGED <<line, payments, billed>>
  BY DEF Fulfill, Fulfillable, Doing
<1>2. inv \in InvType /\ inv.due = Larger(inv.total - inv.paid, 0)
  BY DEF IInv, TypesOK, Rows
<1>3. /\ inv' \in InvType /\ inv'.total = inv.total /\ inv'.paid = inv.paid /\ inv'.due = inv.due
      /\ inv'.deleted = inv.deleted
  BY <1>1, <1>2 DEF InvType
<1>4. inv' \in Rows
  BY <1>2, <1>3 DEF Rows
<1>5. ~Out(inv)
  BY <1>1 DEF Out
<1>6. "fulfill" \in Operations /\ (Out(inv') /\ line.restocked = 0 => Out(inv)' /\ line.restocked = 0)
  BY DEF Operations, Out
<1> QED BY <1>1, <1>3, <1>4, <1>5, <1>6, TakenOut

LEMMA ConfirmProformaOK == ASSUME InvoiceAssumption, IInv, NEW r \in Requests, ConfirmProforma(r) PROVE IInv'
<1>1. /\ req[r].step = "read" /\ ~inv.deleted /\ inv.status = "proforma" /\ End(r) /\ stock' = stock + line.qty
      /\ inv' = [inv EXCEPT !.status = "confirmed"] /\ Lapse("confirm", ~inv.deferred /\ line.restocked = 0)
      /\ UNCHANGED <<line, payments, billed>>
  BY DEF ConfirmProforma, Doing
<1>2. inv \in InvType /\ inv.due = Larger(inv.total - inv.paid, 0) /\ "confirmed" \in Statuses
  BY DEF IInv, TypesOK, Rows, Statuses
<1>3. /\ inv' \in InvType /\ inv'.total = inv.total /\ inv'.paid = inv.paid /\ inv'.due = inv.due
      /\ inv'.deleted = inv.deleted /\ inv'.status = "confirmed" /\ inv'.deferred = inv.deferred
  BY <1>1, <1>2 DEF InvType
<1>4. inv' \in Rows
  BY <1>2, <1>3 DEF Rows
<1>5. ~Out(inv) /\ (~inv.deferred /\ line.restocked = 0 => Out(inv)' /\ line.restocked = 0)
  BY <1>1, <1>3 DEF Out
<1>6. "confirm" \in Operations
  BY DEF Operations
<1> QED BY <1>1, <1>3, <1>4, <1>5, <1>6, TakenOut

\* A row that changes its status only.
LEMMA StatusOnly ==
    ASSUME TypesOK, NEW status \in Statuses, inv' = [inv EXCEPT !.status = status]
    PROVE  /\ inv' \in Rows /\ inv'.total = inv.total /\ inv'.paid = inv.paid /\ inv'.status = status
           /\ inv'.deleted = inv.deleted /\ inv'.deferred = inv.deferred /\ inv'.fulfilled = inv.fulfilled
<1>1. inv \in InvType /\ inv.due = Larger(inv.total - inv.paid, 0)
  BY DEF TypesOK, Rows
<1>2. /\ inv' \in InvType /\ inv'.total = inv.total /\ inv'.paid = inv.paid /\ inv'.due = inv.due
      /\ inv'.deleted = inv.deleted /\ inv'.deferred = inv.deferred /\ inv'.fulfilled = inv.fulfilled
      /\ inv'.status = status
  BY <1>1 DEF InvType
<1> QED BY <1>1, <1>2 DEF Rows

LEMMA ProcessReturnOK ==
    ASSUME InvoiceAssumption, IInv, NEW r \in Requests, NEW n \in Amounts, NEW restock \in BOOLEAN,
           ProcessReturn(r, n, restock)
    PROVE  IInv'
<1> DEFINE back == IF restock THEN n ELSE 0
<1>1. /\ req[r].step = "read" /\ n <= line.qty - line.returned /\ End(r)
      /\ line' = [line EXCEPT !.returned = line.returned + n, !.restocked = line.restocked + back]
      /\ stock' = stock - back
      /\ Lapse("return", Out(inv) /\ Out(inv') /\ ~HalfVoided) /\ UNCHANGED <<payments, billed>>
  <2>1. stock' = stock - back
    BY LineShape DEF ProcessReturn
  <2> QED BY <2>1 DEF ProcessReturn, Returnable, Doing
<1>2. inv' = inv \/ inv' = [inv EXCEPT !.status = "returned"]
  BY DEF ProcessReturn
<1>3. inv' \in Rows /\ inv'.total = inv.total /\ inv'.paid = inv.paid /\ inv'.deleted = inv.deleted
  <2>1. "returned" \in Statuses
    BY DEF Statuses
  <2>2. CASE inv' = inv
    BY <2>2 DEF IInv, TypesOK
  <2>3. CASE inv' = [inv EXCEPT !.status = "returned"]
    BY <2>1, <2>3, StatusOnly DEF IInv
  <2> QED BY <1>2, <2>2, <2>3
<1>4. n \in Nat /\ back \in Nat /\ back <= n
  BY Numbers
<1> HIDE DEF back
<1>5. /\ line \in LineType /\ line.qty \in Nat /\ line.returned \in Nat /\ line.restocked \in Nat
      /\ stock \in Int /\ line.restocked <= line.returned /\ line.returned <= line.qty
      /\ (lapses = {} /\ ~HalfVoided => stock = Taken)
  BY LineShape
<1>6. /\ line' \in LineType /\ line'.qty = line.qty /\ line'.returned = line.returned + n
      /\ line'.restocked = line.restocked + back
  <2>1. line.returned + n \in Nat /\ line.restocked + back \in Nat
    BY <1>4, <1>5
  <2>3. PICK a \in Nat : a = line.returned + n
    BY <2>1
  <2>4. PICK b \in Nat : b = line.restocked + back
    BY <2>1
  <2>5. line' = [line EXCEPT !.returned = a, !.restocked = b]
    BY <1>1, <2>3, <2>4
  <2>6. /\ [line EXCEPT !.returned = a, !.restocked = b] \in LineType
        /\ [line EXCEPT !.returned = a, !.restocked = b].qty = line.qty
        /\ [line EXCEPT !.returned = a, !.restocked = b].returned = a
        /\ [line EXCEPT !.returned = a, !.restocked = b].restocked = b
    BY <1>5 DEF LineType
  <2> QED BY <2>3, <2>4, <2>5, <2>6
<1>7. /\ lapses' \subseteq Causes /\ (lapses' = {} => lapses = {} /\ Out(inv) /\ Out(inv') /\ ~HalfVoided)
      /\ ("stale" \in lapses' <=> "stale" \in lapses)
  BY <1>1, LapsesOK DEF IInv, Operations
<1>8. req' \in [Requests -> Works] /\ HalfVoided' = HalfVoided
  BY <1>1, EndedReading DEF IInv
<1>9. TypesOK'
  BY <1>1, <1>3, <1>4, <1>5, <1>6, <1>7, <1>8 DEF IInv, TypesOK
<1>10. MoneyOK'
  BY <1>1, <1>3, <1>7 DEF IInv, MoneyOK
<1>11. ReturnedWithinSold'
  BY <1>1, <1>4, <1>5, <1>6 DEF ReturnedWithinSold
<1>12. ASSUME lapses' = {} PROVE ~HalfVoided' /\ stock' = Taken'
  <2>1. ~HalfVoided' /\ Out(inv) /\ Out(inv)' /\ stock = Taken
    BY <1>5, <1>7, <1>8, <1>12 DEF Out
  <2> QED BY <1>1, <1>4, <1>5, <1>6, <2>1 DEF Taken
<1> QED BY <1>9, <1>10, <1>11, <1>12, GoodsSettled DEF IInv

-----------------------------------------------------------------------------
(* Handlers that act on the copy.                                          *)

LEMMA VoidOK == ASSUME InvoiceAssumption, IInv, NEW r \in Requests, Void(r) PROVE IInv'
<1>1. /\ req[r].step = "read" /\ stock' = stock - req[r].items.qty /\ req' = [req EXCEPT ![r].step = "restocked"]
      /\ Lapse("void", Out(inv) /\ req[r].items = line /\ line.restocked = 0 /\ ~HalfVoided)
      /\ UNCHANGED <<inv, line, payments, billed>>
  BY DEF Void, Doing
<1>2. /\ req[r] \in [step : {"read", "restocked"}, op : Operations, copy : Copies, items : LineType]
      /\ req[r].items \in LineType
  BY <1>1, ReadShape DEF IInv
<1>3. stock' \in Int
  BY <1>1, <1>2, QuantityOf, LineShape
<1> DEFINE new == [req[r] EXCEPT !.step = "restocked"]
<1>4. new \in Works /\ new.step = "restocked" /\ new.items = req[r].items
  BY <1>2 DEF Works
<1>5. req' = [req EXCEPT ![r] = new]
  BY <1>1
<1> HIDE DEF new
<1>6. /\ req' \in [Requests -> Works] /\ req'[r] = new
      /\ \A v \in Requests : v # r => req'[v] = req[v]
  BY <1>4, <1>5 DEF IInv, TypesOK
<1>7. /\ lapses' \subseteq Causes /\ ("stale" \in lapses' <=> "stale" \in lapses)
      /\ (lapses' = {} => lapses = {} /\ Out(inv) /\ req[r].items = line /\ line.restocked = 0 /\ ~HalfVoided)
  BY <1>1, LapsesOK DEF IInv, Operations
<1>8. TypesOK' /\ MoneyOK'
  BY <1>1, <1>3, <1>6, <1>7 DEF IInv, TypesOK, MoneyOK
<1>9. ReturnedWithinSold'
  BY <1>1 DEF IInv, GoodsOK, ReturnedWithinSold
<1>10. HalfVoided'
  BY <1>4, <1>6 DEF HalfVoided
<1>11. ASSUME lapses' = {}, NEW u \in Requests, Restocked(u)'
       PROVE  /\ Out(inv)' /\ req'[u].items = line' /\ line'.restocked = 0 /\ stock' = 0
              /\ \A v \in Requests : Restocked(v)' => v = u
  <2>1. \A v \in Requests : Restocked(v)' => v = r
    BY <1>6, <1>7, <1>11 DEF HalfVoided, Restocked
  <2>2. u = r /\ req'[u].items = line' /\ Out(inv)' /\ line'.restocked = 0
    BY <1>1, <1>4, <1>6, <1>7, <1>11, <2>1 DEF Out
  <2>3. stock = line.qty
    BY <1>7, <1>11, LineShape DEF Taken
  <2>4. stock' = 0
    BY <1>1, <1>7, <1>11, <2>3, LineShape
  <2> QED BY <2>1, <2>2, <2>4
<1> QED BY <1>8, <1>9, <1>10, <1>11 DEF IInv, GoodsOK

LEMMA MarkVoidedOK == ASSUME InvoiceAssumption, IInv, NEW r \in Requests, MarkVoided(r) PROVE IInv'
<1>1. /\ req[r].step = "restocked" /\ inv' = [inv EXCEPT !.status = "voided"] /\ End(r)
      /\ Lapse("void", Out(inv) /\ line = req[r].items) /\ UNCHANGED <<line, payments, stock, billed>>
  BY DEF MarkVoided
<1>2. inv' \in Rows /\ inv'.total = inv.total /\ inv'.paid = inv.paid /\ inv'.deleted = inv.deleted /\ ~Out(inv)'
  <2>1. "voided" \in Statuses
    BY DEF Statuses
  <2> QED BY <1>1, <2>1, StatusOnly DEF IInv, Out
<1>3. /\ req' \in [Requests -> Works] /\ ~Restocked(r)'
      /\ \A v \in Requests : v # r => req'[v] = req[v]
  BY <1>1, Ended DEF IInv
<1>4. /\ lapses' \subseteq Causes /\ (lapses' = {} => lapses = {})
      /\ ("stale" \in lapses' <=> "stale" \in lapses)
  BY <1>1, LapsesOK DEF IInv, Operations
<1>5. TypesOK' /\ MoneyOK'
  BY <1>1, <1>2, <1>3, <1>4 DEF IInv, TypesOK, MoneyOK
<1>6. ReturnedWithinSold'
  BY <1>1 DEF IInv, GoodsOK, ReturnedWithinSold
<1>7. ASSUME lapses' = {} PROVE ~HalfVoided' /\ stock' = Taken'
  <2>1. stock = 0 /\ \A v \in Requests : Restocked(v) => v = r
    BY <1>1, <1>4, <1>7 DEF IInv, GoodsOK, Restocked
  <2>2. ~HalfVoided'
    BY <1>3, <2>1 DEF HalfVoided, Restocked
  <2> QED BY <1>1, <1>2, <2>1, <2>2 DEF Taken
<1> QED BY <1>5, <1>6, <1>7, GoodsSettled DEF IInv

LEMMA VoidInterruptedOK == ASSUME IInv, NEW r \in Requests, VoidInterrupted(r) PROVE IInv'
<1>1. End(r) /\ lapses' = lapses \cup {"void"} /\ UNCHANGED <<inv, line, payments, stock, billed>>
  BY DEF VoidInterrupted
<1>2. req' \in [Requests -> Works]
  BY <1>1, Ended DEF IInv
<1>3. lapses' \subseteq Causes /\ lapses' # {} /\ ("stale" \in lapses' <=> "stale" \in lapses)
  BY <1>1 DEF IInv, TypesOK, Causes, Operations
<1>4. TypesOK' /\ MoneyOK'
  BY <1>1, <1>2, <1>3 DEF IInv, TypesOK, MoneyOK
<1>5. ReturnedWithinSold'
  BY <1>1 DEF IInv, GoodsOK, ReturnedWithinSold
<1> QED BY <1>3, <1>4, <1>5, GoodsSettled DEF IInv

\* A row that is marked deleted only.
LEMMA DeletedOnly ==
    ASSUME TypesOK, inv' = [inv EXCEPT !.deleted = TRUE]
    PROVE  inv' \in Rows /\ inv'.total = inv.total /\ inv'.deleted /\ ~Out(inv)'
<1>1. inv \in InvType /\ inv.due = Larger(inv.total - inv.paid, 0)
  BY DEF TypesOK, Rows
<1>2. /\ inv' \in InvType /\ inv'.total = inv.total /\ inv'.paid = inv.paid /\ inv'.due = inv.due
      /\ inv'.deleted = TRUE
  BY <1>1 DEF InvType
<1> QED BY <1>1, <1>2 DEF Rows, Out

LEMMA DeleteInvoiceOK == ASSUME InvoiceAssumption, IInv, NEW r \in Requests, DeleteInvoice(r) PROVE IInv'
<1> DEFINE i == req[r].copy
<1>1. /\ req[r].step = "read" /\ stock' = (IF WasDeducted(i) THEN stock - line.qty ELSE stock)
      /\ inv' = [inv EXCEPT !.deleted = TRUE] /\ payments' = 0 /\ line' = NoLine /\ End(r) /\ UNCHANGED billed
      /\ Lapse("delete", /\ i = inv /\ i.status \notin {"draft", "proforma"}
                         /\ line.restocked = 0 /\ ~HalfVoided)
  BY DEF DeleteInvoice, Doing
<1>2. i \in Copies
  BY <1>1, ReadShape DEF IInv
<1> HIDE DEF i
<1>3. inv' \in Rows /\ inv'.total = inv.total /\ inv'.deleted /\ ~Out(inv)'
  BY <1>1, DeletedOnly DEF IInv
<1>4. req' \in [Requests -> Works] /\ HalfVoided' = HalfVoided
  BY <1>1, EndedReading DEF IInv
<1>5. /\ lapses' \subseteq Causes /\ ("stale" \in lapses' <=> "stale" \in lapses)
      /\ (lapses' = {} => /\ lapses = {} /\ i = inv /\ i.status \notin {"draft", "proforma"}
                          /\ line.restocked = 0 /\ ~HalfVoided)
  BY <1>1, LapsesOK DEF IInv, Operations
<1>6. line' \in LineType /\ ReturnedWithinSold'
  BY <1>1 DEF NoLine, LineType, ReturnedWithinSold
<1>7. stock' \in Int
  BY <1>1, LineShape
<1>8. TypesOK'
  BY <1>1, <1>3, <1>4, <1>5, <1>6, <1>7 DEF IInv, TypesOK
<1>9. MoneyOK'
  <2>1. billed \in Nat /\ inv.total \in Nat
    BY Numbers DEF IInv, TypesOK, Rows, InvType
  <2> QED BY <1>1, <1>3, <1>5, <2>1 DEF IInv, MoneyOK
<1>10. ASSUME lapses' = {} PROVE ~HalfVoided' /\ stock' = Taken'
  <2>1. WasDeducted(i) = Out(inv)
    BY <1>2, <1>5, <1>10 DEF WasDeducted, Out, Copies
  <2>2. stock' = 0
    BY <1>1, <1>5, <1>10, <2>1, LineShape DEF Taken
  <2> QED BY <1>3, <1>4, <1>5, <1>10, <2>2 DEF Taken
<1> QED BY <1>6, <1>8, <1>9, <1>10, GoodsSettled DEF IInv

LEMMA DestroyOK == ASSUME InvoiceAssumption, IInv, NEW r \in Requests, Destroy(r) PROVE IInv'
<1>1. /\ req[r].step = "read" /\ inv' = [inv EXCEPT !.deleted = TRUE] /\ End(r)
      /\ Lapse("destroy", ~Out(inv) /\ ~HalfVoided) /\ UNCHANGED <<line, payments, stock, billed>>
  BY DEF Destroy, Doing
<1>2. inv' \in Rows /\ inv'.total = inv.total /\ inv'.deleted /\ ~Out(inv)'
  BY <1>1, DeletedOnly DEF IInv
<1>3. req' \in [Requests -> Works] /\ HalfVoided' = HalfVoided
  BY <1>1, EndedReading DEF IInv
<1>4. /\ lapses' \subseteq Causes /\ ("stale" \in lapses' <=> "stale" \in lapses)
      /\ (lapses' = {} => lapses = {} /\ ~Out(inv) /\ ~HalfVoided)
  BY <1>1, LapsesOK DEF IInv, Operations
<1>5. TypesOK' /\ MoneyOK'
  BY <1>1, <1>2, <1>3, <1>4 DEF IInv, TypesOK, MoneyOK
<1>6. ReturnedWithinSold'
  BY <1>1 DEF IInv, GoodsOK, ReturnedWithinSold
<1>7. ASSUME lapses' = {} PROVE ~HalfVoided' /\ stock' = Taken'
  BY <1>1, <1>2, <1>3, <1>4, <1>7, LineShape DEF Taken
<1> QED BY <1>5, <1>6, <1>7, GoodsSettled DEF IInv

LEMMA EditLinesOK ==
    ASSUME InvoiceAssumption, IInv, NEW r \in Requests, NEW q \in Quantities, EditLines(r, q) PROVE IInv'
<1> DEFINE i == req[r].copy
           moves == i.status \notin {"draft", "proforma"}
           row == [i EXCEPT !.total = q, !.due = Larger(q - i.paid, 0)]
<1>1. /\ req[r].step = "read" /\ line.returned = 0 /\ End(r) /\ UNCHANGED payments
      /\ stock' = (IF moves THEN stock - line.qty + q ELSE stock)
      /\ line' = [qty |-> q, returned |-> 0, restocked |-> 0] /\ billed' = Larger(billed, q)
      /\ Save(r, "edit", row, moves = Out(inv) /\ ~HalfVoided)
  BY DEF EditLines, Doing
<1>2. i \in Copies /\ i \in InvType /\ ~i.deleted /\ i.paid \in Nat
  BY <1>1, ReadShape DEF IInv, Copies, Rows, InvType
<1>3. q \in Nat /\ q > 0 /\ billed \in Nat /\ billed \in Quantities
  BY Numbers DEF IInv, TypesOK
<1>4. Larger(q - i.paid, 0) \in Nat
  BY <1>2, <1>3 DEF Larger
<1> HIDE DEF i
<1>5. \A n \in Nat : LET new == [i EXCEPT !.total = q, !.due = n]
                     IN  /\ new \in InvType /\ new.total = q /\ new.due = n /\ new.paid = i.paid
                         /\ new.status = i.status /\ new.deleted = i.deleted
                         /\ new.deferred = i.deferred /\ new.fulfilled = i.fulfilled
  BY <1>2 DEF InvType
<1>6. /\ row \in InvType /\ row.total = q /\ row.due = Larger(q - i.paid, 0) /\ row.paid = i.paid
      /\ row.status = i.status /\ row.deleted = i.deleted
      /\ row.deferred = i.deferred /\ row.fulfilled = i.fulfilled
  BY <1>4, <1>5
<1>7. row \in Rows /\ Out(row) = Out(i)
  BY <1>6 DEF Rows, Out
<1> HIDE DEF row
<1>8. /\ inv' = row /\ lapses' \subseteq Causes
      /\ "stale" \notin lapses' => "stale" \notin lapses /\ i = inv
      /\ lapses' = {} => lapses = {} /\ moves = Out(inv) /\ ~HalfVoided /\ i = inv
  BY <1>1, SaveOK DEF IInv, Operations, i
<1>9. req' \in [Requests -> Works] /\ HalfVoided' = HalfVoided
  BY <1>1, EndedReading DEF IInv
<1>10. line' \in LineType /\ line'.qty = q /\ line'.restocked = 0 /\ line'.returned = 0
  BY <1>1 DEF LineType
<1>11. billed' \in Quantities /\ billed' >= billed /\ billed' >= q /\ billed' \in Nat
  BY <1>1, <1>3 DEF Larger
<1>12. stock \in Int /\ line.qty \in Nat /\ line.restocked = 0
  BY <1>1, LineShape
<1>13. stock' \in Int
  BY <1>1, <1>3, <1>12
<1>14. TypesOK'
  BY <1>1, <1>7, <1>8, <1>9, <1>10, <1>11, <1>13 DEF IInv, TypesOK
<1>15. MoneyOK'
  <2>1. payments \in Nat
    BY DEF IInv, TypesOK
  <2> QED BY <1>1, <1>2, <1>3, <1>6, <1>8, <1>11, <2>1 DEF IInv, MoneyOK
<1>16. ReturnedWithinSold'
  BY <1>3, <1>10 DEF ReturnedWithinSold
<1>17. ASSUME lapses' = {} PROVE ~HalfVoided' /\ stock' = Taken'
  <2>1. stock = Taken /\ moves = Out(inv) /\ Out(inv)' = Out(inv) /\ ~HalfVoided'
    BY <1>7, <1>8, <1>9, <1>17, LineShape DEF Out
  <2>2. CASE Out(inv)
    <3>1. moves /\ Out(inv)'
      BY <2>1, <2>2
    <3>2. Taken = line.qty /\ Taken' = q
      BY <1>3, <1>10, <1>12, <2>2, <3>1 DEF Taken
    <3>3. stock' = stock - line.qty + q
      BY <1>1, <3>1
    <3> QED BY <1>3, <1>12, <2>1, <3>2, <3>3
  <2>3. CASE ~Out(inv)
    <3>1. ~moves /\ ~Out(inv)'
      BY <2>1, <2>3
    <3> QED BY <1>1, <2>1, <2>3, <3>1 DEF Taken
  <2> QED BY <2>2, <2>3
<1> QED BY <1>14, <1>15, <1>16, <1>17, GoodsSettled DEF IInv

LEMMA PatchOK ==
    ASSUME InvoiceAssumption, IInv, NEW r \in Requests, NEW status \in Statuses, Patch(r, status) PROVE IInv'
<1> DEFINE i == req[r].copy
           row == [i EXCEPT !.status = status]
<1>1. /\ req[r].step = "read" /\ End(r) /\ UNCHANGED <<line, payments, stock, billed>>
      /\ Save(r, "patch", row, Out(row) = Out(i))
  BY DEF Patch, Doing
<1>2. i \in Copies /\ i \in InvType /\ ~i.deleted /\ i.due = Larger(i.total - i.paid, 0)
  BY <1>1, ReadShape DEF IInv, Copies, Rows
<1> HIDE DEF i
<1>3. /\ row \in InvType /\ row.total = i.total /\ row.due = i.due /\ row.paid = i.paid
      /\ row.deleted = i.deleted
  BY <1>2 DEF InvType
<1>4. row \in Rows
  BY <1>2, <1>3 DEF Rows
<1> HIDE DEF row
<1>5. /\ inv' = row /\ lapses' \subseteq Causes
      /\ "stale" \notin lapses' => "stale" \notin lapses /\ i = inv
      /\ lapses' = {} => lapses = {} /\ Out(row) = Out(i) /\ i = inv
  <2>1. lapses \subseteq Causes /\ i = req[r].copy
    BY DEF IInv, TypesOK, i
  <2> QED BY <1>1, <2>1 DEF Save, Causes, Operations
<1>6. req' \in [Requests -> Works]
  BY <1>1, EndedReading DEF IInv
<1>7. TypesOK' /\ MoneyOK'
  BY <1>1, <1>2, <1>3, <1>4, <1>5, <1>6 DEF IInv, TypesOK, MoneyOK
<1>8. lapses' = {} => lapses = {} /\ Out(inv)' = Out(inv)
  BY <1>5 DEF Out
<1> QED BY <1>1, <1>7, <1>8, GoodsKept DEF IInv

LEMMA MarkOverdueOK == ASSUME InvoiceAssumption, IInv, MarkOverdue PROVE IInv'
<1>1. /\ inv.status \in {"confirmed", "partially_paid", "credit"} /\ inv' = [inv EXCEPT !.status = "overdue"]
      /\ UNCHANGED <<line, payments, stock, req, billed, lapses>>
  BY DEF MarkOverdue
<1>2. /\ inv' \in Rows /\ inv'.total = inv.total /\ inv'.paid = inv.paid /\ inv'.deleted = inv.deleted
      /\ Out(inv)' = Out(inv)
  <2>1. "overdue" \in Statuses
    BY DEF Statuses
  <2> QED BY <1>1, <2>1, StatusOnly DEF IInv, Out
<1>3. TypesOK' /\ MoneyOK'
  BY <1>1, <1>2 DEF IInv, TypesOK, MoneyOK
<1>4. GoodsOK'
  BY <1>1, <1>2 DEF IInv, GoodsOK, ReturnedWithinSold, HalfVoided, Restocked, Taken
<1> QED BY <1>3, <1>4 DEF IInv

-----------------------------------------------------------------------------

LEMMA Initially == ASSUME InvoiceAssumption, Init PROVE IInv
<1>1. PICK q \in Quantities, deferred \in BOOLEAN : \E paid \in 0..q :
      \E status \in {"proforma", "confirmed", "credit", "partially_paid", "paid"} :
        /\ inv = Created(status, deferred, q, paid)
        /\ line = [qty |-> q, returned |-> 0, restocked |-> 0]
        /\ payments = paid /\ billed = q
        /\ stock = (IF deferred \/ status = "proforma" THEN 0 ELSE q)
        /\ req = [r \in Requests |-> Idle] /\ lapses = {}
  BY DEF Init
<1>2. PICK paid \in 0..q, status \in {"proforma", "confirmed", "credit", "partially_paid", "paid"} :
        /\ inv = Created(status, deferred, q, paid)
        /\ line = [qty |-> q, returned |-> 0, restocked |-> 0]
        /\ payments = paid /\ billed = q
        /\ stock = (IF deferred \/ status = "proforma" THEN 0 ELSE q)
        /\ req = [r \in Requests |-> Idle] /\ lapses = {}
  BY <1>1
<1>3. q \in Nat /\ paid \in Nat /\ paid <= q /\ q - paid \in Nat
  BY Numbers
<1>4. inv \in InvType /\ inv.total = q /\ inv.paid = paid /\ inv.due = q - paid
  BY <1>2, <1>3 DEF Created, InvType, Statuses
<1>5. inv \in Rows
  BY <1>3, <1>4 DEF Rows, Larger
<1>6. line \in LineType /\ stock \in Int /\ req \in [Requests -> Works]
  BY <1>2, <1>3 DEF LineType, Works
<1>7. TypesOK /\ MoneyOK
  BY <1>2, <1>3, <1>4, <1>5, <1>6 DEF TypesOK, MoneyOK
<1>8. \A r \in Requests : ~Restocked(r)
  BY <1>2 DEF Restocked, Idle
<1>9. stock = Taken
  BY <1>2, <1>3 DEF Taken, Out, Created
<1> QED BY <1>2, <1>3, <1>7, <1>8, <1>9 DEF IInv, GoodsOK, ReturnedWithinSold

LEMMA HandleOK == ASSUME InvoiceAssumption, IInv, NEW r \in Requests, Handle(r) PROVE IInv'
<1>1. CASE \E op \in Operations : Begin(r, op)
  BY <1>1, BeginOK
<1>2. CASE \E n \in Amounts : Pay(r, n)
  BY <1>2, PayOK
<1>3. CASE \E n \in Amounts, restock \in BOOLEAN : ProcessReturn(r, n, restock)
  BY <1>3, ProcessReturnOK
<1>4. CASE Fulfill(r) \/ ConfirmProforma(r)
  BY <1>4, FulfillOK, ConfirmProformaOK
<1>5. CASE Void(r) \/ MarkVoided(r) \/ VoidInterrupted(r)
  BY <1>5, VoidOK, MarkVoidedOK, VoidInterruptedOK
<1>6. CASE DeleteInvoice(r) \/ Destroy(r) \/ Refuse(r)
  BY <1>6, DeleteInvoiceOK, DestroyOK, RefuseOK
<1>7. CASE \E q \in Quantities : EditLines(r, q)
  BY <1>7, EditLinesOK
<1>8. CASE \E status \in Statuses : Patch(r, status)
  BY <1>8, PatchOK
<1> QED BY <1>1, <1>2, <1>3, <1>4, <1>5, <1>6, <1>7, <1>8 DEF Handle

LEMMA Steps == ASSUME InvoiceAssumption, IInv, [Next]_vars PROVE IInv'
<1>1. CASE MarkOverdue
  BY <1>1, MarkOverdueOK
<1>2. CASE \E r \in Requests : Handle(r)
  BY <1>2, HandleOK
<1>3. CASE UNCHANGED vars
  <2>1. TypesOK' /\ MoneyOK'
    BY <1>3 DEF vars, IInv, TypesOK, MoneyOK
  <2>2. GoodsOK'
    BY <1>3 DEF vars, IInv, GoodsOK, ReturnedWithinSold, HalfVoided, Restocked, Taken, Out
  <2> QED BY <2>1, <2>2 DEF IInv
<1> QED BY <1>1, <1>2, <1>3 DEF Next

\* The inductive invariant: types, money and goods together.
THEOREM InvoiceInvariance == Spec => []IInv
BY InvoiceAssumption, Initially, Steps, PTL DEF Spec

\* Whatever requests race over an invoice, what it says it was paid is the sum of its
\* payments and no more than was billed, as long as no stale copy was saved over it.
THEOREM MoneyIsRight == Spec => []MoneyAgrees
<1>1. ASSUME IInv PROVE MoneyAgrees
  <2>1. PaymentsAgree
    BY <1>1 DEF IInv, MoneyOK, PaymentsAgree
  <2>2. NeverOverpaid
    BY <1>1 DEF IInv, MoneyOK, NeverOverpaid
  <2> QED BY <2>1, <2>2 DEF MoneyAgrees
<1> QED BY <1>1, InvoiceInvariance, PTL

\* The goods an invoice has out are those its line sold and did not get back, unless one
\* of the unguarded operations ran where it should not; no more comes back than was sold.
THEOREM GoodsAreRight == Spec => []GoodsAgree
<1>1. ASSUME IInv PROVE GoodsAgree
  BY <1>1 DEF IInv, GoodsOK, GoodsAgree, StockAgrees, Taken
<1> QED BY <1>1, InvoiceInvariance, PTL

\* The variables keep their types.
THEOREM InvoiceTypes == Spec => []TypeOK
<1>1. ASSUME IInv PROVE TypeOK
  <2>1. inv \in InvType /\ line \in LineType
    BY <1>1 DEF IInv, TypesOK, Rows
  <2>2. \A r \in Requests : req[r].step \in {"idle", "read", "restocked"}
    <3>1. \A w \in Works : w.step \in {"idle", "read", "restocked"}
      BY DEF Works, Idle
    <3> QED BY <1>1, <3>1 DEF IInv, TypesOK
  <2> QED BY <1>1, <2>1, <2>2 DEF IInv, TypesOK, TypeOK, InvType, LineType
<1> QED BY <1>1, InvoiceInvariance, PTL

-----------------------------------------------------------------------------
(* The shop page.                                                          *)

WebRow == [status : S!Statuses \cup {S!None}, fulfilment : S!Fulfilments, phone : Phones \cup {S!None},
           sale : {S!None, "pos", "invoice"}, line : Nat, total : Nat]
WebWorks == {S!Idle} \cup [step : {"accept"}, order : WebOrders, known : BOOLEAN]

WebTypes ==
    /\ web \in [WebOrders -> WebRow] /\ product \in Prices /\ buyers \in [Phones -> Nat]
    /\ webSold \in [WebOrders -> {0, 1}] /\ webCharge \in [WebOrders -> Nat]
    /\ webWork \in [Requests -> WebWorks] /\ webRequests \in 0..MaxOrdered

\* What a row says, of the sales made from it, what the last charged and what happened to it.
WebRowOK(r, n, c, byHand) ==
    /\ r.status = S!None => r.sale = S!None
    /\ r.status # S!None => r.phone \in Phones /\ (r.fulfilment # "delivery" => r.total = r.line)
    /\ r.sale # S!None <=> n = 1
    /\ n = 1 => c = r.line
    /\ ~byHand => (r.status \in S!Sold <=> n = 1)
WebRowsOK == \A o \in WebOrders : WebRowOK(web[o], webSold[o], webCharge[o], S!Lapsed(o, "by hand"))

\* Whoever accepts an order holds its lock, and it is still to be accepted.
WebLocksOK ==
    \A w \in Requests : webWork[w].step = "accept" =>
        /\ S!Acceptable(web[webWork[w].order])
        /\ \A v \in Requests : webWork[v].step = "accept" /\ webWork[v].order = webWork[w].order => v = w

WebCounted ==
    /\ \A w \in Requests : webWork[w].step = "accept" => webRequests >= 1
    /\ \A o \in WebOrders : webSold[o] = 1 => webRequests >= 1
BuyersOK == \A f \in Phones : buyers[f] > 1 => S!Lapsed(f, "twice new")

WebInv == WebTypes /\ WebRowsOK /\ WebLocksOK /\ WebCounted /\ BuyersOK

LEMMA WebInitOK == ASSUME S!ShopAssumption, S!Init PROVE WebInv
<1>1. WebTypes
  <2>1. S!NoOrder \in WebRow
    BY DEF S!NoOrder, WebRow, S!Fulfilments
  <2> QED BY <2>1 DEF S!Init, S!ShopAssumption, WebTypes, WebWorks
<1>2. WebRowsOK
  BY DEF S!Init, WebRowsOK, WebRowOK, S!NoOrder, S!None, S!Sold, S!Lapsed
<1>3. WebLocksOK /\ WebCounted /\ BuyersOK
  BY DEF S!Init, WebLocksOK, WebCounted, BuyersOK, S!Idle
<1> QED BY <1>1, <1>2, <1>3 DEF WebInv

LEMMA RepriceOK == ASSUME S!ShopAssumption, WebInv, NEW p \in Prices, S!Reprice(p) PROVE WebInv'
<1>1. UNCHANGED <<web, buyers, webSold, webCharge, webWork, webLapses>> /\ product' \in Prices
  BY DEF S!Reprice, S!shop
<1>2. webRequests' \in 0..MaxOrdered /\ webRequests' >= webRequests
  BY DEF S!Reprice, S!Request, S!ShopAssumption, WebInv, WebTypes
<1>3. WebTypes'
  BY <1>1, <1>2 DEF WebInv, WebTypes
<1>4. WebRowsOK' /\ WebLocksOK' /\ BuyersOK'
  BY <1>1 DEF WebInv, WebRowsOK, WebLocksOK, BuyersOK, S!Lapsed
<1>5. WebCounted'
  BY <1>1, <1>2 DEF WebInv, WebTypes, WebCounted
<1> QED BY <1>3, <1>4, <1>5 DEF WebInv

\* The others are as they were.
LEMMA PlaceOK ==
    ASSUME S!ShopAssumption, WebInv, NEW o \in WebOrders, NEW f \in Phones, NEW x \in S!Fulfilments, S!Place(o, f, x)
    PROVE  WebInv'
<1> DEFINE new == [status |-> "placed", fulfilment |-> x, phone |-> f, sale |-> S!None, line |-> product,
                   total |-> product + (IF x = "delivery" THEN Fee ELSE 0)]
<1>1. /\ web[o].status = S!None /\ web' = [web EXCEPT ![o] = new]
      /\ UNCHANGED <<product, buyers, webSold, webCharge, webWork, webRequests, webLapses>>
  BY DEF S!Place
<1>2. new \in WebRow /\ new.status # S!None /\ (x # "delivery" => new.total = new.line)
  BY DEF WebInv, WebTypes, S!ShopAssumption, WebRow, S!Statuses, S!None
<1>3. WebTypes'
  BY <1>1, <1>2 DEF WebInv, WebTypes
<1>4. WebRowsOK'
  <2>1. web[o].sale = S!None /\ webSold[o] = 0
    BY <1>1 DEF WebInv, WebRowsOK, WebRowOK, WebTypes
  <2>2. WebRowOK(new, 0, webCharge[o], S!Lapsed(o, "by hand"))
    BY <1>2 DEF WebRowOK, S!Sold, S!None
  <2> HIDE DEF new
  <2>3. web'[o] = new /\ \A u \in WebOrders \ {o} : web'[u] = web[u]
    BY <1>1 DEF WebInv, WebTypes
  <2> QED BY <1>1, <2>1, <2>2, <2>3 DEF WebInv, WebRowsOK, S!Lapsed
<1>5. WebLocksOK'
  <2>1. ASSUME NEW w \in Requests, webWork[w].step = "accept" PROVE webWork[w].order # o
    BY <1>1, <2>1 DEF WebInv, WebLocksOK, S!Acceptable, S!None
  <2>2. \A w \in Requests : webWork[w].step = "accept" => web'[webWork[w].order] = web[webWork[w].order]
    BY <1>1, <2>1 DEF WebInv, WebTypes
  <2> QED BY <1>1, <2>2 DEF WebInv, WebLocksOK, S!Acceptable
<1>6. WebCounted' /\ BuyersOK'
  BY <1>1 DEF WebInv, WebCounted, BuyersOK, S!Lapsed
<1> QED BY <1>3, <1>4, <1>5, <1>6 DEF WebInv

LEMMA AcceptingShape ==
    ASSUME WebTypes, NEW w \in Requests, webWork[w].step = "accept"
    PROVE  webWork[w] \in [step : {"accept"}, order : WebOrders, known : BOOLEAN] /\ webWork[w].order \in WebOrders
<1>1. webWork[w] \in WebWorks /\ webWork[w] # S!Idle
  BY DEF WebTypes, S!Idle
<1> QED BY <1>1 DEF WebWorks

LEMMA BeginAcceptOK == ASSUME S!ShopAssumption, WebInv, NEW w \in Requests, NEW o \in WebOrders, S!BeginAccept(w, o) PROVE WebInv'
<1> DEFINE new == [step |-> "accept", order |-> o, known |-> buyers[web[o].phone] > 0]
<1>1. /\ ~S!Held(o) /\ S!Acceptable(web[o]) /\ webWork' = [webWork EXCEPT ![w] = new]
      /\ webRequests < MaxOrdered /\ webRequests' = webRequests + 1
      /\ UNCHANGED <<web, product, buyers, webSold, webCharge, webLapses>>
  BY DEF S!BeginAccept, S!Request, S!shop
<1>2. web[o].phone \in Phones
  BY <1>1 DEF S!Acceptable, WebInv, WebRowsOK, WebRowOK, S!None
<1>3. WebTypes'
  <2>1. new \in WebWorks
    BY <1>2 DEF WebInv, WebTypes, WebWorks
  <2>2. webRequests' \in 0..MaxOrdered
    BY <1>1 DEF S!ShopAssumption, WebInv, WebTypes
  <2> QED BY <1>1, <2>1, <2>2 DEF WebInv, WebTypes
<1>4. WebRowsOK' /\ BuyersOK'
  BY <1>1 DEF WebInv, WebRowsOK, BuyersOK, S!Lapsed
<1>5. webWork'[w] = new /\ \A v \in Requests \ {w} : webWork'[v] = webWork[v]
  BY <1>1 DEF WebInv, WebTypes
<1>6. WebLocksOK'
  <2>1. \A v \in Requests : webWork[v].step = "accept" => webWork[v].order # o
    BY <1>1 DEF S!Held, S!At
  <2> QED BY <1>1, <1>5, <2>1 DEF WebInv, WebLocksOK, S!Acceptable
<1>7. WebCounted'
  <2>1. webRequests' >= 1 /\ webRequests \in Nat
    BY <1>1 DEF S!ShopAssumption, WebInv, WebTypes
  <2> QED BY <1>1, <2>1 DEF WebInv, WebCounted
<1> QED BY <1>3, <1>4, <1>6, <1>7 DEF WebInv

\* A lock is given back.
LEMMA WebLockEnds ==
    ASSUME WebInv, NEW w \in Requests, webWork[w].step = "accept", S!Finished(w),
           \A o \in WebOrders : o # webWork[w].order => web'[o] = web[o]
    PROVE  webWork' \in [Requests -> WebWorks] /\ WebLocksOK'
<1>1. webWork' = [webWork EXCEPT ![w] = S!Idle]
  BY DEF S!Finished
<1>2. webWork' \in [Requests -> WebWorks]
  BY <1>1 DEF WebInv, WebTypes, WebWorks
<1>3. webWork'[w] = S!Idle /\ \A v \in Requests \ {w} : webWork'[v] = webWork[v]
  BY <1>1 DEF WebInv, WebTypes
<1>4. \A v \in Requests \ {w} : webWork[v].step = "accept" =>
          webWork[v].order # webWork[w].order /\ webWork[v].order \in WebOrders
  BY AcceptingShape DEF WebInv, WebLocksOK
<1>5. \A v \in Requests \ {w} : webWork[v].step = "accept" => web'[webWork[v].order] = web[webWork[v].order]
  BY <1>4
<1>6. WebLocksOK'
  BY <1>3, <1>5 DEF WebInv, WebLocksOK, S!Acceptable, S!Idle
<1> QED BY <1>2, <1>6

LEMMA AcceptOK == ASSUME S!ShopAssumption, WebInv, NEW w \in Requests, S!Accept(w) PROVE WebInv'
<1> DEFINE o == webWork[w].order
           f == web[o].phone
           adds == S!Becomes(web[o]) = "invoice" /\ ~webWork[w].known
           new == [web[o] EXCEPT !.status = "confirmed", !.sale = S!Becomes(web[o])]
<1>1. /\ webWork[w].step = "accept" /\ S!Finished(w)
      /\ webSold' = [webSold EXCEPT ![o] = @ + 1] /\ webCharge' = [webCharge EXCEPT ![o] = web[o].line]
      /\ web' = [web EXCEPT ![o].status = "confirmed", ![o].sale = S!Becomes(web[o])]
      /\ buyers' = IF adds THEN [buyers EXCEPT ![f] = @ + 1] ELSE buyers
      /\ webLapses' = webLapses \cup S!Lapse(adds /\ buyers[f] > 0, "twice new", f)
      /\ UNCHANGED <<product, webRequests>>
  BY DEF S!Accept, S!At, S!Price
<1>2. o \in WebOrders /\ web[o] \in WebRow
  BY <1>1, AcceptingShape DEF WebInv, WebTypes
<1>3. web[o].status = "placed" /\ web[o].sale = S!None
  BY <1>1 DEF WebInv, WebLocksOK, S!Acceptable
<1>4. webSold[o] = 0 /\ f \in Phones /\ (web[o].fulfilment # "delivery" => web[o].total = web[o].line)
  <2>1. WebRowOK(web[o], webSold[o], webCharge[o], S!Lapsed(o, "by hand"))
    BY <1>2 DEF WebInv, WebRowsOK
  <2> QED BY <1>2, <1>3, <2>1 DEF WebRowOK, WebInv, WebTypes, S!None
<1>5. S!Becomes(web[o]) \in {"pos", "invoice"}
  BY DEF S!Becomes
<1>6. new \in WebRow
  BY <1>2, <1>5 DEF WebRow, S!Statuses
<1>7. web' = [web EXCEPT ![o] = new]
  BY <1>1, <1>2 DEF WebInv, WebTypes
<1>sold. webSold' = [webSold EXCEPT ![o] = 1]
  <2>1. webSold' = [webSold EXCEPT ![o] = @ + 1]
    BY <1>1
  <2> HIDE DEF o
  <2>2. webSold \in [WebOrders -> {0, 1}]
    BY DEF WebInv, WebTypes
  <2> QED BY <1>2, <1>4, <2>1, <2>2
<1>8. /\ web'[o] = new /\ \A u \in WebOrders \ {o} : web'[u] = web[u]
      /\ webSold'[o] = 1 /\ \A u \in WebOrders \ {o} : webSold'[u] = webSold[u]
      /\ webCharge'[o] = web[o].line /\ \A u \in WebOrders \ {o} : webCharge'[u] = webCharge[u]
  <2> HIDE DEF new, o
  <2>1. web'[o] = new /\ \A u \in WebOrders \ {o} : web'[u] = web[u]
    BY <1>2, <1>7 DEF WebInv, WebTypes
  <2>2. webSold'[o] = 1 /\ \A u \in WebOrders \ {o} : webSold'[u] = webSold[u]
    BY <1>2, <1>sold DEF WebInv, WebTypes
  <2>3. webCharge'[o] = web[o].line /\ \A u \in WebOrders \ {o} : webCharge'[u] = webCharge[u]
    BY <1>1, <1>2 DEF WebInv, WebTypes
  <2> QED BY <2>1, <2>2, <2>3
<1>9. webWork' \in [Requests -> WebWorks] /\ WebLocksOK'
  BY <1>1, <1>8, WebLockEnds
<1>10. WebTypes'
  <2>1. web[o].line \in Nat
    BY <1>2 DEF WebRow
  <2>2. webCharge' \in [WebOrders -> Nat] /\ webSold' \in [WebOrders -> {0, 1}] /\ web' \in [WebOrders -> WebRow]
    <3> HIDE DEF new, o
    <3>1. web' \in [WebOrders -> WebRow]
      BY <1>2, <1>6, <1>7 DEF WebInv, WebTypes
    <3>2. webSold' \in [WebOrders -> {0, 1}]
      BY <1>2, <1>sold DEF WebInv, WebTypes
    <3>3. webCharge' \in [WebOrders -> Nat]
      BY <1>1, <1>2, <2>1 DEF WebInv, WebTypes
    <3> QED BY <3>1, <3>2, <3>3
  <2>3. buyers' \in [Phones -> Nat]
    <3> HIDE DEF adds, f
    <3>1. [buyers EXCEPT ![f] = @ + 1] \in [Phones -> Nat]
      BY <1>4 DEF WebInv, WebTypes
    <3> QED BY <1>1, <3>1 DEF WebInv, WebTypes
  <2> QED BY <1>1, <1>9, <2>2, <2>3 DEF WebInv, WebTypes
<1>11. WebRowsOK'
  <2>1. WebRowOK(new, 1, web[o].line, S!Lapsed(o, "by hand"))
    <3>1. new.status = "confirmed" /\ new.sale # S!None /\ new.line = web[o].line /\ new.total = web[o].total
          /\ new.phone = f /\ new.fulfilment = web[o].fulfilment
      BY <1>2, <1>5 DEF WebRow, S!None
    <3> HIDE DEF new, f
    <3> QED BY <1>4, <3>1 DEF WebRowOK, S!None, S!Sold
  <2>2. \A u \in WebOrders : S!Lapsed(u, "by hand")' <=> S!Lapsed(u, "by hand")
    BY <1>1 DEF S!Lapse, S!Lapsed
  <2> HIDE DEF new, o
  <2>3. ASSUME NEW u \in WebOrders PROVE WebRowOK(web'[u], webSold'[u], webCharge'[u], S!Lapsed(u, "by hand")')
    <3>1. CASE u = o
      BY <1>8, <2>1, <2>2, <3>1 DEF WebRowOK
    <3>2. CASE u # o
      <4>1. WebRowOK(web[u], webSold[u], webCharge[u], S!Lapsed(u, "by hand"))
        BY DEF WebInv, WebRowsOK
      <4> QED BY <1>8, <2>2, <3>2, <4>1 DEF WebRowOK
    <3> QED BY <3>1, <3>2
  <2> QED BY <2>3 DEF WebRowsOK
<1>12. BuyersOK'
  <2>1. ASSUME NEW g \in Phones, buyers'[g] > 1 PROVE S!Lapsed(g, "twice new")'
    <3>1. CASE buyers[g] > 1
      BY <1>1, <3>1 DEF WebInv, BuyersOK, S!Lapsed
    <3>2. CASE ~(buyers[g] > 1)
      <4>1. adds /\ g = f /\ buyers[f] > 0
        <5> HIDE DEF adds, f
        <5>1. buyers \in [Phones -> Nat] /\ buyers'[g] # buyers[g]
          BY <2>1, <3>2 DEF WebInv, WebTypes
        <5>2. adds /\ buyers' = [buyers EXCEPT ![f] = @ + 1]
          BY <1>1, <5>1
        <5>3. g = f
          BY <5>1, <5>2
        <5> QED BY <1>4, <2>1, <5>1, <5>2, <5>3
      <4> QED BY <1>1, <4>1 DEF S!Lapse, S!Lapsed
    <3> QED BY <3>1, <3>2
  <2> QED BY <2>1 DEF BuyersOK
<1>13. WebCounted'
  <2>1. webRequests' >= 1
    BY <1>1 DEF WebInv, WebCounted
  <2> QED BY <2>1 DEF WebCounted
<1> QED BY <1>9, <1>10, <1>11, <1>12, <1>13 DEF WebInv

LEMMA FailAcceptOK == ASSUME S!ShopAssumption, WebInv, NEW w \in Requests, S!FailAccept(w) PROVE WebInv'
<1>1. /\ webWork[w].step = "accept" /\ S!Finished(w)
      /\ UNCHANGED <<web, buyers, product, webSold, webCharge, webRequests, webLapses>>
  BY DEF S!FailAccept, S!At, S!shop
<1>2. webWork' \in [Requests -> WebWorks] /\ WebLocksOK'
  BY <1>1, WebLockEnds
<1>3. WebTypes'
  BY <1>1, <1>2 DEF WebInv, WebTypes
<1>4. WebRowsOK' /\ BuyersOK'
  BY <1>1 DEF WebInv, WebRowsOK, BuyersOK, S!Lapsed
<1>5. WebCounted'
  <2>1. webRequests >= 1
    BY <1>1 DEF WebInv, WebCounted
  <2> QED BY <1>1, <2>1 DEF WebCounted
<1> QED BY <1>2, <1>3, <1>4, <1>5 DEF WebInv

LEMMA SetStatusOK == ASSUME S!ShopAssumption, WebInv, NEW o \in WebOrders, NEW s \in S!Statuses, S!SetStatus(o, s) PROVE WebInv'
<1> DEFINE new == [web[o] EXCEPT !.status = s]
<1>1. /\ web[o].status # S!None /\ ~S!Held(o) /\ webRequests < MaxOrdered /\ webRequests' = webRequests + 1
      /\ web' = [web EXCEPT ![o].status = s]
      /\ webLapses' = webLapses \cup S!Lapse((web[o].sale # S!None) # (s \in S!Sold), "by hand", o)
      /\ UNCHANGED <<product, buyers, webSold, webCharge, webWork>>
  BY DEF S!SetStatus, S!Request
<1>2. web[o] \in WebRow /\ web' = [web EXCEPT ![o] = new]
  BY <1>1 DEF WebInv, WebTypes
<1>3. new \in WebRow /\ s # S!None /\ new.status = s
  BY <1>2 DEF WebRow, S!Statuses, S!None
<1>4. new.phone = web[o].phone /\ new.sale = web[o].sale /\ new.line = web[o].line /\ new.total = web[o].total
      /\ new.fulfilment = web[o].fulfilment
  BY <1>2 DEF WebRow
<1> HIDE DEF new
<1>5. web'[o] = new /\ \A u \in WebOrders \ {o} : web'[u] = web[u]
  BY <1>2 DEF WebInv, WebTypes
<1>6. WebTypes' /\ webRequests' >= 1
  <2>1. webRequests < MaxOrdered /\ webRequests' = webRequests + 1
    BY <1>1
  <2>2. webRequests' \in 0..MaxOrdered /\ webRequests' >= 1
    BY <2>1 DEF S!ShopAssumption, WebInv, WebTypes
  <2> QED BY <1>1, <1>2, <1>3, <2>2 DEF WebInv, WebTypes
<1>7. WebRowsOK'
  <2>1. ASSUME NEW u \in WebOrders PROVE WebRowOK(web'[u], webSold'[u], webCharge'[u], S!Lapsed(u, "by hand")')
    <3>1. WebRowOK(web[u], webSold[u], webCharge[u], S!Lapsed(u, "by hand"))
      BY DEF WebInv, WebRowsOK
    <3>2. CASE u = o
      <4>1. ~S!Lapsed(o, "by hand")' => (web[o].sale # S!None) = (s \in S!Sold)
        BY <1>1 DEF S!Lapse, S!Lapsed
      <4> QED BY <1>1, <1>3, <1>4, <1>5, <3>1, <3>2, <4>1 DEF WebRowOK
    <3>3. CASE u # o
      <4>1. ~S!Lapsed(u, "by hand")' => ~S!Lapsed(u, "by hand")
        BY <1>1 DEF S!Lapsed
      <4> QED BY <1>1, <1>5, <3>1, <3>3, <4>1 DEF WebRowOK
    <3> QED BY <3>2, <3>3
  <2> QED BY <2>1 DEF WebRowsOK
<1>8. WebLocksOK'
  <2>1. \A w \in Requests : webWork[w].step = "accept" => webWork[w].order # o /\ webWork[w].order \in WebOrders
    BY <1>1, AcceptingShape DEF S!Held, S!At, WebInv
  <2>2. \A w \in Requests : webWork[w].step = "accept" => web'[webWork[w].order] = web[webWork[w].order]
    BY <1>5, <2>1
  <2>3. webWork' = webWork
    BY <1>1
  <2> QED BY <2>2, <2>3 DEF WebInv, WebLocksOK, S!Acceptable
<1>9. BuyersOK'
  BY <1>1 DEF WebInv, BuyersOK, S!Lapsed
<1>10. WebCounted'
  BY <1>6 DEF WebCounted
<1> QED BY <1>6, <1>7, <1>8, <1>9, <1>10 DEF WebInv

LEMMA WebStepOK == ASSUME S!ShopAssumption, WebInv, [S!Next]_(S!vars) PROVE WebInv'
<1>1. CASE UNCHANGED S!vars
  BY <1>1 DEF S!vars, WebInv, WebTypes, WebRowsOK, WebLocksOK, WebCounted, BuyersOK, S!Lapsed, S!Acceptable
<1>2. CASE \E p \in Prices : S!Reprice(p)
  BY <1>2, RepriceOK
<1>3. CASE \E o \in WebOrders : \E f \in Phones, x \in S!Fulfilments : S!Place(o, f, x)
  BY <1>3, PlaceOK
<1>4. CASE \E o \in WebOrders : \E s \in S!Statuses : S!SetStatus(o, s)
  BY <1>4, SetStatusOK
<1>5. CASE \E o \in WebOrders : \E w \in Requests : S!BeginAccept(w, o)
  BY <1>5, BeginAcceptOK
<1>6. CASE \E w \in Requests : S!Accept(w) \/ S!FailAccept(w)
  BY <1>6, AcceptOK, FailAcceptOK
<1> QED BY <1>1, <1>2, <1>3, <1>4, <1>5, <1>6 DEF S!Next

\* Whatever orders are placed, accepted at once, given statuses and priced, the invariant holds.
THEOREM ShopInvariance == S!Spec => []WebInv
<1>0. S!ShopAssumption
  BY TradeAssumption DEF TradeAssumption
<1>1. S!Init => WebInv
  BY <1>0, WebInitOK
<1>2. WebInv /\ [S!Next]_(S!vars) => WebInv'
  BY <1>0, WebStepOK
<1> QED BY <1>1, <1>2, PTL DEF S!Spec

LEMMA WebFollows == ASSUME S!ShopAssumption, WebInv PROVE S!ShopOrderSoldOnce /\ S!ChargedAsShown /\ S!TypeOK
<1>1. ASSUME NEW o \in WebOrders
      PROVE  /\ webSold[o] <= 1 /\ (web[o].sale # S!None <=> webSold[o] = 1)
             /\ ~S!Lapsed(o, "by hand") => (web[o].status \in S!Sold <=> webSold[o] = 1)
             /\ webSold[o] > 0 => webCharge[o] = web[o].line /\ (web[o].fulfilment # "delivery" => webCharge[o] = web[o].total)
  <2>1. WebRowOK(web[o], webSold[o], webCharge[o], S!Lapsed(o, "by hand"))
    BY DEF WebInv, WebRowsOK
  <2>2. webSold[o] = 0 \/ webSold[o] = 1
    BY DEF WebInv, WebTypes
  <2>3. webSold[o] <= 1 /\ (webSold[o] > 0 => webSold[o] = 1)
    BY <2>2
  <2>4. webSold[o] = 1 => web[o].status # S!None
    BY <2>1 DEF WebRowOK
  <2> QED BY <2>1, <2>3, <2>4 DEF WebRowOK
<1>2. webSold \in [WebOrders -> 0..MaxOrdered]
  BY DEF S!ShopAssumption, WebInv, WebTypes, WebCounted
<1> QED BY <1>1, <1>2 DEF WebInv, WebTypes, BuyersOK, WebRow, S!ShopOrderSoldOnce, S!ChargedAsShown, S!TypeOK

-----------------------------------------------------------------------------
(* The restaurant.                                                         *)

ServeRow == [status : R!Statuses \cup {R!None}, table : Tables \cup {R!None}, invoiced : BOOLEAN, deleted : BOOLEAN]
Handling == [op : {"add", "status", "kitchen", "patch", "delete", "finalize"}, order : Orders, seen : ServeRow]

ServeTypes ==
    /\ order \in [Orders -> ServeRow] /\ items \in [Orders -> {R!None, "unsold", "sold"}]
    /\ sales \in [Orders -> Nat] /\ receipt \subseteq Orders
    /\ table \in [Tables -> {"available", "occupied", "reserved"}]
    /\ orderWork \in [Requests -> {R!Idle} \cup Handling] /\ orderRequests \in 0..MaxServed

\* An order in the hands of a request exists, and did when it was loaded.
HandledOK ==
    \A w \in Requests : orderWork[w] # R!Idle =>
        orderWork[w].seen.status # R!None /\ order[orderWork[w].order].status # R!None

\* What a row says, of the sales made from it, of its receipt and of its items, after the
\* lapses that have happened: a sold order is completed.
ServedOK(r, n, booked, it, gone) ==
    /\ r.status = R!None => n = 0 /\ ~booked /\ ~r.invoiced
    /\ gone \cap {"stale", "reopened"} = {} =>
          n <= 1 /\ (booked <=> n = 1) /\ (r.invoiced <=> n = 1) /\ (n = 1 => it = "sold" /\ r.status = "completed")
    /\ gone \cap {"stale", "by hand"} = {} /\ r.status = "completed" => n > 0
OrdersOK == \A o \in Orders : ServedOK(order[o], sales[o], o \in receipt, items[o], orderLapses)

ServeInv == ServeTypes /\ HandledOK /\ OrdersOK /\ R!TableIsTaken

\* Fewer lapses, fewer excuses.
LEMMA ServedLater ==
    ASSUME NEW r, NEW n, NEW booked, NEW it, NEW gone, NEW later, gone \subseteq later, ServedOK(r, n, booked, it, gone)
    PROVE  ServedOK(r, n, booked, it, later)
BY DEF ServedOK

LEMMA ServeInitOK == ASSUME R!RestaurantAssumption, R!Init PROVE ServeInv
<1>1. ServeTypes
  <2>1. R!NoOrder \in ServeRow
    BY DEF R!NoOrder, ServeRow
  <2> QED BY <2>1 DEF R!Init, R!RestaurantAssumption, ServeTypes
<1>2. HandledOK
  BY DEF R!Init, HandledOK
<1>3. OrdersOK
  BY DEF R!Init, OrdersOK, ServedOK, R!NoOrder, R!None
<1>4. R!TableIsTaken
  BY DEF R!Init, R!TableIsTaken, R!Sits, R!Live, R!NoOrder
<1> QED BY <1>1, <1>2, <1>3, <1>4 DEF ServeInv

LEMMA TakeOrderOK ==
    ASSUME R!RestaurantAssumption, ServeInv, NEW o \in Orders, NEW t \in Tables \cup {R!None}, NEW filled \in BOOLEAN,
           R!Create(o, t, filled)
    PROVE  ServeInv'
<1> DEFINE new == [R!NoOrder EXCEPT !.status = "open", !.table = t]
<1>1. /\ order[o].status = R!None /\ order' = [order EXCEPT ![o] = new]
      /\ items' = [items EXCEPT ![o] = IF filled THEN "unsold" ELSE R!None]
      /\ table' = [x \in Tables |-> IF x = t THEN "occupied" ELSE table[x]]
      /\ UNCHANGED <<sales, receipt, orderWork, orderRequests, orderLapses>>
  BY DEF R!Create
<1>2. new \in ServeRow /\ new.status = "open" /\ new.table = t /\ ~new.invoiced /\ ~new.deleted
  BY DEF R!NoOrder, ServeRow, R!Statuses, R!Kitchen
<1> HIDE DEF new
<1>3. order'[o] = new /\ \A u \in Orders \ {o} : order'[u] = order[u]
  BY <1>1 DEF ServeInv, ServeTypes
<1>4. ServeTypes'
  <2>1. order' \in [Orders -> ServeRow]
    BY <1>1, <1>2 DEF ServeInv, ServeTypes
  <2>2. items' \in [Orders -> {R!None, "unsold", "sold"}]
    BY <1>1 DEF ServeInv, ServeTypes
  <2>3. table' \in [Tables -> {"available", "occupied", "reserved"}]
    BY <1>1 DEF ServeInv, ServeTypes
  <2> QED BY <1>1, <2>1, <2>2, <2>3 DEF ServeInv, ServeTypes
<1>5. HandledOK'
  <2>1. new.status # R!None
    BY <1>2 DEF R!None
  <2>2. \A w \in Requests : orderWork[w] # R!Idle => orderWork[w].order \in Orders
    BY DEF ServeInv, ServeTypes, Handling
  <2> QED BY <1>1, <1>3, <2>1, <2>2 DEF ServeInv, HandledOK
<1>6. OrdersOK'
  <2>1. ASSUME NEW u \in Orders PROVE ServedOK(order'[u], sales'[u], (u \in receipt)', items'[u], orderLapses')
    <3>1. ServedOK(order[u], sales[u], u \in receipt, items[u], orderLapses)
      BY DEF ServeInv, OrdersOK
    <3>2. CASE u = o
      <4>1. sales[o] = 0 /\ o \notin receipt
        BY <1>1, <3>1, <3>2 DEF ServedOK
      <4>2. ServedOK(new, 0, FALSE, items'[o], orderLapses')
        BY <1>2 DEF ServedOK
      <4>3. order'[u] = new /\ sales'[u] = 0 /\ ~(u \in receipt)'
        BY <1>1, <1>3, <3>2, <4>1
      <4> QED BY <3>2, <4>2, <4>3 DEF ServedOK
    <3>3. CASE u # o
      <4>1. items'[u] = items[u]
        BY <1>1, <3>3 DEF ServeInv, ServeTypes
      <4> QED BY <1>1, <1>3, <3>1, <3>3, <4>1
    <3> QED BY <3>2, <3>3
  <2> QED BY <2>1 DEF OrdersOK
<1>7. R!TableIsTaken'
  <2>1. ASSUME NEW u \in Orders, NEW x \in Tables, R!Sits(u, x)' PROVE x = t \/ R!Sits(u, x)
    BY <1>2, <1>3, <2>1 DEF R!Sits, R!Live
  <2> QED BY <1>1, <2>1 DEF ServeInv, R!TableIsTaken
<1> QED BY <1>4, <1>5, <1>6, <1>7 DEF ServeInv

LEMMA LoadOrderOK ==
    ASSUME R!RestaurantAssumption, ServeInv, NEW w \in Requests, NEW o \in Orders,
           NEW op \in {"add", "status", "kitchen", "patch", "delete", "finalize"}, R!Load(w, o, op)
    PROVE  ServeInv'
<1> DEFINE new == [op |-> op, order |-> o, seen |-> order[o]]
<1>1. /\ R!Live(o) /\ orderRequests < MaxServed /\ orderRequests' = orderRequests + 1
      /\ orderWork' = [orderWork EXCEPT ![w] = new]
      /\ UNCHANGED <<order, items, sales, receipt, table, orderLapses>>
  BY DEF R!Load
<1>2. new \in Handling
  BY DEF ServeInv, ServeTypes, Handling
<1>3. ServeTypes'
  <2>1. orderRequests' \in 0..MaxServed
    BY <1>1 DEF R!RestaurantAssumption, ServeInv, ServeTypes
  <2> QED BY <1>1, <1>2, <2>1 DEF ServeInv, ServeTypes
<1>4. HandledOK'
  BY <1>1 DEF R!Live, ServeInv, ServeTypes, HandledOK
<1>5. OrdersOK' /\ R!TableIsTaken'
  BY <1>1 DEF ServeInv, OrdersOK, R!TableIsTaken, R!Sits, R!Live
<1> QED BY <1>3, <1>4, <1>5 DEF ServeInv

\* A request ends and leaves a row that exists, of one order.
LEMMA HandledEnds ==
    ASSUME ServeInv, NEW w \in Requests, orderWork[w] # R!Idle, R!Finished(w),
           NEW new \in ServeRow, new.status # R!None, order' = [order EXCEPT ![orderWork[w].order] = new],
           UNCHANGED orderRequests
    PROVE  /\ orderWork[w] \in Handling /\ orderWork[w].order \in Orders /\ orderWork[w].seen \in ServeRow
           /\ orderWork' \in [Requests -> {R!Idle} \cup Handling] /\ order' \in [Orders -> ServeRow]
           /\ order'[orderWork[w].order] = new
           /\ \A u \in Orders \ {orderWork[w].order} : order'[u] = order[u]
           /\ HandledOK'
<1>1. orderWork[w] \in Handling
  BY DEF ServeInv, ServeTypes
<1>2. orderWork[w].order \in Orders /\ orderWork[w].seen \in ServeRow
  BY <1>1 DEF Handling
<1>3. orderWork' = [orderWork EXCEPT ![w] = R!Idle]
  BY DEF R!Finished
<1>4. orderWork' \in [Requests -> {R!Idle} \cup Handling]
  BY <1>3 DEF ServeInv, ServeTypes
<1>5. order' \in [Orders -> ServeRow] /\ order'[orderWork[w].order] = new
      /\ \A u \in Orders \ {orderWork[w].order} : order'[u] = order[u]
  BY <1>2 DEF ServeInv, ServeTypes
<1>6. HandledOK'
  <2>1. ASSUME NEW v \in Requests, orderWork'[v] # R!Idle
        PROVE  orderWork'[v].seen.status # R!None /\ order'[orderWork'[v].order].status # R!None
    <3>1. v # w /\ orderWork'[v] = orderWork[v]
      BY <1>3, <2>1 DEF ServeInv, ServeTypes
    <3>2. orderWork[v].seen.status # R!None /\ order[orderWork[v].order].status # R!None /\ orderWork[v].order \in Orders
      BY <2>1, <3>1 DEF ServeInv, HandledOK, ServeTypes, Handling
    <3> QED BY <1>5, <3>1, <3>2
  <2> QED BY <2>1 DEF HandledOK
<1> QED BY <1>1, <1>2, <1>4, <1>5, <1>6

\* What an order says settles it, if the others stay.
LEMMA OneOrder ==
    ASSUME ServeInv, NEW o \in Orders, orderLapses \subseteq orderLapses',
           \A u \in Orders \ {o} : order'[u] = order[u] /\ sales'[u] = sales[u] /\ items'[u] = items[u]
                                   /\ ((u \in receipt)' <=> u \in receipt),
           ServedOK(order'[o], sales'[o], (o \in receipt)', items'[o], orderLapses')
    PROVE  OrdersOK'
<1>1. ASSUME NEW u \in Orders PROVE ServedOK(order'[u], sales'[u], (u \in receipt)', items'[u], orderLapses')
  <2>1. ServedOK(order[u], sales[u], u \in receipt, items[u], orderLapses)
    BY DEF ServeInv, OrdersOK
  <2>2. CASE u # o
    BY <2>1, <2>2 DEF ServedOK
  <2> QED BY <2>2
<1> QED BY <1>1 DEF OrdersOK

LEMMA AddItemsOK == ASSUME ServeInv, NEW w \in Requests, R!AddItems(w) PROVE ServeInv'
<1> DEFINE o == orderWork[w].order
           seen == orderWork[w].seen
<1>1. /\ orderWork[w].op = "add" /\ R!Finished(w)
      /\ items' = IF seen.status \in R!Kitchen THEN [items EXCEPT ![o] = "unsold"] ELSE items
      /\ orderLapses' = orderLapses \cup R!Lapse(order[o] # seen, "stale")
      /\ UNCHANGED <<order, sales, receipt, table, orderRequests>>
  BY DEF R!AddItems, R!At, R!Overtaken
<1>2. orderWork[w] # R!Idle
  BY <1>1 DEF R!Idle
<1>3. o \in Orders /\ order[o] \in ServeRow /\ order[o].status # R!None /\ order' = [order EXCEPT ![o] = order[o]]
  BY <1>1, <1>2 DEF ServeInv, ServeTypes, Handling, HandledOK
<1>4. orderWork' \in [Requests -> {R!Idle} \cup Handling] /\ HandledOK'
  BY <1>1, <1>2, <1>3, HandledEnds
<1>5. items' \in [Orders -> {R!None, "unsold", "sold"}]
  BY <1>1, <1>3 DEF ServeInv, ServeTypes
<1>6. ServeTypes'
  BY <1>1, <1>4, <1>5 DEF ServeInv, ServeTypes
<1>7. orderLapses \subseteq orderLapses' /\ ("stale" \notin orderLapses' => order[o] = seen)
  BY <1>1 DEF R!Lapse
<1>8. OrdersOK'
  <2>1. ServedOK(order[o], sales[o], o \in receipt, items[o], orderLapses)
    BY <1>3 DEF ServeInv, OrdersOK
  <2>2. ServedOK(order[o], sales[o], o \in receipt, items'[o], orderLapses')
    <3>1. CASE orderLapses' \cap {"stale", "reopened"} # {}
      BY <1>7, <2>1, <3>1 DEF ServedOK
    <3>2. CASE orderLapses' \cap {"stale", "reopened"} = {} /\ seen.status \in R!Kitchen
      BY <1>7, <2>1, <3>2 DEF ServedOK, R!Kitchen
    <3>3. CASE seen.status \notin R!Kitchen
      BY <1>1, <1>7, <2>1, <3>3 DEF ServedOK
    <3> QED BY <3>1, <3>2, <3>3
  <2>3. \A u \in Orders \ {o} : items'[u] = items[u]
    BY <1>1, <1>3 DEF ServeInv, ServeTypes
  <2> HIDE DEF o, seen
  <2> QED BY <1>1, <1>3, <1>7, <2>2, <2>3, OneOrder
<1>9. R!TableIsTaken'
  BY <1>1, <1>7 DEF ServeInv, R!TableIsTaken, R!Sits, R!Live
<1> QED BY <1>4, <1>6, <1>8, <1>9 DEF ServeInv

\* A status by hand.
LEMMA StatusByHand ==
    ASSUME ServeInv, NEW o \in Orders, NEW new, new.status # R!None,
           orderLapses \subseteq orderLapses', R!Reopened(o, new.status) \subseteq orderLapses',
           "stale" \notin orderLapses' => (new.invoiced <=> order[o].invoiced)
    PROVE  order[o].status # R!None => ServedOK(new, sales[o], o \in receipt, items[o], orderLapses')
<1>0. sales[o] \in Nat
  BY DEF ServeInv, ServeTypes
<1>1. ServedOK(order[o], sales[o], o \in receipt, items[o], orderLapses)
  BY DEF ServeInv, OrdersOK
<1>2. "reopened" \notin orderLapses' /\ sales[o] > 0 => new.status = "completed"
  BY DEF R!Reopened, R!Lapse
<1>3. "by hand" \notin orderLapses' /\ new.status = "completed" => sales[o] > 0
  <2>1. sales[o] = 0 /\ new.status = "completed" => "by hand" \in orderLapses'
    BY DEF R!Reopened, R!Lapse
  <2>2. sales[o] = 0 \/ sales[o] > 0
    BY <1>0
  <2> QED BY <2>1, <2>2
<1> SUFFICES ASSUME order[o].status # R!None PROVE ServedOK(new, sales[o], o \in receipt, items[o], orderLapses')
  OBVIOUS
<1>4. ASSUME orderLapses' \cap {"stale", "reopened"} = {}
      PROVE  /\ sales[o] <= 1 /\ (o \in receipt <=> sales[o] = 1) /\ (new.invoiced <=> sales[o] = 1)
             /\ sales[o] = 1 => items[o] = "sold" /\ new.status = "completed"
  <2>1. /\ sales[o] <= 1 /\ (o \in receipt <=> sales[o] = 1) /\ (order[o].invoiced <=> sales[o] = 1)
        /\ sales[o] = 1 => items[o] = "sold"
    BY <1>1, <1>4 DEF ServedOK
  <2>2. new.invoiced <=> order[o].invoiced
    BY <1>4
  <2>3. sales[o] = 1 => new.status = "completed"
    BY <1>0, <1>2, <1>4
  <2> QED BY <2>1, <2>2, <2>3
<1> QED BY <1>3, <1>4 DEF ServedOK

LEMMA OrderStatusOK ==
    ASSUME R!RestaurantAssumption, ServeInv, NEW w \in Requests, NEW s \in R!Statuses, R!SetStatus(w, s)
    PROVE  ServeInv'
<1>0. R!None \notin Tables
  BY DEF R!RestaurantAssumption, R!None
<1> DEFINE o == orderWork[w].order
           seen == orderWork[w].seen
           new == [order[o] EXCEPT !.status = s]
<1>1. /\ orderWork[w].op = "status" /\ R!Finished(w)
      /\ order' = [order EXCEPT ![o].status = s]
      /\ table' = IF s \in R!Kitchen THEN table ELSE R!Freed(seen.table)
      /\ orderLapses' = orderLapses \cup R!Overtaken(w) \cup R!Reopened(o, s)
              \cup (IF s \in R!Kitchen THEN R!Lapse(order[o].status \notin R!Kitchen, "reopened") ELSE R!Shared(o, seen.table))
      /\ UNCHANGED <<items, sales, receipt, orderRequests>>
  BY DEF R!SetStatus, R!At
<1>2. orderWork[w] # R!Idle
  BY <1>1 DEF R!Idle
<1>3. o \in Orders /\ order[o] \in ServeRow /\ order[o].status # R!None /\ order \in [Orders -> ServeRow]
  BY <1>1, <1>2 DEF ServeInv, ServeTypes, Handling, HandledOK
<1>4. /\ new \in ServeRow /\ new.status = s /\ new.status # R!None
      /\ new.table = order[o].table /\ new.invoiced = order[o].invoiced /\ new.deleted = order[o].deleted
  BY <1>3 DEF ServeRow, R!Statuses, R!Kitchen, R!None
<1>5. order' = [order EXCEPT ![o] = new]
  BY <1>1, <1>3
<1> HIDE DEF new
<1>6. /\ orderWork' \in [Requests -> {R!Idle} \cup Handling] /\ HandledOK' /\ order' \in [Orders -> ServeRow]
      /\ order'[o] = new /\ \A u \in Orders \ {o} : order'[u] = order[u]
  <2>1. R!Finished(w) /\ UNCHANGED orderRequests /\ new \in ServeRow /\ new.status # R!None
    BY <1>1, <1>4
  <2> QED BY <1>2, <1>5, <2>1, HandledEnds
<1>7. ServeTypes'
  <2>1. table' \in [Tables -> {"available", "occupied", "reserved"}]
    BY <1>1 DEF R!Freed, ServeInv, ServeTypes
  <2> QED BY <1>1, <1>6, <2>1 DEF ServeInv, ServeTypes
<1>8. /\ orderLapses \subseteq orderLapses' /\ R!Reopened(o, s) \subseteq orderLapses'
      /\ "stale" \notin orderLapses' => order[o] = seen
  BY <1>1 DEF R!Overtaken, R!Lapse
<1>9. OrdersOK'
  <2>1. ServedOK(new, sales[o], o \in receipt, items[o], orderLapses')
    BY <1>3, <1>4, <1>8, StatusByHand
  <2> HIDE DEF o, seen
  <2> QED BY <1>1, <1>3, <1>6, <1>8, <2>1, OneOrder
<1>10. R!TableIsTaken'
  <2>1. SUFFICES ASSUME orderLapses' \cap {"stale", "shared table", "moved", "reopened"} = {},
                        NEW u \in Orders, NEW x \in Tables, R!Sits(u, x)'
                 PROVE  table'[x] = "occupied"
    BY DEF R!TableIsTaken
  <2>2. order[o] = seen /\ orderLapses \cap {"stale", "shared table", "moved", "reopened"} = {}
    BY <1>8, <2>1
  <2>3. R!Sits(u, x)
    <3>1. CASE u # o
      BY <1>6, <2>1, <3>1 DEF R!Sits, R!Live
    <3>2. CASE u = o
      <4>1. s \in R!Kitchen /\ order[o].table = x /\ ~order[o].deleted
        BY <1>4, <1>6, <2>1, <3>2 DEF R!Sits, R!Live
      <4>2. order[o].status \in R!Kitchen
        BY <1>1, <2>1, <4>1 DEF R!Lapse
      <4> QED BY <1>3, <3>2, <4>1, <4>2 DEF R!Sits, R!Live
    <3> QED BY <3>1, <3>2
  <2>4. table[x] = "occupied"
    BY <2>2, <2>3 DEF ServeInv, R!TableIsTaken
  <2>5. CASE s \in R!Kitchen
    BY <1>1, <2>4, <2>5
  <2>6. CASE s \notin R!Kitchen
    <3>1. u # o
      BY <1>4, <1>6, <2>1, <2>6 DEF R!Sits
    <3>2. x # seen.table
      <4>1. R!Shared(o, seen.table) \subseteq orderLapses'
        BY <1>1, <2>6
      <4>2. x = seen.table /\ x # R!None => "shared table" \in R!Shared(o, seen.table)
        BY <2>3, <3>1 DEF R!Shared, R!Lapse
      <4>3. x = R!None => FALSE
        BY <1>0
      <4> QED BY <2>1, <4>1, <4>2, <4>3
    <3> QED BY <1>1, <2>4, <2>6, <3>2 DEF R!Freed
  <2> QED BY <2>5, <2>6
<1> QED BY <1>6, <1>7, <1>9, <1>10 DEF ServeInv

\* The tables stay, and whoever sits at one sat there before.
LEMMA SameTables ==
    ASSUME ServeInv, UNCHANGED table,
           orderLapses' \cap {"stale", "shared table", "moved", "reopened"} = {} =>
               /\ orderLapses \cap {"stale", "shared table", "moved", "reopened"} = {}
               /\ \A o \in Orders, t \in Tables : R!Sits(o, t)' => R!Sits(o, t)
    PROVE  R!TableIsTaken'
BY DEF ServeInv, R!TableIsTaken

LEMMA SendToKitchenOK == ASSUME ServeInv, NEW w \in Requests, R!SendToKitchen(w) PROVE ServeInv'
<1> DEFINE o == orderWork[w].order
           seen == orderWork[w].seen
           new == IF seen.status = "open" THEN [order[o] EXCEPT !.status = "preparing"] ELSE order[o]
<1>1. /\ orderWork[w].op = "kitchen" /\ R!Finished(w)
      /\ order' = IF seen.status = "open" THEN [order EXCEPT ![o].status = "preparing"] ELSE order
      /\ orderLapses' = orderLapses \cup R!Lapse(seen.status = "open" /\ order[o] # seen, "stale")
      /\ UNCHANGED <<items, sales, receipt, table, orderRequests>>
  BY DEF R!SendToKitchen, R!At
<1>2. orderWork[w] # R!Idle
  BY <1>1 DEF R!Idle
<1>3. o \in Orders /\ order[o] \in ServeRow /\ order[o].status # R!None /\ order \in [Orders -> ServeRow]
  BY <1>1, <1>2 DEF ServeInv, ServeTypes, Handling, HandledOK
<1>4. /\ new \in ServeRow /\ new.status # R!None
      /\ new.table = order[o].table /\ new.invoiced = order[o].invoiced /\ new.deleted = order[o].deleted
      /\ new.status = IF seen.status = "open" THEN "preparing" ELSE order[o].status
  BY <1>3 DEF ServeRow, R!Statuses, R!Kitchen, R!None
<1>5. order' = [order EXCEPT ![o] = new]
  BY <1>1, <1>3
<1> HIDE DEF new
<1>6. /\ orderWork' \in [Requests -> {R!Idle} \cup Handling] /\ HandledOK' /\ order' \in [Orders -> ServeRow]
      /\ order'[o] = new /\ \A u \in Orders \ {o} : order'[u] = order[u]
  <2>1. R!Finished(w) /\ UNCHANGED orderRequests /\ new \in ServeRow /\ new.status # R!None
    BY <1>1, <1>4
  <2> QED BY <1>2, <1>5, <2>1, HandledEnds
<1>7. ServeTypes'
  BY <1>1, <1>6 DEF ServeInv, ServeTypes
<1>8. /\ orderLapses \subseteq orderLapses'
      /\ "stale" \notin orderLapses' /\ seen.status = "open" => order[o].status = "open"
  BY <1>1 DEF R!Lapse
<1>9. OrdersOK'
  <2>1. ServedOK(order[o], sales[o], o \in receipt, items[o], orderLapses)
    BY <1>3 DEF ServeInv, OrdersOK
  <2>2. ServedOK(new, sales[o], o \in receipt, items[o], orderLapses')
    <3>1. CASE seen.status # "open"
      BY <1>3, <1>4, <1>8, <2>1, <3>1 DEF ServedOK
    <3>2. CASE seen.status = "open"
      BY <1>3, <1>4, <1>8, <2>1, <3>2 DEF ServedOK
    <3> QED BY <3>1, <3>2
  <2> HIDE DEF o, seen
  <2> QED BY <1>1, <1>3, <1>6, <1>8, <2>2, OneOrder
<1>10. R!TableIsTaken'
  <2>1. ASSUME "stale" \notin orderLapses', NEW u \in Orders, NEW x \in Tables, R!Sits(u, x)' PROVE R!Sits(u, x)
    <3>1. CASE u # o
      <4>1. order'[u] = order[u]
        BY <1>6, <3>1
      <4> QED BY <2>1, <4>1 DEF R!Sits, R!Live
    <3>2. CASE u = o
      <4>1. new.status \in R!Kitchen /\ new.table = x /\ ~new.deleted
        BY <1>6, <2>1, <3>2 DEF R!Sits, R!Live
      <4>2. order[o].status \in R!Kitchen
        BY <1>4, <1>8, <2>1, <4>1 DEF R!Kitchen
      <4> QED BY <1>3, <1>4, <3>2, <4>1, <4>2 DEF R!Sits, R!Live
    <3> QED BY <3>1, <3>2
  <2> QED BY <1>1, <1>8, <2>1, SameTables
<1> QED BY <1>6, <1>7, <1>9, <1>10 DEF ServeInv

LEMMA PatchOrderOK ==
    ASSUME ServeInv, NEW w \in Requests, NEW s \in R!Statuses, NEW t \in Tables \cup {R!None}, R!Patch(w, s, t)
    PROVE  ServeInv'
<1> DEFINE o == orderWork[w].order
           seen == orderWork[w].seen
           new == [seen EXCEPT !.status = s, !.table = t]
<1>1. /\ orderWork[w].op = "patch" /\ R!Finished(w) /\ order' = [order EXCEPT ![o] = new]
      /\ orderLapses' = orderLapses \cup R!Overtaken(w) \cup R!Reopened(o, s) \cup R!Lapse(t # seen.table, "moved")
              \cup R!Lapse(s \in R!Kitchen /\ order[o].status \notin R!Kitchen, "reopened")
      /\ UNCHANGED <<items, sales, receipt, table, orderRequests>>
  BY DEF R!Patch, R!At
<1>2. orderWork[w] # R!Idle
  BY <1>1 DEF R!Idle
<1>3. o \in Orders /\ order[o] \in ServeRow /\ order[o].status # R!None /\ seen \in ServeRow
  BY <1>1, <1>2 DEF ServeInv, ServeTypes, Handling, HandledOK
<1>4. /\ new \in ServeRow /\ new.status = s /\ new.status # R!None
      /\ new.table = t /\ new.invoiced = seen.invoiced /\ new.deleted = seen.deleted
  BY <1>3 DEF ServeRow, R!Statuses, R!Kitchen, R!None
<1> HIDE DEF new
<1>6. /\ orderWork' \in [Requests -> {R!Idle} \cup Handling] /\ HandledOK' /\ order' \in [Orders -> ServeRow]
      /\ order'[o] = new /\ \A u \in Orders \ {o} : order'[u] = order[u]
  BY <1>1, <1>2, <1>4, HandledEnds
<1>7. ServeTypes'
  BY <1>1, <1>6 DEF ServeInv, ServeTypes
<1>8. /\ orderLapses \subseteq orderLapses' /\ R!Reopened(o, s) \subseteq orderLapses'
      /\ "stale" \notin orderLapses' => order[o] = seen
      /\ "moved" \notin orderLapses' => t = seen.table
      /\ "reopened" \notin orderLapses' /\ s \in R!Kitchen => order[o].status \in R!Kitchen
  BY <1>1 DEF R!Overtaken, R!Lapse
<1>9. OrdersOK'
  <2>1. ServedOK(new, sales[o], o \in receipt, items[o], orderLapses')
    BY <1>3, <1>4, <1>8, StatusByHand
  <2> HIDE DEF o, seen
  <2> QED BY <1>1, <1>3, <1>6, <1>8, <2>1, OneOrder
<1>10. R!TableIsTaken'
  <2>1. ASSUME orderLapses' \cap {"stale", "shared table", "moved", "reopened"} = {},
               NEW u \in Orders, NEW x \in Tables, R!Sits(u, x)'
        PROVE  R!Sits(u, x)
    <3>1. CASE u # o
      <4>1. order'[u] = order[u]
        BY <1>6, <3>1
      <4> QED BY <2>1, <4>1 DEF R!Sits, R!Live
    <3>2. CASE u = o
      <4>1. order[o] = seen /\ t = seen.table /\ s \in R!Kitchen /\ t = x /\ ~seen.deleted
        BY <1>4, <1>6, <1>8, <2>1, <3>2 DEF R!Sits, R!Live
      <4> QED BY <1>3, <1>8, <2>1, <3>2, <4>1 DEF R!Sits, R!Live
    <3> QED BY <3>1, <3>2
  <2> QED BY <1>1, <1>8, <2>1, SameTables
<1> QED BY <1>6, <1>7, <1>9, <1>10 DEF ServeInv

LEMMA DeleteOrderOK == ASSUME ServeInv, NEW w \in Requests, R!Delete(w) PROVE ServeInv'
<1> DEFINE o == orderWork[w].order
           new == [order[o] EXCEPT !.deleted = TRUE]
<1>1. /\ orderWork[w].op = "delete" /\ R!Finished(w) /\ order' = [order EXCEPT ![o].deleted = TRUE]
      /\ UNCHANGED <<items, sales, receipt, table, orderRequests, orderLapses>>
  BY DEF R!Delete, R!At
<1>2. orderWork[w] # R!Idle
  BY <1>1 DEF R!Idle
<1>3. o \in Orders /\ order[o] \in ServeRow /\ order[o].status # R!None /\ order \in [Orders -> ServeRow]
  BY <1>1, <1>2 DEF ServeInv, ServeTypes, Handling, HandledOK
<1>4. new \in ServeRow /\ new.deleted /\ new.status = order[o].status /\ new.invoiced = order[o].invoiced
  BY <1>3 DEF ServeRow
<1>5. order' = [order EXCEPT ![o] = new]
  BY <1>1, <1>3
<1> HIDE DEF new
<1>6. /\ orderWork' \in [Requests -> {R!Idle} \cup Handling] /\ HandledOK' /\ order' \in [Orders -> ServeRow]
      /\ order'[o] = new /\ \A u \in Orders \ {o} : order'[u] = order[u]
  BY <1>1, <1>2, <1>3, <1>4, <1>5, HandledEnds
<1>7. ServeTypes'
  BY <1>1, <1>6 DEF ServeInv, ServeTypes
<1>8. OrdersOK'
  <2>1. ServedOK(order[o], sales[o], o \in receipt, items[o], orderLapses)
    BY <1>3 DEF ServeInv, OrdersOK
  <2>2. ServedOK(new, sales[o], o \in receipt, items[o], orderLapses')
    BY <1>1, <1>4, <2>1 DEF ServedOK
  <2> HIDE DEF o
  <2> QED BY <1>1, <1>3, <1>6, <2>2, OneOrder
<1>9. R!TableIsTaken'
  <2>1. ASSUME NEW u \in Orders, NEW x \in Tables, R!Sits(u, x)' PROVE R!Sits(u, x)
    BY <1>4, <1>6, <2>1 DEF R!Sits, R!Live
  <2> QED BY <1>1, <2>1, SameTables
<1> QED BY <1>6, <1>7, <1>8, <1>9 DEF ServeInv

LEMMA FinalizeOK == ASSUME R!RestaurantAssumption, ServeInv, NEW w \in Requests, R!Finalize(w) PROVE ServeInv'
<1>0. R!None \notin Tables
  BY DEF R!RestaurantAssumption, R!None
<1> DEFINE o == orderWork[w].order
           seen == orderWork[w].seen
           new == [order[o] EXCEPT !.status = "completed", !.invoiced = TRUE]
<1>1. /\ orderWork[w].op = "finalize" /\ R!Finished(w) /\ seen.status # "completed"
      /\ order' = [order EXCEPT ![o].status = "completed", ![o].invoiced = TRUE]
      /\ sales' = [sales EXCEPT ![o] = @ + 1] /\ receipt' = receipt \cup {o}
      /\ items' = [items EXCEPT ![o] = "sold"] /\ table' = R!Freed(seen.table)
      /\ orderLapses' = orderLapses \cup R!Overtaken(w) \cup R!Shared(o, seen.table)
      /\ UNCHANGED orderRequests
  BY DEF R!Finalize, R!Finalizable, R!At
<1>2. orderWork[w] # R!Idle
  BY <1>1 DEF R!Idle
<1>3. o \in Orders /\ order[o] \in ServeRow /\ order[o].status # R!None /\ order \in [Orders -> ServeRow]
  BY <1>2 DEF ServeInv, ServeTypes, Handling, HandledOK
<1>4. new \in ServeRow /\ new.status = "completed" /\ new.status # R!None /\ new.invoiced
  BY <1>3 DEF ServeRow, R!Statuses, R!None
<1>5. order' = [order EXCEPT ![o] = new]
  BY <1>1, <1>3
<1> HIDE DEF new
<1>6. /\ orderWork' \in [Requests -> {R!Idle} \cup Handling] /\ HandledOK' /\ order' \in [Orders -> ServeRow]
      /\ order'[o] = new /\ \A u \in Orders \ {o} : order'[u] = order[u]
  <2>1. R!Finished(w) /\ UNCHANGED orderRequests /\ new \in ServeRow /\ new.status # R!None
    BY <1>1, <1>4
  <2> QED BY <1>2, <1>5, <2>1, HandledEnds
<1>7. /\ sales' \in [Orders -> Nat] /\ sales'[o] = sales[o] + 1 /\ \A u \in Orders \ {o} : sales'[u] = sales[u]
      /\ items' \in [Orders -> {R!None, "unsold", "sold"}] /\ items'[o] = "sold"
      /\ \A u \in Orders \ {o} : items'[u] = items[u]
      /\ table' \in [Tables -> {"available", "occupied", "reserved"}] /\ receipt' \subseteq Orders
  <2> HIDE DEF o
  <2>1. sales' \in [Orders -> Nat] /\ sales'[o] = sales[o] + 1 /\ \A u \in Orders \ {o} : sales'[u] = sales[u]
    BY <1>1, <1>3 DEF ServeInv, ServeTypes
  <2>2. items' \in [Orders -> {R!None, "unsold", "sold"}] /\ items'[o] = "sold" /\ \A u \in Orders \ {o} : items'[u] = items[u]
    BY <1>1, <1>3 DEF ServeInv, ServeTypes
  <2>3. table' \in [Tables -> {"available", "occupied", "reserved"}]
    BY <1>1 DEF R!Freed, ServeInv, ServeTypes
  <2> QED BY <1>1, <1>3, <2>1, <2>2, <2>3 DEF ServeInv, ServeTypes
<1>8. ServeTypes'
  BY <1>1, <1>6, <1>7 DEF ServeInv, ServeTypes
<1>9. orderLapses \subseteq orderLapses' /\ ("stale" \notin orderLapses' => order[o] = seen)
  BY <1>1 DEF R!Overtaken, R!Lapse
<1>10. OrdersOK'
  <2>0. sales[o] \in Nat
    BY <1>3 DEF ServeInv, ServeTypes
  <2>1. ServedOK(order[o], sales[o], o \in receipt, items[o], orderLapses)
    BY <1>3 DEF ServeInv, OrdersOK
  <2>2. orderLapses' \cap {"stale", "reopened"} = {} => sales[o] = 0
    <3>1. orderLapses' \cap {"stale", "reopened"} = {} => sales[o] <= 1 /\ sales[o] # 1
      BY <1>1, <1>9, <2>1 DEF ServedOK
    <3> QED BY <2>0, <3>1
  <2>3. o \in receipt' /\ order'[o] = new /\ items'[o] = "sold" /\ sales'[o] > 0
    <3>1. sales'[o] > 0
      BY <1>7, <2>0
    <3> QED BY <1>1, <1>6, <1>7, <3>1
  <2>4. orderLapses' \cap {"stale", "reopened"} = {} => sales'[o] = 1 /\ sales'[o] <= 1
    <3>1. sales[o] = 0 => sales'[o] = 1 /\ sales'[o] <= 1
      BY <1>7
    <3> QED BY <2>2, <3>1
  <2>5. ServedOK(order'[o], sales'[o], o \in receipt', items'[o], orderLapses')
    <3>1. order'[o].status = "completed" /\ order'[o].status # R!None /\ order'[o].invoiced /\ o \in receipt'
      BY <1>4, <2>3
    <3> HIDE DEF o
    <3> QED BY <2>3, <2>4, <3>1 DEF ServedOK
  <2>6. \A u \in Orders \ {o} : u \in receipt' <=> u \in receipt
    BY <1>1
  <2> HIDE DEF o, seen
  <2> QED BY <1>3, <1>6, <1>7, <1>9, <2>5, <2>6, OneOrder
<1>11. R!TableIsTaken'
  <2>1. SUFFICES ASSUME orderLapses' \cap {"stale", "shared table", "moved", "reopened"} = {},
                        NEW u \in Orders, NEW x \in Tables, R!Sits(u, x)'
                 PROVE  table'[x] = "occupied"
    BY DEF R!TableIsTaken
  <2>2. u # o
    BY <1>4, <1>6, <2>1 DEF R!Sits, R!Kitchen
  <2>3. R!Sits(u, x)
    BY <1>6, <2>1, <2>2 DEF R!Sits, R!Live
  <2>4. table[x] = "occupied"
    BY <1>9, <2>1, <2>3 DEF ServeInv, R!TableIsTaken
  <2>5. x # seen.table
    BY <1>0, <1>1, <2>1, <2>2, <2>3 DEF R!Shared, R!Lapse
  <2> QED BY <1>1, <2>4, <2>5 DEF R!Freed
<1> QED BY <1>6, <1>8, <1>10, <1>11 DEF ServeInv

LEMMA RefuseFinalizeOK == ASSUME ServeInv, NEW w \in Requests, R!Refuse(w) PROVE ServeInv'
<1>1. /\ orderWork[w].op = "finalize" /\ R!Finished(w)
      /\ UNCHANGED <<order, items, sales, receipt, table, orderRequests, orderLapses>>
  BY DEF R!Refuse, R!At
<1>2. orderWork' = [orderWork EXCEPT ![w] = R!Idle]
  BY <1>1 DEF R!Finished
<1>3. ServeTypes' /\ HandledOK'
  BY <1>1, <1>2 DEF ServeInv, ServeTypes, HandledOK
<1>4. OrdersOK' /\ R!TableIsTaken'
  BY <1>1 DEF ServeInv, OrdersOK, R!TableIsTaken, R!Sits, R!Live
<1> QED BY <1>3, <1>4 DEF ServeInv

LEMMA SetTableOK ==
    ASSUME R!RestaurantAssumption, ServeInv, NEW t \in Tables, NEW s \in {"available", "occupied", "reserved"}, R!SetTable(t, s)
    PROVE  ServeInv'
<1>1. /\ orderRequests < MaxServed /\ orderRequests' = orderRequests + 1 /\ table' = [table EXCEPT ![t] = s]
      /\ orderLapses' = orderLapses \cup R!Lapse(s # "occupied" /\ \E o \in Orders : R!Sits(o, t), "moved")
      /\ UNCHANGED <<order, items, sales, receipt, orderWork>>
  BY DEF R!SetTable
<1>2. orderLapses \subseteq orderLapses'
  BY <1>1
<1>3. ServeTypes'
  <2>1. orderRequests' \in 0..MaxServed
    BY <1>1 DEF R!RestaurantAssumption, ServeInv, ServeTypes
  <2> QED BY <1>1, <2>1 DEF ServeInv, ServeTypes
<1>4. HandledOK'
  BY <1>1 DEF ServeInv, HandledOK
<1>5. OrdersOK'
  <2>1. ASSUME NEW u \in Orders PROVE ServedOK(order'[u], sales'[u], (u \in receipt)', items'[u], orderLapses')
    <3>1. ServedOK(order[u], sales[u], u \in receipt, items[u], orderLapses)
      BY DEF ServeInv, OrdersOK
    <3> QED BY <1>1, <1>2, <3>1 DEF ServedOK
  <2> QED BY <2>1 DEF OrdersOK
<1>6. R!TableIsTaken'
  <2>1. SUFFICES ASSUME orderLapses' \cap {"stale", "shared table", "moved", "reopened"} = {},
                        NEW u \in Orders, NEW x \in Tables, R!Sits(u, x)'
                 PROVE  table'[x] = "occupied"
    BY DEF R!TableIsTaken
  <2>2. R!Sits(u, x)
    BY <1>1, <2>1 DEF R!Sits, R!Live
  <2>3. table[x] = "occupied"
    BY <1>2, <2>1, <2>2 DEF ServeInv, R!TableIsTaken
  <2>4. x = t => s = "occupied"
    BY <1>1, <2>1, <2>2 DEF R!Lapse
  <2> QED BY <1>1, <2>3, <2>4 DEF ServeInv, ServeTypes
<1> QED BY <1>3, <1>4, <1>5, <1>6 DEF ServeInv

LEMMA ServeStepOK == ASSUME R!RestaurantAssumption, ServeInv, [R!Next]_(R!vars) PROVE ServeInv'
<1>1. CASE UNCHANGED R!vars
  BY <1>1 DEF R!vars, ServeInv, ServeTypes, HandledOK, OrdersOK, R!TableIsTaken, R!Sits, R!Live
<1>2. CASE \E o \in Orders, t \in Tables \cup {R!None}, filled \in BOOLEAN : R!Create(o, t, filled)
  BY <1>2, TakeOrderOK
<1>3. ASSUME NEW w \in Requests,
             \/ \E o \in Orders, op \in {"add", "status", "kitchen", "patch", "delete", "finalize"} : R!Load(w, o, op)
             \/ \E s \in R!Statuses : R!SetStatus(w, s) \/ \E t \in Tables \cup {R!None} : R!Patch(w, s, t)
             \/ R!AddItems(w) \/ R!SendToKitchen(w) \/ R!Delete(w) \/ R!Finalize(w) \/ R!Refuse(w)
      PROVE  ServeInv'
  BY <1>3, LoadOrderOK, OrderStatusOK, PatchOrderOK, AddItemsOK, SendToKitchenOK, DeleteOrderOK, FinalizeOK, RefuseFinalizeOK
<1>4. CASE \E t \in Tables, s \in {"available", "occupied", "reserved"} : R!SetTable(t, s)
  BY <1>4, SetTableOK
<1> QED BY <1>1, <1>2, <1>3, <1>4 DEF R!Next

\* Whatever requests work on the orders and the tables from what they loaded, the invariant holds.
THEOREM RestaurantInvariance == R!Spec => []ServeInv
<1>0. R!RestaurantAssumption
  BY TradeAssumption DEF TradeAssumption
<1>1. R!Init => ServeInv
  BY <1>0, ServeInitOK
<1>2. ServeInv /\ [R!Next]_(R!vars) => ServeInv'
  BY <1>0, ServeStepOK
<1> QED BY <1>1, <1>2, PTL DEF R!Spec

LEMMA ServeFollows == ASSUME ServeInv PROVE R!OrderSoldOnce /\ R!TableIsTaken /\ R!TypeOK
<1>1. R!OrderSoldOnce
  <2>1. ASSUME NEW o \in Orders
        PROVE  /\ orderLapses \cap {"stale", "reopened"} = {} =>
                     sales[o] <= 1 /\ (o \in receipt <=> sales[o] = 1) /\ (order[o].invoiced <=> sales[o] = 1)
                     /\ (sales[o] = 1 => items[o] = "sold")
               /\ orderLapses \cap {"stale", "by hand"} = {} /\ order[o].status = "completed" => sales[o] > 0
    <3>1. ServedOK(order[o], sales[o], o \in receipt, items[o], orderLapses)
      BY DEF ServeInv, OrdersOK
    <3> QED BY <3>1 DEF ServedOK
  <2> QED BY <2>1 DEF R!OrderSoldOnce
<1> QED BY <1>1 DEF ServeInv, ServeTypes, ServeRow, R!TypeOK

-----------------------------------------------------------------------------
(* Quotations.                                                             *)

QuoteRow == [status : Q!Statuses \cup {Q!None}, until : 0..Horizon, invoice : Nat, deleted : BOOLEAN, line : Nat]
QuoteOps == {"send", "accept", "reject", "patch", "delete", "convert"}
Getting == [step : {"get"}, op : QuoteOps, quote : Quotes, day : 0..Horizon, left : QuoteRow]
Acting == [step : QuoteOps, quote : Quotes, seen : QuoteRow, day : 0..Horizon]

QuoteTypes ==
    /\ quote \in [Quotes -> QuoteRow] /\ quoted \in Prices /\ day \in 0..Horizon
    /\ quoteSold \in [Quotes -> Nat] /\ quoteCharge \in [Quotes -> Nat] /\ late \subseteq Quotes
    /\ quoteWork \in [Requests -> {Q!Idle} \cup Getting \cup Acting] /\ quoteRequests \in 0..MaxQuoted

\* Every sale was a request.
Busy == {w \in Requests : quoteWork[w] # Q!Idle}
SalesCounted == \A q \in Quotes : quoteSold[q] + Cardinality(Busy) <= quoteRequests

\* What the row of a quote says of its sales, and what they charged.
QuotedOK(q) ==
    /\ quote[q].status = Q!None => quoteSold[q] = 0
    /\ quote[q].invoice <= quoteSold[q]
    /\ ~Q!Lapsed(q, {"stale", "reopened"}) =>
          /\ quoteSold[q] <= 1 /\ quote[q].invoice = quoteSold[q]
          /\ quoteSold[q] = 1 => quote[q].status = "converted"
    /\ ~Q!Lapsed(q, {"stale", "reopened", "by hand"}) => (quote[q].status = "converted" => quoteSold[q] = 1)
    /\ quoteSold[q] > 0 => quoteCharge[q] = quote[q].line
    /\ ~Q!Lapsed(q, {"slipped"}) => q \notin late
RowsQuoted == \A q \in Quotes : QuotedOK(q)

\* What a copy says of the row it was taken from; it was not overdue, unless something slipped in
\* after the overdue were expired.
InTime(r, d) == r.status \in {"draft", "sent"} => r.until >= d
CopyOK(w) ==
    /\ quote[quoteWork[w].quote].status # Q!None
    /\ quoteWork[w].step = "get" => quoteWork[w].left.deleted \/ InTime(quoteWork[w].left, quoteWork[w].day)
    /\ quoteWork[w].step # "get" =>
          LET q == quoteWork[w].quote  seen == quoteWork[w].seen
          IN /\ seen.status # Q!None /\ seen.line = quote[q].line /\ seen.invoice <= quoteSold[q]
             /\ ~Q!Lapsed(q, {"slipped"}) => InTime(seen, quoteWork[w].day)
CopiesOK == \A w \in Requests : quoteWork[w] # Q!Idle => CopyOK(w)

QuoteInv == QuoteTypes /\ SalesCounted /\ RowsQuoted /\ CopiesOK

LEMMA QuoteFinite == \A X : Q!IsFiniteSet(X) <=> IsFiniteSet(X)
BY DEF Q!IsFiniteSet, IsFiniteSet

LEMMA BusyFinite == ASSUME Q!QuoteAssumption PROVE IsFiniteSet(Busy) /\ Cardinality(Busy) \in Nat
<1>1. IsFiniteSet(Busy)
  <2>1. IsFiniteSet(Requests) /\ Busy \subseteq Requests
    BY QuoteFinite DEF Q!QuoteAssumption, Busy
  <2> QED BY <2>1, FS_Subset
<1> QED BY <1>1, FS_CardinalityType

LEMMA QuoteInitOK == ASSUME Q!QuoteAssumption, Q!Init PROVE QuoteInv
<1>1. QuoteTypes
  <2>1. Q!NoQuote \in QuoteRow
    BY DEF Q!NoQuote, QuoteRow, Q!QuoteAssumption
  <2> QED BY <2>1 DEF Q!Init, Q!QuoteAssumption, QuoteTypes
<1>2. SalesCounted
  <2>1. Busy = {}
    BY DEF Q!Init, Busy
  <2>2. Cardinality(Busy) = 0
    BY <2>1, FS_EmptySet
  <2> QED BY <2>2 DEF Q!Init, SalesCounted
<1>3. RowsQuoted
  BY DEF Q!Init, RowsQuoted, QuotedOK, Q!NoQuote, Q!None, Q!Lapsed
<1>4. CopiesOK
  BY DEF Q!Init, CopiesOK
<1> QED BY <1>1, <1>2, <1>3, <1>4 DEF QuoteInv

LEMMA HandledShape ==
    ASSUME QuoteTypes, NEW w \in Requests, quoteWork[w] # Q!Idle
    PROVE  /\ quoteWork[w].quote \in Quotes
           /\ quoteWork[w].step = "get" => quoteWork[w] \in Getting
           /\ quoteWork[w].step # "get" => quoteWork[w] \in Acting
<1>1. quoteWork[w] \in Getting \/ quoteWork[w] \in Acting
  BY DEF QuoteTypes
<1> QED BY <1>1 DEF Getting, Acting, QuoteOps

\* What was true of the copies stays so when rows keep their lines and sales are not undone.
LEMMA CopiesStay ==
    ASSUME QuoteInv, quoteLapses \subseteq quoteLapses',
           \A q \in Quotes : /\ quote[q].status # Q!None => quote'[q].status # Q!None /\ quote'[q].line = quote[q].line
                             /\ quoteSold'[q] \in Nat /\ quoteSold'[q] >= quoteSold[q],
           NEW w \in Requests, quoteWork[w] # Q!Idle, quoteWork'[w] = quoteWork[w]
    PROVE  CopyOK(w)'
<1>1. CopyOK(w) /\ quoteWork[w].quote \in Quotes
  BY HandledShape DEF QuoteInv, CopiesOK
<1>2. quoteWork[w].step # "get" => quoteWork[w].seen.invoice \in Nat
  BY HandledShape DEF QuoteInv, Acting, QuoteRow
<1> DEFINE q == quoteWork[w].quote
<1>3. quote[q].status # Q!None /\ quote'[q].status # Q!None /\ quote'[q].line = quote[q].line
  BY <1>1 DEF CopyOK
<1>4. quoteWork[w].step # "get" => quoteWork[w].seen.invoice <= quoteSold'[q]
  <2>1. quoteSold[q] \in Nat /\ quoteSold'[q] \in Nat /\ quoteSold'[q] >= quoteSold[q]
    BY <1>1 DEF QuoteInv, QuoteTypes
  <2>2. quoteWork[w].step # "get" => quoteWork[w].seen.invoice <= quoteSold[q]
    BY <1>1 DEF CopyOK
  <2> QED BY <1>2, <2>1, <2>2
<1>5. Q!Lapsed(q, {"slipped"}) => <<"slipped", q>> \in quoteLapses'
  BY DEF Q!Lapsed
<1> QED BY <1>1, <1>3, <1>4, <1>5 DEF CopyOK, Q!Lapsed

LEMMA TomorrowOK == ASSUME Q!QuoteAssumption, QuoteInv, Q!Tomorrow PROVE QuoteInv'
<1>1. day < Horizon /\ day' = day + 1
      /\ UNCHANGED <<quote, quoted, quoteSold, quoteCharge, quoteWork, quoteRequests, late, quoteLapses>>
  BY DEF Q!Tomorrow
<1>2. day' \in 0..Horizon
  BY <1>1 DEF Q!QuoteAssumption, QuoteInv, QuoteTypes
<1> QED BY <1>1, <1>2 DEF QuoteInv, QuoteTypes, SalesCounted, Busy, RowsQuoted, QuotedOK, CopiesOK, CopyOK, Q!Lapsed

LEMMA QuoteRepriceOK == ASSUME Q!QuoteAssumption, QuoteInv, NEW p \in Prices, Q!Reprice(p) PROVE QuoteInv'
<1>1. quoteRequests < MaxQuoted /\ quoteRequests' = quoteRequests + 1 /\ quoted' = p
      /\ UNCHANGED <<quote, day, quoteSold, quoteCharge, quoteWork, late, quoteLapses>>
  BY DEF Q!Reprice, Q!Request
<1>2. quoteRequests' \in 0..MaxQuoted
  BY <1>1 DEF Q!QuoteAssumption, QuoteInv, QuoteTypes
<1>3. QuoteTypes'
  BY <1>1, <1>2 DEF QuoteInv, QuoteTypes
<1>4. SalesCounted'
  <2>1. ASSUME NEW q \in Quotes PROVE quoteSold'[q] + Cardinality(Busy') <= quoteRequests'
    <3>1. Busy' = Busy
      BY <1>1 DEF Busy
    <3>2. quoteSold[q] + Cardinality(Busy) <= quoteRequests /\ quoteSold[q] \in Nat /\ quoteRequests \in Nat
      BY DEF QuoteInv, SalesCounted, QuoteTypes
    <3>3. Cardinality(Busy) \in Nat
      BY BusyFinite
    <3> QED BY <1>1, <3>1, <3>2, <3>3
  <2> QED BY <2>1 DEF SalesCounted
<1>5. RowsQuoted' /\ CopiesOK'
  BY <1>1 DEF QuoteInv, RowsQuoted, QuotedOK, CopiesOK, CopyOK, Q!Lapsed
<1> QED BY <1>3, <1>4, <1>5 DEF QuoteInv

\* Quotes of which nothing changed.
LEMMA QuoteStays ==
    ASSUME QuoteInv, NEW q \in Quotes, quote'[q] = quote[q], quoteSold'[q] = quoteSold[q], quoteCharge'[q] = quoteCharge[q],
           quoteLapses \subseteq quoteLapses', q \in late' => q \in late
    PROVE  QuotedOK(q)'
<1>1. QuotedOK(q)
  BY DEF QuoteInv, RowsQuoted
<1>2. \A names : Q!Lapsed(q, names) => Q!Lapsed(q, names)'
  BY DEF Q!Lapsed
<1> QED BY <1>1, <1>2 DEF QuotedOK

LEMMA CreateQuoteOK ==
    ASSUME Q!QuoteAssumption, QuoteInv, NEW q \in Quotes, NEW s \in Q!Statuses, NEW until \in 0..Horizon, Q!Create(q, s, until)
    PROVE  QuoteInv'
<1> DEFINE new == [Q!NoQuote EXCEPT !.status = s, !.until = until, !.line = quoted]
<1>1. /\ quote[q].status = Q!None /\ quote' = [quote EXCEPT ![q] = new]
      /\ quoteLapses' = quoteLapses \cup Q!Lapse(s = "converted", "by hand", q)
      /\ UNCHANGED <<quoted, day, quoteSold, quoteCharge, quoteWork, quoteRequests, late>>
  BY DEF Q!Create
<1>2. new \in QuoteRow /\ new.status = s /\ new.invoice = 0 /\ s # Q!None
  BY DEF Q!NoQuote, QuoteRow, Q!Statuses, Q!None, Q!QuoteAssumption, QuoteInv, QuoteTypes
<1> HIDE DEF new
<1>3. quote'[q] = new /\ \A p \in Quotes \ {q} : quote'[p] = quote[p]
  BY <1>1 DEF QuoteInv, QuoteTypes
<1>4. QuoteTypes'
  BY <1>1, <1>2 DEF QuoteInv, QuoteTypes
<1>5. SalesCounted'
  BY <1>1 DEF QuoteInv, SalesCounted, Busy
<1>6. RowsQuoted'
  <2>1. QuotedOK(q)'
    <3>1. QuotedOK(q) /\ quoteSold[q] = 0
      BY <1>1 DEF QuoteInv, RowsQuoted, QuotedOK
    <3>2. s = "converted" => Q!Lapsed(q, {"stale", "reopened", "by hand"})'
      BY <1>1 DEF Q!Lapse, Q!Lapsed
    <3>3. Q!Lapsed(q, {"slipped"}) => Q!Lapsed(q, {"slipped"})'
      BY <1>1 DEF Q!Lapsed
    <3>4. quoteSold'[q] = 0 /\ quote'[q].invoice = 0 /\ quote'[q].status = s /\ s # Q!None
      BY <1>1, <1>2, <1>3, <3>1
    <3>5. ~Q!Lapsed(q, {"slipped"})' => q \notin late'
      BY <1>1, <3>1, <3>3 DEF QuotedOK
    <3>7. ~Q!Lapsed(q, {"stale", "reopened", "by hand"})' => quote'[q].status # "converted"
      BY <3>2, <3>4
    <3>8. quoteSold'[q] <= 1 /\ ~(quoteSold'[q] > 0) /\ quoteSold'[q] # 1 /\ quote'[q].invoice = quoteSold'[q]
          /\ quote'[q].invoice <= quoteSold'[q]
      BY <3>4
    <3> QED BY <3>4, <3>5, <3>7, <3>8 DEF QuotedOK
  <2>2. ASSUME NEW p \in Quotes \ {q} PROVE QuotedOK(p)'
    BY <1>1, <1>3, QuoteStays
  <2> QED BY <2>1, <2>2 DEF RowsQuoted
<1>7. CopiesOK'
  <2>1. \A p \in Quotes : /\ quote[p].status # Q!None => quote'[p].status # Q!None /\ quote'[p].line = quote[p].line
                          /\ quoteSold'[p] \in Nat /\ quoteSold'[p] >= quoteSold[p]
    <3>1. quoteSold' = quoteSold /\ quoteSold \in [Quotes -> Nat]
      BY <1>1 DEF QuoteInv, QuoteTypes
    <3>2. \A p \in Quotes : quote[p].status # Q!None => quote'[p] = quote[p]
      BY <1>1, <1>3
    <3> QED BY <3>1, <3>2
  <2> QED BY <1>1, <2>1, CopiesStay DEF CopiesOK
<1> QED BY <1>4, <1>5, <1>6, <1>7 DEF QuoteInv

LEMMA QuoteBegins ==
    ASSUME Q!QuoteAssumption, QuoteTypes, NEW w \in Requests, quoteWork[w] = Q!Idle,
           NEW new \in Getting, quoteWork' = [quoteWork EXCEPT ![w] = new]
    PROVE  /\ quoteWork' \in [Requests -> {Q!Idle} \cup Getting \cup Acting] /\ quoteWork'[w] = new
           /\ \A v \in Requests \ {w} : quoteWork'[v] = quoteWork[v]
           /\ Cardinality(Busy') = Cardinality(Busy) + 1
<1>1. quoteWork' \in [Requests -> {Q!Idle} \cup Getting \cup Acting] /\ quoteWork'[w] = new
      /\ \A v \in Requests \ {w} : quoteWork'[v] = quoteWork[v]
  BY DEF QuoteTypes
<1>2. new # Q!Idle
  BY DEF Getting, Q!Idle
<1>3. Busy' = Busy \cup {w} /\ w \notin Busy
  BY <1>1, <1>2 DEF Busy
<1> QED BY <1>1, <1>3, BusyFinite, FS_AddElement

LEMMA QuoteReleased ==
    ASSUME Q!QuoteAssumption, QuoteTypes, NEW w \in Requests, quoteWork[w] # Q!Idle, Q!Finished(w)
    PROVE  /\ quoteWork' \in [Requests -> {Q!Idle} \cup Getting \cup Acting] /\ quoteWork'[w] = Q!Idle
           /\ \A v \in Requests \ {w} : quoteWork'[v] = quoteWork[v]
           /\ Cardinality(Busy) \in Nat /\ Cardinality(Busy') = Cardinality(Busy) - 1
<1>1. quoteWork' \in [Requests -> {Q!Idle} \cup Getting \cup Acting] /\ quoteWork'[w] = Q!Idle
      /\ \A v \in Requests \ {w} : quoteWork'[v] = quoteWork[v]
  BY DEF QuoteTypes, Q!Finished
<1>2. Busy' = Busy \ {w} /\ w \in Busy
  BY <1>1 DEF Busy
<1> QED BY <1>1, <1>2, BusyFinite, FS_RemoveElement

\* A request has done its work on one quote; what it sold is counted.
LEMMA QuoteEnds ==
    ASSUME Q!QuoteAssumption, QuoteInv, NEW w \in Requests, quoteWork[w] # Q!Idle, Q!Finished(w),
           NEW q \in Quotes, NEW new \in QuoteRow, quote' = [quote EXCEPT ![q] = new],
           quote[q].status # Q!None, new.status # Q!None, new.line = quote[q].line,
           quoteLapses \subseteq quoteLapses', UNCHANGED <<quoted, day, quoteRequests>>,
           quoteSold' \in [Quotes -> Nat], quoteCharge' \in [Quotes -> Nat], late' \subseteq Quotes,
           quoteSold'[q] = quoteSold[q] \/ quoteSold'[q] = quoteSold[q] + 1,
           \A p \in Quotes \ {q} : quoteSold'[p] = quoteSold[p] /\ quoteCharge'[p] = quoteCharge[p] /\ (p \in late' => p \in late),
           QuotedOK(q)'
    PROVE  QuoteInv'
<1>1. quote' \in [Quotes -> QuoteRow] /\ quote'[q] = new /\ \A p \in Quotes \ {q} : quote'[p] = quote[p]
  BY DEF QuoteInv, QuoteTypes
<1>2. /\ quoteWork' \in [Requests -> {Q!Idle} \cup Getting \cup Acting] /\ quoteWork'[w] = Q!Idle
      /\ \A v \in Requests \ {w} : quoteWork'[v] = quoteWork[v]
      /\ Cardinality(Busy) \in Nat /\ Cardinality(Busy') = Cardinality(Busy) - 1
  BY QuoteReleased DEF QuoteInv
<1>3. QuoteTypes'
  BY <1>1, <1>2 DEF QuoteInv, QuoteTypes
<1>4. SalesCounted'
  <2>1. ASSUME NEW p \in Quotes PROVE quoteSold'[p] + Cardinality(Busy') <= quoteRequests'
    <3>1. quoteSold[p] + Cardinality(Busy) <= quoteRequests /\ quoteSold[p] \in Nat /\ quoteRequests \in Nat
      BY DEF QuoteInv, SalesCounted, QuoteTypes
    <3>2. quoteSold'[p] = quoteSold[p] \/ quoteSold'[p] = quoteSold[p] + 1
      OBVIOUS
    <3>3. quoteRequests' = quoteRequests
      OBVIOUS
    <3> QED BY <1>2, <3>1, <3>2, <3>3
  <2> QED BY <2>1 DEF SalesCounted
<1>5. RowsQuoted'
  <2>1. ASSUME NEW p \in Quotes \ {q} PROVE QuotedOK(p)'
    BY <1>1, QuoteStays
  <2> QED BY <2>1 DEF RowsQuoted
<1>6. CopiesOK'
  <2>1. ASSUME NEW p \in Quotes
        PROVE  /\ quote[p].status # Q!None => quote'[p].status # Q!None /\ quote'[p].line = quote[p].line
               /\ quoteSold'[p] \in Nat /\ quoteSold'[p] >= quoteSold[p]
    <3>1. quoteSold[p] \in Nat
      BY DEF QuoteInv, QuoteTypes
    <3>2. quoteSold'[p] = quoteSold[p] \/ quoteSold'[p] = quoteSold[p] + 1
      OBVIOUS
    <3>3. quote[p].status # Q!None => quote'[p].status # Q!None /\ quote'[p].line = quote[p].line
      BY <1>1
    <3> QED BY <3>1, <3>2, <3>3
  <2>2. ASSUME NEW v \in Requests, quoteWork'[v] # Q!Idle PROVE CopyOK(v)'
    <3>1. v # w
      BY <1>2, <2>2
    <3> QED BY <1>2, <2>1, <2>2, <3>1, CopiesStay
  <2> QED BY <2>2 DEF CopiesOK
<1> QED BY <1>3, <1>4, <1>5, <1>6 DEF QuoteInv

\* A whole copy is saved, with the invoice it had.
LEMMA QuoteSavedOK ==
    ASSUME QuoteInv, NEW w \in Requests, quoteWork[w] \in Acting, CopyOK(w),
           NEW q \in Quotes, q = quoteWork[w].quote, NEW new \in QuoteRow, Q!Save(w, new),
           new.status # Q!None, new.line = quoteWork[w].seen.line, new.invoice = quoteWork[w].seen.invoice,
           UNCHANGED <<quoteSold, quoteCharge, late>>
    PROVE  quote' = [quote EXCEPT ![q] = new] /\ quoteLapses \subseteq quoteLapses' /\ QuotedOK(q)'
<1> DEFINE seen == quoteWork[w].seen
<1>1. /\ quote' = [quote EXCEPT ![q] = new]
      /\ quoteLapses' = quoteLapses \cup Q!Lapse(quote[q] # seen, "stale", q)
              \cup Q!Lapse(new.invoice # 0 /\ new.status # "converted", "reopened", q)
              \cup Q!Lapse(new.invoice = 0 /\ new.status = "converted", "by hand", q)
  BY DEF Q!Save
<1>2. quoteLapses \subseteq quoteLapses'
  BY <1>1
<1>3. /\ <<"stale", q>> \notin quoteLapses' => quote[q] = seen
      /\ <<"reopened", q>> \notin quoteLapses' => new.invoice = 0 \/ new.status = "converted"
      /\ <<"by hand", q>> \notin quoteLapses' => new.invoice # 0 \/ new.status # "converted"
  BY <1>1 DEF Q!Lapse
<1>4. QuotedOK(q) /\ quoteSold[q] \in Nat /\ quote'[q] = new
  BY <1>1 DEF QuoteInv, RowsQuoted, QuoteTypes
<1>5. quoteWork[w].step # "get"
  BY DEF Acting, QuoteOps
<1>6. new.line = quote[q].line /\ new.invoice <= quoteSold[q]
  BY <1>5 DEF CopyOK
<1>7. ASSUME ~Q!Lapsed(q, {"stale", "reopened"})'
      PROVE  quoteSold[q] <= 1 /\ new.invoice = quoteSold[q] /\ (quoteSold[q] = 1 => new.status = "converted")
  <2>1. <<"stale", q>> \notin quoteLapses' /\ <<"reopened", q>> \notin quoteLapses'
    BY <1>7 DEF Q!Lapsed
  <2>2. quoteSold[q] <= 1 /\ quote[q].invoice = quoteSold[q]
    BY <1>2, <1>4, <2>1 DEF QuotedOK, Q!Lapsed
  <2>3. new.invoice = quoteSold[q]
    BY <1>3, <2>1, <2>2
  <2>4. quoteSold[q] = 1 => new.invoice # 0
    BY <2>3
  <2> QED BY <1>3, <2>1, <2>2, <2>3, <2>4
<1>8. ASSUME ~Q!Lapsed(q, {"stale", "reopened", "by hand"})', new.status = "converted" PROVE quoteSold[q] = 1
  <2>1. <<"by hand", q>> \notin quoteLapses' /\ ~Q!Lapsed(q, {"stale", "reopened"})'
    BY <1>8 DEF Q!Lapsed
  <2>2. new.invoice # 0
    BY <1>3, <1>8, <2>1
  <2>3. quoteSold[q] <= 1 /\ new.invoice = quoteSold[q]
    BY <1>7, <2>1
  <2>4. quoteSold[q] \in Nat
    BY <1>4
  <2> QED BY <2>2, <2>3, <2>4
<1>9. ~Q!Lapsed(q, {"slipped"})' => q \notin late
  BY <1>2, <1>4 DEF QuotedOK, Q!Lapsed
<1>10. quoteSold[q] > 0 => quoteCharge[q] = new.line
  BY <1>4, <1>6 DEF QuotedOK
<1>11. quoteSold' = quoteSold /\ quoteCharge' = quoteCharge /\ late' = late
  OBVIOUS
<1>12. QuotedOK(q)'
  BY <1>4, <1>6, <1>7, <1>8, <1>9, <1>10, <1>11 DEF QuotedOK
<1> QED BY <1>1, <1>2, <1>12

LEMMA ActingHas ==
    ASSUME QuoteInv, NEW w \in Requests, quoteWork[w].step \in QuoteOps
    PROVE  /\ quoteWork[w] # Q!Idle /\ quoteWork[w] \in Acting /\ CopyOK(w)
           /\ quoteWork[w].quote \in Quotes /\ quoteWork[w].seen \in QuoteRow /\ quoteWork[w].day \in 0..Horizon
           /\ quote[quoteWork[w].quote].status # Q!None
           /\ quoteWork[w].seen.status # Q!None /\ quoteWork[w].seen.line = quote[quoteWork[w].quote].line
<1>1. quoteWork[w] # Q!Idle /\ quoteWork[w].step # "get"
  BY DEF QuoteOps, Q!Idle
<1>2. quoteWork[w] \in Acting /\ CopyOK(w)
  BY <1>1, HandledShape DEF QuoteInv, CopiesOK
<1> QED BY <1>1, <1>2 DEF Acting, CopyOK

\* An answer, or an edit.
LEMMA QuoteAnswered ==
    ASSUME Q!QuoteAssumption, QuoteInv, NEW w \in Requests, quoteWork[w].step \in QuoteOps, Q!Finished(w),
           NEW s \in Q!Statuses, NEW until \in 0..Horizon,
           Q!Save(w, [quoteWork[w].seen EXCEPT !.status = s, !.until = until]),
           UNCHANGED <<quoted, day, quoteSold, quoteCharge, quoteRequests, late>>
    PROVE  QuoteInv'
<1> DEFINE new == [quoteWork[w].seen EXCEPT !.status = s, !.until = until]
<1>1. /\ quoteWork[w] # Q!Idle /\ quoteWork[w] \in Acting /\ CopyOK(w)
      /\ quoteWork[w].seen \in QuoteRow
      /\ quote[quoteWork[w].quote].status # Q!None /\ quoteWork[w].seen.line = quote[quoteWork[w].quote].line
  BY ActingHas
<1>2. PICK q \in Quotes : q = quoteWork[w].quote
  BY ActingHas
<1>3. new \in QuoteRow /\ new.status # Q!None /\ new.line = quoteWork[w].seen.line /\ new.invoice = quoteWork[w].seen.invoice
  BY <1>1 DEF QuoteRow, Q!Statuses, Q!None
<1>4. Q!Save(w, new)
  OBVIOUS
<1> HIDE DEF new
<1>5. quote' = [quote EXCEPT ![q] = new] /\ quoteLapses \subseteq quoteLapses' /\ QuotedOK(q)'
  BY <1>1, <1>2, <1>3, <1>4, QuoteSavedOK
<1>6. quoteSold' \in [Quotes -> Nat] /\ quoteCharge' \in [Quotes -> Nat] /\ late' \subseteq Quotes
  BY DEF QuoteInv, QuoteTypes
<1> QED BY <1>1, <1>2, <1>3, <1>5, <1>6, QuoteEnds

\* Nothing but the request changes.
LEMMA QuoteAlone ==
    ASSUME Q!QuoteAssumption, QuoteInv, NEW w \in Requests, quoteWork[w].step \in QuoteOps, Q!Finished(w),
           UNCHANGED <<quote, quoted, day, quoteSold, quoteCharge, quoteRequests, late, quoteLapses>>
    PROVE  QuoteInv'
<1>1. quoteWork[w] # Q!Idle /\ quote[quoteWork[w].quote].status # Q!None
  BY ActingHas
<1>2. PICK q \in Quotes : q = quoteWork[w].quote
  BY ActingHas
<1>3. quote[q] \in QuoteRow /\ quote' = [quote EXCEPT ![q] = quote[q]]
  BY DEF QuoteInv, QuoteTypes
<1>4. QuotedOK(q)'
  BY QuoteStays
<1>5. quoteSold' \in [Quotes -> Nat] /\ quoteCharge' \in [Quotes -> Nat] /\ late' \subseteq Quotes
  BY DEF QuoteInv, QuoteTypes
<1> QED BY <1>1, <1>2, <1>3, <1>4, <1>5, QuoteEnds

LEMMA AnswerOK == ASSUME Q!QuoteAssumption, QuoteInv, NEW w \in Requests, Q!Answer(w) PROVE QuoteInv'
<1> DEFINE seen == quoteWork[w].seen
<1>1. /\ quoteWork[w].step \in {"send", "accept", "reject"} /\ Q!Finished(w)
      /\ UNCHANGED <<quoted, day, quoteSold, quoteCharge, quoteRequests, late>>
      /\ \/ UNCHANGED <<quote, quoteLapses>>
         \/ \E s \in {"sent", "accepted", "rejected"} : Q!Save(w, [seen EXCEPT !.status = s])
  BY DEF Q!Answer, Q!At
<1>2. quoteWork[w].step \in QuoteOps
  BY <1>1 DEF QuoteOps
<1>3. CASE UNCHANGED <<quote, quoteLapses>>
  BY <1>1, <1>2, <1>3, QuoteAlone
<1>4. ASSUME NEW s \in {"sent", "accepted", "rejected"}, Q!Save(w, [seen EXCEPT !.status = s]) PROVE QuoteInv'
  <2>1. seen \in QuoteRow /\ s \in Q!Statuses
    BY <1>2, ActingHas DEF Q!Statuses
  <2>2. seen.until \in 0..Horizon /\ [seen EXCEPT !.status = s] = [seen EXCEPT !.status = s, !.until = seen.until]
    BY <2>1 DEF QuoteRow
  <2> QED BY <1>1, <1>2, <1>4, <2>1, <2>2, QuoteAnswered
<1> QED BY <1>1, <1>3, <1>4

LEMMA PatchQuoteOK ==
    ASSUME Q!QuoteAssumption, QuoteInv, NEW w \in Requests, NEW s \in Q!Statuses, NEW until \in 0..Horizon, Q!Patch(w, s, until)
    PROVE  QuoteInv'
<1>1. /\ quoteWork[w].step = "patch" /\ Q!Finished(w)
      /\ Q!Save(w, [quoteWork[w].seen EXCEPT !.status = s, !.until = until])
      /\ UNCHANGED <<quoted, day, quoteSold, quoteCharge, quoteRequests, late>>
  BY DEF Q!Patch, Q!At
<1>2. quoteWork[w].step \in QuoteOps
  BY <1>1 DEF QuoteOps
<1> QED BY <1>1, <1>2, QuoteAnswered

LEMMA RefuseConvertOK == ASSUME Q!QuoteAssumption, QuoteInv, NEW w \in Requests, Q!RefuseConvert(w) PROVE QuoteInv'
<1>1. /\ quoteWork[w].step = "convert" /\ Q!Finished(w)
      /\ UNCHANGED <<quote, quoted, day, quoteSold, quoteCharge, quoteRequests, late, quoteLapses>>
  BY DEF Q!RefuseConvert, Q!At
<1>2. quoteWork[w].step \in QuoteOps
  BY <1>1 DEF QuoteOps
<1> QED BY <1>1, <1>2, QuoteAlone

\* The overdue quotes expire, and the request is under way.
LEMMA BeginQuoteOK ==
    ASSUME Q!QuoteAssumption, QuoteInv, NEW w \in Requests, NEW q \in Quotes, NEW op \in QuoteOps, Q!Begin(w, q, op)
    PROVE  QuoteInv'
<1>1. /\ quoteWork[w].step = "idle" /\ quote[q].status # Q!None
      /\ quoteRequests < MaxQuoted /\ quoteRequests' = quoteRequests + 1
      /\ quote' = [p \in Quotes |-> IF Q!Overdue(quote[p]) /\ ~quote[p].deleted
                                    THEN [quote[p] EXCEPT !.status = "expired"] ELSE quote[p]]
      /\ quoteWork' = [quoteWork EXCEPT ![w] = [step |-> "get", op |-> op, quote |-> q, day |-> day, left |-> quote'[q]]]
      /\ UNCHANGED <<quoted, day, quoteSold, quoteCharge, late, quoteLapses>>
  BY DEF Q!Begin, Q!At, Q!Request
<1>2. quoteWork[w] = Q!Idle
  <2>1. quoteWork[w] \in {Q!Idle} \cup Getting \cup Acting
    BY DEF QuoteInv, QuoteTypes
  <2> QED BY <1>1, <2>1 DEF Getting, Acting, QuoteOps
<1>3. ASSUME NEW p \in Quotes
      PROVE  /\ quote'[p] \in QuoteRow /\ quote'[p].line = quote[p].line /\ quote'[p].invoice = quote[p].invoice
             /\ quote'[p].status # Q!None <=> quote[p].status # Q!None
             /\ quote'[p].status = "converted" <=> quote[p].status = "converted"
             /\ quote'[p].deleted \/ InTime(quote'[p], day)
  <2>1. quote[p] \in QuoteRow /\ day \in Int
    BY DEF QuoteInv, QuoteTypes
  <2>2. CASE Q!Overdue(quote[p]) /\ ~quote[p].deleted
    <3>1. quote'[p] = [quote[p] EXCEPT !.status = "expired"]
      BY <1>1, <2>2
    <3>2. quote[p].status \in {"draft", "sent"}
      BY <2>2 DEF Q!Overdue
    <3> QED BY <2>1, <3>1, <3>2 DEF QuoteRow, Q!Statuses, Q!None, InTime
  <2>3. CASE ~(Q!Overdue(quote[p]) /\ ~quote[p].deleted)
    <3>1. quote'[p] = quote[p]
      BY <1>1, <2>3
    <3>2. quote[p].until \in Int
      BY <2>1 DEF QuoteRow
    <3>3. quote[p].deleted \/ InTime(quote[p], day)
      BY <2>1, <2>3, <3>2 DEF Q!Overdue, InTime
    <3> QED BY <2>1, <3>1, <3>3
  <2> QED BY <2>2, <2>3
<1>4. PICK new : new = [step |-> "get", op |-> op, quote |-> q, day |-> day, left |-> quote'[q]]
  OBVIOUS
<1>5. new \in Getting
  BY <1>3, <1>4 DEF Getting, QuoteInv, QuoteTypes
<1>6. quoteWork' = [quoteWork EXCEPT ![w] = new]
  BY <1>1, <1>4
<1>7. /\ quoteWork' \in [Requests -> {Q!Idle} \cup Getting \cup Acting] /\ quoteWork'[w] = new
      /\ \A v \in Requests \ {w} : quoteWork'[v] = quoteWork[v]
      /\ Cardinality(Busy') = Cardinality(Busy) + 1
  BY <1>2, <1>5, <1>6, QuoteBegins DEF QuoteInv
<1>8. QuoteTypes'
  <2>1. quote' \in [Quotes -> QuoteRow]
    BY <1>1, <1>3
  <2>2. quoteRequests' \in 0..MaxQuoted
    BY <1>1 DEF Q!QuoteAssumption, QuoteInv, QuoteTypes
  <2> QED BY <1>1, <1>7, <2>1, <2>2 DEF QuoteInv, QuoteTypes
<1>9. SalesCounted'
  <2>1. ASSUME NEW p \in Quotes PROVE quoteSold'[p] + Cardinality(Busy') <= quoteRequests'
    <3>1. quoteSold[p] + Cardinality(Busy) <= quoteRequests /\ quoteSold[p] \in Nat /\ quoteRequests \in Nat
      BY DEF QuoteInv, SalesCounted, QuoteTypes
    <3>2. Cardinality(Busy) \in Nat
      BY BusyFinite
    <3> QED BY <1>1, <1>7, <3>1, <3>2
  <2> QED BY <2>1 DEF SalesCounted
<1>10. RowsQuoted'
  <2>1. ASSUME NEW p \in Quotes PROVE QuotedOK(p)'
    <3>1. QuotedOK(p) /\ quoteSold' = quoteSold /\ quoteCharge' = quoteCharge /\ late' = late /\ quoteLapses' = quoteLapses
      BY <1>1 DEF QuoteInv, RowsQuoted
    <3>2. /\ quote'[p].line = quote[p].line /\ quote'[p].invoice = quote[p].invoice
          /\ quote'[p].status # Q!None <=> quote[p].status # Q!None
          /\ quote'[p].status = "converted" <=> quote[p].status = "converted"
      BY <1>3
    <3> QED BY <3>1, <3>2 DEF QuotedOK, Q!Lapsed
  <2> QED BY <2>1 DEF RowsQuoted
<1>11. CopiesOK'
  <2>1. ASSUME NEW p \in Quotes
        PROVE  /\ quote[p].status # Q!None => quote'[p].status # Q!None /\ quote'[p].line = quote[p].line
               /\ quoteSold'[p] \in Nat /\ quoteSold'[p] >= quoteSold[p]
    <3>1. quoteSold[p] \in Nat /\ quoteSold' = quoteSold
      BY <1>1 DEF QuoteInv, QuoteTypes
    <3> QED BY <1>3, <3>1
  <2>2. ASSUME NEW v \in Requests \ {w}, quoteWork'[v] # Q!Idle PROVE CopyOK(v)'
    BY <1>1, <1>7, <2>1, <2>2, CopiesStay
  <2>3. CopyOK(w)'
    <3>1. quote'[q].status # Q!None /\ (quote'[q].deleted \/ InTime(quote'[q], day))
      BY <1>1, <1>3
    <3>2. quoteWork'[w].quote = q /\ quoteWork'[w].step = "get" /\ quoteWork'[w].left = quote'[q] /\ quoteWork'[w].day = day
      BY <1>4, <1>7
    <3> QED BY <3>1, <3>2 DEF CopyOK
  <2> QED BY <2>2, <2>3 DEF CopiesOK
<1> QED BY <1>8, <1>9, <1>10, <1>11 DEF QuoteInv

\* The row is loaded: if anything happened to it since the overdue expired, it is marked.
LEMMA GetQuoteOK == ASSUME Q!QuoteAssumption, QuoteInv, NEW w \in Requests, Q!Get(w) PROVE QuoteInv'
<1>1. /\ quoteWork[w].step = "get"
      /\ UNCHANGED <<quote, quoted, day, quoteSold, quoteCharge, quoteRequests, late>>
  BY DEF Q!Get, Q!At
<1>2. quoteWork[w] # Q!Idle /\ quoteWork[w] \in Getting /\ CopyOK(w)
  <2>1. quoteWork[w] # Q!Idle
    BY <1>1 DEF Q!Idle
  <2> QED BY <1>1, <2>1, HandledShape DEF QuoteInv, CopiesOK
<1>3. PICK q \in Quotes : q = quoteWork[w].quote
  BY <1>2 DEF Getting
<1>4. PICK r : r = quote[q]
  OBVIOUS
<1>5. quoteLapses' = quoteLapses \cup Q!Lapse(r # quoteWork[w].left, "slipped", q)
      /\ IF r.deleted THEN Q!Finished(w)
         ELSE quoteWork' = [quoteWork EXCEPT ![w] = [step |-> quoteWork[w].op, quote |-> q, seen |-> r, day |-> quoteWork[w].day]]
  BY <1>3, <1>4 DEF Q!Get
<1>6. quoteLapses \subseteq quoteLapses'
  BY <1>5
<1>7. RowsQuoted'
  <2>1. ASSUME NEW p \in Quotes PROVE QuotedOK(p)'
    BY <1>1, <1>6, QuoteStays
  <2> QED BY <2>1 DEF RowsQuoted
<1>8. ASSUME NEW p \in Quotes
      PROVE  /\ quote[p].status # Q!None => quote'[p].status # Q!None /\ quote'[p].line = quote[p].line
             /\ quoteSold'[p] \in Nat /\ quoteSold'[p] >= quoteSold[p]
  <2>1. quoteSold[p] \in Nat /\ quoteSold' = quoteSold /\ quote' = quote
    BY <1>1 DEF QuoteInv, QuoteTypes
  <2> QED BY <2>1
<1>9. CASE r.deleted
  <2>1. /\ quoteWork' \in [Requests -> {Q!Idle} \cup Getting \cup Acting] /\ quoteWork'[w] = Q!Idle
        /\ \A v \in Requests \ {w} : quoteWork'[v] = quoteWork[v]
        /\ Cardinality(Busy) \in Nat /\ Cardinality(Busy') = Cardinality(Busy) - 1
    BY <1>2, <1>5, <1>9, QuoteReleased DEF QuoteInv
  <2>2. QuoteTypes'
    BY <1>1, <2>1 DEF QuoteInv, QuoteTypes
  <2>3. SalesCounted'
    <3>1. ASSUME NEW p \in Quotes PROVE quoteSold'[p] + Cardinality(Busy') <= quoteRequests'
      <4>1. quoteSold[p] + Cardinality(Busy) <= quoteRequests /\ quoteSold[p] \in Nat /\ quoteRequests \in Nat
        BY DEF QuoteInv, SalesCounted, QuoteTypes
      <4> QED BY <1>1, <2>1, <4>1
    <3> QED BY <3>1 DEF SalesCounted
  <2>4. CopiesOK'
    <3>1. ASSUME NEW v \in Requests, quoteWork'[v] # Q!Idle PROVE CopyOK(v)'
      <4>1. v # w
        BY <2>1, <3>1
      <4> QED BY <1>6, <1>8, <2>1, <3>1, <4>1, CopiesStay
    <3> QED BY <3>1 DEF CopiesOK
  <2> QED BY <1>7, <2>2, <2>3, <2>4 DEF QuoteInv
<1>10. CASE ~r.deleted
  <2>1. PICK new : new = [step |-> quoteWork[w].op, quote |-> q, seen |-> r, day |-> quoteWork[w].day]
    OBVIOUS
  <2>2. new \in Acting /\ new # Q!Idle
    <3>1. r \in QuoteRow
      BY <1>4 DEF QuoteInv, QuoteTypes
    <3> QED BY <1>2, <2>1, <3>1 DEF Getting, Acting, Q!Idle
  <2>3. quoteWork' = [quoteWork EXCEPT ![w] = new]
    BY <1>5, <1>10, <2>1
  <2>4. quoteWork' \in [Requests -> {Q!Idle} \cup Getting \cup Acting] /\ quoteWork'[w] = new
        /\ \A v \in Requests \ {w} : quoteWork'[v] = quoteWork[v]
    BY <2>2, <2>3 DEF QuoteInv, QuoteTypes
  <2>5. QuoteTypes'
    BY <1>1, <2>4 DEF QuoteInv, QuoteTypes
  <2>6. SalesCounted'
    <3>1. Busy' = Busy
      BY <1>2, <2>2, <2>4 DEF Busy
    <3> QED BY <1>1, <3>1 DEF QuoteInv, SalesCounted
  <2>7. CopiesOK'
    <3>1. ASSUME NEW v \in Requests \ {w}, quoteWork'[v] # Q!Idle PROVE CopyOK(v)'
      BY <1>6, <1>8, <2>4, <3>1, CopiesStay
    <3>2. CopyOK(w)'
      <4>1. r.status # Q!None /\ r.line = quote[q].line
        BY <1>2, <1>3, <1>4 DEF CopyOK
      <4>2. r.invoice <= quoteSold[q]
        BY <1>4 DEF QuoteInv, RowsQuoted, QuotedOK
      <4>3. ~Q!Lapsed(q, {"slipped"})' => r = quoteWork[w].left
        BY <1>5 DEF Q!Lapsed, Q!Lapse
      <4>4. ~Q!Lapsed(q, {"slipped"})' => InTime(r, quoteWork[w].day)
        BY <1>1, <1>2, <1>10, <4>3 DEF CopyOK
      <4>5. quoteWork'[w].quote = q /\ quoteWork'[w].seen = r /\ quoteWork'[w].day = quoteWork[w].day /\ quoteWork'[w].step # "get"
        BY <1>2, <2>1, <2>4 DEF Getting, QuoteOps
      <4>6. quote' = quote /\ quoteSold' = quoteSold
        BY <1>1
      <4> QED BY <1>4, <4>1, <4>2, <4>4, <4>5, <4>6 DEF CopyOK
    <3> QED BY <3>1, <3>2 DEF CopiesOK
  <2> QED BY <1>7, <2>5, <2>6, <2>7 DEF QuoteInv
<1> QED BY <1>9, <1>10

LEMMA DeleteQuoteOK == ASSUME Q!QuoteAssumption, QuoteInv, NEW w \in Requests, Q!Delete(w) PROVE QuoteInv'
<1>1. /\ quoteWork[w].step = "delete" /\ Q!Finished(w)
      /\ quote' = [quote EXCEPT ![quoteWork[w].quote].deleted = TRUE]
      /\ UNCHANGED <<quoted, day, quoteSold, quoteCharge, quoteRequests, late, quoteLapses>>
  BY DEF Q!Delete, Q!At
<1>2. quoteWork[w].step \in QuoteOps
  BY <1>1 DEF QuoteOps
<1>3. quoteWork[w] # Q!Idle /\ quote[quoteWork[w].quote].status # Q!None
  BY <1>2, ActingHas
<1>4. PICK q \in Quotes : q = quoteWork[w].quote
  BY <1>2, ActingHas
<1>5. PICK new : new = [quote[q] EXCEPT !.deleted = TRUE]
  OBVIOUS
<1>6. quote' = [quote EXCEPT ![q] = new]
  BY <1>1, <1>4, <1>5
<1>7. new \in QuoteRow /\ new.status = quote[q].status /\ new.line = quote[q].line /\ new.invoice = quote[q].invoice
  BY <1>5 DEF QuoteInv, QuoteTypes, QuoteRow
<1>8. quoteSold' \in [Quotes -> Nat] /\ quoteCharge' \in [Quotes -> Nat] /\ late' \subseteq Quotes
  BY <1>1 DEF QuoteInv, QuoteTypes
<1>9. QuotedOK(q)'
  <2>1. QuotedOK(q) /\ quote'[q] = new
    BY <1>6 DEF QuoteInv, QuoteTypes, RowsQuoted
  <2> QED BY <1>1, <1>7, <2>1 DEF QuotedOK, Q!Lapsed
<1> QED BY <1>1, <1>3, <1>4, <1>6, <1>7, <1>8, <1>9, QuoteEnds

LEMMA ConvertOK == ASSUME Q!QuoteAssumption, QuoteInv, NEW w \in Requests, Q!Convert(w) PROVE QuoteInv'
<1>1. PICK q \in Quotes : q = quoteWork[w].quote
  <2>1. quoteWork[w].step \in QuoteOps
    BY DEF Q!Convert, Q!At, QuoteOps
  <2> QED BY <2>1, ActingHas
<1>2. PICK seen : seen = quoteWork[w].seen
  OBVIOUS
<1>3. PICK new : new = [seen EXCEPT !.status = "converted", !.invoice = quoteSold[q] + 1]
  OBVIOUS
<1>4. /\ quoteWork[w].step = "convert" /\ seen.status \notin {"rejected", "expired", "converted"}
      /\ quoteSold' = [quoteSold EXCEPT ![q] = @ + 1] /\ quoteCharge' = [quoteCharge EXCEPT ![q] = seen.line]
      /\ late' = late \cup {p \in {q} : seen.until < quoteWork[w].day /\ seen.status # "accepted"}
      /\ Q!Finished(w) /\ UNCHANGED <<quoted, day, quoteRequests>>
  BY <1>1, <1>2 DEF Q!Convert, Q!At, Q!Convertible, Q!Price
<1>5. /\ quote' = [quote EXCEPT ![q] = new]
      /\ quoteLapses' = quoteLapses \cup Q!Lapse(quote[q] # seen, "stale", q)
              \cup Q!Lapse(new.invoice # 0 /\ new.status # "converted", "reopened", q)
              \cup Q!Lapse(new.invoice = 0 /\ new.status = "converted", "by hand", q)
  BY <1>1, <1>2, <1>3 DEF Q!Convert, Q!Save
<1>6. quoteLapses \subseteq quoteLapses' /\ (<<"stale", q>> \notin quoteLapses' => quote[q] = seen)
  BY <1>5 DEF Q!Lapse
<1>7. /\ quoteWork[w] # Q!Idle /\ CopyOK(w) /\ seen \in QuoteRow /\ quoteWork[w].day \in 0..Horizon
      /\ quote[q].status # Q!None /\ seen.status # Q!None /\ seen.line = quote[q].line
  <2>1. quoteWork[w].step \in QuoteOps
    BY <1>4 DEF QuoteOps
  <2> QED BY <1>1, <1>2, <2>1, ActingHas
<1>8. quoteSold[q] \in Nat
  BY DEF QuoteInv, QuoteTypes
<1>9. new \in QuoteRow /\ new.status = "converted" /\ new.line = seen.line /\ new.invoice = quoteSold[q] + 1 /\ new.status # Q!None
  <2>1. quoteSold[q] + 1 \in Nat
    BY <1>8
  <2>2. "converted" \in Q!Statuses /\ "converted" # Q!None
    BY DEF Q!Statuses, Q!None
  <2>3. new.status = "converted" /\ new.line = seen.line /\ new.invoice = quoteSold[q] + 1
    BY <1>3, <1>7 DEF QuoteRow
  <2>4. new \in QuoteRow
    BY <1>3, <1>7, <2>1, <2>2 DEF QuoteRow
  <2> QED BY <2>2, <2>3, <2>4
<1>10. /\ quoteSold' \in [Quotes -> Nat] /\ quoteCharge' \in [Quotes -> Nat] /\ late' \subseteq Quotes
       /\ quoteSold'[q] = quoteSold[q] + 1 /\ quoteCharge'[q] = seen.line /\ quote'[q] = new
       /\ \A p \in Quotes \ {q} : quoteSold'[p] = quoteSold[p] /\ quoteCharge'[p] = quoteCharge[p] /\ (p \in late' => p \in late)
  <2>1. quoteSold \in [Quotes -> Nat] /\ quoteCharge \in [Quotes -> Nat] /\ late \subseteq Quotes /\ quote \in [Quotes -> QuoteRow]
    BY DEF QuoteInv, QuoteTypes
  <2>2. seen.line \in Nat
    BY <1>7 DEF QuoteRow
  <2>3. quoteSold' \in [Quotes -> Nat] /\ quoteSold'[q] = quoteSold[q] + 1 /\ \A p \in Quotes \ {q} : quoteSold'[p] = quoteSold[p]
    BY <1>4, <2>1
  <2>4. quoteCharge' \in [Quotes -> Nat] /\ quoteCharge'[q] = seen.line /\ \A p \in Quotes \ {q} : quoteCharge'[p] = quoteCharge[p]
    BY <1>4, <2>1, <2>2
  <2>5. late' \subseteq Quotes /\ \A p \in Quotes \ {q} : p \in late' => p \in late
    BY <1>4, <2>1
  <2>6. quote'[q] = new
    BY <1>5, <2>1
  <2> QED BY <2>3, <2>4, <2>5, <2>6
<1>11. QuotedOK(q)'
  <2>1. ASSUME ~Q!Lapsed(q, {"stale", "reopened"})' PROVE quoteSold[q] = 0
    <3>1. quote[q] = seen /\ ~Q!Lapsed(q, {"stale", "reopened"})
      BY <1>6, <2>1 DEF Q!Lapsed
    <3>2. quoteSold[q] <= 1 /\ quoteSold[q] # 1
      BY <1>4, <3>1 DEF QuoteInv, RowsQuoted, QuotedOK
    <3> QED BY <1>8, <3>2
  <2>2. ASSUME ~Q!Lapsed(q, {"stale", "reopened", "by hand"})' PROVE quoteSold[q] = 0
    <3>1. ~Q!Lapsed(q, {"stale", "reopened"})'
      BY <2>2 DEF Q!Lapsed
    <3> QED BY <2>1, <3>1
  <2>3. ASSUME ~Q!Lapsed(q, {"slipped"})' PROVE q \notin late'
    <3>1. ~Q!Lapsed(q, {"slipped"})
      BY <1>6, <2>3 DEF Q!Lapsed
    <3>2. q \notin late
      BY <3>1 DEF QuoteInv, RowsQuoted, QuotedOK
    <3>3. InTime(seen, quoteWork[w].day)
      BY <1>1, <1>2, <1>4, <1>7, <3>1 DEF CopyOK
    <3>4. seen.status # "accepted" => seen.status \in {"draft", "sent"}
      BY <1>4, <1>7 DEF QuoteRow, Q!Statuses, Q!None
    <3>5. seen.until \in Int /\ quoteWork[w].day \in Int
      BY <1>7 DEF QuoteRow
    <3> QED BY <1>4, <3>2, <3>3, <3>4, <3>5 DEF InTime
  <2>4. quoteSold'[q] = quoteSold[q] + 1 /\ quote'[q].invoice = quoteSold[q] + 1 /\ quote'[q].status = "converted"
        /\ quote'[q].line = seen.line /\ quoteCharge'[q] = seen.line
    BY <1>9, <1>10
  <2>5. quote'[q].status # Q!None /\ quote'[q].invoice = quoteSold'[q] /\ quote'[q].invoice <= quoteSold'[q]
    BY <1>8, <1>9, <2>4
  <2>6. ~Q!Lapsed(q, {"stale", "reopened"})' => quoteSold'[q] = 1
    BY <2>1, <2>4
  <2>7. ~Q!Lapsed(q, {"stale", "reopened", "by hand"})' => quoteSold'[q] = 1
    <3>1. ~Q!Lapsed(q, {"stale", "reopened", "by hand"})' => ~Q!Lapsed(q, {"stale", "reopened"})'
      BY DEF Q!Lapsed
    <3> QED BY <2>6, <3>1
  <2> QED BY <2>3, <2>4, <2>5, <2>6, <2>7 DEF QuotedOK
<1>12. /\ new.line = quote[q].line /\ Q!Finished(w) /\ UNCHANGED <<quoted, day, quoteRequests>>
       /\ quote' = [quote EXCEPT ![q] = new] /\ quoteLapses \subseteq quoteLapses'
  BY <1>4, <1>5, <1>6, <1>7, <1>9
<1>13. quoteWork[w] # Q!Idle /\ quote[q].status # Q!None /\ new \in QuoteRow /\ new.status # Q!None
  BY <1>7, <1>9
<1> QED BY <1>10, <1>11, <1>12, <1>13, QuoteEnds

LEMMA QuoteStepOK == ASSUME Q!QuoteAssumption, QuoteInv, [Q!Next]_(Q!vars) PROVE QuoteInv'
<1>1. CASE Q!Tomorrow \/ \E p \in Prices : Q!Reprice(p)
  BY <1>1, TomorrowOK, QuoteRepriceOK
<1>2. CASE \E q \in Quotes, s \in Q!Statuses, until \in 0..Horizon : Q!Create(q, s, until)
  BY <1>2, CreateQuoteOK
<1>3. ASSUME NEW w \in Requests,
             \/ \E q \in Quotes, op \in {"send", "accept", "reject", "patch", "delete", "convert"} : Q!Begin(w, q, op)
             \/ Q!Get(w) \/ Q!Answer(w) \/ Q!Delete(w) \/ Q!Convert(w) \/ Q!RefuseConvert(w)
             \/ \E s \in Q!Statuses, until \in 0..Horizon : Q!Patch(w, s, until)
      PROVE  QuoteInv'
  <2>1. CASE \E q \in Quotes, op \in {"send", "accept", "reject", "patch", "delete", "convert"} : Q!Begin(w, q, op)
    BY <2>1, BeginQuoteOK DEF QuoteOps
  <2>2. CASE Q!Get(w)
    BY <2>2, GetQuoteOK
  <2>3. CASE Q!Answer(w)
    BY <2>3, AnswerOK
  <2>4. CASE Q!Delete(w)
    BY <2>4, DeleteQuoteOK
  <2>5. CASE Q!Convert(w)
    BY <2>5, ConvertOK
  <2>6. CASE Q!RefuseConvert(w)
    BY <2>6, RefuseConvertOK
  <2>7. CASE \E s \in Q!Statuses, until \in 0..Horizon : Q!Patch(w, s, until)
    BY <2>7, PatchQuoteOK
  <2> QED BY <1>3, <2>1, <2>2, <2>3, <2>4, <2>5, <2>6, <2>7
<1>4. CASE UNCHANGED Q!vars
  BY <1>4 DEF Q!vars, QuoteInv, QuoteTypes, SalesCounted, Busy, RowsQuoted, QuotedOK, CopiesOK, CopyOK, Q!Lapsed
<1> QED BY <1>1, <1>2, <1>3, <1>4 DEF Q!Next

\* Whatever requests answer, edit, delete and convert quotations from the copies they got, and whatever
\* day it becomes in between, the invariant holds.
THEOREM QuoteInvariance == Q!Spec => []QuoteInv
<1>1. Q!QuoteAssumption
  BY TradeAssumption DEF Q!QuoteAssumption
<1>2. Q!Init => QuoteInv
  BY <1>1, QuoteInitOK
<1>3. QuoteInv /\ [Q!Next]_(Q!vars) => QuoteInv'
  BY <1>1, QuoteStepOK
<1> QED BY <1>2, <1>3, PTL DEF Q!Spec

LEMMA QuoteFollows == ASSUME Q!QuoteAssumption, QuoteInv PROVE Q!QuoteSoldOnce /\ Q!ChargedAsShown /\ Q!TypeOK
<1>1. Q!QuoteSoldOnce
  <2>1. ASSUME NEW q \in Quotes
        PROVE  /\ ~Q!Lapsed(q, {"stale", "reopened"}) => quoteSold[q] <= 1 /\ quote[q].invoice = quoteSold[q]
               /\ ~Q!Lapsed(q, {"stale", "reopened", "by hand"}) => (quote[q].status = "converted" <=> quoteSold[q] = 1)
               /\ ~Q!Lapsed(q, {"slipped"}) => q \notin late
    <3>1. ~Q!Lapsed(q, {"stale", "reopened", "by hand"}) => ~Q!Lapsed(q, {"stale", "reopened"})
      BY DEF Q!Lapsed
    <3>2. QuotedOK(q)
      BY DEF QuoteInv, RowsQuoted
    <3> QED BY <3>1, <3>2 DEF QuotedOK
  <2> QED BY <2>1 DEF Q!QuoteSoldOnce
<1>2. Q!ChargedAsShown
  BY DEF Q!ChargedAsShown, QuoteInv, RowsQuoted, QuotedOK
<1>3. ASSUME NEW q \in Quotes PROVE quoteSold[q] \in 0..MaxQuoted /\ quote[q].invoice \in 0..MaxQuoted
  <2>1. quoteSold[q] + Cardinality(Busy) <= quoteRequests /\ quoteSold[q] \in Nat /\ quoteRequests \in 0..MaxQuoted
    BY DEF QuoteInv, SalesCounted, QuoteTypes
  <2>2. Cardinality(Busy) \in Nat /\ MaxQuoted \in Nat
    BY BusyFinite DEF Q!QuoteAssumption
  <2>3. quote[q].invoice \in Nat /\ quote[q].invoice <= quoteSold[q]
    BY DEF QuoteInv, QuoteTypes, QuoteRow, RowsQuoted, QuotedOK
  <2> QED BY <2>1, <2>2, <2>3
<1>4. Q!TypeOK
  <2>1. quoteSold \in [Quotes -> 0..MaxQuoted]
    BY <1>3 DEF QuoteInv, QuoteTypes
  <2>2. ASSUME NEW q \in Quotes
        PROVE  quote[q] \in [status : Q!Statuses \cup {Q!None}, until : 0..Horizon, invoice : 0..MaxQuoted,
                             deleted : BOOLEAN, line : Nat]
    <3>1. quote[q] \in QuoteRow
      BY DEF QuoteInv, QuoteTypes
    <3> QED BY <1>3, <3>1 DEF QuoteRow
  <2> QED BY <2>1, <2>2 DEF Q!TypeOK, QuoteInv, QuoteTypes
<1> QED BY <1>1, <1>2, <1>4

-----------------------------------------------------------------------------
(* Tills.                                                                  *)

TillRow == [status : {"none", "open", "closed"}, cashier : Cashiers \cup {T!NoTill}, taken : Nat, variance : Int,
            gl : {"pending", "posted", "failed"}, entry : BOOLEAN]
Opening == [step : {"open"}, cashier : Cashiers, opened : 0..MaxSessions]
Taking == [step : {"take"}, till : T!Sessions \cup {T!NoTill}]
Closing == [step : {"close"}, session : T!Sessions, counted : Nat]
Hand == {T!Idle} \cup Opening \cup Taking \cup Closing

TillTypes ==
    /\ session \in [T!Sessions -> TillRow] /\ opened \in 0..MaxSessions /\ drawer \in [Cashiers -> Nat]
    /\ safe \in Int /\ cash \in Int /\ overshort \in Int /\ mapped \in BOOLEAN
    /\ tillWork \in [Requests -> Hand] /\ tillRequests \in 0..MaxHandovers

\* The rows below the counter are sessions; a variance waits for the close, and a close that
\* reads as posted has its variance in the ledger.
TillRowOK(s) ==
    /\ s > opened => session[s] = T!NoRow
    /\ s <= opened => session[s].status # "none" /\ session[s].cashier \in Cashiers
    /\ session[s].status = "open" => session[s].variance = 0 /\ ~session[s].entry
    /\ session[s].status = "closed" /\ session[s].gl = "posted" => session[s].entry \/ session[s].variance = 0
TillRowsOK == \A s \in T!Sessions : TillRowOK(s)

\* A request that opens a till found none open, unless another was opened since.
HandOK(h) ==
    /\ h.step = "open" => h.opened <= opened /\ (h.opened = opened => T!OpenTills(h.cashier) = {})
    /\ h.step = "take" => h.till = T!NoTill \/ session[h.till].status # "none"
HandsOK == \A w \in Requests : HandOK(tillWork[w])
OneOpen ==
    "overlapped" \notin tillLapses =>
        \A s, t \in T!Sessions : /\ session[s].status = "open" /\ session[t].status = "open"
                                 /\ session[s].cashier = session[t].cashier
                                 => s = t

\* Over and short is what the sessions have posted.
EnteredOf(row) == IF row.entry THEN row.variance ELSE 0
Entered(rows) == [s \in T!Sessions |-> EnteredOf(rows[s])]
OverShortIs == overshort = Sum(Entered(session), T!Sessions)

\* The floats of the sessions to come are in the safe.
FloatsKept == safe >= (MaxSessions - opened) * Float

\* What a session explains of the difference between the ledger's cash and the safe.
TermOf(row) ==
    IF row.status = "open" THEN Float + row.taken
    ELSE IF row.status = "closed" /\ ~row.entry THEN 0 - row.variance ELSE 0
Terms(rows) == [s \in T!Sessions |-> TermOf(rows[s])]
Waits(h) == h.step = "take" /\ h.till = T!NoTill
Waiting(hands) == {w \in Requests : Waits(hands[w])}
CashExplained ==
    tillLapses = {} =>
        /\ \A c \in Cashiers : T!OpenTills(c) = {} => drawer[c] = 0
        /\ cash = safe - Cardinality(Waiting(tillWork)) + Sum(Terms(session), T!Sessions)

TillInv == TillTypes /\ TillRowsOK /\ HandsOK /\ OneOpen /\ OverShortIs /\ FloatsKept /\ CashExplained

LEMMA TillFinite ==
    ASSUME T!TillAssumption
    PROVE  /\ IsFiniteSet(Requests) /\ IsFiniteSet(Cashiers) /\ IsFiniteSet(T!Sessions)
           /\ Float \in Nat /\ MaxSessions \in Nat /\ MaxHandovers \in Nat
<1>1. IsFiniteSet(Requests) /\ IsFiniteSet(Cashiers)
  BY DEF T!TillAssumption, T!IsFiniteSet, IsFiniteSet
<1>2. IsFiniteSet(T!Sessions)
  BY FS_Interval DEF T!TillAssumption, T!Sessions
<1> QED BY <1>1, <1>2 DEF T!TillAssumption

LEMMA TermsAreInt ==
    ASSUME T!TillAssumption, NEW rows \in [T!Sessions -> TillRow]
    PROVE  /\ \A s \in T!Sessions : Terms(rows)[s] = TermOf(rows[s]) /\ Terms(rows)[s] \in Int
           /\ \A s \in T!Sessions : Entered(rows)[s] = EnteredOf(rows[s]) /\ Entered(rows)[s] \in Int
<1>1. \A row \in TillRow : TermOf(row) \in Int /\ EnteredOf(row) \in Int
  BY TillFinite DEF TermOf, EnteredOf, TillRow
<1> QED BY <1>1 DEF Terms, Entered

\* One row changes, and the sums by as much.
LEMMA RowChanges ==
    ASSUME T!TillAssumption, NEW rows \in [T!Sessions -> TillRow], NEW s \in T!Sessions, NEW row \in TillRow,
           NEW next \in [T!Sessions -> TillRow], next[s] = row, \A t \in T!Sessions \ {s} : next[t] = rows[t]
    PROVE  /\ Sum(Terms(rows), T!Sessions) \in Int /\ Sum(Entered(rows), T!Sessions) \in Int
           /\ TermOf(row) \in Int /\ TermOf(rows[s]) \in Int /\ EnteredOf(row) \in Int /\ EnteredOf(rows[s]) \in Int
           /\ Sum(Terms(next), T!Sessions) = Sum(Terms(rows), T!Sessions) - TermOf(rows[s]) + TermOf(row)
           /\ Sum(Entered(next), T!Sessions) = Sum(Entered(rows), T!Sessions) - EnteredOf(rows[s]) + EnteredOf(row)
<1>1. next \in [T!Sessions -> TillRow] /\ next[s] = row /\ \A t \in T!Sessions \ {s} : next[t] = rows[t]
  OBVIOUS
<1>2. IsFiniteSet(T!Sessions)
  BY TillFinite
<1>3. /\ \A t \in T!Sessions : Terms(rows)[t] = TermOf(rows[t]) /\ Terms(rows)[t] \in Int
      /\ \A t \in T!Sessions : Entered(rows)[t] = EnteredOf(rows[t]) /\ Entered(rows)[t] \in Int
      /\ \A t \in T!Sessions : Terms(next)[t] = TermOf(next[t]) /\ Terms(next)[t] \in Int
      /\ \A t \in T!Sessions : Entered(next)[t] = EnteredOf(next[t]) /\ Entered(next)[t] \in Int
  BY <1>1, TermsAreInt
<1>4. Sum(Terms(next), T!Sessions) = Sum(Terms(rows), T!Sessions) - Terms(rows)[s] + Terms(next)[s]
  <2>1. PICK g : g = Terms(rows)
    OBVIOUS
  <2>2. PICK h : h = Terms(next)
    OBVIOUS
  <2>3. \A t \in T!Sessions : g[t] \in Int /\ h[t] \in Int
    BY <1>3, <2>1, <2>2
  <2>4. \A t \in T!Sessions \ {s} : g[t] = h[t]
    BY <1>1, <1>3, <2>1, <2>2
  <2>5. Sum(h, T!Sessions) = Sum(g, T!Sessions) - g[s] + h[s]
    BY <1>2, <2>3, <2>4, SumChange
  <2> QED BY <2>1, <2>2, <2>5
<1>5. Sum(Entered(next), T!Sessions) = Sum(Entered(rows), T!Sessions) - Entered(rows)[s] + Entered(next)[s]
  <2>1. PICK g : g = Entered(rows)
    OBVIOUS
  <2>2. PICK h : h = Entered(next)
    OBVIOUS
  <2>3. \A t \in T!Sessions : g[t] \in Int /\ h[t] \in Int
    BY <1>3, <2>1, <2>2
  <2>4. \A t \in T!Sessions \ {s} : g[t] = h[t]
    BY <1>1, <1>3, <2>1, <2>2
  <2>5. Sum(h, T!Sessions) = Sum(g, T!Sessions) - g[s] + h[s]
    BY <1>2, <2>3, <2>4, SumChange
  <2> QED BY <2>1, <2>2, <2>5
<1>6. Sum(Terms(rows), T!Sessions) \in Int /\ Sum(Entered(rows), T!Sessions) \in Int
  BY <1>2, <1>3, SumRemove
<1>7. TermOf(row) \in Int /\ TermOf(rows[s]) \in Int /\ EnteredOf(row) \in Int /\ EnteredOf(rows[s]) \in Int
  BY <1>1, <1>3
<1> QED BY <1>1, <1>3, <1>4, <1>5, <1>6, <1>7

\* One hand changes, and the number of those that wait to have cash booked that is in the safe.
LEMMA HandChanges ==
    ASSUME T!TillAssumption, TillTypes, NEW w \in Requests, NEW new \in Hand, T!Goto(w, new)
    PROVE  /\ tillWork' \in [Requests -> Hand] /\ tillWork'[w] = new
           /\ \A v \in Requests \ {w} : tillWork'[v] = tillWork[v]
           /\ Cardinality(Waiting(tillWork)) \in Nat
           /\ ~Waits(tillWork[w]) /\ ~Waits(new) => Cardinality(Waiting(tillWork')) = Cardinality(Waiting(tillWork))
           /\ ~Waits(tillWork[w]) /\ Waits(new) => Cardinality(Waiting(tillWork')) = Cardinality(Waiting(tillWork)) + 1
           /\ Waits(tillWork[w]) /\ ~Waits(new) => Cardinality(Waiting(tillWork')) = Cardinality(Waiting(tillWork)) - 1
<1>1. tillWork' \in [Requests -> Hand] /\ tillWork'[w] = new /\ \A v \in Requests \ {w} : tillWork'[v] = tillWork[v]
  BY DEF TillTypes, T!Goto
<1>2. IsFiniteSet(Waiting(tillWork)) /\ Cardinality(Waiting(tillWork)) \in Nat
  <2>1. IsFiniteSet(Requests) /\ Waiting(tillWork) \subseteq Requests
    BY TillFinite DEF Waiting
  <2> QED BY <2>1, FS_Subset, FS_CardinalityType
<1>3. CASE ~Waits(tillWork[w]) /\ ~Waits(new)
  <2>1. Waiting(tillWork') = Waiting(tillWork)
    BY <1>1, <1>3 DEF Waiting
  <2> QED BY <1>1, <1>2, <1>3, <2>1
<1>4. CASE ~Waits(tillWork[w]) /\ Waits(new)
  <2>1. Waiting(tillWork') = Waiting(tillWork) \cup {w} /\ w \notin Waiting(tillWork)
    BY <1>1, <1>4 DEF Waiting
  <2> QED BY <1>1, <1>2, <1>4, <2>1, FS_AddElement
<1>5. CASE Waits(tillWork[w]) /\ ~Waits(new)
  <2>1. Waiting(tillWork') = Waiting(tillWork) \ {w} /\ w \in Waiting(tillWork)
    BY <1>1, <1>5 DEF Waiting
  <2> QED BY <1>1, <1>2, <1>5, <2>1, FS_RemoveElement
<1>6. CASE Waits(tillWork[w]) /\ Waits(new)
  BY <1>1, <1>2, <1>6
<1> QED BY <1>3, <1>4, <1>5, <1>6

\* The hands that did not change.
LEMMA HandsStay ==
    ASSUME TillTypes, HandsOK, NEW w \in Requests, tillWork'[w] = tillWork[w],
           opened \in Int, opened' \in Int, opened' >= opened,
           opened' = opened => \A c \in Cashiers : T!OpenTills(c)' \subseteq T!OpenTills(c),
           \A s \in T!Sessions : session[s].status # "none" => session'[s].status # "none"
    PROVE  HandOK(tillWork[w])'
<1>1. tillWork[w] \in Hand /\ HandOK(tillWork[w])
  BY DEF TillTypes, HandsOK
<1>2. CASE tillWork[w].step = "open"
  <2>1. tillWork[w].cashier \in Cashiers /\ tillWork[w].opened \in Int
    BY <1>1, <1>2 DEF Hand, T!Idle, Opening, Taking, Closing
  <2>2. tillWork[w].opened <= opened /\ (tillWork[w].opened = opened => T!OpenTills(tillWork[w].cashier) = {})
    BY <1>1, <1>2 DEF HandOK
  <2>3. tillWork[w].opened <= opened'
    BY <2>1, <2>2
  <2>4. tillWork[w].opened = opened' => T!OpenTills(tillWork[w].cashier)' = {}
    <3>1. ASSUME tillWork[w].opened = opened' PROVE opened' = opened /\ tillWork[w].opened = opened
      BY <2>1, <2>2, <3>1
    <3>2. ASSUME NEW c \in Cashiers, c = tillWork[w].cashier, tillWork[w].opened = opened' PROVE T!OpenTills(c)' = {}
      BY <2>2, <3>1, <3>2
    <3> QED BY <2>1, <3>2
  <2> QED BY <1>2, <2>3, <2>4 DEF HandOK
<1>3. CASE tillWork[w].step = "take"
  <2>1. tillWork[w].till \in T!Sessions \cup {T!NoTill}
    BY <1>1, <1>3 DEF Hand, T!Idle, Opening, Taking, Closing
  <2>2. tillWork[w].till = T!NoTill \/ session[tillWork[w].till].status # "none"
    BY <1>1, <1>3 DEF HandOK
  <2> QED BY <1>3, <2>1, <2>2 DEF HandOK
<1> QED BY <1>2, <1>3 DEF HandOK

LEMMA HandsGo ==
    ASSUME T!TillAssumption, TillTypes, HandsOK, NEW w \in Requests, NEW new \in Hand, T!Goto(w, new), HandOK(new)',
           opened \in Int, opened' \in Int, opened' >= opened,
           opened' = opened => \A c \in Cashiers : T!OpenTills(c)' \subseteq T!OpenTills(c),
           \A s \in T!Sessions : session[s].status # "none" => session'[s].status # "none"
    PROVE  HandsOK'
<1>1. tillWork'[w] = new /\ \A v \in Requests \ {w} : tillWork'[v] = tillWork[v]
  BY HandChanges
<1>2. ASSUME NEW v \in Requests PROVE HandOK(tillWork[v])'
  <2>1. CASE v = w
    <3>1. tillWork'[v] = new
      BY <1>1, <2>1
    <3> QED BY <3>1 DEF HandOK
  <2>2. CASE v # w
    <3>1. tillWork'[v] = tillWork[v]
      BY <1>1, <2>2
    <3>2. HandOK(tillWork[v])'
      BY <3>1, HandsStay
    <3> QED BY <3>2
  <2> QED BY <2>1, <2>2
<1> QED BY <1>2 DEF HandsOK

LEMMA SameSessions ==
    ASSUME TillInv, session' = session, opened' = opened, overshort' = overshort, tillLapses \subseteq tillLapses'
    PROVE  /\ TillRowsOK' /\ OneOpen' /\ OverShortIs'
           /\ \A c \in Cashiers : T!OpenTills(c)' = T!OpenTills(c)
<1>1. TillRowsOK'
  BY DEF TillInv, TillRowsOK, TillRowOK
<1>2. OneOpen'
  BY DEF TillInv, OneOpen
<1>3. OverShortIs'
  BY DEF TillInv, OverShortIs
<1>4. \A c \in Cashiers : T!OpenTills(c)' = T!OpenTills(c)
  BY DEF T!OpenTills
<1> QED BY <1>1, <1>2, <1>3, <1>4

\* A request goes on and the sessions stay.
LEMMA HandsGoOn ==
    ASSUME T!TillAssumption, TillInv, session' = session, opened' = opened, overshort' = overshort,
           tillLapses \subseteq tillLapses',
           NEW w \in Requests, NEW new \in Hand, T!Goto(w, new), HandOK(new)'
    PROVE  TillRowsOK' /\ OneOpen' /\ OverShortIs' /\ HandsOK' /\ \A c \in Cashiers : T!OpenTills(c)' = T!OpenTills(c)
<1>1. TillRowsOK' /\ OneOpen' /\ OverShortIs' /\ \A c \in Cashiers : T!OpenTills(c)' = T!OpenTills(c)
  BY SameSessions
<1>2. opened \in Int /\ opened' \in Int /\ opened' >= opened
  BY DEF TillInv, TillTypes
<1>3. HandsOK'
  BY <1>1, <1>2, HandsGo DEF TillInv
<1> QED BY <1>1, <1>3

\* Nobody's hands change, nor do the sessions.
LEMMA HandsAsTheyWere ==
    ASSUME T!TillAssumption, TillInv, session' = session, opened' = opened, overshort' = overshort,
           tillLapses \subseteq tillLapses', tillWork' = tillWork
    PROVE  TillRowsOK' /\ OneOpen' /\ OverShortIs' /\ HandsOK' /\ \A c \in Cashiers : T!OpenTills(c)' = T!OpenTills(c)
<1>1. TillRowsOK' /\ OneOpen' /\ OverShortIs' /\ \A c \in Cashiers : T!OpenTills(c)' = T!OpenTills(c)
  BY SameSessions
<1>2. opened \in Int /\ opened' \in Int /\ opened' >= opened
  BY DEF TillInv, TillTypes
<1>3. ASSUME NEW w \in Requests PROVE HandOK(tillWork[w])'
  <2>1. tillWork'[w] = tillWork[w]
    OBVIOUS
  <2> QED BY <1>1, <1>2, <2>1, HandsStay DEF TillInv
<1>4. HandsOK'
  BY <1>3 DEF HandsOK
<1> QED BY <1>1, <1>4

LEMMA CurrentTill ==
    ASSUME T!TillAssumption, NEW c \in Cashiers
    PROVE  /\ T!OpenTills(c) = {} => T!Current(c) = T!NoTill
           /\ T!OpenTills(c) # {} => T!Current(c) \in T!OpenTills(c) /\ T!Current(c) # T!NoTill
<1>1. T!OpenTills(c) = {} => T!Current(c) = T!NoTill
  BY DEF T!Current
<1>2. ASSUME T!OpenTills(c) # {} PROVE T!Current(c) \in T!OpenTills(c) /\ T!Current(c) # T!NoTill
  <2>0. MaxSessions \in Nat
    BY TillFinite
  <2>1. PICK O : O = T!OpenTills(c)
    OBVIOUS
  <2>2. \A x \in O : x \in Int /\ 1 <= x /\ x <= MaxSessions
    BY <2>0, <2>1 DEF T!OpenTills, T!Sessions
  <2>3. PICK D : D = {MaxSessions - x : x \in O}
    OBVIOUS
  <2>4. D \in SUBSET Nat /\ D # {}
    BY <1>2, <2>0, <2>1, <2>2, <2>3
  <2>5. PICK d \in D : \A e \in D : d <= e
    BY <2>4, Smallest
  <2>6. PICK x \in O : d = MaxSessions - x
    BY <2>3, <2>5
  <2>7. ASSUME NEW y \in O PROVE x >= y
    <3>1. MaxSessions - y \in D
      BY <2>3
    <3>2. MaxSessions - x <= MaxSessions - y
      BY <2>5, <2>6, <3>1
    <3> QED BY <2>0, <2>2, <3>2
  <2>8. T!Max(O) \in O
    BY <2>7 DEF T!Max
  <2>9. T!Current(c) \in O
    BY <1>2, <2>1, <2>8 DEF T!Current
  <2> QED BY <2>1, <2>2, <2>9 DEF T!NoTill
<1> QED BY <1>1, <1>2

LEMMA TillInitOK == ASSUME T!TillAssumption, T!Init PROVE TillInv
<1>1. MaxSessions \in Nat /\ Float \in Nat /\ MaxHandovers \in Nat /\ IsFiniteSet(T!Sessions)
  BY TillFinite
<1>2. T!NoRow \in TillRow
  BY DEF T!NoRow, TillRow
<1>3. session = [s \in T!Sessions |-> T!NoRow] /\ opened = 0
      /\ drawer = [c \in Cashiers |-> 0] /\ safe = MaxSessions * Float /\ cash = MaxSessions * Float
      /\ overshort = 0 /\ mapped = TRUE /\ tillWork = [w \in Requests |-> T!Idle] /\ tillRequests = 0 /\ tillLapses = {}
  BY DEF T!Init
<1>4. MaxSessions * Float \in Int
  BY <1>1
<1>5. TillTypes
  <2>1. tillWork \in [Requests -> Hand]
    BY <1>3 DEF Hand
  <2> QED BY <1>1, <1>2, <1>3, <1>4, <2>1 DEF TillTypes
<1>6. TillRowsOK
  <2>1. ASSUME NEW s \in T!Sessions PROVE TillRowOK(s)
    <3>1. session[s] = T!NoRow /\ ~(s <= opened)
      BY <1>1, <1>3 DEF T!Sessions
    <3> QED BY <3>1 DEF TillRowOK, T!NoRow
  <2> QED BY <2>1 DEF TillRowsOK
<1>7. HandsOK
  BY <1>3 DEF HandsOK, HandOK, T!Idle
<1>8. OneOpen
  BY <1>3 DEF OneOpen, T!NoRow
<1>9. session \in [T!Sessions -> TillRow] /\ \A s \in T!Sessions : session[s] = T!NoRow
  BY <1>2, <1>3
<1>10. TermOf(T!NoRow) = 0 /\ EnteredOf(T!NoRow) = 0
  BY DEF TermOf, EnteredOf, T!NoRow
<1>11. OverShortIs
  <2>1. \A s \in T!Sessions : Entered(session)[s] = 0
    BY <1>9, <1>10, TermsAreInt
  <2> QED BY <1>1, <1>3, <2>1, SumZero DEF OverShortIs
<1>12. FloatsKept
  BY <1>1, <1>3, <1>4 DEF FloatsKept
<1>13. CashExplained
  <2>1. \A s \in T!Sessions : Terms(session)[s] = 0
    BY <1>9, <1>10, TermsAreInt
  <2>2. Sum(Terms(session), T!Sessions) = 0
    BY <1>1, <2>1, SumZero
  <2>3. Waiting(tillWork) = {}
    BY <1>3 DEF Waiting, Waits, T!Idle
  <2>4. Cardinality(Waiting(tillWork)) = 0
    BY <2>3, FS_EmptySet
  <2>5. cash = safe - Cardinality(Waiting(tillWork)) + Sum(Terms(session), T!Sessions)
    BY <1>3, <1>4, <2>2, <2>4
  <2> QED BY <1>3, <2>5 DEF CashExplained
<1> QED BY <1>5, <1>6, <1>7, <1>8, <1>11, <1>12, <1>13 DEF TillInv

LEMMA BeganIs ==
    ASSUME T!TillAssumption, TillInv, NEW w \in Requests, T!Began(w)
    PROVE  tillWork[w] = T!Idle /\ tillRequests' \in 0..MaxHandovers /\ ~Waits(tillWork[w])
BY TillFinite DEF T!Began, TillInv, TillTypes, T!Idle, Waits

LEMMA BeginOpenOK == ASSUME T!TillAssumption, TillInv, NEW w \in Requests, NEW c \in Cashiers, T!BeginOpen(w, c) PROVE TillInv'
<1>1. PICK new : new = [step |-> "open", cashier |-> c, opened |-> opened]
  OBVIOUS
<1>2. /\ T!Began(w) /\ T!OpenTills(c) = {} /\ T!Goto(w, new)
      /\ UNCHANGED <<session, opened, drawer, safe, cash, overshort, mapped, tillLapses>>
  BY <1>1 DEF T!BeginOpen, T!Openable
<1>3. new \in Hand /\ ~Waits(new)
  BY <1>1 DEF Hand, Opening, Waits, TillInv, TillTypes
<1>4. HandOK(new)'
  <2>1. T!OpenTills(c)' = {}
    BY <1>2 DEF T!OpenTills
  <2>2. new.step = "open" /\ new.cashier = c /\ new.opened = opened /\ opened' = opened /\ opened \in Int
    BY <1>1, <1>2 DEF TillInv, TillTypes
  <2> QED BY <2>1, <2>2 DEF HandOK
<1>5. TillRowsOK' /\ OneOpen' /\ OverShortIs' /\ HandsOK' /\ \A d \in Cashiers : T!OpenTills(d)' = T!OpenTills(d)
  BY <1>2, <1>3, <1>4, HandsGoOn
<1>6. tillWork' \in [Requests -> Hand] /\ Cardinality(Waiting(tillWork')) = Cardinality(Waiting(tillWork))
  BY <1>2, <1>3, BeganIs, HandChanges DEF TillInv
<1>7. TillTypes'
  BY <1>2, <1>6, BeganIs DEF TillInv, TillTypes
<1>8. FloatsKept' /\ CashExplained'
  BY <1>2, <1>5, <1>6 DEF TillInv, FloatsKept, CashExplained
<1> QED BY <1>5, <1>7, <1>8 DEF TillInv

LEMMA CountOK == ASSUME T!TillAssumption, TillInv, NEW w \in Requests, NEW s \in T!Sessions, T!Count(w, s) PROVE TillInv'
<1>1. PICK new : new = [step |-> "close", session |-> s, counted |-> drawer[session[s].cashier]]
  OBVIOUS
<1>2. /\ T!Began(w) /\ session[s].status # "none" /\ T!Goto(w, new)
      /\ UNCHANGED <<session, opened, drawer, safe, cash, overshort, mapped, tillLapses>>
  BY <1>1 DEF T!Count
<1>3. session[s].cashier \in Cashiers
  <2>1. opened \in Int /\ s \in Int /\ TillRowOK(s)
    BY DEF TillInv, TillTypes, TillRowsOK, T!Sessions
  <2> QED BY <1>2, <2>1 DEF TillRowOK, T!NoRow
<1>4. new \in Hand /\ ~Waits(new)
  BY <1>1, <1>3 DEF Hand, Closing, Waits, TillInv, TillTypes
<1>5. HandOK(new)'
  BY <1>1 DEF HandOK
<1>6. TillRowsOK' /\ OneOpen' /\ OverShortIs' /\ HandsOK' /\ \A d \in Cashiers : T!OpenTills(d)' = T!OpenTills(d)
  BY <1>2, <1>4, <1>5, HandsGoOn
<1>7. tillWork' \in [Requests -> Hand] /\ Cardinality(Waiting(tillWork')) = Cardinality(Waiting(tillWork))
  BY <1>2, <1>4, BeganIs, HandChanges DEF TillInv
<1>8. TillTypes'
  BY <1>2, <1>7, BeganIs DEF TillInv, TillTypes
<1>9. FloatsKept' /\ CashExplained'
  BY <1>2, <1>6, <1>7 DEF TillInv, FloatsKept, CashExplained
<1> QED BY <1>6, <1>8, <1>9 DEF TillInv

LEMMA RefuseCloseOK == ASSUME T!TillAssumption, TillInv, NEW w \in Requests, T!RefuseClose(w) PROVE TillInv'
<1>1. /\ tillWork[w].step = "close" /\ T!Goto(w, T!Idle)
      /\ UNCHANGED <<session, opened, drawer, safe, cash, overshort, mapped, tillRequests, tillLapses>>
  BY DEF T!RefuseClose, T!Finished
<1>2. T!Idle \in Hand /\ ~Waits(T!Idle) /\ ~Waits(tillWork[w])
  BY <1>1 DEF Hand, Waits, T!Idle
<1>3. HandOK(T!Idle)'
  BY DEF HandOK, T!Idle
<1>4. TillRowsOK' /\ OneOpen' /\ OverShortIs' /\ HandsOK' /\ \A d \in Cashiers : T!OpenTills(d)' = T!OpenTills(d)
  BY <1>1, <1>2, <1>3, HandsGoOn
<1>5. tillWork' \in [Requests -> Hand] /\ Cardinality(Waiting(tillWork')) = Cardinality(Waiting(tillWork))
  BY <1>1, <1>2, HandChanges DEF TillInv
<1>6. TillTypes'
  BY <1>1, <1>5 DEF TillInv, TillTypes
<1>7. FloatsKept' /\ CashExplained'
  BY <1>1, <1>4, <1>5 DEF TillInv, FloatsKept, CashExplained
<1> QED BY <1>4, <1>6, <1>7 DEF TillInv

LEMMA MapOK == ASSUME T!TillAssumption, TillInv, T!Map PROVE TillInv'
<1>1. /\ mapped' = ~mapped
      /\ UNCHANGED <<session, opened, drawer, safe, cash, overshort, tillWork, tillRequests, tillLapses>>
  BY DEF T!Map
<1>2. TillRowsOK' /\ OneOpen' /\ OverShortIs' /\ HandsOK' /\ \A d \in Cashiers : T!OpenTills(d)' = T!OpenTills(d)
  BY <1>1, HandsAsTheyWere
<1>3. mapped' \in BOOLEAN
  BY <1>1
<1>4. TillTypes'
  BY <1>1, <1>3 DEF TillInv, TillTypes
<1>5. FloatsKept' /\ CashExplained'
  BY <1>1, <1>2 DEF TillInv, FloatsKept, CashExplained
<1> QED BY <1>2, <1>4, <1>5 DEF TillInv

\* What comes into a drawer or the safe with a unit of cash.
LEMMA CashComes ==
    ASSUME T!TillAssumption, TillInv, NEW c \in Cashiers,
           IF T!Current(c) = T!NoTill THEN safe' = safe + 1 /\ UNCHANGED drawer
           ELSE drawer' = [drawer EXCEPT ![c] = @ + 1] /\ UNCHANGED safe,
           UNCHANGED <<session, opened>>
    PROVE  /\ drawer' \in [Cashiers -> Nat] /\ safe' \in Int /\ FloatsKept'
           /\ (\A d \in Cashiers : T!OpenTills(d) = {} => drawer[d] = 0) => \A d \in Cashiers : T!OpenTills(d) = {} => drawer'[d] = 0
<1>1. drawer \in [Cashiers -> Nat] /\ safe \in Int
  BY DEF TillInv, TillTypes
<1>2. safe >= (MaxSessions - opened) * Float /\ (MaxSessions - opened) * Float \in Int
  BY TillFinite DEF TillInv, TillTypes, FloatsKept
<1>3. (MaxSessions - opened') * Float = (MaxSessions - opened) * Float
  OBVIOUS
<1>4. CASE T!Current(c) = T!NoTill
  <2>1. safe' = safe + 1 /\ drawer' = drawer
    BY <1>4
  <2>2. safe' \in Int /\ FloatsKept'
    BY <1>1, <1>2, <1>3, <2>1 DEF FloatsKept
  <2> QED BY <1>1, <2>1, <2>2
<1>5. CASE T!Current(c) # T!NoTill
  <2>1. drawer' = [drawer EXCEPT ![c] = @ + 1] /\ safe' = safe
    BY <1>5
  <2>2. T!OpenTills(c) # {}
    BY <1>5, CurrentTill
  <2>3. drawer' \in [Cashiers -> Nat] /\ \A d \in Cashiers \ {c} : drawer'[d] = drawer[d]
    BY <1>1, <2>1
  <2>4. safe' \in Int /\ FloatsKept'
    BY <1>1, <1>2, <1>3, <2>1 DEF FloatsKept
  <2> QED BY <2>2, <2>3, <2>4
<1> QED BY <1>4, <1>5

LEMMA BeginTakeOK == ASSUME T!TillAssumption, TillInv, NEW w \in Requests, NEW c \in Cashiers, T!BeginTake(w, c) PROVE TillInv'
<1>1. PICK new : new = [step |-> "take", till |-> T!Current(c)]
  OBVIOUS
<1>2. /\ T!Began(w) /\ T!Goto(w, new)
      /\ UNCHANGED <<session, opened, cash, overshort, mapped, tillLapses>>
  BY <1>1 DEF T!BeginTake
<1>3. IF T!Current(c) = T!NoTill THEN safe' = safe + 1 /\ UNCHANGED drawer
      ELSE drawer' = [drawer EXCEPT ![c] = @ + 1] /\ UNCHANGED safe
  BY DEF T!BeginTake
<1>4. /\ drawer' \in [Cashiers -> Nat] /\ safe' \in Int /\ FloatsKept'
      /\ (\A d \in Cashiers : T!OpenTills(d) = {} => drawer[d] = 0) => \A d \in Cashiers : T!OpenTills(d) = {} => drawer'[d] = 0
  BY <1>2, <1>3, CashComes
<1>5. new \in Hand /\ HandOK(new)'
  <2>1. T!OpenTills(c) = {} => T!Current(c) = T!NoTill
    BY CurrentTill
  <2>2. T!Current(c) # T!NoTill => T!Current(c) \in T!Sessions /\ session[T!Current(c)].status = "open"
    BY <2>1, CurrentTill DEF T!OpenTills
  <2>3. new.step = "take" /\ new.till = T!Current(c)
    BY <1>1
  <2>4. new \in Hand
    BY <1>1, <2>2 DEF Hand, Taking
  <2> QED BY <1>2, <2>2, <2>3, <2>4 DEF HandOK
<1>6. Waits(new) <=> T!Current(c) = T!NoTill
  BY <1>1 DEF Waits
<1>7. TillRowsOK' /\ OneOpen' /\ OverShortIs' /\ HandsOK' /\ \A d \in Cashiers : T!OpenTills(d)' = T!OpenTills(d)
  BY <1>2, <1>5, HandsGoOn
<1>8. /\ tillWork' \in [Requests -> Hand] /\ Cardinality(Waiting(tillWork)) \in Nat
      /\ T!Current(c) # T!NoTill => Cardinality(Waiting(tillWork')) = Cardinality(Waiting(tillWork))
      /\ T!Current(c) = T!NoTill => Cardinality(Waiting(tillWork')) = Cardinality(Waiting(tillWork)) + 1
  BY <1>2, <1>5, <1>6, BeganIs, HandChanges DEF TillInv
<1>9. TillTypes'
  BY <1>2, <1>4, <1>8, BeganIs DEF TillInv, TillTypes
<1>10. CashExplained'
  <2>1. ASSUME tillLapses = {} PROVE cash = safe' - Cardinality(Waiting(tillWork')) + Sum(Terms(session), T!Sessions)
    <3>1. cash = safe - Cardinality(Waiting(tillWork)) + Sum(Terms(session), T!Sessions)
      BY <2>1 DEF TillInv, CashExplained
    <3>2. Sum(Terms(session), T!Sessions) \in Int /\ safe \in Int
      BY TillFinite, TermsAreInt, SumRemove DEF TillInv, TillTypes
    <3>3. T!Current(c) = T!NoTill => safe' = safe + 1
      BY <1>3
    <3>4. T!Current(c) # T!NoTill => safe' = safe
      BY <1>3
    <3> QED BY <1>8, <3>1, <3>2, <3>3, <3>4
  <2>2. ASSUME tillLapses = {} PROVE \A d \in Cashiers : T!OpenTills(d)' = {} => drawer'[d] = 0
    BY <1>4, <1>7, <2>2 DEF TillInv, CashExplained
  <2> QED BY <1>2, <2>1, <2>2 DEF CashExplained
<1> QED BY <1>4, <1>7, <1>9, <1>10 DEF TillInv

LEMMA SettleOrderOK == ASSUME T!TillAssumption, TillInv, NEW c \in Cashiers, T!SettleOrder(c) PROVE TillInv'
<1>1. /\ tillRequests < MaxHandovers /\ tillRequests' = tillRequests + 1 /\ cash' = cash + 1
      /\ tillLapses' = tillLapses \cup T!Lapse(T!Current(c) # T!NoTill, "unlinked")
      /\ UNCHANGED <<session, opened, overshort, mapped, tillWork>>
  BY DEF T!SettleOrder
<1>2. IF T!Current(c) = T!NoTill THEN safe' = safe + 1 /\ UNCHANGED drawer
      ELSE drawer' = [drawer EXCEPT ![c] = @ + 1] /\ UNCHANGED safe
  BY DEF T!SettleOrder
<1>3. /\ drawer' \in [Cashiers -> Nat] /\ safe' \in Int /\ FloatsKept'
      /\ (\A d \in Cashiers : T!OpenTills(d) = {} => drawer[d] = 0) => \A d \in Cashiers : T!OpenTills(d) = {} => drawer'[d] = 0
  BY <1>1, <1>2, CashComes
<1>4. tillLapses \subseteq tillLapses' /\ (tillLapses' = {} => T!Current(c) = T!NoTill)
  BY <1>1 DEF T!Lapse
<1>5. TillRowsOK' /\ OneOpen' /\ OverShortIs' /\ HandsOK' /\ \A d \in Cashiers : T!OpenTills(d)' = T!OpenTills(d)
  BY <1>1, <1>4, HandsAsTheyWere
<1>6. TillTypes'
  <2>1. tillRequests' \in 0..MaxHandovers /\ cash' \in Int
    BY <1>1, TillFinite DEF TillInv, TillTypes
  <2> QED BY <1>1, <1>3, <2>1 DEF TillInv, TillTypes
<1>7. CashExplained'
  <2>1. ASSUME tillLapses' = {} PROVE cash' = safe' - Cardinality(Waiting(tillWork)) + Sum(Terms(session), T!Sessions)
    <3>1. cash = safe - Cardinality(Waiting(tillWork)) + Sum(Terms(session), T!Sessions)
      BY <1>4, <2>1 DEF TillInv, CashExplained
    <3>2. Sum(Terms(session), T!Sessions) \in Int /\ safe \in Int
      BY TillFinite, TermsAreInt, SumRemove DEF TillInv, TillTypes
    <3>3. Cardinality(Waiting(tillWork)) \in Nat
      BY TillFinite, FS_Subset, FS_CardinalityType DEF Waiting
    <3>4. safe' = safe + 1 /\ cash' = cash + 1
      BY <1>1, <1>2, <1>4, <2>1
    <3> QED BY <3>1, <3>2, <3>3, <3>4
  <2>2. ASSUME tillLapses' = {} PROVE \A d \in Cashiers : T!OpenTills(d)' = {} => drawer'[d] = 0
    BY <1>3, <1>4, <1>5, <2>2 DEF TillInv, CashExplained
  <2> QED BY <1>1, <2>1, <2>2 DEF CashExplained
<1> QED BY <1>3, <1>5, <1>6, <1>7 DEF TillInv

LEMMA LoseOK == ASSUME T!TillAssumption, TillInv, NEW c \in Cashiers, T!Lose(c) PROVE TillInv'
<1>1. /\ tillRequests < MaxHandovers /\ tillRequests' = tillRequests + 1
      /\ drawer[c] > 0 /\ drawer' = [drawer EXCEPT ![c] = @ - 1]
      /\ UNCHANGED <<session, opened, safe, cash, overshort, mapped, tillWork, tillLapses>>
  BY DEF T!Lose
<1>2. TillRowsOK' /\ OneOpen' /\ OverShortIs' /\ HandsOK' /\ \A d \in Cashiers : T!OpenTills(d)' = T!OpenTills(d)
  BY <1>1, HandsAsTheyWere
<1>3. drawer' \in [Cashiers -> Nat] /\ \A d \in Cashiers : drawer[d] = 0 => drawer'[d] = 0
  <2>1. drawer \in [Cashiers -> Nat] /\ drawer[c] \in Nat /\ drawer[c] - 1 \in Nat
    BY <1>1 DEF TillInv, TillTypes
  <2> QED BY <1>1, <2>1
<1>4. TillTypes'
  <2>1. tillRequests' \in 0..MaxHandovers
    BY <1>1, TillFinite DEF TillInv, TillTypes
  <2> QED BY <1>1, <1>3, <2>1 DEF TillInv, TillTypes
<1>5. FloatsKept' /\ CashExplained'
  BY <1>1, <1>2, <1>3 DEF TillInv, FloatsKept, CashExplained
<1> QED BY <1>2, <1>4, <1>5 DEF TillInv

\* A row changes, and keeps its status and its cashier.
LEMMA RowKept ==
    ASSUME T!TillAssumption, TillInv, NEW s \in T!Sessions, NEW row \in TillRow, session' = [session EXCEPT ![s] = row],
           row.status = session[s].status, row.cashier = session[s].cashier, session[s].status # "none",
           row.status = "open" => row.variance = 0 /\ ~row.entry,
           row.status = "closed" /\ row.gl = "posted" => row.entry \/ row.variance = 0,
           opened' = opened, tillLapses \subseteq tillLapses'
    PROVE  TillRowsOK' /\ OneOpen' /\ \A c \in Cashiers : T!OpenTills(c)' = T!OpenTills(c)
<1>1. session'[s] = row /\ \A t \in T!Sessions \ {s} : session'[t] = session[t]
  BY DEF TillInv, TillTypes
<1>2. \A t \in T!Sessions : session'[t].status = session[t].status /\ session'[t].cashier = session[t].cashier
  BY <1>1
<1>3. TillRowsOK'
  <2>1. ASSUME NEW t \in T!Sessions PROVE TillRowOK(t)'
    <3>1. TillRowOK(t)
      BY DEF TillInv, TillRowsOK
    <3>2. CASE t # s
      BY <1>1, <3>1, <3>2 DEF TillRowOK
    <3>3. CASE t = s
      <4>1. ~(s > opened) /\ (s <= opened => session[s].cashier \in Cashiers)
        BY <3>1, <3>3 DEF TillRowOK, T!NoRow
      <4> QED BY <1>1, <3>3, <4>1 DEF TillRowOK
    <3> QED BY <3>2, <3>3
  <2> QED BY <2>1 DEF TillRowsOK
<1>4. OneOpen'
  <2>1. "overlapped" \notin tillLapses' => "overlapped" \notin tillLapses
    OBVIOUS
  <2> QED BY <1>2, <2>1 DEF TillInv, OneOpen
<1>5. \A c \in Cashiers : T!OpenTills(c)' = T!OpenTills(c)
  BY <1>2 DEF T!OpenTills
<1> QED BY <1>3, <1>4, <1>5

LEMMA TakeOK == ASSUME T!TillAssumption, TillInv, NEW w \in Requests, T!Take(w) PROVE TillInv'
<1>1. PICK s : s = tillWork[w].till
  OBVIOUS
<1>2. /\ tillWork[w].step = "take"
      /\ session' = IF s = T!NoTill THEN session ELSE [session EXCEPT ![s].taken = @ + 1]
      /\ cash' = cash + 1
      /\ tillLapses' = tillLapses \cup T!Lapse(s # T!NoTill /\ session[s].status = "closed", "late")
      /\ T!Goto(w, T!Idle) /\ UNCHANGED <<opened, drawer, safe, overshort, mapped, tillRequests>>
  BY <1>1 DEF T!Take, T!Finished
<1>3. s \in T!Sessions \cup {T!NoTill} /\ (s = T!NoTill \/ session[s].status # "none")
  <2>1. tillWork[w] \in Hand /\ HandOK(tillWork[w])
    BY DEF TillInv, TillTypes, HandsOK
  <2>2. tillWork[w].till \in T!Sessions \cup {T!NoTill}
    BY <1>2, <2>1 DEF Hand, T!Idle, Opening, Taking, Closing
  <2> QED BY <1>1, <1>2, <2>1, <2>2 DEF HandOK
<1>4. tillLapses \subseteq tillLapses' /\ (tillLapses' = {} => s = T!NoTill \/ session[s].status # "closed")
  BY <1>2 DEF T!Lapse
<1>5. T!Idle \in Hand /\ ~Waits(T!Idle) /\ (Waits(tillWork[w]) <=> s = T!NoTill)
  BY <1>1, <1>2 DEF Hand, Waits, T!Idle
<1>6. HandOK(T!Idle)'
  BY DEF HandOK, T!Idle
<1>7. /\ tillWork' \in [Requests -> Hand] /\ Cardinality(Waiting(tillWork)) \in Nat
      /\ s # T!NoTill => Cardinality(Waiting(tillWork')) = Cardinality(Waiting(tillWork))
      /\ s = T!NoTill => Cardinality(Waiting(tillWork')) = Cardinality(Waiting(tillWork)) - 1
  BY <1>2, <1>5, HandChanges DEF TillInv
<1>8. FloatsKept'
  BY <1>2 DEF TillInv, FloatsKept
<1>9. cash \in Int /\ cash' \in Int /\ safe \in Int /\ safe' = safe /\ cash' = cash + 1
  BY <1>2 DEF TillInv, TillTypes
<1>10. CASE s = T!NoTill
  <2>1. session' = session
    BY <1>2, <1>10
  <2>2. TillRowsOK' /\ OneOpen' /\ OverShortIs' /\ HandsOK' /\ \A d \in Cashiers : T!OpenTills(d)' = T!OpenTills(d)
    BY <1>2, <1>4, <1>5, <1>6, <2>1, HandsGoOn
  <2>3. TillTypes'
    BY <1>2, <1>7, <1>9, <2>1 DEF TillInv, TillTypes
  <2>4. ASSUME tillLapses' = {} PROVE cash' = safe - Cardinality(Waiting(tillWork')) + Sum(Terms(session), T!Sessions)
    <3>1. cash = safe - Cardinality(Waiting(tillWork)) + Sum(Terms(session), T!Sessions)
      BY <1>4, <2>4 DEF TillInv, CashExplained
    <3>2. Sum(Terms(session), T!Sessions) \in Int
      BY TillFinite, TermsAreInt, SumRemove DEF TillInv, TillTypes
    <3> QED BY <1>7, <1>9, <1>10, <3>1, <3>2
  <2>5. CashExplained'
    BY <1>2, <1>4, <1>9, <2>1, <2>2, <2>4 DEF TillInv, CashExplained
  <2> QED BY <1>8, <2>2, <2>3, <2>5 DEF TillInv
<1>11. CASE s # T!NoTill
  <2>1. s \in T!Sessions /\ session[s].status # "none" /\ session[s] \in TillRow
    BY <1>3, <1>11 DEF TillInv, TillTypes
  <2>2. PICK row : row = [session[s] EXCEPT !.taken = @ + 1]
    OBVIOUS
  <2>3. /\ row \in TillRow /\ row.status = session[s].status /\ row.cashier = session[s].cashier
        /\ row.variance = session[s].variance /\ row.entry = session[s].entry /\ row.gl = session[s].gl
        /\ row.taken = session[s].taken + 1 /\ session[s].taken \in Int
    BY <2>1, <2>2 DEF TillRow
  <2>4. session' = [session EXCEPT ![s] = row]
    BY <1>2, <1>11, <2>2
  <2>5. TillRowOK(s)
    BY <2>1 DEF TillInv, TillRowsOK
  <2>6. TillRowsOK' /\ OneOpen' /\ \A c \in Cashiers : T!OpenTills(c)' = T!OpenTills(c)
    <3>1. row.status = "open" => row.variance = 0 /\ ~row.entry
      BY <2>3, <2>5 DEF TillRowOK
    <3>2. row.status = "closed" /\ row.gl = "posted" => row.entry \/ row.variance = 0
      BY <2>3, <2>5 DEF TillRowOK
    <3> QED BY <1>2, <1>4, <2>1, <2>3, <2>4, <3>1, <3>2, RowKept
  <2>7. /\ session' \in [T!Sessions -> TillRow] /\ session'[s] = row /\ \A t \in T!Sessions \ {s} : session'[t] = session[t]
        /\ Sum(Terms(session), T!Sessions) \in Int /\ Sum(Entered(session), T!Sessions) \in Int
        /\ TermOf(row) \in Int /\ TermOf(session[s]) \in Int /\ EnteredOf(row) \in Int /\ EnteredOf(session[s]) \in Int
        /\ Sum(Terms(session'), T!Sessions) = Sum(Terms(session), T!Sessions) - TermOf(session[s]) + TermOf(row)
        /\ Sum(Entered(session'), T!Sessions) = Sum(Entered(session), T!Sessions) - EnteredOf(session[s]) + EnteredOf(row)
    <3>1. session \in [T!Sessions -> TillRow] /\ row \in TillRow /\ s \in T!Sessions
      BY <2>1, <2>3 DEF TillInv, TillTypes
    <3>2. PICK rows : rows = session
      OBVIOUS
    <3>3. PICK next : next = session'
      OBVIOUS
    <3>4. rows \in [T!Sessions -> TillRow] /\ next \in [T!Sessions -> TillRow] /\ next[s] = row
          /\ \A t \in T!Sessions \ {s} : next[t] = rows[t]
      BY <2>4, <3>1, <3>2, <3>3
    <3>5. /\ Sum(Terms(rows), T!Sessions) \in Int /\ Sum(Entered(rows), T!Sessions) \in Int
          /\ TermOf(row) \in Int /\ TermOf(rows[s]) \in Int /\ EnteredOf(row) \in Int /\ EnteredOf(rows[s]) \in Int
          /\ Sum(Terms(next), T!Sessions) = Sum(Terms(rows), T!Sessions) - TermOf(rows[s]) + TermOf(row)
          /\ Sum(Entered(next), T!Sessions) = Sum(Entered(rows), T!Sessions) - EnteredOf(rows[s]) + EnteredOf(row)
      BY <3>1, <3>4, RowChanges
    <3> QED BY <3>2, <3>3, <3>4, <3>5
  <2>8. HandsOK'
    <3>1. opened \in Int /\ opened' \in Int /\ opened' >= opened
      BY <1>2 DEF TillInv, TillTypes
    <3>2. \A t \in T!Sessions : session[t].status # "none" => session'[t].status # "none"
      BY <2>3, <2>7
    <3> QED BY <1>2, <1>5, <1>6, <2>6, <3>1, <3>2, HandsGo DEF TillInv
  <2>9. TillTypes'
    BY <1>2, <1>7, <1>9, <2>7 DEF TillInv, TillTypes
  <2>10. OverShortIs'
    <3>1. EnteredOf(row) = EnteredOf(session[s])
      BY <2>3 DEF EnteredOf
    <3>2. overshort' = overshort /\ overshort = Sum(Entered(session), T!Sessions)
      BY <1>2 DEF TillInv, OverShortIs
    <3>3. Sum(Entered(session'), T!Sessions) = Sum(Entered(session), T!Sessions)
      BY <2>7, <3>1
    <3> QED BY <3>2, <3>3 DEF OverShortIs
  <2>11. CashExplained'
    <3>1. ASSUME tillLapses' = {} PROVE cash' = safe - Cardinality(Waiting(tillWork')) + Sum(Terms(session'), T!Sessions)
      <4>1. session[s].status = "open"
        BY <1>4, <1>11, <2>1, <3>1 DEF TillRow
      <4>2. TermOf(row) = TermOf(session[s]) + 1
        BY <2>3, <4>1, TillFinite DEF TermOf
      <4>3. cash = safe - Cardinality(Waiting(tillWork)) + Sum(Terms(session), T!Sessions)
        BY <1>4, <3>1 DEF TillInv, CashExplained
      <4>4. Sum(Terms(session'), T!Sessions) = Sum(Terms(session), T!Sessions) + 1
        BY <2>7, <4>2
      <4> QED BY <1>7, <1>9, <1>11, <2>7, <4>3, <4>4
    <3>2. ASSUME tillLapses' = {} PROVE \A d \in Cashiers : T!OpenTills(d)' = {} => drawer'[d] = 0
      BY <1>2, <1>4, <2>6, <3>2 DEF TillInv, CashExplained
    <3> QED BY <1>9, <3>1, <3>2 DEF CashExplained
  <2> QED BY <1>8, <2>6, <2>8, <2>9, <2>10, <2>11 DEF TillInv
<1> QED BY <1>10, <1>11

LEMMA OpenTillOK == ASSUME T!TillAssumption, TillInv, NEW w \in Requests, T!Open(w) PROVE TillInv'
<1>1. PICK c : c = tillWork[w].cashier
  OBVIOUS
<1>2. PICK row : row = [T!NoRow EXCEPT !.status = "open", !.cashier = c]
  OBVIOUS
<1>3. PICK s : s = opened + 1
  OBVIOUS
<1>4. /\ tillWork[w].step = "open" /\ opened < MaxSessions /\ opened' = s
      /\ session' = [session EXCEPT ![s] = row]
      /\ drawer' = [drawer EXCEPT ![c] = @ + Float] /\ safe' = safe - Float
      /\ tillLapses' = tillLapses \cup T!Lapse(opened # tillWork[w].opened, "overlapped")
      /\ T!Goto(w, T!Idle) /\ UNCHANGED <<cash, overshort, mapped, tillRequests>>
  BY <1>1, <1>2, <1>3 DEF T!Open, T!Finished
<1>5. /\ opened \in Int /\ MaxSessions \in Nat /\ Float \in Nat /\ safe \in Int /\ cash \in Int
      /\ s \in T!Sessions /\ opened' \in 0..MaxSessions /\ opened' = opened + 1 /\ ~(s <= opened)
  BY <1>3, <1>4, TillFinite DEF TillInv, TillTypes, T!Sessions
<1>6. c \in Cashiers /\ (tillWork[w].opened = opened => T!OpenTills(c) = {})
  <2>1. tillWork[w] \in Hand /\ HandOK(tillWork[w])
    BY DEF TillInv, TillTypes, HandsOK
  <2>2. tillWork[w].cashier \in Cashiers
    BY <1>4, <2>1 DEF Hand, T!Idle, Opening, Taking, Closing
  <2> QED BY <1>1, <1>4, <2>1, <2>2 DEF HandOK
<1>7. /\ row \in TillRow /\ row.status = "open" /\ row.cashier = c /\ row.variance = 0 /\ row.entry = FALSE /\ row.taken = 0
  <2>1. row = [status |-> "open", cashier |-> c, taken |-> 0, variance |-> 0, gl |-> "pending", entry |-> FALSE]
    BY <1>2 DEF T!NoRow
  <2>2. row \in TillRow
    BY <1>6, <2>1 DEF TillRow
  <2> QED BY <2>1, <2>2
<1>8. session[s] = T!NoRow /\ \A t \in T!Sessions : t > opened => session[t] = T!NoRow
  <2>1. s > opened
    BY <1>3, <1>5
  <2> QED BY <1>5, <2>1 DEF TillInv, TillRowsOK, TillRowOK
<1>9. /\ session' \in [T!Sessions -> TillRow] /\ session'[s] = row /\ \A t \in T!Sessions \ {s} : session'[t] = session[t]
      /\ Sum(Terms(session), T!Sessions) \in Int /\ Sum(Entered(session), T!Sessions) \in Int
      /\ TermOf(row) \in Int /\ TermOf(session[s]) \in Int /\ EnteredOf(row) \in Int /\ EnteredOf(session[s]) \in Int
      /\ Sum(Terms(session'), T!Sessions) = Sum(Terms(session), T!Sessions) - TermOf(session[s]) + TermOf(row)
      /\ Sum(Entered(session'), T!Sessions) = Sum(Entered(session), T!Sessions) - EnteredOf(session[s]) + EnteredOf(row)
  <2>1. session \in [T!Sessions -> TillRow] /\ row \in TillRow /\ s \in T!Sessions
    BY <1>5, <1>7 DEF TillInv, TillTypes
  <2>2. PICK rows : rows = session
    OBVIOUS
  <2>3. PICK next : next = session'
    OBVIOUS
  <2>4. rows \in [T!Sessions -> TillRow] /\ next \in [T!Sessions -> TillRow] /\ next[s] = row
        /\ \A t \in T!Sessions \ {s} : next[t] = rows[t]
    BY <1>4, <2>1, <2>2, <2>3
  <2>5. /\ Sum(Terms(rows), T!Sessions) \in Int /\ Sum(Entered(rows), T!Sessions) \in Int
        /\ TermOf(row) \in Int /\ TermOf(rows[s]) \in Int /\ EnteredOf(row) \in Int /\ EnteredOf(rows[s]) \in Int
        /\ Sum(Terms(next), T!Sessions) = Sum(Terms(rows), T!Sessions) - TermOf(rows[s]) + TermOf(row)
        /\ Sum(Entered(next), T!Sessions) = Sum(Entered(rows), T!Sessions) - EnteredOf(rows[s]) + EnteredOf(row)
    BY <2>1, <2>4, RowChanges
  <2> QED BY <2>2, <2>3, <2>4, <2>5
<1>10. tillLapses \subseteq tillLapses' /\ ("overlapped" \notin tillLapses' => T!OpenTills(c) = {})
  BY <1>4, <1>6 DEF T!Lapse
<1>11. T!Idle \in Hand /\ ~Waits(T!Idle) /\ ~Waits(tillWork[w])
  BY <1>4 DEF Hand, Waits, T!Idle
<1>12. tillWork' \in [Requests -> Hand] /\ Cardinality(Waiting(tillWork')) = Cardinality(Waiting(tillWork))
       /\ Cardinality(Waiting(tillWork)) \in Nat
  BY <1>4, <1>11, HandChanges DEF TillInv
<1>13. drawer' \in [Cashiers -> Nat] /\ \A d \in Cashiers \ {c} : drawer'[d] = drawer[d]
  <2>1. drawer \in [Cashiers -> Nat] /\ drawer[c] + Float \in Nat
    BY <1>5, <1>6 DEF TillInv, TillTypes
  <2> QED BY <1>4, <2>1
<1>14. TillTypes'
  <2>1. safe' \in Int
    BY <1>4, <1>5
  <2> QED BY <1>4, <1>5, <1>9, <1>12, <1>13, <2>1 DEF TillInv, TillTypes
<1>15. TillRowsOK'
  <2>1. ASSUME NEW t \in T!Sessions PROVE TillRowOK(t)'
    <3>1. CASE t = s
      <4>1. session'[t] = row /\ ~(t > opened') /\ row.status = "open" /\ row.cashier \in Cashiers
            /\ row.variance = 0 /\ ~row.entry
        BY <1>3, <1>5, <1>6, <1>7, <1>9, <3>1
      <4> QED BY <4>1 DEF TillRowOK
    <3>2. CASE t # s
      <4>1. TillRowOK(t) /\ session'[t] = session[t]
        BY <1>9, <3>2 DEF TillInv, TillRowsOK
      <4>2. t \in Int /\ (t > opened' => t > opened) /\ (t <= opened' => t <= opened)
        BY <1>3, <1>5, <3>2 DEF T!Sessions
      <4> QED BY <4>1, <4>2 DEF TillRowOK
    <3> QED BY <3>1, <3>2
  <2> QED BY <2>1 DEF TillRowsOK
<1>16. HandsOK'
  <2>1. \A t \in T!Sessions : session[t].status # "none" => session'[t].status # "none"
    BY <1>7, <1>9
  <2>2. HandOK(T!Idle)'
    BY DEF HandOK, T!Idle
  <2>3. opened' \in Int /\ opened' >= opened /\ opened' # opened
    BY <1>5
  <2> QED BY <1>4, <1>5, <1>11, <2>1, <2>2, <2>3, HandsGo DEF TillInv
<1>17. OneOpen'
  <2>1. ASSUME "overlapped" \notin tillLapses', NEW t \in T!Sessions, NEW u \in T!Sessions,
               session'[t].status = "open", session'[u].status = "open", session'[t].cashier = session'[u].cashier
        PROVE  t = u
    <3>1. \A v \in T!Sessions \ {s} : session'[v].status = "open" => session'[v].cashier # c
      BY <1>9, <1>10, <2>1 DEF T!OpenTills
    <3>2. session'[s].cashier = c
      BY <1>7, <1>9
    <3>3. "overlapped" \notin tillLapses
      BY <1>10, <2>1
    <3>4. CASE t = s \/ u = s
      BY <2>1, <3>1, <3>2, <3>4
    <3>5. CASE t # s /\ u # s
      BY <1>9, <2>1, <3>3, <3>5 DEF TillInv, OneOpen
    <3> QED BY <3>4, <3>5
  <2> QED BY <2>1 DEF OneOpen
<1>18. OverShortIs'
  <2>1. EnteredOf(row) = 0 /\ EnteredOf(session[s]) = 0
    BY <1>7, <1>8 DEF EnteredOf, T!NoRow
  <2>2. Sum(Entered(session'), T!Sessions) = Sum(Entered(session), T!Sessions)
    BY <1>9, <2>1
  <2> QED BY <1>4, <2>2 DEF TillInv, OverShortIs
<1>19. FloatsKept'
  <2>1. safe >= (MaxSessions - opened) * Float
    BY DEF TillInv, FloatsKept
  <2>2. (MaxSessions - opened) * Float = (MaxSessions - opened') * Float + Float
    BY <1>5
  <2>3. (MaxSessions - opened) * Float \in Int /\ (MaxSessions - opened') * Float \in Int
    BY <1>5
  <2>4. safe' >= (MaxSessions - opened') * Float
    BY <1>4, <1>5, <2>1, <2>2, <2>3
  <2> QED BY <2>4 DEF FloatsKept
<1>20. CashExplained'
  <2>1. ASSUME tillLapses' = {} PROVE cash' = safe' - Cardinality(Waiting(tillWork')) + Sum(Terms(session'), T!Sessions)
    <3>1. TermOf(row) = Float /\ TermOf(session[s]) = 0
      BY <1>5, <1>7, <1>8 DEF TermOf, T!NoRow
    <3>2. cash = safe - Cardinality(Waiting(tillWork)) + Sum(Terms(session), T!Sessions)
      BY <1>10, <2>1 DEF TillInv, CashExplained
    <3>3. Sum(Terms(session'), T!Sessions) = Sum(Terms(session), T!Sessions) + Float
      BY <1>5, <1>9, <3>1
    <3>4. safe' = safe - Float /\ cash' = cash
      BY <1>4
    <3> QED BY <1>5, <1>9, <1>12, <3>2, <3>3, <3>4
  <2>2. ASSUME tillLapses' = {}, NEW d \in Cashiers, T!OpenTills(d)' = {} PROVE drawer'[d] = 0
    <3>1. d # c
      BY <1>5, <1>7, <1>9, <2>2 DEF T!OpenTills
    <3>2. T!OpenTills(d) = {}
      <4>1. ASSUME NEW t \in T!OpenTills(d) PROVE FALSE
        <5>1. t \in T!Sessions /\ session[t].status = "open" /\ session[t].cashier = d
          BY <4>1 DEF T!OpenTills
        <5>2. t # s
          BY <1>8, <5>1 DEF T!NoRow
        <5> QED BY <1>9, <2>2, <5>1, <5>2 DEF T!OpenTills
      <4> QED BY <4>1
    <3>3. drawer[d] = 0
      BY <1>10, <2>2, <3>2 DEF TillInv, CashExplained
    <3> QED BY <1>13, <3>1, <3>3
  <2> QED BY <2>1, <2>2 DEF CashExplained
<1> QED BY <1>14, <1>15, <1>16, <1>17, <1>18, <1>19, <1>20 DEF TillInv

\* A variance is posted once: the row and the ledger change by as much.
LEMMA PostIs ==
    ASSUME T!TillAssumption, TillTypes, NEW row \in TillRow, T!Post(row)
    PROVE  LET new == T!AfterPost(row)
           IN /\ new \in TillRow /\ new.status = row.status /\ new.cashier = row.cashier /\ new.variance = row.variance
              /\ row.variance = 0 => new.entry = row.entry
              /\ new.gl = "posted" => new.entry \/ new.variance = 0
              /\ cash' \in Int /\ overshort' \in Int
              /\ overshort' = overshort - EnteredOf(row) + EnteredOf(new)
              /\ row.status = "closed" => cash' = cash - TermOf(row) + TermOf(new)
              /\ row.variance = 0 => cash' = cash
<1>1. PICK new : new = T!AfterPost(row)
  OBVIOUS
<1>2. new = [row EXCEPT !.gl = IF mapped THEN "posted" ELSE "failed", !.entry = row.entry \/ (mapped /\ row.variance # 0)]
  BY <1>1 DEF T!AfterPost
<1>3. row.variance \in Int /\ cash \in Int /\ overshort \in Int /\ mapped \in BOOLEAN /\ row.entry \in BOOLEAN
  BY DEF TillTypes, TillRow
<1>4. (row.entry \/ (mapped /\ row.variance # 0)) \in BOOLEAN
  OBVIOUS
<1>5. /\ new \in TillRow /\ new.status = row.status /\ new.cashier = row.cashier /\ new.variance = row.variance
      /\ new.gl = IF mapped THEN "posted" ELSE "failed"
      /\ new.entry = (row.entry \/ (mapped /\ row.variance # 0))
  BY <1>2, <1>4 DEF TillRow
<1>6. CASE mapped /\ ~row.entry /\ row.variance # 0
  <2>1. cash' = cash + row.variance /\ overshort' = overshort + row.variance
    BY <1>6 DEF T!Post
  <2>2. EnteredOf(row) = 0 /\ EnteredOf(new) = row.variance
    BY <1>5, <1>6 DEF EnteredOf
  <2>3. row.status = "closed" => TermOf(row) = 0 - row.variance /\ TermOf(new) = 0
    BY <1>5, <1>6 DEF TermOf
  <2>4. overshort' = overshort - EnteredOf(row) + EnteredOf(new)
    BY <1>3, <2>1, <2>2
  <2>5. row.status = "closed" => cash' = cash - TermOf(row) + TermOf(new)
    BY <1>3, <2>1, <2>3
  <2>6. cash' \in Int /\ overshort' \in Int
    BY <1>3, <2>1
  <2>7. new.entry
    BY <1>5, <1>6
  <2> QED BY <1>1, <1>5, <1>6, <2>4, <2>5, <2>6, <2>7
<1>7. CASE ~(mapped /\ ~row.entry /\ row.variance # 0)
  <2>1. cash' = cash /\ overshort' = overshort
    BY <1>7 DEF T!Post
  <2>2. new.entry = row.entry
    BY <1>3, <1>5, <1>7
  <2>3. EnteredOf(new) = EnteredOf(row) /\ TermOf(new) = TermOf(row)
    <3>1. row.status = "closed" => TermOf(new) = TermOf(row)
      BY <1>5, <2>2 DEF TermOf
    <3>2. row.status = "open" => TermOf(new) = TermOf(row)
      BY <1>2, <1>5 DEF TermOf, TillRow
    <3>3. row.status = "none" => TermOf(new) = TermOf(row)
      BY <1>5 DEF TermOf
    <3>4. row.status \in {"none", "open", "closed"}
      BY DEF TillRow
    <3> QED BY <1>5, <2>2, <3>1, <3>2, <3>3, <3>4 DEF EnteredOf
  <2>4. EnteredOf(row) \in Int /\ TermOf(row) \in Int
    BY <1>3, TillFinite DEF EnteredOf, TermOf, TillRow
  <2>5. overshort' = overshort - EnteredOf(row) + EnteredOf(new) /\ cash' = cash - TermOf(row) + TermOf(new)
    BY <1>3, <2>1, <2>3, <2>4
  <2>6. new.gl = "posted" => new.entry \/ new.variance = 0
    BY <1>5, <1>7
  <2> QED BY <1>1, <1>3, <1>5, <2>1, <2>2, <2>5, <2>6
<1> QED BY <1>6, <1>7

LEMMA RetryOK == ASSUME T!TillAssumption, TillInv, NEW s \in T!Sessions, T!Retry(s) PROVE TillInv'
<1>1. PICK row : row = T!AfterPost(session[s])
  OBVIOUS
<1>2. /\ session[s].status # "none" /\ session' = [session EXCEPT ![s] = row] /\ T!Post(session[s])
      /\ UNCHANGED <<opened, drawer, safe, mapped, tillWork, tillRequests, tillLapses>>
  BY <1>1 DEF T!Retry
<1>3. session \in [T!Sessions -> TillRow] /\ session[s] \in TillRow /\ TillTypes /\ TillRowOK(s)
  BY DEF TillInv, TillTypes, TillRowsOK
<1>4. /\ row \in TillRow /\ row.status = session[s].status /\ row.cashier = session[s].cashier
      /\ row.variance = session[s].variance
      /\ session[s].variance = 0 => row.entry = session[s].entry
      /\ row.gl = "posted" => row.entry \/ row.variance = 0
      /\ cash' \in Int /\ overshort' \in Int
      /\ overshort' = overshort - EnteredOf(session[s]) + EnteredOf(row)
      /\ session[s].status = "closed" => cash' = cash - TermOf(session[s]) + TermOf(row)
      /\ session[s].variance = 0 => cash' = cash
  BY <1>1, <1>2, <1>3, PostIs
<1>5. row.status = "open" => row.variance = 0 /\ ~row.entry
  BY <1>3, <1>4 DEF TillRowOK
<1>6. TillRowsOK' /\ OneOpen' /\ \A c \in Cashiers : T!OpenTills(c)' = T!OpenTills(c)
  BY <1>2, <1>4, <1>5, RowKept
<1>7. session' \in [T!Sessions -> TillRow] /\ session'[s] = row /\ \A t \in T!Sessions \ {s} : session'[t] = session[t]
  BY <1>2, <1>3, <1>4
<1>8. /\ Sum(Terms(session), T!Sessions) \in Int /\ Sum(Entered(session), T!Sessions) \in Int
      /\ TermOf(row) \in Int /\ TermOf(session[s]) \in Int /\ EnteredOf(row) \in Int /\ EnteredOf(session[s]) \in Int
      /\ Sum(Terms(session'), T!Sessions) = Sum(Terms(session), T!Sessions) - TermOf(session[s]) + TermOf(row)
      /\ Sum(Entered(session'), T!Sessions) = Sum(Entered(session), T!Sessions) - EnteredOf(session[s]) + EnteredOf(row)
  BY <1>3, <1>4, <1>7, RowChanges
<1>9. TillTypes'
  BY <1>2, <1>3, <1>4, <1>7 DEF TillTypes
<1>10. HandsOK'
  <2>1. opened \in Int /\ opened' \in Int /\ opened' >= opened
    BY <1>2, <1>3 DEF TillTypes
  <2>2. \A t \in T!Sessions : session[t].status # "none" => session'[t].status # "none"
    BY <1>4, <1>7
  <2>3. ASSUME NEW w \in Requests PROVE HandOK(tillWork[w])'
    <3>1. tillWork'[w] = tillWork[w]
      BY <1>2
    <3> QED BY <1>6, <2>1, <2>2, <3>1, HandsStay DEF TillInv
  <2> QED BY <2>3 DEF HandsOK
<1>11. OverShortIs'
  <2>1. overshort = Sum(Entered(session), T!Sessions)
    BY DEF TillInv, OverShortIs
  <2>2. overshort' = Sum(Entered(session'), T!Sessions)
    BY <1>4, <1>8, <2>1
  <2> QED BY <2>2 DEF OverShortIs
<1>12. FloatsKept'
  BY <1>2 DEF TillInv, FloatsKept
<1>13. CashExplained'
  <2>1. ASSUME tillLapses = {} PROVE cash' = safe - Cardinality(Waiting(tillWork)) + Sum(Terms(session'), T!Sessions)
    <3>1. cash = safe - Cardinality(Waiting(tillWork)) + Sum(Terms(session), T!Sessions)
      BY <2>1 DEF TillInv, CashExplained
    <3>2. safe \in Int /\ cash \in Int /\ Cardinality(Waiting(tillWork)) \in Nat
      <4>1. IsFiniteSet(Waiting(tillWork))
        BY TillFinite, FS_Subset DEF Waiting
      <4> QED BY <1>3, <4>1, FS_CardinalityType DEF TillTypes
    <3>3. cash' = cash - TermOf(session[s]) + TermOf(row)
      <4>1. CASE session[s].status = "closed"
        BY <1>4, <4>1
      <4>2. CASE session[s].status = "open"
        <5>1. TermOf(row) = TermOf(session[s])
          BY <1>1, <1>3, <1>4, <4>2 DEF TermOf, T!AfterPost, TillRow
        <5>2. cash' = cash
          BY <1>3, <1>4, <4>2 DEF TillRowOK
        <5> QED BY <1>8, <3>2, <5>1, <5>2
      <4> QED BY <1>2, <1>3, <4>1, <4>2 DEF TillRow
    <3> QED BY <1>8, <3>1, <3>2, <3>3
  <2>2. ASSUME tillLapses = {} PROVE \A d \in Cashiers : T!OpenTills(d)' = {} => drawer'[d] = 0
    BY <1>2, <1>6, <2>2 DEF TillInv, CashExplained
  <2> QED BY <1>2, <2>1, <2>2 DEF CashExplained
<1> QED BY <1>6, <1>9, <1>10, <1>11, <1>12, <1>13 DEF TillInv

LEMMA CloseTillOK == ASSUME T!TillAssumption, TillInv, NEW w \in Requests, T!Close(w) PROVE TillInv'
<1>1. PICK s : s = tillWork[w].session
  OBVIOUS
<1>2. PICK c : c = session[s].cashier
  OBVIOUS
<1>3. PICK counted : counted = tillWork[w].counted
  OBVIOUS
<1>4. PICK row : row = [session[s] EXCEPT !.status = "closed", !.variance = counted - T!Expected(s)]
  OBVIOUS
<1>5. PICK new : new = IF row.variance = 0 THEN [row EXCEPT !.gl = "posted"] ELSE T!AfterPost(row)
  OBVIOUS
<1>6. /\ tillWork[w].step = "close" /\ session[s].status = "open"
      /\ session' = [session EXCEPT ![s] = new] /\ T!Post(row)
      /\ safe' = safe + drawer[c] /\ drawer' = [drawer EXCEPT ![c] = 0]
      /\ T!Goto(w, T!Idle) /\ UNCHANGED <<opened, mapped, tillRequests>>
  BY <1>1, <1>2, <1>3, <1>4, <1>5 DEF T!Close, T!Closable, T!Finished
<1>7. /\ tillLapses \subseteq tillLapses'
      /\ tillLapses' = {} => drawer[c] = counted /\ T!OpenTills(c) = {s}
  BY <1>1, <1>2, <1>3 DEF T!Close, T!Lapse
<1>8. s \in T!Sessions /\ counted \in Nat
  <2>1. tillWork[w] \in Hand
    BY DEF TillInv, TillTypes
  <2> QED BY <1>1, <1>3, <1>6, <2>1 DEF Hand, T!Idle, Opening, Taking, Closing
<1>9. TillTypes /\ session \in [T!Sessions -> TillRow] /\ session[s] \in TillRow /\ TillRowOK(s) /\ Float \in Nat
      /\ session[s].taken \in Nat /\ drawer \in [Cashiers -> Nat] /\ safe \in Int /\ cash \in Int /\ overshort \in Int
  BY <1>8, TillFinite DEF TillInv, TillTypes, TillRowsOK, TillRow
<1>10. c \in Cashiers /\ ~(s > opened)
  <2>1. opened \in Int /\ s \in Int
    BY <1>8 DEF TillInv, TillTypes, T!Sessions
  <2>2. ~(s > opened)
    BY <1>6, <1>9 DEF TillRowOK, T!NoRow
  <2> QED BY <1>2, <1>9, <2>1, <2>2 DEF TillRowOK
<1>11. drawer[c] \in Nat /\ safe' \in Int
  BY <1>6, <1>9, <1>10
<1>12. /\ row \in TillRow /\ row.status = "closed" /\ row.cashier = c /\ row.taken = session[s].taken
       /\ row.variance = counted - (Float + session[s].taken) /\ row.entry = session[s].entry /\ ~row.entry
  <2>1. T!Expected(s) = Float + session[s].taken /\ counted - T!Expected(s) \in Int
    BY <1>8, <1>9 DEF T!Expected
  <2>2. ~session[s].entry
    BY <1>6, <1>9 DEF TillRowOK
  <2> QED BY <1>2, <1>4, <1>9, <2>1, <2>2 DEF TillRow
<1>13. /\ new \in TillRow /\ new.status = "closed" /\ new.cashier = c
       /\ new.gl = "posted" => new.entry \/ new.variance = 0
       /\ cash' \in Int /\ overshort' \in Int
       /\ overshort' = overshort - EnteredOf(row) + EnteredOf(new)
       /\ cash' = cash - TermOf(row) + TermOf(new)
  <2>1. CASE row.variance = 0
    <3>1. cash' = cash /\ overshort' = overshort
      BY <1>6, <2>1 DEF T!Post
    <3>2. /\ new \in TillRow /\ new.status = "closed" /\ new.cashier = c /\ new.variance = 0
          /\ new.entry = row.entry
      BY <1>5, <1>12, <2>1 DEF TillRow
    <3>3. EnteredOf(row) = 0 /\ EnteredOf(new) = 0 /\ TermOf(row) = 0 /\ TermOf(new) = 0
      BY <1>12, <2>1, <3>2 DEF EnteredOf, TermOf
    <3> QED BY <1>9, <3>1, <3>2, <3>3
  <2>2. CASE row.variance # 0
    <3>1. new = T!AfterPost(row)
      BY <1>5, <2>2
    <3> QED BY <1>6, <1>9, <1>12, <3>1, PostIs
  <2> QED BY <2>1, <2>2
<1>14. session' \in [T!Sessions -> TillRow] /\ session'[s] = new /\ \A t \in T!Sessions \ {s} : session'[t] = session[t]
  BY <1>6, <1>8, <1>9, <1>13
<1>15. /\ Sum(Terms(session), T!Sessions) \in Int /\ Sum(Entered(session), T!Sessions) \in Int
       /\ TermOf(new) \in Int /\ TermOf(session[s]) \in Int /\ EnteredOf(new) \in Int /\ EnteredOf(session[s]) \in Int
       /\ Sum(Terms(session'), T!Sessions) = Sum(Terms(session), T!Sessions) - TermOf(session[s]) + TermOf(new)
       /\ Sum(Entered(session'), T!Sessions) = Sum(Entered(session), T!Sessions) - EnteredOf(session[s]) + EnteredOf(new)
  BY <1>8, <1>9, <1>13, <1>14, RowChanges
<1>16. T!Idle \in Hand /\ ~Waits(T!Idle) /\ ~Waits(tillWork[w])
  BY <1>6 DEF Hand, Waits, T!Idle
<1>17. tillWork' \in [Requests -> Hand] /\ Cardinality(Waiting(tillWork')) = Cardinality(Waiting(tillWork))
       /\ Cardinality(Waiting(tillWork)) \in Nat
  BY <1>6, <1>9, <1>16, HandChanges
<1>18. drawer' \in [Cashiers -> Nat] /\ drawer'[c] = 0 /\ \A d \in Cashiers \ {c} : drawer'[d] = drawer[d]
  BY <1>6, <1>9, <1>10
<1>19. TillTypes'
  BY <1>6, <1>9, <1>11, <1>13, <1>14, <1>17, <1>18 DEF TillTypes
<1>20. TillRowsOK'
  <2>1. ASSUME NEW t \in T!Sessions PROVE TillRowOK(t)'
    <3>1. CASE t = s
      <4>1. session'[t] = new /\ ~(t > opened') /\ new.status = "closed" /\ new.cashier \in Cashiers
            /\ (new.gl = "posted" => new.entry \/ new.variance = 0)
        BY <1>6, <1>10, <1>13, <1>14, <3>1
      <4> QED BY <4>1 DEF TillRowOK
    <3>2. CASE t # s
      <4>1. TillRowOK(t) /\ session'[t] = session[t] /\ opened' = opened
        BY <1>6, <1>14, <3>2 DEF TillInv, TillRowsOK
      <4> QED BY <4>1 DEF TillRowOK
    <3> QED BY <3>1, <3>2
  <2> QED BY <2>1 DEF TillRowsOK
<1>21. \A d \in Cashiers : T!OpenTills(d)' = T!OpenTills(d) \ {s}
  <2>1. \A t \in T!Sessions : session'[t].status = "open" <=> session[t].status = "open" /\ t # s
    BY <1>13, <1>14
  <2>2. \A t \in T!Sessions : session'[t].cashier = session[t].cashier
    BY <1>2, <1>13, <1>14
  <2> QED BY <2>1, <2>2 DEF T!OpenTills
<1>22. HandsOK'
  <2>1. opened \in Int /\ opened' \in Int /\ opened' >= opened
    BY <1>6, <1>9 DEF TillTypes
  <2>2. \A t \in T!Sessions : session[t].status # "none" => session'[t].status # "none"
    BY <1>13, <1>14
  <2>3. HandOK(T!Idle)'
    BY DEF HandOK, T!Idle
  <2>4. \A d \in Cashiers : T!OpenTills(d)' \subseteq T!OpenTills(d)
    BY <1>21
  <2> QED BY <1>6, <1>9, <1>16, <2>1, <2>2, <2>3, <2>4, HandsGo DEF TillInv
<1>23. OneOpen'
  <2>1. \A t \in T!Sessions : session'[t].status = "open" => t # s /\ session'[t] = session[t]
    BY <1>13, <1>14
  <2>2. "overlapped" \notin tillLapses' => "overlapped" \notin tillLapses
    BY <1>7
  <2> QED BY <2>1, <2>2 DEF TillInv, OneOpen
<1>24. OverShortIs'
  <2>1. EnteredOf(row) = 0 /\ EnteredOf(session[s]) = 0
    BY <1>12 DEF EnteredOf
  <2>2. overshort = Sum(Entered(session), T!Sessions)
    BY DEF TillInv, OverShortIs
  <2>3. overshort' = Sum(Entered(session'), T!Sessions)
    BY <1>9, <1>13, <1>15, <2>1, <2>2
  <2> QED BY <2>3 DEF OverShortIs
<1>25. FloatsKept'
  <2>1. safe >= (MaxSessions - opened) * Float /\ (MaxSessions - opened) * Float \in Int
    BY TillFinite DEF TillInv, TillTypes, FloatsKept
  <2>2. (MaxSessions - opened') * Float = (MaxSessions - opened) * Float
    BY <1>6
  <2>3. safe' >= (MaxSessions - opened') * Float
    BY <1>6, <1>9, <1>11, <2>1, <2>2
  <2> QED BY <2>3 DEF FloatsKept
<1>26. CashExplained'
  <2>1. ASSUME tillLapses' = {} PROVE cash' = safe' - Cardinality(Waiting(tillWork')) + Sum(Terms(session'), T!Sessions)
    <3>1. cash = safe - Cardinality(Waiting(tillWork)) + Sum(Terms(session), T!Sessions)
      BY <1>7, <2>1 DEF TillInv, CashExplained
    <3>2. TermOf(session[s]) = Float + session[s].taken
      BY <1>6 DEF TermOf
    <3>3. TermOf(row) = 0 - (counted - (Float + session[s].taken))
      BY <1>12 DEF TermOf
    <3>4. safe' = safe + counted
      BY <1>6, <1>7, <2>1
    <3>5. cash' = cash + (counted - (Float + session[s].taken)) + TermOf(new)
      BY <1>8, <1>9, <1>13, <1>15, <3>3
    <3>6. Sum(Terms(session'), T!Sessions) = Sum(Terms(session), T!Sessions) - (Float + session[s].taken) + TermOf(new)
      BY <1>15, <3>2
    <3> QED BY <1>8, <1>9, <1>15, <1>17, <3>1, <3>4, <3>5, <3>6
  <2>2. ASSUME tillLapses' = {}, NEW d \in Cashiers, T!OpenTills(d)' = {} PROVE drawer'[d] = 0
    <3>1. CASE d = c
      BY <1>18, <3>1
    <3>2. CASE d # c
      <4>1. s \notin T!OpenTills(d)
        BY <1>2, <3>2 DEF T!OpenTills
      <4>2. T!OpenTills(d) = {}
        BY <1>21, <2>2, <4>1
      <4>3. drawer[d] = 0
        BY <1>7, <2>2, <4>2 DEF TillInv, CashExplained
      <4> QED BY <1>18, <3>2, <4>3
    <3> QED BY <3>1, <3>2
  <2> QED BY <2>1, <2>2 DEF CashExplained
<1> QED BY <1>19, <1>20, <1>22, <1>23, <1>24, <1>25, <1>26 DEF TillInv

LEMMA TillStepOK == ASSUME T!TillAssumption, TillInv, [T!Next]_(T!vars) PROVE TillInv'
<1>1. ASSUME NEW w \in Requests,
             \/ \E c \in Cashiers : T!BeginOpen(w, c) \/ T!BeginTake(w, c)
             \/ \E s \in T!Sessions : T!Count(w, s)
             \/ T!Open(w) \/ T!Take(w) \/ T!Close(w) \/ T!RefuseClose(w)
      PROVE  TillInv'
  <2>1. CASE \E c \in Cashiers : T!BeginOpen(w, c) \/ T!BeginTake(w, c)
    BY <2>1, BeginOpenOK, BeginTakeOK
  <2>2. CASE \E s \in T!Sessions : T!Count(w, s)
    BY <2>2, CountOK
  <2>3. CASE T!Open(w)
    BY <2>3, OpenTillOK
  <2>4. CASE T!Take(w)
    BY <2>4, TakeOK
  <2>5. CASE T!Close(w)
    BY <2>5, CloseTillOK
  <2>6. CASE T!RefuseClose(w)
    BY <2>6, RefuseCloseOK
  <2> QED BY <1>1, <2>1, <2>2, <2>3, <2>4, <2>5, <2>6
<1>2. CASE \E c \in Cashiers : T!SettleOrder(c) \/ T!Lose(c)
  BY <1>2, SettleOrderOK, LoseOK
<1>3. CASE \E s \in T!Sessions : T!Retry(s)
  BY <1>3, RetryOK
<1>4. CASE T!Map
  BY <1>4, MapOK
<1>5. CASE UNCHANGED T!vars
  <2>1. UNCHANGED <<session, opened, drawer, safe, cash, overshort, mapped, tillWork, tillRequests, tillLapses>>
    BY <1>5 DEF T!vars
  <2>2. TillRowsOK' /\ OneOpen' /\ OverShortIs' /\ HandsOK' /\ \A d \in Cashiers : T!OpenTills(d)' = T!OpenTills(d)
    BY <2>1, HandsAsTheyWere
  <2>3. TillTypes'
    BY <2>1 DEF TillInv, TillTypes
  <2>4. FloatsKept' /\ CashExplained'
    BY <2>1, <2>2 DEF TillInv, FloatsKept, CashExplained
  <2> QED BY <2>2, <2>3, <2>4 DEF TillInv
<1> QED BY <1>1, <1>2, <1>3, <1>4, <1>5 DEF T!Next

\* Whatever tills are opened, sold from, lost cash from and closed at the same time, the invariant holds.
THEOREM TillInvariance == T!Spec => []TillInv
<1>1. T!TillAssumption
  BY TradeAssumption
<1>2. T!Init => TillInv
  BY <1>1, TillInitOK
<1>3. TillInv /\ [T!Next]_(T!vars) => TillInv'
  BY <1>1, TillStepOK
<1> QED BY <1>2, <1>3, PTL DEF T!Spec

LEMMA TillSum == ASSUME NEW f PROVE T!SumFunction(f) = Sum(f, DOMAIN f)
<1>1. T!SumFunction(f) = (CHOOSE F : IsFold(F, f, DOMAIN f))[DOMAIN f]
  BY DEF T!SumFunction, T!SumFunctionOnSet, T!FoldFunctionOnSet, T!MapThenFoldSet, IsFold, Chosen
<1> QED BY <1>1, SumIsFold

LEMMA TillFollows ==
    ASSUME T!TillAssumption, TillInv PROVE T!OneTill /\ T!VariancesTie /\ T!CashIsCounted /\ T!TypeOK
<1>0. /\ IsFiniteSet(Requests) /\ IsFiniteSet(Cashiers) /\ IsFiniteSet(T!Sessions)
      /\ Float \in Nat /\ MaxSessions \in Nat /\ MaxHandovers \in Nat
  BY TillFinite
<1>1. T!OneTill
  <2>1. ASSUME "overlapped" \notin tillLapses, NEW c \in Cashiers PROVE T!Cardinality(T!OpenTills(c)) <= 1
    <3>1. \A X : T!Cardinality(X) = Cardinality(X)
      BY DEF T!Cardinality, Cardinality
    <3>2. \A s, t \in T!OpenTills(c) : s = t
      BY <2>1 DEF TillInv, OneOpen, T!OpenTills
    <3>3. CASE T!OpenTills(c) = {}
      BY <3>1, <3>3, FS_EmptySet
    <3>4. CASE T!OpenTills(c) # {}
      <4>1. PICK s : T!OpenTills(c) = {s}
        BY <3>2, <3>4
      <4>2. Cardinality({s}) = 1
        BY FS_Singleton
      <4>3. T!Cardinality(T!OpenTills(c)) = 1
        BY <3>1, <4>1, <4>2
      <4> QED BY <4>3
    <3> QED BY <3>3, <3>4
  <2> QED BY <2>1 DEF T!OneTill
<1>2. session \in [T!Sessions -> TillRow] /\ \A s \in T!Sessions : TillRowOK(s)
  BY DEF TillInv, TillTypes, TillRowsOK
<1>3. ASSUME \A s \in T!Closed : session[s].gl = "posted"
      PROVE  overshort = T!SumFunction([s \in T!Closed |-> session[s].variance])
  <2>1. PICK g : g = [s \in T!Closed |-> session[s].variance]
    OBVIOUS
  <2>2. DOMAIN g = T!Closed /\ T!Closed \in SUBSET T!Sessions /\ IsFiniteSet(T!Closed)
    BY <1>0, <2>1, FS_Subset DEF T!Closed
  <2>3. \A s \in T!Closed : g[s] = Entered(session)[s] /\ g[s] \in Int
    <3>1. ASSUME NEW s \in T!Closed PROVE g[s] = Entered(session)[s] /\ g[s] \in Int
      <4>1. s \in T!Sessions /\ session[s].status = "closed" /\ session[s].gl = "posted" /\ session[s] \in TillRow
        BY <1>2, <1>3 DEF T!Closed
      <4>2. session[s].entry \/ session[s].variance = 0
        BY <1>2, <4>1 DEF TillRowOK
      <4>3. EnteredOf(session[s]) = session[s].variance /\ session[s].variance \in Int
        BY <4>1, <4>2 DEF EnteredOf, TillRow
      <4> QED BY <2>1, <4>1, <4>3 DEF Entered
    <3> QED BY <3>1
  <2>4. \A s \in T!Sessions \ T!Closed : Entered(session)[s] = 0
    <3>1. ASSUME NEW s \in T!Sessions \ T!Closed PROVE Entered(session)[s] = 0
      <4>1. session[s].status \in {"none", "open"}
        BY <1>2 DEF T!Closed, TillRow
      <4>2. session[s].status = "none" => session[s] = T!NoRow
        <5>1. s \in Int /\ opened \in Int
          BY DEF TillInv, TillTypes, T!Sessions
        <5> QED BY <1>2, <5>1 DEF TillRowOK
      <4>3. ~session[s].entry
        BY <1>2, <4>1, <4>2 DEF TillRowOK, T!NoRow
      <4> QED BY <4>3 DEF Entered, EnteredOf
    <3> QED BY <3>1
  <2>5. \A s \in T!Sessions : Entered(session)[s] \in Int
    BY <1>2, TermsAreInt
  <2>6. Sum(g, T!Closed) = Sum(Entered(session), T!Closed)
    BY <2>2, <2>3, SumSame
  <2>7. Sum(Entered(session), T!Sessions) = Sum(Entered(session), T!Closed)
    BY <1>0, <2>2, <2>4, <2>5, SumSupport
  <2>8. overshort = Sum(g, T!Closed)
    BY <2>6, <2>7 DEF TillInv, OverShortIs
  <2> QED BY <2>1, <2>2, <2>8, TillSum
<1>4. T!VariancesTie
  BY <1>3 DEF T!VariancesTie
<1>5. ASSUME tillLapses = {},
             \A s \in T!Sessions : session[s].status # "open" /\ (s \in T!Closed => session[s].gl = "posted"),
             \A w \in Requests : tillWork[w].step # "take"
      PROVE  cash = safe + T!SumFunction(drawer)
  <2>1. \A c \in Cashiers : drawer[c] = 0
    BY <1>5 DEF TillInv, CashExplained, T!OpenTills
  <2>2. DOMAIN drawer = Cashiers
    BY DEF TillInv, TillTypes
  <2>3. T!SumFunction(drawer) = 0
    BY <1>0, <2>1, <2>2, SumZero, TillSum
  <2>4. Cardinality(Waiting(tillWork)) = 0
    <3>1. Waiting(tillWork) = {}
      BY <1>5 DEF Waiting, Waits
    <3> QED BY <3>1, FS_EmptySet
  <2>5. \A s \in T!Sessions : Terms(session)[s] = 0
    <3>1. ASSUME NEW s \in T!Sessions PROVE TermOf(session[s]) = 0
      <4>1. CASE session[s].status = "closed"
        <5>1. session[s].entry \/ session[s].variance = 0
          BY <1>2, <1>5, <4>1 DEF T!Closed, TillRowOK
        <5> QED BY <4>1, <5>1 DEF TermOf
      <4>2. CASE session[s].status # "closed"
        BY <1>5, <4>2 DEF TermOf
      <4> QED BY <4>1, <4>2
    <3> QED BY <3>1 DEF Terms
  <2>6. Sum(Terms(session), T!Sessions) = 0
    BY <1>0, <2>5, SumZero
  <2>7. cash = safe - 0 + 0 /\ safe \in Int
    BY <1>5, <2>4, <2>6 DEF TillInv, CashExplained, TillTypes
  <2> QED BY <2>3, <2>7
<1>6. T!CashIsCounted
  BY <1>5 DEF T!CashIsCounted
<1>7. T!TypeOK
  <2>1. safe \in Nat
    <3>1. safe >= (MaxSessions - opened) * Float /\ safe \in Int /\ opened \in 0..MaxSessions
      BY DEF TillInv, TillTypes, FloatsKept
    <3>2. (MaxSessions - opened) \in Nat
      BY <1>0, <3>1
    <3>3. (MaxSessions - opened) * Float \in Nat
      BY <1>0, <3>2
    <3> QED BY <3>1, <3>3
  <2> QED BY <1>2, <2>1 DEF T!TypeOK, TillInv, TillTypes, TillRow
<1> QED BY <1>1, <1>4, <1>6, <1>7

-----------------------------------------------------------------------------
(* Card payouts.                                                           *)

LineRow == [status : {"unmatched", "matched", "other_income", "ignored"}, payment : Payments \cup {P!None},
            auto : BOOLEAN, payout : P!Payouts, batch : Exports]
PayoutLine == {P!Absent} \cup LineRow
PayoutLines == [P!References -> PayoutLine]

ToMatch == [step : {"match"}, batch : Exports]
Listed == [step : {"listed"}, pool : SUBSET Payments, all : PayoutLines, lines : SUBSET P!References]
Reviewing == [step : {"unmatch", "ignore", "other_income", "posted"}, line : P!References, seen : LineRow]
Assigning == [step : {"assign"}, line : P!References, seen : LineRow, payment : Payments, all : PayoutLines]
Clerk == {P!Idle} \cup ToMatch \cup Listed \cup Reviewing \cup Assigning

PayoutTypes ==
    /\ payout \in PayoutLines /\ uploaded \subseteq Exports /\ income \subseteq P!Imported
    /\ payoutWork \in [Requests -> Clerk] /\ payoutRequests \in 0..MaxReviews

\* A line has the payout its export has under its reference, and no row of an export is missing.
LineOK(r) ==
    payout[r].status # P!None =>
        /\ payout[r].batch \in uploaded /\ r \in DOMAIN payout[r].batch /\ payout[r].payout = payout[r].batch[r]
        /\ payout[r].status = "matched" /\ payout[r].auto => P!Fits(payout[r].payout, payout[r].payment)
LinesOK == \A r \in P!References : LineOK(r)
ExportsTaken == \A e \in uploaded : DOMAIN e \subseteq P!Imported

\* The pool a request listed has no payment that a line settled then, nor has the payment it
\* checked; the line it reviews is there, and was not matched if it is to be income or ignored.
ClerkOK(h) ==
    /\ h.step = "listed" => /\ h.lines \subseteq P!Imported
                            /\ \A r \in h.lines : h.all[r].status = "unmatched"
                            /\ \A r \in P!References : h.all[r].payment \notin h.pool
    /\ h.step \in {"unmatch", "ignore", "other_income", "posted", "assign"} => h.line \in P!Imported
    /\ h.step \in {"ignore", "other_income", "posted"} => h.seen.status # "matched"
    /\ h.step = "assign" => \A r \in P!References \ {h.line} : h.all[r].payment # h.payment
ClerksOK == \A w \in Requests : ClerkOK(payoutWork[w])

SettlesOne ==
    "overlap" \notin payoutLapses =>
        \A r, s \in P!References : payout[r].payment # P!None /\ payout[r].payment = payout[s].payment => r = s
PostedOn(r) == \E w \in Requests : payoutWork[w].step = "posted" /\ payoutWork[w].line = r
IncomeOK(r) == r \in income <=> payout[r].status = "other_income" \/ PostedOn(r)
IncomeIsOne == payoutLapses \cap {"stale", "income left", "killed"} = {} => \A r \in P!Imported : IncomeOK(r)
MatchedIsPaid == "stale" \notin payoutLapses => \A r \in P!Imported : payout[r].payment # P!None <=> payout[r].status = "matched"

PayoutInv ==
    PayoutTypes /\ LinesOK /\ ExportsTaken /\ ClerksOK /\ SettlesOne /\ IncomeIsOne /\ MatchedIsPaid

LEMMA PayoutFinite == ASSUME P!PayoutAssumption PROVE IsFiniteSet(P!References) /\ P!None \notin Payments /\ MaxReviews \in Nat
BY DEF P!PayoutAssumption, P!IsFiniteSet, IsFiniteSet

LEMMA ImportedIs ==
    ASSUME PayoutTypes, NEW r \in P!References
    PROVE  /\ r \in P!Imported <=> payout[r].status # P!None
           /\ r \in P!Imported => payout[r] \in LineRow
           /\ r \notin P!Imported => payout[r] = P!Absent
BY DEF PayoutTypes, PayoutLines, PayoutLine, LineRow, P!Imported, P!Absent, P!None

LEMMA RowIsThere == ASSUME NEW row \in LineRow PROVE row.status # P!None /\ row \in PayoutLine
BY DEF LineRow, P!None, PayoutLine

LEMMA PayoutInitOK == ASSUME P!PayoutAssumption, P!Init PROVE PayoutInv
<1>1. /\ payout = [r \in P!References |-> P!Absent] /\ uploaded = {} /\ income = {}
      /\ payoutWork = [w \in Requests |-> P!Idle] /\ payoutRequests = 0 /\ payoutLapses = {}
  BY DEF P!Init
<1>2. PayoutTypes
  BY <1>1, PayoutFinite DEF PayoutTypes, PayoutLines, PayoutLine, Clerk
<1>3. \A r \in P!References : payout[r].status = P!None /\ payout[r].payment = P!None
  BY <1>1 DEF P!Absent
<1>4. LinesOK /\ SettlesOne
  BY <1>3 DEF LinesOK, LineOK, SettlesOne
<1>5. ExportsTaken /\ ClerksOK
  BY <1>1 DEF ExportsTaken, ClerksOK, ClerkOK, P!Idle
<1>6. IncomeIsOne /\ MatchedIsPaid
  BY <1>3 DEF IncomeIsOne, MatchedIsPaid, P!Imported
<1> QED BY <1>2, <1>4, <1>5, <1>6 DEF PayoutInv

LEMMA ClerkGoes ==
    ASSUME PayoutTypes, ClerksOK, NEW w \in Requests, NEW new \in Clerk, P!Goto(w, new),
           P!Imported \subseteq P!Imported', ClerkOK(new)'
    PROVE  /\ payoutWork' \in [Requests -> Clerk] /\ payoutWork'[w] = new
           /\ \A v \in Requests \ {w} : payoutWork'[v] = payoutWork[v]
           /\ ClerksOK'
<1>1. /\ payoutWork' \in [Requests -> Clerk] /\ payoutWork'[w] = new
      /\ \A v \in Requests \ {w} : payoutWork'[v] = payoutWork[v]
  BY DEF PayoutTypes, P!Goto
<1>2. ASSUME NEW v \in Requests PROVE ClerkOK(payoutWork[v])'
  <2>1. CASE v = w
    BY <1>1, <2>1 DEF ClerkOK
  <2>2. CASE v # w
    <3>1. payoutWork'[v] = payoutWork[v] /\ ClerkOK(payoutWork[v])
      BY <1>1, <2>2 DEF ClerksOK
    <3> QED BY <3>1 DEF ClerkOK
  <2> QED BY <2>1, <2>2
<1> QED BY <1>1, <1>2 DEF ClerksOK

\* A request goes on; lines, exports and income stay, and nothing was being posted.
LEMMA ClerkGoesOn ==
    ASSUME P!PayoutAssumption, PayoutInv, NEW w \in Requests, NEW new \in Clerk, P!Goto(w, new), ClerkOK(new)',
           payout' = payout, uploaded' = uploaded, income' = income, payoutRequests' \in 0..MaxReviews,
           payoutLapses \subseteq payoutLapses',
           payoutLapses' \cap {"stale", "income left", "killed"} = {} => payoutWork[w].step # "posted" /\ new.step # "posted"
    PROVE  PayoutInv'
<1>1. P!Imported' = P!Imported
  BY DEF P!Imported
<1>2. /\ payoutWork' \in [Requests -> Clerk] /\ payoutWork'[w] = new
      /\ \A v \in Requests \ {w} : payoutWork'[v] = payoutWork[v]
      /\ ClerksOK'
  BY <1>1, ClerkGoes DEF PayoutInv
<1>3. PayoutTypes'
  BY <1>1, <1>2 DEF PayoutInv, PayoutTypes
<1>4. LinesOK' /\ ExportsTaken'
  BY <1>1 DEF PayoutInv, LinesOK, LineOK, ExportsTaken
<1>5. SettlesOne' /\ MatchedIsPaid'
  BY <1>1 DEF PayoutInv, SettlesOne, MatchedIsPaid
<1>6. IncomeIsOne'
  <2>1. ASSUME payoutLapses' \cap {"stale", "income left", "killed"} = {}, NEW r \in P!Imported PROVE IncomeOK(r)'
    <3>1. IncomeOK(r)
      BY <2>1 DEF PayoutInv, IncomeIsOne
    <3>2. PostedOn(r)' <=> PostedOn(r)
      BY <1>2, <2>1 DEF PostedOn
    <3> QED BY <3>1, <3>2 DEF IncomeOK
  <2> QED BY <1>1, <2>1 DEF IncomeIsOne
<1> QED BY <1>2, <1>3, <1>4, <1>5, <1>6 DEF PayoutInv

LEMMA PayoutBegan == ASSUME P!PayoutAssumption, PayoutInv, P!Began PROVE payoutRequests' \in 0..MaxReviews
BY PayoutFinite DEF P!Began, PayoutInv, PayoutTypes

LEMMA RematchOK ==
    ASSUME P!PayoutAssumption, PayoutInv, NEW w \in Requests, NEW e \in Exports, P!Rematch(w, e)
    PROVE  PayoutInv'
<1>1. PICK new : new = [step |-> "match", batch |-> e]
  OBVIOUS
<1>2. payoutWork[w] = P!Idle /\ P!Began /\ P!Goto(w, new) /\ UNCHANGED <<payout, uploaded, income, payoutLapses>>
  BY <1>1 DEF P!Rematch
<1>3. new \in Clerk /\ new.step = "match" /\ payoutWork[w].step = "idle"
  BY <1>1, <1>2 DEF Clerk, ToMatch, P!Idle
<1>4. ClerkOK(new)'
  BY <1>3 DEF ClerkOK
<1> QED BY <1>2, <1>3, <1>4, PayoutBegan, ClerkGoesOn

LEMMA ListOK == ASSUME P!PayoutAssumption, PayoutInv, NEW w \in Requests, P!List(w) PROVE PayoutInv'
<1>1. PICK new : new = [step |-> "listed", pool |-> P!Pool, all |-> payout,
                        lines |-> {r \in P!Imported : payout[r].batch = payoutWork[w].batch /\ payout[r].status = "unmatched"}]
  OBVIOUS
<1>2. payoutWork[w].step = "match" /\ P!Goto(w, new) /\ UNCHANGED <<payout, uploaded, income, payoutRequests, payoutLapses>>
  BY <1>1 DEF P!List
<1>3. new \in Clerk /\ new.step = "listed"
  BY <1>1 DEF Clerk, Listed, PayoutInv, PayoutTypes, P!Pool, P!Imported
<1>4. ClerkOK(new)'
  <2>1. P!Imported' = P!Imported
    BY <1>2 DEF P!Imported
  <2>2. new.lines \subseteq P!Imported /\ \A r \in new.lines : new.all[r].status = "unmatched"
    BY <1>1
  <2>3. \A r \in P!References : new.all[r].payment \notin new.pool
    BY <1>1 DEF P!Pool
  <2> QED BY <1>3, <2>1, <2>2, <2>3 DEF ClerkOK
<1>5. payoutRequests' \in 0..MaxReviews
  BY <1>2 DEF PayoutInv, PayoutTypes
<1> QED BY <1>2, <1>3, <1>4, <1>5, ClerkGoesOn

LEMMA LoadOK ==
    ASSUME P!PayoutAssumption, PayoutInv, NEW w \in Requests, NEW r \in P!References,
           NEW op \in {"unmatch", "ignore", "other_income"}, P!Load(w, r, op)
    PROVE  PayoutInv'
<1>1. PICK new : new = [step |-> op, line |-> r, seen |-> payout[r]]
  OBVIOUS
<1>2. /\ payoutWork[w] = P!Idle /\ P!Began /\ r \in P!Imported /\ P!Goto(w, new)
      /\ op \in {"other_income", "ignore"} => payout[r].status # "matched"
      /\ UNCHANGED <<payout, uploaded, income, payoutLapses>>
  BY <1>1 DEF P!Load, P!Open
<1>3. payout[r] \in LineRow
  BY <1>2, ImportedIs DEF PayoutInv
<1>4. new \in Clerk /\ new.step = op /\ payoutWork[w].step = "idle"
  BY <1>1, <1>2, <1>3 DEF Clerk, Reviewing, P!Idle
<1>5. ClerkOK(new)'
  <2>1. P!Imported' = P!Imported
    BY <1>2 DEF P!Imported
  <2> QED BY <1>1, <1>2, <2>1 DEF ClerkOK
<1> QED BY <1>2, <1>4, <1>5, PayoutBegan, ClerkGoesOn

LEMMA CheckOK ==
    ASSUME P!PayoutAssumption, PayoutInv, NEW w \in Requests, NEW r \in P!References, NEW p \in Payments, P!Check(w, r, p)
    PROVE  PayoutInv'
<1>1. PICK new : new = [step |-> "assign", line |-> r, seen |-> payout[r], payment |-> p, all |-> payout]
  OBVIOUS
<1>2. /\ payoutWork[w] = P!Idle /\ P!Began /\ r \in P!Imported /\ P!Goto(w, new)
      /\ \A s \in P!References \ {r} : payout[s].payment # p
      /\ UNCHANGED <<payout, uploaded, income, payoutLapses>>
  BY <1>1 DEF P!Check, P!Unsettled
<1>3. payout[r] \in LineRow
  BY <1>2, ImportedIs DEF PayoutInv
<1>4. new \in Clerk /\ new.step = "assign" /\ payoutWork[w].step = "idle"
  BY <1>1, <1>2, <1>3 DEF Clerk, Assigning, P!Idle, PayoutInv, PayoutTypes
<1>5. ClerkOK(new)'
  <2>1. P!Imported' = P!Imported
    BY <1>2 DEF P!Imported
  <2> QED BY <1>1, <1>2, <2>1 DEF ClerkOK
<1> QED BY <1>2, <1>4, <1>5, PayoutBegan, ClerkGoesOn

LEMMA KillOK == ASSUME P!PayoutAssumption, PayoutInv, NEW w \in Requests, P!Kill(w) PROVE PayoutInv'
<1>1. /\ payoutLapses' = payoutLapses \cup {"killed"} /\ P!Goto(w, P!Idle)
      /\ UNCHANGED <<payout, uploaded, income, payoutRequests>>
  BY DEF P!Kill, P!Finished
<1>2. P!Idle \in Clerk /\ ClerkOK(P!Idle)'
  BY DEF Clerk, ClerkOK, P!Idle
<1>3. payoutRequests' \in 0..MaxReviews
  BY <1>1 DEF PayoutInv, PayoutTypes
<1> QED BY <1>1, <1>2, <1>3, ClerkGoesOn

LEMMA ReviewingIs ==
    ASSUME P!PayoutAssumption, PayoutInv, NEW w \in Requests,
           payoutWork[w].step \in {"unmatch", "ignore", "other_income", "posted", "assign"}
    PROVE  /\ ClerkOK(payoutWork[w]) /\ payoutWork[w].line \in P!References /\ payoutWork[w].line \in P!Imported
           /\ payoutWork[w].seen \in LineRow
           /\ payoutWork[w].step # "assign" => payoutWork[w] \in Reviewing
           /\ payoutWork[w].step = "assign" => payoutWork[w] \in Assigning
<1>1. payoutWork[w] \in Clerk /\ ClerkOK(payoutWork[w])
  BY DEF PayoutInv, PayoutTypes, ClerksOK
<1>2. payoutWork[w] \in Reviewing \/ payoutWork[w] \in Assigning
  BY <1>1 DEF Clerk, P!Idle, ToMatch, Listed
<1>3. payoutWork[w].line \in P!References /\ payoutWork[w].seen \in LineRow
      /\ (payoutWork[w].step # "assign" => payoutWork[w] \in Reviewing)
      /\ (payoutWork[w].step = "assign" => payoutWork[w] \in Assigning)
  BY <1>2 DEF Reviewing, Assigning
<1> QED BY <1>1, <1>3 DEF ClerkOK

\* Income is booked before its line says so.
LEMMA PostOK == ASSUME P!PayoutAssumption, PayoutInv, NEW w \in Requests, P!Post(w) PROVE PayoutInv'
<1>1. PICK r : r = payoutWork[w].line
  OBVIOUS
<1>2. PICK new : new = [payoutWork[w] EXCEPT !.step = "posted"]
  OBVIOUS
<1>3. /\ payoutWork[w].step = "other_income" /\ income' = income \cup {r} /\ P!Goto(w, new)
      /\ payoutLapses \subseteq payoutLapses' /\ UNCHANGED <<payout, uploaded, payoutRequests>>
  BY <1>1, <1>2 DEF P!Post
<1>4. ClerkOK(payoutWork[w]) /\ r \in P!Imported /\ payoutWork[w] \in Reviewing
  BY <1>1, <1>3, ReviewingIs
<1>5. new \in Clerk /\ new.step = "posted" /\ new.line = r /\ new.seen = payoutWork[w].seen
  BY <1>1, <1>2, <1>4 DEF Clerk, Reviewing
<1>6. P!Imported' = P!Imported
  BY <1>3 DEF P!Imported
<1>7. ClerkOK(new)'
  BY <1>3, <1>4, <1>5, <1>6 DEF ClerkOK
<1>8. /\ payoutWork' \in [Requests -> Clerk] /\ payoutWork'[w] = new
      /\ \A v \in Requests \ {w} : payoutWork'[v] = payoutWork[v]
      /\ ClerksOK'
  BY <1>3, <1>5, <1>6, <1>7, ClerkGoes DEF PayoutInv
<1>9. PayoutTypes'
  BY <1>3, <1>4, <1>6, <1>8 DEF PayoutInv, PayoutTypes
<1>10. LinesOK' /\ ExportsTaken' /\ SettlesOne' /\ MatchedIsPaid'
  BY <1>3, <1>6 DEF PayoutInv, LinesOK, LineOK, ExportsTaken, SettlesOne, MatchedIsPaid
<1>11. IncomeIsOne'
  <2>1. ASSUME payoutLapses' \cap {"stale", "income left", "killed"} = {}, NEW s \in P!Imported PROVE IncomeOK(s)'
    <3>1. CASE s = r
      <4>1. PostedOn(s)'
        BY <1>5, <1>8, <3>1 DEF PostedOn
      <4> QED BY <1>3, <3>1, <4>1 DEF IncomeOK
    <3>2. CASE s # r
      <4>1. IncomeOK(s)
        BY <1>3, <2>1 DEF PayoutInv, IncomeIsOne
      <4>2. PostedOn(s)' <=> PostedOn(s)
        BY <1>3, <1>5, <1>8, <3>2 DEF PostedOn
      <4> QED BY <1>3, <3>2, <4>1, <4>2 DEF IncomeOK
    <3> QED BY <3>1, <3>2
  <2> QED BY <1>6, <2>1 DEF IncomeIsOne
<1> QED BY <1>8, <1>9, <1>10, <1>11 DEF PayoutInv

\* One line changes.
LEMMA OneLine ==
    ASSUME P!PayoutAssumption, PayoutTypes, NEW r \in P!References, r \in P!Imported,
           NEW row \in LineRow, payout' = [payout EXCEPT ![r] = row]
    PROVE  /\ payout' \in PayoutLines /\ payout'[r] = row /\ \A s \in P!References \ {r} : payout'[s] = payout[s]
           /\ P!Imported' = P!Imported
<1>1. payout' \in PayoutLines /\ payout'[r] = row /\ \A s \in P!References \ {r} : payout'[s] = payout[s]
  BY RowIsThere DEF PayoutTypes, PayoutLines
<1> QED BY <1>1, RowIsThere DEF P!Imported

LEMMA OneLineOK ==
    ASSUME PayoutTypes, LinesOK, NEW r \in P!References, r \in P!Imported, uploaded' = uploaded,
           \A s \in P!References \ {r} : payout'[s] = payout[s],
           payout'[r].payout = payout[r].payout, payout'[r].batch = payout[r].batch,
           ~(payout'[r].status = "matched" /\ payout'[r].auto)
    PROVE  LinesOK'
<1>1. ASSUME NEW s \in P!References PROVE LineOK(s)'
  <2>1. LineOK(s)
    BY DEF LinesOK
  <2>2. CASE s = r
    <3>1. payout[r].status # P!None
      BY ImportedIs
    <3> QED BY <2>1, <2>2, <3>1 DEF LineOK
  <2>3. CASE s # r
    <3>1. payout'[s] = payout[s]
      BY <2>3
    <3> QED BY <2>1, <3>1 DEF LineOK
  <2> QED BY <2>2, <2>3
<1> QED BY <1>1 DEF LinesOK

LEMMA OneLineSettles ==
    ASSUME SettlesOne, NEW r \in P!References, payoutLapses \subseteq payoutLapses',
           \A s \in P!References \ {r} : payout'[s] = payout[s],
           "overlap" \notin payoutLapses' =>
               payout'[r].payment = P!None \/ \A s \in P!References \ {r} : payout[s].payment # payout'[r].payment
    PROVE  SettlesOne'
<1>1. ASSUME "overlap" \notin payoutLapses', NEW s \in P!References, NEW t \in P!References,
             payout'[s].payment # P!None, payout'[s].payment = payout'[t].payment
      PROVE  s = t
  <2>1. "overlap" \notin payoutLapses
    BY <1>1
  <2>2. CASE s # r /\ t # r
    <3>1. payout'[s] = payout[s] /\ payout'[t] = payout[t]
      BY <2>2
    <3> QED BY <1>1, <2>1, <3>1 DEF SettlesOne
  <2>3. CASE s = r \/ t = r
    BY <1>1, <2>3
  <2> QED BY <2>2, <2>3
<1> QED BY <1>1 DEF SettlesOne

\* A review is saved: one line changes, and keeps its payout.
LEMMA Reviewed ==
    ASSUME P!PayoutAssumption, PayoutInv, NEW w \in Requests, NEW r \in P!References, r = payoutWork[w].line,
           r \in P!Imported, P!Finished(w), UNCHANGED <<uploaded, income, payoutRequests>>,
           NEW row \in LineRow, payout' = [payout EXCEPT ![r] = row], payoutLapses \subseteq payoutLapses',
           row.payout = payout[r].payout, row.batch = payout[r].batch,
           row.status = "matched" => ~row.auto,
           "overlap" \notin payoutLapses' =>
               row.payment = P!None \/ \A s \in P!References \ {r} : payout[s].payment # row.payment,
           "stale" \notin payoutLapses' => (row.payment # P!None <=> row.status = "matched"),
           payoutLapses' \cap {"stale", "income left", "killed"} = {} =>
               \/ row.status = "other_income" /\ payoutWork[w].step = "posted"
               \/ row.status # "other_income" /\ payoutWork[w].step # "posted" /\ payout[r].status # "other_income"
               \/ row.status # "other_income" /\ payoutWork[w].step # "posted" /\ row.status = payout[r].status
    PROVE  PayoutInv'
<1>1. payout' \in PayoutLines /\ payout'[r] = row /\ \A s \in P!References \ {r} : payout'[s] = payout[s]
  BY OneLine DEF PayoutInv
<1>2. P!Imported' = P!Imported
  BY OneLine DEF PayoutInv
<1>3. P!Idle \in Clerk /\ ClerkOK(P!Idle)' /\ P!Goto(w, P!Idle) /\ P!Idle.step = "idle"
  BY DEF Clerk, ClerkOK, P!Idle, P!Finished
<1>4. /\ payoutWork' \in [Requests -> Clerk] /\ payoutWork'[w] = P!Idle
      /\ \A v \in Requests \ {w} : payoutWork'[v] = payoutWork[v]
      /\ ClerksOK'
  BY <1>2, <1>3, ClerkGoes DEF PayoutInv
<1>5. PayoutTypes'
  BY <1>1, <1>2, <1>4 DEF PayoutInv, PayoutTypes
<1>6. LinesOK'
  BY <1>1, OneLineOK DEF PayoutInv
<1>7. ExportsTaken'
  BY <1>2 DEF PayoutInv, ExportsTaken
<1>8. SettlesOne'
  <2>1. "overlap" \notin payoutLapses' =>
           payout'[r].payment = P!None \/ \A s \in P!References \ {r} : payout[s].payment # payout'[r].payment
    BY <1>1
  <2>2. SettlesOne /\ \A s \in P!References \ {r} : payout'[s] = payout[s]
    BY <1>1 DEF PayoutInv
  <2> QED BY <2>1, <2>2, OneLineSettles
<1>9. IncomeIsOne'
  <2>1. ASSUME payoutLapses' \cap {"stale", "income left", "killed"} = {}, NEW s \in P!Imported PROVE IncomeOK(s)'
    <3>1. IncomeOK(s)
      BY <2>1 DEF PayoutInv, IncomeIsOne
    <3>2. CASE s # r
      <4>1. PostedOn(s)' <=> PostedOn(s)
        BY <1>3, <1>4, <3>2 DEF PostedOn
      <4>2. payout'[s] = payout[s]
        BY <1>1, <3>2 DEF P!Imported
      <4> QED BY <3>1, <4>1, <4>2 DEF IncomeOK
    <3>3. CASE s = r /\ payoutWork[w].step = "posted"
      <4>1. row.status = "other_income"
        BY <2>1, <3>3
      <4>2. PostedOn(s)
        BY <3>3 DEF PostedOn
      <4> QED BY <1>1, <3>1, <3>3, <4>1, <4>2 DEF IncomeOK
    <3>4. CASE s = r /\ payoutWork[w].step # "posted"
      <4>1. PostedOn(s)' <=> PostedOn(s)
        BY <1>3, <1>4, <3>4 DEF PostedOn
      <4>2. row.status # "other_income" /\ payout[s].status # "other_income"
        BY <2>1, <3>4
      <4> QED BY <1>1, <3>1, <3>4, <4>1, <4>2 DEF IncomeOK
    <3> QED BY <3>2, <3>3, <3>4
  <2> QED BY <1>2, <2>1 DEF IncomeIsOne
<1>10. MatchedIsPaid'
  <2>1. ASSUME "stale" \notin payoutLapses', NEW s \in P!Imported PROVE payout'[s].payment # P!None <=> payout'[s].status = "matched"
    <3>1. "stale" \notin payoutLapses /\ s \in P!References
      BY <2>1 DEF P!Imported
    <3>2. CASE s = r
      BY <1>1, <2>1, <3>2
    <3>3. CASE s # r
      BY <1>1, <2>1, <3>1, <3>3 DEF PayoutInv, MatchedIsPaid
    <3> QED BY <3>2, <3>3
  <2> QED BY <1>2, <2>1 DEF MatchedIsPaid
<1> QED BY <1>4, <1>5, <1>6, <1>7, <1>8, <1>9, <1>10 DEF PayoutInv

LEMMA AssignOK == ASSUME P!PayoutAssumption, PayoutInv, NEW w \in Requests, P!Assign(w) PROVE PayoutInv'
<1>1. PICK r : r = payoutWork[w].line
  OBVIOUS
<1>2. PICK p : p = payoutWork[w].payment
  OBVIOUS
<1>3. PICK row : row = [payout[r] EXCEPT !.status = "matched", !.payment = p, !.auto = FALSE]
  OBVIOUS
<1>4. payoutWork[w].step = "assign" /\ P!Finished(w) /\ UNCHANGED <<uploaded, income, payoutRequests>>
  BY DEF P!Assign
<1>5. /\ payoutLapses \subseteq payoutLapses'
      /\ "income left" \notin payoutLapses' => payout[r].status # "other_income"
      /\ "overlap" \notin payoutLapses' => \A s \in P!References : payout[s].payment = payoutWork[w].all[s].payment
  BY <1>1 DEF P!Assign, P!Overtaken, P!Left, P!Overlapped, P!Lapse
<1>6. r \in P!References /\ r \in P!Imported /\ ClerkOK(payoutWork[w]) /\ payoutWork[w] \in Assigning
  BY <1>1, <1>4, ReviewingIs
<1>7. payout[r] \in LineRow /\ p \in Payments /\ p # P!None
  BY <1>2, <1>6, ImportedIs, PayoutFinite DEF PayoutInv, Assigning
<1>8. /\ row \in LineRow /\ row.payout = payout[r].payout /\ row.batch = payout[r].batch
      /\ row.status = "matched" /\ row.payment = p /\ ~row.auto
  BY <1>3, <1>7 DEF LineRow
<1>9. payout' = [payout EXCEPT ![r] = row]
  BY <1>1, <1>2, <1>3, <1>6 DEF P!Assign, PayoutInv, PayoutTypes, PayoutLines
<1>10. "overlap" \notin payoutLapses' => \A s \in P!References \ {r} : payout[s].payment # row.payment
  BY <1>1, <1>2, <1>4, <1>5, <1>6, <1>8 DEF ClerkOK
<1>11. payoutLapses' \cap {"stale", "income left", "killed"} = {} => payout[r].status # "other_income"
  BY <1>5
<1> QED BY <1>1, <1>4, <1>5, <1>6, <1>7, <1>8, <1>9, <1>10, <1>11, Reviewed

LEMMA UnmatchOK == ASSUME P!PayoutAssumption, PayoutInv, NEW w \in Requests, P!Unmatch(w) PROVE PayoutInv'
<1>1. PICK r : r = payoutWork[w].line
  OBVIOUS
<1>2. PICK row : row = [payout[r] EXCEPT !.status = "unmatched", !.payment = P!None, !.auto = FALSE]
  OBVIOUS
<1>3. payoutWork[w].step = "unmatch" /\ P!Finished(w) /\ UNCHANGED <<uploaded, income, payoutRequests>>
  BY DEF P!Unmatch
<1>4. /\ payoutLapses \subseteq payoutLapses'
      /\ "income left" \notin payoutLapses' => payout[r].status # "other_income"
  BY <1>1 DEF P!Unmatch, P!Left, P!Lapse
<1>5. r \in P!References /\ r \in P!Imported
  BY <1>1, <1>3, ReviewingIs
<1>6. payout[r] \in LineRow
  BY <1>5, ImportedIs DEF PayoutInv
<1>7. /\ row \in LineRow /\ row.payout = payout[r].payout /\ row.batch = payout[r].batch
      /\ row.status = "unmatched" /\ row.payment = P!None
  BY <1>2, <1>6 DEF LineRow
<1>8. payout' = [payout EXCEPT ![r] = row]
  BY <1>1, <1>2, <1>5 DEF P!Unmatch, PayoutInv, PayoutTypes, PayoutLines
<1>9. payoutLapses' \cap {"stale", "income left", "killed"} = {} => payout[r].status # "other_income"
  BY <1>4
<1> QED BY <1>1, <1>3, <1>4, <1>5, <1>7, <1>8, <1>9, Reviewed

\* A line that was not matched when it was loaded has no payment, if it is still as it was.
LEMMA SeenUnpaid ==
    ASSUME P!PayoutAssumption, PayoutInv, NEW w \in Requests, payoutWork[w].step \in {"ignore", "posted"},
           NEW r \in P!Imported, r = payoutWork[w].line, payout[r] = payoutWork[w].seen, "stale" \notin payoutLapses
    PROVE  payout[r].payment = P!None
<1>1. payoutWork[w].seen.status # "matched"
  BY ReviewingIs DEF ClerkOK
<1> QED BY <1>1 DEF PayoutInv, MatchedIsPaid

LEMMA IgnoreOK == ASSUME P!PayoutAssumption, PayoutInv, NEW w \in Requests, P!Ignore(w) PROVE PayoutInv'
<1>1. PICK r : r = payoutWork[w].line
  OBVIOUS
<1>2. PICK row : row = [payout[r] EXCEPT !.status = "ignored"]
  OBVIOUS
<1>3. payoutWork[w].step = "ignore" /\ P!Finished(w) /\ UNCHANGED <<uploaded, income, payoutRequests>>
  BY DEF P!Ignore
<1>4. /\ payoutLapses \subseteq payoutLapses'
      /\ "income left" \notin payoutLapses' => payout[r].status # "other_income"
      /\ "stale" \notin payoutLapses' => payout[r] = payoutWork[w].seen
  BY <1>1 DEF P!Ignore, P!Overtaken, P!Left, P!Lapse
<1>5. r \in P!References /\ r \in P!Imported
  BY <1>1, <1>3, ReviewingIs
<1>6. payout[r] \in LineRow
  BY <1>5, ImportedIs DEF PayoutInv
<1>7. /\ row \in LineRow /\ row.payout = payout[r].payout /\ row.batch = payout[r].batch
      /\ row.status = "ignored" /\ row.payment = payout[r].payment
  BY <1>2, <1>6 DEF LineRow
<1>8. payout' = [payout EXCEPT ![r] = row]
  BY <1>1, <1>2, <1>5 DEF P!Ignore, PayoutInv, PayoutTypes, PayoutLines
<1>9. payoutLapses' \cap {"stale", "income left", "killed"} = {} => payout[r].status # "other_income"
  BY <1>4
<1>10. "stale" \notin payoutLapses' => row.payment = P!None
  BY <1>1, <1>3, <1>4, <1>5, <1>7, SeenUnpaid
<1>11. "overlap" \notin payoutLapses' => row.payment = P!None \/ \A s \in P!References \ {r} : payout[s].payment # row.payment
  BY <1>4, <1>5, <1>7 DEF PayoutInv, SettlesOne
<1> QED BY <1>1, <1>3, <1>4, <1>5, <1>7, <1>8, <1>9, <1>10, <1>11, Reviewed

LEMMA RecordOK == ASSUME P!PayoutAssumption, PayoutInv, NEW w \in Requests, P!Record(w) PROVE PayoutInv'
<1>1. PICK r : r = payoutWork[w].line
  OBVIOUS
<1>2. PICK row : row = [payout[r] EXCEPT !.status = "other_income"]
  OBVIOUS
<1>3. payoutWork[w].step = "posted" /\ P!Finished(w) /\ UNCHANGED <<uploaded, income, payoutRequests>>
  BY DEF P!Record
<1>4. /\ payoutLapses \subseteq payoutLapses'
      /\ "stale" \notin payoutLapses' => payout[r] = payoutWork[w].seen
  BY <1>1 DEF P!Record, P!Overtaken, P!Lapse
<1>5. r \in P!References /\ r \in P!Imported
  BY <1>1, <1>3, ReviewingIs
<1>6. payout[r] \in LineRow
  BY <1>5, ImportedIs DEF PayoutInv
<1>7. /\ row \in LineRow /\ row.payout = payout[r].payout /\ row.batch = payout[r].batch
      /\ row.status = "other_income" /\ row.payment = payout[r].payment
  BY <1>2, <1>6 DEF LineRow
<1>8. payout' = [payout EXCEPT ![r] = row]
  BY <1>1, <1>2, <1>5 DEF P!Record, PayoutInv, PayoutTypes, PayoutLines
<1>9. "stale" \notin payoutLapses' => row.payment = P!None
  BY <1>1, <1>3, <1>4, <1>5, <1>7, SeenUnpaid
<1>10. "overlap" \notin payoutLapses' => row.payment = P!None \/ \A s \in P!References \ {r} : payout[s].payment # row.payment
  BY <1>4, <1>5, <1>7 DEF PayoutInv, SettlesOne
<1> QED BY <1>1, <1>3, <1>4, <1>5, <1>7, <1>8, <1>9, <1>10, Reviewed

LEMMA UploadOK ==
    ASSUME P!PayoutAssumption, PayoutInv, NEW w \in Requests, NEW e \in Exports, P!Upload(w, e)
    PROVE  PayoutInv'
<1>1. PICK new : new = [step |-> "match", batch |-> e]
  OBVIOUS
<1>2. /\ payoutWork[w] = P!Idle /\ P!Began /\ uploaded' = uploaded \cup {e} /\ P!Goto(w, new)
      /\ UNCHANGED <<income, payoutLapses>>
  BY <1>1 DEF P!Upload
<1>3. payout' = [r \in P!References |->
                  IF r \in DOMAIN e /\ payout[r].status = P!None
                  THEN [status |-> "unmatched", payment |-> P!None, auto |-> FALSE, payout |-> e[r], batch |-> e]
                  ELSE payout[r]]
  BY DEF P!Upload, P!Skipped
<1>4. new \in Clerk /\ new.step = "match" /\ payoutWork[w].step = "idle"
  BY <1>1, <1>2 DEF Clerk, ToMatch, P!Idle
<1>5. DOMAIN e \subseteq P!References /\ \A r \in DOMAIN e : e[r] \in P!Payouts
  BY DEF P!References, P!Payouts
<1>6. ASSUME NEW r \in P!References
      PROVE  \/ payout'[r] = payout[r] /\ (r \in DOMAIN e => r \in P!Imported)
             \/ /\ r \in DOMAIN e /\ r \notin P!Imported /\ payout'[r] \in LineRow
                /\ payout'[r].status = "unmatched" /\ payout'[r].payment = P!None /\ payout'[r].auto = FALSE
                /\ payout'[r].payout = e[r] /\ payout'[r].batch = e
  <2>1. CASE r \in DOMAIN e /\ payout[r].status = P!None
    <3>1. payout'[r] = [status |-> "unmatched", payment |-> P!None, auto |-> FALSE, payout |-> e[r], batch |-> e]
      BY <1>3, <2>1
    <3>2. r \notin P!Imported
      BY <2>1 DEF P!Imported
    <3> QED BY <1>5, <2>1, <3>1, <3>2 DEF LineRow
  <2>2. CASE ~(r \in DOMAIN e /\ payout[r].status = P!None)
    BY <1>3, <2>2 DEF P!Imported
  <2> QED BY <2>1, <2>2
<1>7. P!Imported' = P!Imported \cup DOMAIN e
  <2>1. ASSUME NEW r \in P!References PROVE payout'[r].status # P!None <=> r \in P!Imported \/ r \in DOMAIN e
    <3>1. CASE payout'[r] = payout[r] /\ (r \in DOMAIN e => r \in P!Imported)
      BY <3>1 DEF P!Imported
    <3>2. CASE r \in DOMAIN e /\ payout'[r].status = "unmatched"
      BY <3>2 DEF P!None
    <3> QED BY <1>6, <3>1, <3>2
  <2>2. P!Imported \subseteq P!References
    BY DEF P!Imported
  <2>3. P!Imported' = {r \in P!References : payout'[r].status # P!None}
    BY DEF P!Imported
  <2> QED BY <1>5, <2>1, <2>2, <2>3
<1>8. /\ payoutWork' \in [Requests -> Clerk] /\ payoutWork'[w] = new
      /\ \A v \in Requests \ {w} : payoutWork'[v] = payoutWork[v]
      /\ ClerksOK'
  <2>1. ClerkOK(new)'
    BY <1>4 DEF ClerkOK
  <2>2. P!Imported \subseteq P!Imported'
    BY <1>7
  <2> QED BY <1>2, <1>4, <2>1, <2>2, ClerkGoes DEF PayoutInv
<1>9. PayoutTypes'
  <2>1. payout' \in PayoutLines
    <3>1. ASSUME NEW r \in P!References PROVE payout'[r] \in PayoutLine
      <4>1. payout[r] \in PayoutLine
        BY DEF PayoutInv, PayoutTypes, PayoutLines
      <4> QED BY <1>6, <4>1, RowIsThere
    <3> QED BY <1>3, <3>1 DEF PayoutLines
  <2>2. income' \subseteq P!Imported'
    BY <1>2, <1>7 DEF PayoutInv, PayoutTypes
  <2>3. uploaded' \subseteq Exports
    BY <1>2 DEF PayoutInv, PayoutTypes
  <2> QED BY <1>2, <1>8, <2>1, <2>2, <2>3, PayoutBegan DEF PayoutTypes
<1>10. LinesOK'
  <2>1. ASSUME NEW r \in P!References PROVE LineOK(r)'
    <3>1. CASE payout'[r] = payout[r]
      <4>1. LineOK(r)
        BY DEF PayoutInv, LinesOK
      <4> QED BY <1>2, <3>1, <4>1 DEF LineOK
    <3>2. CASE r \in DOMAIN e /\ payout'[r].status = "unmatched" /\ payout'[r].payout = e[r] /\ payout'[r].batch = e
      BY <1>2, <3>2 DEF LineOK
    <3> QED BY <1>6, <3>1, <3>2
  <2> QED BY <2>1 DEF LinesOK
<1>11. ExportsTaken'
  BY <1>2, <1>7 DEF PayoutInv, ExportsTaken
<1>12. \A r \in P!References : payout'[r].payment = payout[r].payment
  <2>1. ASSUME NEW r \in P!References, r \notin P!Imported PROVE payout[r].payment = P!None
    BY <2>1, ImportedIs DEF PayoutInv, P!Absent
  <2> QED BY <1>6, <2>1
<1>13. SettlesOne'
  BY <1>2, <1>12 DEF PayoutInv, SettlesOne
<1>14. ASSUME NEW r \in P!Imported' 
      PROVE  /\ r \in P!References
             /\ \/ r \in P!Imported /\ payout'[r] = payout[r]
                \/ r \notin P!Imported /\ payout'[r].status = "unmatched" /\ payout'[r].payment = P!None
  <2>1. r \in P!References
    BY <1>14 DEF P!Imported
  <2>2. CASE payout'[r] = payout[r] /\ (r \in DOMAIN e => r \in P!Imported)
    BY <1>7, <1>14, <2>1, <2>2
  <2>3. CASE r \notin P!Imported /\ payout'[r].status = "unmatched" /\ payout'[r].payment = P!None
    BY <2>1, <2>3
  <2> QED BY <1>6, <2>1, <2>2, <2>3
<1>15. IncomeIsOne'
  <2>1. ASSUME payoutLapses' \cap {"stale", "income left", "killed"} = {}, NEW r \in P!Imported' PROVE IncomeOK(r)'
    <3>1. PostedOn(r)' <=> PostedOn(r)
      BY <1>2, <1>4, <1>8 DEF PostedOn
    <3>2. CASE r \in P!Imported /\ payout'[r] = payout[r]
      <4>1. IncomeOK(r)
        BY <1>2, <2>1, <3>2 DEF PayoutInv, IncomeIsOne
      <4> QED BY <1>2, <3>1, <3>2, <4>1 DEF IncomeOK
    <3>3. CASE r \notin P!Imported /\ payout'[r].status = "unmatched"
      <4>1. r \notin income'
        BY <1>2, <3>3 DEF PayoutInv, PayoutTypes
      <4>2. ~PostedOn(r)
        BY <3>3, ReviewingIs DEF PostedOn
      <4> QED BY <3>1, <3>3, <4>1, <4>2 DEF IncomeOK
    <3> QED BY <1>14, <3>2, <3>3
  <2> QED BY <2>1 DEF IncomeIsOne
<1>16. MatchedIsPaid'
  <2>1. ASSUME "stale" \notin payoutLapses', NEW r \in P!Imported' PROVE payout'[r].payment # P!None <=> payout'[r].status = "matched"
    BY <1>2, <1>14, <2>1 DEF PayoutInv, MatchedIsPaid
  <2> QED BY <2>1 DEF MatchedIsPaid
<1> QED BY <1>8, <1>9, <1>10, <1>11, <1>13, <1>15, <1>16 DEF PayoutInv

\* What the matcher makes of some lines: each has a payment of the pool that fits it, and that
\* no other has, or none.
MatchedFrom(f, lines, pool) ==
    /\ DOMAIN f = lines
    /\ \A r \in lines : f[r] = P!None \/ (f[r] \in pool /\ P!Fits(payout[r].payout, f[r]))
    /\ \A r, s \in lines : f[r] # P!None /\ f[r] = f[s] => r = s

LEMMA BestMatchIs ==
    ASSUME NEW x, NEW pool
    PROVE  P!BestMatch(x, pool) = P!None \/ (P!BestMatch(x, pool) \in pool /\ P!Fits(x, P!BestMatch(x, pool)))
<1> DEFINE options == {p \in pool : P!Fits(x, p)}
           best == {p \in options : \A q \in options \ {p} : P!Gap(x, p) < P!Gap(x, q)}
<1>1. P!BestMatch(x, pool) = IF best = {} THEN P!None ELSE CHOOSE p \in best : TRUE
  BY DEF P!BestMatch
<1>2. \A p \in best : p \in pool /\ P!Fits(x, p)
  OBVIOUS
<1>4. best # {} => (CHOOSE p \in best : TRUE) \in best
  OBVIOUS
<1> HIDE DEF best
<1>5. CASE best = {}
  BY <1>1, <1>5
<1>6. CASE best # {}
  <2>1. P!BestMatch(x, pool) \in best
    BY <1>1, <1>4, <1>6
  <2> QED BY <1>2, <2>1
<1> QED BY <1>5, <1>6

LEMMA ExtendedIs ==
    ASSUME NEW lines, NEW pool, P!None \notin pool, NEW r, r \notin lines, NEW f, MatchedFrom(f, lines, pool)
    PROVE  MatchedFrom(P!Extended(f, r, pool), lines \cup {r}, pool)
<1>1. PICK left : left = P!Assigned(f, pool)
  OBVIOUS
<1>2. PICK p : p = P!BestMatch(payout[r].payout, left)
  OBVIOUS
<1>3. PICK g : g = [s \in lines \cup {r} |-> IF s = r THEN p ELSE f[s]]
  OBVIOUS
<1>4. DOMAIN f = lines
  BY DEF MatchedFrom
<1>5. P!Extended(f, r, pool) = g
  BY <1>1, <1>2, <1>3, <1>4 DEF P!Extended
<1>6. left = {q \in pool : \A s \in lines : f[s] # q}
  BY <1>1, <1>4 DEF P!Assigned
<1>7. p = P!None \/ (p \in left /\ P!Fits(payout[r].payout, p))
  BY <1>2, BestMatchIs
<1>8. DOMAIN g = lines \cup {r} /\ g[r] = p /\ \A s \in lines : g[s] = f[s]
  BY <1>3
<1>9. \A s \in lines \cup {r} : g[s] = P!None \/ (g[s] \in pool /\ P!Fits(payout[s].payout, g[s]))
  BY <1>6, <1>7, <1>8 DEF MatchedFrom
<1>10. \A s, t \in lines \cup {r} : g[s] # P!None /\ g[s] = g[t] => s = t
  BY <1>6, <1>7, <1>8 DEF MatchedFrom
<1> QED BY <1>5, <1>8, <1>9, <1>10 DEF MatchedFrom

LEMMA MatchingIs ==
    ASSUME P!PayoutAssumption, PayoutInv, NEW lines \in SUBSET P!Imported, NEW pool \in SUBSET Payments
    PROVE  MatchedFrom(P!Matching(lines, pool), lines, pool)
<1> DEFINE V == UNION {[s -> pool \cup {P!None}] : s \in SUBSET lines}
           step == [r \in lines |-> [f \in V |-> IF DOMAIN f \cup {r} \subseteq lines THEN P!Extended(f, r, pool) ELSE f]]
           first == [s \in SUBSET lines |-> P!Earliest(s)]
           Fold(F) == F = [s \in SUBSET lines |-> IF s = {} THEN <<>>
                                                   ELSE P!Extended(F[s \ {P!Earliest(s)}], P!Earliest(s), pool)]
<1>1. IsFiniteSet(lines) /\ P!None \notin pool
  <2>1. lines \subseteq P!References
    BY DEF P!Imported
  <2> QED BY <2>1, PayoutFinite, FS_Subset
<1>2. \A s \in SUBSET lines : s # {} => P!Earliest(s) \in s
  <2>1. PICK d : d = [r \in lines |-> Day[payout[r].payout]]
    OBVIOUS
  <2>2. \A r \in lines : d[r] \in Int
    <3>1. ASSUME NEW r \in lines PROVE payout[r].payout \in P!Payouts
      <4>1. r \in P!References /\ r \in P!Imported
        BY DEF P!Imported
      <4> QED BY <4>1, ImportedIs DEF PayoutInv, LineRow
    <3> QED BY <2>1, <3>1 DEF P!PayoutAssumption
  <2>3. \A s \in SUBSET lines : s # {} => \E x \in s : \A y \in s : d[x] <= d[y]
    BY <1>1, <2>2, LeastExists
  <2>4. ASSUME NEW s \in SUBSET lines, s # {} PROVE \E r \in s : \A t \in s : Day[payout[r].payout] <= Day[payout[t].payout]
    BY <2>1, <2>3, <2>4
  <2> QED BY <2>4 DEF P!Earliest
<1>3. P!Matching(lines, pool) = (CHOOSE F : Fold(F))[lines]
  BY DEF P!Matching, P!MapThenFoldSet
<1>4. \E F : Fold(F)
  <2>1. <<>> \in V
    <3>1. <<>> \in [{} -> pool \cup {P!None}]
      OBVIOUS
    <3> QED BY <3>1
  <2>2. step \in [lines -> [V -> V]]
    <3>1. ASSUME NEW r \in lines, NEW f \in V, DOMAIN f \cup {r} \subseteq lines PROVE P!Extended(f, r, pool) \in V
      <4>1. PICK s \in SUBSET lines : f \in [s -> pool \cup {P!None}]
        OBVIOUS
      <4>2. PICK p : p = P!BestMatch(payout[r].payout, P!Assigned(f, pool))
        OBVIOUS
      <4>3. p \in pool \cup {P!None}
        <5>1. P!Assigned(f, pool) \subseteq pool
          BY DEF P!Assigned
        <5> QED BY <4>2, <5>1, BestMatchIs
      <4>4. P!Extended(f, r, pool) = [t \in s \cup {r} |-> IF t = r THEN p ELSE f[t]]
        BY <4>1, <4>2 DEF P!Extended
      <4>5. P!Extended(f, r, pool) \in [s \cup {r} -> pool \cup {P!None}]
        BY <4>1, <4>3, <4>4
      <4> QED BY <4>5
    <3> HIDE DEF V
    <3> QED BY <3>1
  <2>3. \A s \in SUBSET lines : s # {} => first[s] \in s
    BY <1>2
  <2>4. \E F \in [SUBSET lines -> V] :
            \A s \in SUBSET lines : F[s] = IF s = {} THEN <<>> ELSE step[first[s]][F[s \ {first[s]}]]
    <3> HIDE DEF V, step, first
    <3>1. FoldData(lines, V, <<>>, step, first)
      BY <1>1, <2>1, <2>2, <2>3 DEF FoldData
    <3>2. \E F : Folded(F, lines, V, <<>>, step, first)
      BY <3>1, FoldExists
    <3> QED BY <3>2 DEF Folded
  <2>5. PICK F \in [SUBSET lines -> V] :
            \A s \in SUBSET lines : F[s] = IF s = {} THEN <<>> ELSE step[first[s]][F[s \ {first[s]}]]
    BY <2>4
  <2>6. ASSUME NEW s \in SUBSET lines, s # {} PROVE F[s] = P!Extended(F[s \ {P!Earliest(s)}], P!Earliest(s), pool)
    <3>1. first[s] = P!Earliest(s) /\ P!Earliest(s) \in s /\ s \ {P!Earliest(s)} \in SUBSET lines
      BY <1>2, <2>6
    <3>2. PICK r \in lines : r = P!Earliest(s)
      BY <3>1
    <3>3. PICK f \in V : f = F[s \ {r}]
      BY <3>1, <3>2
    <3>4. F[s] = step[r][f]
      BY <2>5, <2>6, <3>1, <3>2, <3>3
    <3>5. DOMAIN f \cup {r} \subseteq lines
      OBVIOUS
    <3>6. step[r][f] = P!Extended(f, r, pool)
      BY <3>5
    <3> QED BY <3>2, <3>3, <3>4, <3>6
  <2>7. F[{}] = <<>>
    BY <2>5
  <2>8. Fold(F)
    <3> HIDE DEF V, step, first
    <3> QED BY <2>6, <2>7
  <2> QED BY <2>8
<1>5. PICK F : F = CHOOSE G : Fold(G)
  OBVIOUS
<1>6. Fold(F)
  BY <1>4, <1>5
<1> DEFINE Good == {s \in SUBSET lines : MatchedFrom(F[s], s, pool)}
<1>7. {} \in Good
  <2>1. F[{}] = <<>>
    BY <1>6
  <2>2. DOMAIN F[{}] = {}
    BY <2>1
  <2> QED BY <2>2 DEF MatchedFrom
<1>8. ASSUME NEW s \in SUBSET lines, s # {}, \A x \in s : s \ {x} \in Good PROVE s \in Good
  <2>1. PICK r : r = P!Earliest(s)
    OBVIOUS
  <2>2. r \in s /\ s \ {r} \in Good /\ s \ {r} \in SUBSET lines
    BY <1>2, <1>8, <2>1
  <2>3. PICK f : f = F[s \ {r}]
    OBVIOUS
  <2>4. PICK rest : rest = s \ {r}
    OBVIOUS
  <2>5. MatchedFrom(f, rest, pool) /\ r \notin rest /\ rest \cup {r} = s
    BY <2>2, <2>3, <2>4
  <2>6. F[s] = P!Extended(f, r, pool)
    BY <1>6, <1>8, <2>1, <2>2, <2>3
  <2>7. MatchedFrom(P!Extended(f, r, pool), rest \cup {r}, pool)
    BY <1>1, <2>5, ExtendedIs
  <2>8. MatchedFrom(F[s], s, pool)
    BY <2>5, <2>6, <2>7
  <2> QED BY <2>8
<1>9. Good = SUBSET lines
  <2> HIDE DEF Good
  <2>1. Good \in SUBSET (SUBSET lines)
    BY DEF Good
  <2> QED BY <1>1, <1>7, <1>8, <2>1, InductionOverSubsets
<1>10. MatchedFrom(F[lines], lines, pool)
  BY <1>9
<1> QED BY <1>3, <1>5, <1>10

\* The matcher saves the payments it found, with the lines as they now are.
LEMMA Hits ==
    ASSUME P!PayoutAssumption, PayoutInv, NEW w \in Requests, P!Match(w)
    PROVE  \E hit \in SUBSET P!Imported :
              /\ P!Finished(w) /\ UNCHANGED <<uploaded, income, payoutRequests>>
              /\ payoutWork[w].step = "listed" /\ payoutLapses \subseteq payoutLapses'
              /\ "overlap" \notin payoutLapses' => \A r \in P!References : payout[r].payment \notin payoutWork[w].pool
              /\ "stale" \notin payoutLapses' => \A r \in hit : payout[r].status = "unmatched"
              /\ payout' \in PayoutLines
              /\ \A r \in P!References \ hit : payout'[r] = payout[r]
              /\ \A r \in hit :
                    /\ payout'[r].payout = payout[r].payout /\ payout'[r].batch = payout[r].batch
                    /\ payout'[r].status = "matched" /\ payout'[r].payment \in payoutWork[w].pool \cap Payments
                    /\ P!Fits(payout[r].payout, payout'[r].payment)
              /\ \A r, s \in hit : payout'[r].payment = payout'[s].payment => r = s
<1>1. PICK lines : lines = payoutWork[w].lines
  OBVIOUS
<1>2. PICK pool : pool = payoutWork[w].pool
  OBVIOUS
<1>3. PICK all : all = payoutWork[w].all
  OBVIOUS
<1>4. PICK found : found = P!Matching(lines, pool)
  OBVIOUS
<1>5. PICK hit : hit = {r \in DOMAIN found : found[r] # P!None}
  OBVIOUS
<1>6. /\ payoutWork[w].step = "listed" /\ P!Finished(w) /\ UNCHANGED <<uploaded, income, payoutRequests>>
      /\ payout' = [r \in P!References |->
                      IF r \in hit THEN [payout[r] EXCEPT !.status = "matched", !.payment = found[r], !.auto = TRUE]
                      ELSE payout[r]]
      /\ payoutLapses \subseteq payoutLapses'
  BY <1>1, <1>2, <1>4, <1>5 DEF P!Match
<1>7. /\ "overlap" \notin payoutLapses' => \A r \in P!References : payout[r].payment = all[r].payment
      /\ "stale" \notin payoutLapses' => \A r \in hit : payout[r] = all[r]
  BY <1>1, <1>2, <1>3, <1>4, <1>5 DEF P!Match, P!Lapse, P!Overlapped
<1>8. payoutWork[w] \in Clerk /\ ClerkOK(payoutWork[w])
  BY DEF PayoutInv, PayoutTypes, ClerksOK
<1>9. /\ lines \subseteq P!Imported /\ pool \subseteq Payments
      /\ \A r \in lines : all[r].status = "unmatched"
      /\ \A r \in P!References : all[r].payment \notin pool
  <2>1. payoutWork[w] \in Listed
    <3>1. \A h \in {P!Idle} \cup ToMatch \cup Reviewing \cup Assigning : h.step # "listed"
      BY DEF P!Idle, ToMatch, Reviewing, Assigning
    <3> QED BY <1>6, <1>8, <3>1 DEF Clerk
  <2> QED BY <1>1, <1>2, <1>3, <1>6, <1>8, <2>1 DEF Listed, ClerkOK
<1>10. MatchedFrom(found, lines, pool)
  BY <1>4, <1>9, MatchingIs
<1>11. /\ hit \subseteq lines /\ \A r \in hit : found[r] \in pool /\ P!Fits(payout[r].payout, found[r])
       /\ \A r, s \in hit : found[r] = found[s] => r = s
  BY <1>5, <1>10 DEF MatchedFrom
<1>12. ASSUME NEW r \in hit
       PROVE  /\ payout'[r] \in LineRow /\ payout'[r].payout = payout[r].payout /\ payout'[r].batch = payout[r].batch
              /\ payout'[r].status = "matched" /\ payout'[r].payment = found[r]
  <2>1. r \in P!Imported /\ r \in P!References /\ found[r] \in Payments
    BY <1>9, <1>11 DEF P!Imported
  <2>2. payout[r] \in LineRow
    BY <2>1, ImportedIs DEF PayoutInv
  <2>3. payout'[r] = [payout[r] EXCEPT !.status = "matched", !.payment = found[r], !.auto = TRUE]
    BY <1>6, <2>1
  <2> QED BY <2>1, <2>2, <2>3 DEF LineRow
<1>13. \A r \in P!References \ hit : payout'[r] = payout[r]
  BY <1>6
<1>14. payout' \in PayoutLines
  <2>1. ASSUME NEW r \in P!References PROVE payout'[r] \in PayoutLine
    <3>1. CASE r \in hit
      BY <1>12, <3>1, RowIsThere
    <3>2. CASE r \notin hit
      BY <1>13, <3>2 DEF PayoutInv, PayoutTypes, PayoutLines
    <3> QED BY <3>1, <3>2
  <2> QED BY <1>6, <2>1 DEF PayoutLines
<1>15. hit \in SUBSET P!Imported
  BY <1>9, <1>11
<1>16. "overlap" \notin payoutLapses' => \A r \in P!References : payout[r].payment \notin pool
  BY <1>7, <1>9
<1>17. "stale" \notin payoutLapses' => \A r \in hit : payout[r].status = "unmatched"
  BY <1>7, <1>9, <1>11
<1>18. \A r \in hit : /\ payout'[r].payout = payout[r].payout /\ payout'[r].batch = payout[r].batch
                      /\ payout'[r].status = "matched" /\ payout'[r].payment \in pool \cap Payments
                      /\ P!Fits(payout[r].payout, payout'[r].payment)
  BY <1>9, <1>11, <1>12
<1>19. \A r, s \in hit : payout'[r].payment = payout'[s].payment => r = s
  BY <1>11, <1>12
<1> QED BY <1>2, <1>6, <1>13, <1>14, <1>15, <1>16, <1>17, <1>18, <1>19

LEMMA MatchOK == ASSUME P!PayoutAssumption, PayoutInv, NEW w \in Requests, P!Match(w) PROVE PayoutInv'
<1>1. PICK hit \in SUBSET P!Imported :
         /\ P!Finished(w) /\ UNCHANGED <<uploaded, income, payoutRequests>>
         /\ payoutWork[w].step = "listed" /\ payoutLapses \subseteq payoutLapses'
         /\ "overlap" \notin payoutLapses' => \A r \in P!References : payout[r].payment \notin payoutWork[w].pool
         /\ "stale" \notin payoutLapses' => \A r \in hit : payout[r].status = "unmatched"
         /\ payout' \in PayoutLines
         /\ \A r \in P!References \ hit : payout'[r] = payout[r]
         /\ \A r \in hit :
               /\ payout'[r].payout = payout[r].payout /\ payout'[r].batch = payout[r].batch
               /\ payout'[r].status = "matched" /\ payout'[r].payment \in payoutWork[w].pool \cap Payments
               /\ P!Fits(payout[r].payout, payout'[r].payment)
         /\ \A r, s \in hit : payout'[r].payment = payout'[s].payment => r = s
  BY Hits
<1>2. P!Imported' = P!Imported
  <2>1. ASSUME NEW r \in P!References PROVE payout'[r].status # P!None <=> payout[r].status # P!None
    <3>1. CASE r \in hit
      BY <1>1, <3>1 DEF P!Imported, P!None
    <3>2. CASE r \notin hit
      BY <1>1, <3>2
    <3> QED BY <3>1, <3>2
  <2>2. P!Imported' = {r \in P!References : payout'[r].status # P!None}
    BY DEF P!Imported
  <2>3. P!Imported = {r \in P!References : payout[r].status # P!None}
    BY DEF P!Imported
  <2> QED BY <2>1, <2>2, <2>3
<1>3. P!Idle \in Clerk /\ ClerkOK(P!Idle)' /\ P!Goto(w, P!Idle) /\ P!Idle.step = "idle"
  BY <1>1 DEF Clerk, ClerkOK, P!Idle, P!Finished
<1>4. /\ payoutWork' \in [Requests -> Clerk] /\ payoutWork'[w] = P!Idle
      /\ \A v \in Requests \ {w} : payoutWork'[v] = payoutWork[v]
      /\ ClerksOK'
  BY <1>2, <1>3, ClerkGoes DEF PayoutInv
<1>5. PayoutTypes'
  BY <1>1, <1>2, <1>4 DEF PayoutInv, PayoutTypes
<1>6. LinesOK'
  <2>1. ASSUME NEW r \in P!References PROVE LineOK(r)'
    <3>1. LineOK(r)
      BY DEF PayoutInv, LinesOK
    <3>2. CASE r \in hit
      <4>1. payout[r].status # P!None
        BY <3>2 DEF P!Imported
      <4> QED BY <1>1, <3>1, <3>2, <4>1 DEF LineOK
    <3>3. CASE r \notin hit
      <4>1. payout'[r] = payout[r]
        BY <1>1, <3>3
      <4> QED BY <1>1, <3>1, <4>1 DEF LineOK
    <3> QED BY <3>2, <3>3
  <2> QED BY <2>1 DEF LinesOK
<1>7. ExportsTaken'
  BY <1>1, <1>2 DEF PayoutInv, ExportsTaken
<1>8. SettlesOne'
  <2>1. ASSUME "overlap" \notin payoutLapses', NEW r \in P!References, NEW s \in P!References,
               payout'[r].payment # P!None, payout'[r].payment = payout'[s].payment
        PROVE  r = s
    <3>1. \A t \in P!References : payout[t].payment \notin payoutWork[w].pool
      BY <1>1, <2>1
    <3>2. CASE r \in hit /\ s \in hit
      BY <1>1, <2>1, <3>2
    <3>3. CASE r \notin hit /\ s \notin hit
      <4>1. payout'[r] = payout[r] /\ payout'[s] = payout[s] /\ "overlap" \notin payoutLapses
        BY <1>1, <2>1, <3>3
      <4> QED BY <2>1, <4>1 DEF PayoutInv, SettlesOne
    <3>4. CASE r \in hit /\ s \notin hit
      BY <1>1, <2>1, <3>1, <3>4
    <3>5. CASE r \notin hit /\ s \in hit
      BY <1>1, <2>1, <3>1, <3>5
    <3> QED BY <3>2, <3>3, <3>4, <3>5
  <2> QED BY <2>1 DEF SettlesOne
<1>9. IncomeIsOne'
  <2>1. ASSUME payoutLapses' \cap {"stale", "income left", "killed"} = {}, NEW r \in P!Imported PROVE IncomeOK(r)'
    <3>1. IncomeOK(r)
      BY <1>1, <2>1 DEF PayoutInv, IncomeIsOne
    <3>2. PostedOn(r)' <=> PostedOn(r)
      BY <1>1, <1>3, <1>4 DEF PostedOn
    <3>3. payout'[r].status = "other_income" <=> payout[r].status = "other_income"
      <4>1. CASE r \in hit
        BY <1>1, <2>1, <4>1
      <4>2. CASE r \notin hit
        BY <1>1, <4>2 DEF P!Imported
      <4> QED BY <4>1, <4>2
    <3> QED BY <1>1, <3>1, <3>2, <3>3 DEF IncomeOK
  <2> QED BY <1>2, <2>1 DEF IncomeIsOne
<1>10. MatchedIsPaid'
  <2>1. ASSUME "stale" \notin payoutLapses', NEW r \in P!Imported PROVE payout'[r].payment # P!None <=> payout'[r].status = "matched"
    <3>1. CASE r \in hit
      BY <1>1, <3>1, PayoutFinite
    <3>2. CASE r \notin hit
      <4>1. payout'[r] = payout[r] /\ "stale" \notin payoutLapses
        BY <1>1, <2>1, <3>2 DEF P!Imported
      <4> QED BY <4>1 DEF PayoutInv, MatchedIsPaid
    <3> QED BY <3>1, <3>2
  <2> QED BY <1>2, <2>1 DEF MatchedIsPaid
<1> QED BY <1>4, <1>5, <1>6, <1>7, <1>8, <1>9, <1>10 DEF PayoutInv

LEMMA PayoutStepOK == ASSUME P!PayoutAssumption, PayoutInv, [P!Next]_(P!vars) PROVE PayoutInv'
<1>1. ASSUME P!Next PROVE PayoutInv'
  <2>1. PICK w \in Requests :
           \/ \E e \in Exports : P!Upload(w, e) \/ P!Rematch(w, e)
           \/ \E r \in P!References : \E p \in Payments : P!Check(w, r, p)
           \/ \E r \in P!References : \E op \in {"unmatch", "ignore", "other_income"} : P!Load(w, r, op)
           \/ P!List(w) \/ P!Match(w) \/ P!Assign(w) \/ P!Unmatch(w) \/ P!Ignore(w) \/ P!Post(w) \/ P!Record(w) \/ P!Kill(w)
    BY <1>1 DEF P!Next
  <2>2. CASE \E e \in Exports : P!Upload(w, e) \/ P!Rematch(w, e)
    BY <2>2, UploadOK, RematchOK
  <2>3. CASE \E r \in P!References : \E p \in Payments : P!Check(w, r, p)
    BY <2>3, CheckOK
  <2>4. CASE \E r \in P!References : \E op \in {"unmatch", "ignore", "other_income"} : P!Load(w, r, op)
    BY <2>4, LoadOK
  <2>5. CASE P!List(w) \/ P!Match(w) \/ P!Assign(w) \/ P!Unmatch(w)
    BY <2>5, ListOK, MatchOK, AssignOK, UnmatchOK
  <2>6. CASE P!Ignore(w) \/ P!Post(w) \/ P!Record(w) \/ P!Kill(w)
    BY <2>6, IgnoreOK, PostOK, RecordOK, KillOK
  <2> QED BY <2>1, <2>2, <2>3, <2>4, <2>5, <2>6
<1>2. CASE UNCHANGED P!vars
  <2>1. UNCHANGED <<payout, uploaded, income, payoutWork, payoutRequests, payoutLapses>>
    BY <1>2 DEF P!vars
  <2>2. P!Imported' = P!Imported
    BY <2>1 DEF P!Imported
  <2>3. PayoutTypes' /\ ExportsTaken' /\ SettlesOne'
    BY <2>1, <2>2 DEF PayoutInv, PayoutTypes, ExportsTaken, SettlesOne
  <2>4. LinesOK'
    BY <2>1, <2>2 DEF PayoutInv, LinesOK, LineOK
  <2>5. ClerksOK'
    BY <2>1, <2>2 DEF PayoutInv, ClerksOK, ClerkOK
  <2>6. IncomeIsOne' /\ MatchedIsPaid'
    BY <2>1, <2>2 DEF PayoutInv, IncomeIsOne, IncomeOK, PostedOn, MatchedIsPaid
  <2> QED BY <2>3, <2>4, <2>5, <2>6 DEF PayoutInv
<1> QED BY <1>1, <1>2

\* Card payouts (settlement_views): the invariant of the uploads, matchings and reviews of any
\* number of requests, over any exports.
THEOREM PayoutInvariance == P!Spec => []PayoutInv
<1>1. P!PayoutAssumption
  BY TradeAssumption
<1>2. P!Init => PayoutInv
  BY <1>1, PayoutInitOK
<1>3. PayoutInv /\ [P!Next]_(P!vars) => PayoutInv'
  BY <1>1, PayoutStepOK
<1> QED BY <1>2, <1>3, PTL DEF P!Spec

LEMMA PayoutFollows ==
    ASSUME P!PayoutAssumption, PayoutInv
    PROVE  P!TypeOK /\ P!SettledOnce /\ P!PayoutsAreOneThing /\ P!PayoutsAreCountedOnce
<1>1. P!TypeOK
  <2>1. ASSUME NEW r \in P!References
        PROVE  /\ payout[r].status \in {P!None, "unmatched", "matched", "other_income", "ignored"}
               /\ payout[r].payment \in Payments \cup {P!None} /\ payout[r].auto \in BOOLEAN
               /\ r \in P!Imported => payout[r].payout \in P!Payouts /\ payout[r].batch \in uploaded
    <3>1. CASE r \in P!Imported
      <4>1. payout[r] \in LineRow /\ LineOK(r) /\ payout[r].status # P!None
        BY <3>1, ImportedIs DEF PayoutInv, LinesOK
      <4> QED BY <4>1 DEF LineRow, LineOK
    <3>2. CASE r \notin P!Imported
      <4>1. payout[r] = P!Absent
        BY <3>2, ImportedIs DEF PayoutInv
      <4>2. P!Absent.status = P!None /\ P!Absent.payment = P!None /\ P!Absent.auto = FALSE
        BY DEF P!Absent
      <4> QED BY <3>2, <4>1, <4>2
    <3> QED BY <3>1, <3>2
  <2> QED BY <2>1 DEF P!TypeOK, PayoutInv, PayoutTypes
<1>2. P!SettledOnce
  <2>1. \A r, s \in P!Imported : r \in P!References /\ s \in P!References
    BY DEF P!Imported
  <2>2. "overlap" \notin payoutLapses =>
           \A r, s \in P!Imported : payout[r].payment # P!None /\ payout[r].payment = payout[s].payment => r = s
    BY <2>1 DEF PayoutInv, SettlesOne
  <2>3. ASSUME NEW r \in P!Imported, payout[r].status = "matched", payout[r].auto
        PROVE  P!Fits(payout[r].payout, payout[r].payment)
    <3>1. LineOK(r) /\ payout[r].status # P!None
      BY <2>1 DEF PayoutInv, LinesOK, P!Imported
    <3> QED BY <2>3, <3>1 DEF LineOK
  <2> QED BY <2>2, <2>3 DEF P!SettledOnce
<1>3. P!PayoutsAreOneThing
  BY DEF PayoutInv, IncomeIsOne, IncomeOK, PostedOn, MatchedIsPaid, P!PayoutsAreOneThing, P!Seen
<1>4. P!PayoutsAreCountedOnce
  <2>1. ASSUME \A e \in uploaded : DOMAIN e \cap Numbered = {}, NEW e \in uploaded, NEW r \in DOMAIN e
        PROVE  /\ r \in P!Imported /\ payout[r].payout = e[r]
               /\ \A t \in P!Imported : payout[t].payout = e[r] => t = r
    <3>1. \A f \in uploaded : f \in P!Referenced
      BY <2>1 DEF PayoutInv, PayoutTypes, P!Referenced
    <3>2. r \in P!Imported
      BY DEF PayoutInv, ExportsTaken
    <3>3. ASSUME NEW t \in P!Imported
          PROVE  payout[t].batch \in uploaded /\ t \in DOMAIN payout[t].batch /\ payout[t].payout = payout[t].batch[t]
      <4>1. LineOK(t) /\ payout[t].status # P!None
        BY DEF PayoutInv, LinesOK, P!Imported
      <4> QED BY <4>1 DEF LineOK
    <3>4. ASSUME NEW t \in P!Imported PROVE payout[t].payout = e[r] <=> t = r
      <4>1. PICK f : f = payout[t].batch
        OBVIOUS
      <4>2. f \in P!Referenced /\ e \in P!Referenced /\ t \in DOMAIN f /\ payout[t].payout = f[t]
        BY <3>1, <3>3, <4>1
      <4>3. f[t] = e[r] <=> t = r
        BY <4>2 DEF P!PayoutAssumption
      <4> QED BY <4>2, <4>3
    <3> QED BY <3>2, <3>4
  <2> QED BY <2>1 DEF P!PayoutsAreCountedOnce
<1> QED BY <1>1, <1>2, <1>3, <1>4

-----------------------------------------------------------------------------
(* All of it.                                                              *)

\* Every variable of an invoice, of card payouts, tills, restaurant, quotations and shop page keeps its
\* type: a payment of a line is a payment or none, the safe is never overdrawn, and
\* nothing is sold more often than it was asked for.
THEOREM TradeTypes == TradeSpec => []TradeTypeOK
<1>1. TradeSpec => Spec /\ P!Spec /\ T!Spec /\ R!Spec /\ Q!Spec /\ S!Spec
  BY DEF TradeSpec
<1>2. Spec => []TypeOK
  BY InvoiceTypes
<1>3. PayoutInv => P!TypeOK
  BY TradeAssumption, PayoutFollows
<1>4. TillInv => T!TypeOK
  BY TradeAssumption, TillFollows
<1>5. ServeInv => R!TypeOK
  BY ServeFollows
<1>6. QuoteInv => Q!TypeOK
  BY TradeAssumption, QuoteFollows
<1>7. WebInv => S!TypeOK
  BY TradeAssumption, WebFollows
<1>8. TypeOK /\ P!TypeOK /\ T!TypeOK /\ R!TypeOK /\ Q!TypeOK /\ S!TypeOK => TradeTypeOK
  BY DEF TradeTypeOK
<1> QED BY <1>1, <1>2, <1>3, <1>4, <1>5, <1>6, <1>7, <1>8,
           PayoutInvariance, TillInvariance, RestaurantInvariance, QuoteInvariance, ShopInvariance, PTL

\* Whatever exports are uploaded and matched, and however reviews overlap: no card payment is settled
\* by two payouts, no payout is both income and a sale's, and each is there once, but for
\* the lapses that CardPayouts names (settlement_views).
THEOREM PayoutsMatch == TradeSpec => []PayoutsAgree
<1>1. TradeSpec => P!Spec
  BY DEF TradeSpec
<1>2. PayoutInv => PayoutsAgree
  BY TradeAssumption, PayoutFollows DEF PayoutsAgree
<1> QED BY <1>1, <1>2, PayoutInvariance, PTL

\* Whatever the requests do at the same time: a cashier has one till and the ledger the cash that was
\* counted, an order of the restaurant is sold once and keeps its table until then, and a
\* quotation and an order of the shop page become one sale at the price they showed,
\* but for the lapses that those modules name.
THEOREM CounterMatches == TradeSpec => []CounterAgrees
<1>1. TradeSpec => T!Spec /\ R!Spec /\ Q!Spec /\ S!Spec
  BY DEF TradeSpec
<1>2. TillInv => T!OneTill /\ T!VariancesTie /\ T!CashIsCounted
  BY TradeAssumption, TillFollows
<1>3. ServeInv => R!OrderSoldOnce /\ R!TableIsTaken
  BY ServeFollows
<1>4. QuoteInv => Q!QuoteSoldOnce /\ Q!ChargedAsShown
  BY TradeAssumption, QuoteFollows
<1>5. WebInv => S!ShopOrderSoldOnce /\ S!ChargedAsShown
  BY TradeAssumption, WebFollows
<1>6. TillInv /\ ServeInv /\ QuoteInv /\ WebInv => CounterAgrees
  BY <1>2, <1>3, <1>4, <1>5 DEF CounterAgrees
<1> QED BY <1>1, <1>6, TillInvariance, RestaurantInvariance, QuoteInvariance, ShopInvariance, PTL
=============================================================================
