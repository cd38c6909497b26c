---------------------------- MODULE PartnerProofs ----------------------------
(***************************************************************************)
(* Proofs about suppliers and customers, for any lines, bills, invoices,   *)
(* amounts and requests at the same time: a purchase order takes in no     *)
(* more than was ordered, and its bill and its journal entries are of what *)
(* came in; a supplier's bill shows what was paid on it, and the ledger    *)
(* what is owed; a customer's balance is what the credit transactions, the *)
(* invoices and the receivable say.                                        *)
(*                                                                         *)
(* Each part has an inductive invariant of its own: IInv, BillInv and      *)
(* CreditInv.                                                              *)
(***************************************************************************)
EXTENDS Partners, SumTheorems

Order == [status : O!Statuses, prebilled : BOOLEAN]
Entry == [line : Lines, qty : Nat \ {0}]
Quantity == [Lines -> Nat]

Receiving == [step : {"receiving", "saving"}, copy : Order, bills : Seq(Nat), todo : Seq(Entry), got : Quantity, rest : BOOLEAN]
Converting == [step : {"converting"}]
Returning == [step : {"returning"}, line : Lines, qty : Nat, seen : Nat]
Patching == [step : {"patching"}, row : Order, copy : Order]
Works == {O!Idle} \cup Receiving \cup Converting \cup Returning \cup Patching

\* What a request holds fits the order as it is: what it takes in was still outstanding when it
\* locked the lines, and nobody else takes in or gives back of these lines since.
Takes(w) == w.step \in {"receiving", "saving"}
Fits(w, in) ==
    /\ Takes(w) => \A l \in Lines : w.got[l] > 0 => in[l] + w.got[l] <= Ordered[l]
    /\ w.step = "returning" => w.seen <= Ordered[w.line]
    /\ w.step = "patching" => w.row.prebilled = w.copy.prebilled
Apart(v, w) == Takes(v) /\ Takes(w) => \A l \in Lines : v.got[l] = 0 \/ w.got[l] = 0

ReqOK ==
    /\ orderWork \in [Users -> Works]
    /\ \A r \in Users : Fits(orderWork[r], received) /\ \A q \in Users \ {r} : Apart(orderWork[r], orderWork[q])
OrderOK ==
    /\ po \in Order /\ received \in Quantity /\ shelf \in Quantity /\ bills \in Seq(Nat)
    /\ ops \in 0..MaxOps /\ gross \in Quantity /\ returned \in Quantity
    /\ orderLapses \subseteq {"receive", "convert", "return", "patch"}
JournalOK ==
    /\ DOMAIN journal \subseteq {"po_receipt", "po_receipt_clearing", "po_convert_to_bill"} \X Nat
    /\ IsFiniteSet(DOMAIN journal) /\ journal \in [DOMAIN journal -> Nat]
    /\ \A k \in O!Entries("po_receipt_clearing") : k[2] <= Cardinality(O!Entries("po_receipt_clearing"))

\* No request has written a bill or a posting from a copy that was no longer true.
Fresh == orderLapses \cap {"receive", "convert", "patch"} = {}

\* An order is billed before anything has come in, or with what has; only then there are bills,
\* and what came in after the bill was cleared.
Covered ==
    /\ Len(bills) <= 1
    /\ bills = <<>> => gross = O!None /\ ~po.prebilled
    /\ bills # <<>> => bills[1] = IF po.prebilled THEN O!Value ELSE O!SumOver(gross)
    /\ O!Posted("po_receipt_clearing") = IF po.prebilled THEN O!SumOver(gross) ELSE 0

IInv == OrderOK /\ ReqOK /\ JournalOK /\ O!ReceivedWithinOrdered /\ (Fresh => Covered)

-----------------------------------------------------------------------------
(* Quantities and postings.                                                *)

\* The order's model has counted and finite sets of its own.
LEMMA OrderFinite == \A S : O!IsFiniteSet(S) <=> IsFiniteSet(S)
BY DEF O!IsFiniteSet, IsFiniteSet

LEMMA OrderCounts == \A S : O!Cardinality(S) = Cardinality(S)
BY DEF O!Cardinality, Cardinality

LEMMA SumOverIs == ASSUME NEW f PROVE O!SumOver(f) = Sum(f, DOMAIN f)
BY DEF O!SumOver, O!MapThenSumSet, O!MapThenFoldSet, Sum, MapThenSumSet, MapThenFoldSet

LEMMA ValueIs == ASSUME O!PurchaseAssumption, NEW f \in Quantity PROVE O!SumOver(f) \in Nat
<1>1. DOMAIN f = Lines /\ IsFiniteSet(Lines) /\ \A l \in Lines : f[l] \in Nat
  BY OrderFinite DEF O!PurchaseAssumption, Quantity
<1> QED BY <1>1, SumOverIs, SumNat

LEMMA NothingIsNone ==
    ASSUME O!PurchaseAssumption, NEW f \in Quantity PROVE O!SumOver(f) = 0 <=> f = O!None
<1>1. DOMAIN f = Lines /\ IsFiniteSet(Lines) /\ \A l \in Lines : f[l] \in Nat
  BY OrderFinite DEF O!PurchaseAssumption, Quantity
<1>2. ASSUME O!SumOver(f) = 0 PROVE f = O!None
  <2>1. \A l \in Lines : f[l] <= 0
    BY <1>1, <1>2, SumOverIs, SumNat
  <2>2. \A l \in Lines : f[l] = 0
    BY <1>1, <2>1
  <2> QED BY <2>2 DEF O!None, Quantity
<1>3. ASSUME f = O!None PROVE O!SumOver(f) = 0
  BY <1>1, <1>3, SumOverIs, SumZero DEF O!None
<1> QED BY <1>2, <1>3

LEMMA PlusIs ==
    ASSUME NEW f \in Quantity, NEW g \in Quantity
    PROVE  O!Plus(f, g) \in Quantity /\ \A l \in Lines : O!Plus(f, g)[l] = f[l] + g[l]
BY DEF O!Plus, Quantity

\* Sums of two functions add up.
LEMMA PlusNone == ASSUME NEW f \in Quantity PROVE O!Plus(f, O!None) = f
<1>1. \A l \in Lines : O!None[l] = 0 /\ f[l] \in Nat
  BY DEF O!None, Quantity
<1> QED BY <1>1 DEF O!Plus, Quantity

LEMMA SumOfPlus ==
    ASSUME O!PurchaseAssumption, NEW f \in Quantity, NEW g \in Quantity
    PROVE  O!SumOver(O!Plus(f, g)) = O!SumOver(f) + O!SumOver(g)
<1> DEFINE h == O!Plus(f, g)
           T == {S \in SUBSET Lines : Sum(h, S) = Sum(f, S) + Sum(g, S)}
<1>1. IsFiniteSet(Lines) /\ h \in Quantity /\ \A l \in Lines : h[l] = f[l] + g[l]
  BY PlusIs, OrderFinite DEF O!PurchaseAssumption
<1>2. \A l \in Lines : f[l] \in Int /\ g[l] \in Int /\ h[l] \in Int
  BY <1>1 DEF Quantity
<1> HIDE DEF h
<1>3. {} \in T
  BY SumEmpty
<1>4. ASSUME NEW S \in SUBSET Lines, S # {}, \A x \in S : S \ {x} \in T PROVE S \in T
  <2>1. PICK x \in S : TRUE
    BY <1>4
  <2>2. Sum(h, S \ {x}) = Sum(f, S \ {x}) + Sum(g, S \ {x})
    BY <1>4, <2>1
  <2>3. IsFiniteSet(S) /\ IsFiniteSet(S \ {x})
    BY <1>1, FS_Subset
  <2>4. Sum(h, S) = h[x] + Sum(h, S \ {x}) /\ Sum(f, S) = f[x] + Sum(f, S \ {x}) /\ Sum(g, S) = g[x] + Sum(g, S \ {x})
    BY <1>2, <2>3, SumRemove
  <2>5. Sum(f, S \ {x}) \in Int /\ Sum(g, S \ {x}) \in Int
    BY <1>2, <2>3, SumRemove
  <2>6. Sum(h, S) = Sum(f, S) + Sum(g, S)
    BY <1>1, <1>2, <2>2, <2>4, <2>5
  <2> QED BY <2>6
<1>5. T \in SUBSET (SUBSET Lines)
  OBVIOUS
<1> HIDE DEF T
<1>6. T = SUBSET Lines
  BY <1>1, <1>3, <1>4, <1>5, InductionOverSubsets
<1>7. Lines \in T
  BY <1>6
<1>8. Sum(h, Lines) = Sum(f, Lines) + Sum(g, Lines)
  BY <1>7 DEF T
<1>9. DOMAIN h = Lines /\ DOMAIN f = Lines /\ DOMAIN g = Lines
  BY <1>1 DEF Quantity
<1> QED BY <1>8, <1>9, SumOverIs DEF h

Clearing == "po_receipt_clearing"
Keys == {"po_receipt", Clearing, "po_convert_to_bill"} \X Nat

LEMMA PostedIs == O!Posted(Clearing) = Sum(journal, O!Entries(Clearing))
BY DEF O!Posted, O!MapThenSumSet, O!MapThenFoldSet, Sum, MapThenSumSet, MapThenFoldSet

LEMMA ClearingKeyIsNew ==
    ASSUME JournalOK PROVE O!ClearingKey \in Keys /\ O!ClearingKey[1] = Clearing /\ O!ClearingKey \notin DOMAIN journal
<1> DEFINE n == Cardinality(O!Entries(Clearing))
<1>1. n \in Nat
  BY FS_Subset, FS_CardinalityType DEF JournalOK, O!Entries
<1>2. O!ClearingKey = <<Clearing, n + 1>>
  BY OrderCounts DEF O!ClearingKey, Clearing
<1>3. \A k \in O!Entries(Clearing) : k[2] <= n
  BY DEF JournalOK, Clearing
<1> HIDE DEF n
<1>4. <<Clearing, n + 1>>[1] = Clearing /\ <<Clearing, n + 1>>[2] = n + 1 /\ <<Clearing, n + 1>> \in Keys
  BY <1>1 DEF Keys
<1>5. O!ClearingKey \notin O!Entries(Clearing)
  BY <1>1, <1>2, <1>3, <1>4
<1> QED BY <1>2, <1>4, <1>5 DEF O!Entries

\* What an entry adds to the postings of its source.
LEMMA PostOK ==
    ASSUME JournalOK, NEW key \in Keys, NEW amount \in Nat, O!Post(key, amount), key[1] = Clearing => key = O!ClearingKey
    PROVE  /\ JournalOK'
           /\ O!Posted(Clearing)' = IF key[1] = Clearing THEN O!Posted(Clearing) + amount ELSE O!Posted(Clearing)
           /\ O!Posted(Clearing) \in Nat
<1> DEFINE E == O!Entries(Clearing)
<1>1. /\ DOMAIN journal \subseteq Keys /\ IsFiniteSet(DOMAIN journal) /\ \A k \in DOMAIN journal : journal[k] \in Nat
      /\ journal \in [DOMAIN journal -> Nat]
      /\ \A k \in E : k[2] <= Cardinality(E)
  BY DEF JournalOK, Keys, Clearing
<1>2. E = {k \in DOMAIN journal : k[1] = Clearing} /\ E' = {k \in DOMAIN journal' : k[1] = Clearing}
  BY DEF O!Entries
<1>3. O!Posted(Clearing) = Sum(journal, E) /\ O!Posted(Clearing)' = Sum(journal', E')
  <2>1. O!Posted(Clearing) = Sum(journal, E)
    BY PostedIs
  <2>2. (O!Posted(Clearing) = Sum(journal, O!Entries(Clearing)))'
    BY PostedIs, PTL
  <2>3. Sum(journal, O!Entries(Clearing))' = Sum(journal', O!Entries(Clearing)')
    OBVIOUS
  <2> QED BY <2>1, <2>2, <2>3
<1>4. IsFiniteSet(E) /\ Cardinality(E) \in Nat /\ \A k \in E : journal[k] \in Nat
  BY <1>1, <1>2, FS_Subset, FS_CardinalityType
<1>5. O!Posted(Clearing) \in Nat
  BY <1>3, <1>4, SumNat
<1> HIDE DEF E
<1>6. CASE key \in DOMAIN journal
  <2>1. journal' = journal
    BY <1>1, <1>6 DEF O!Post
  <2>2. key[1] # Clearing
    BY <1>6, ClearingKeyIsNew
  <2>3. JournalOK'
    BY <2>1 DEF JournalOK, O!Entries
  <2> QED BY <1>2, <1>3, <1>5, <2>1, <2>2, <2>3
<1>7. CASE key \notin DOMAIN journal
  <2>1. /\ DOMAIN journal' = DOMAIN journal \cup {key} /\ journal'[key] = amount
        /\ \A k \in DOMAIN journal : journal'[k] = journal[k]
    <3>1. journal' = [k \in DOMAIN journal \cup {key} |-> IF k \in DOMAIN journal THEN journal[k] ELSE amount]
      BY DEF O!Post
    <3> QED BY <1>7, <3>1
  <2>2. IsFiniteSet(DOMAIN journal') /\ DOMAIN journal' \subseteq Keys /\ journal' \in [DOMAIN journal' -> Nat]
    BY <1>1, <2>1, FS_AddElement DEF O!Post
  <2>3. CASE key[1] # Clearing
    <3>1. E' = E
      BY <1>2, <2>1, <2>3
    <3>2. Sum(journal', E) = Sum(journal, E)
      <4>1. \A k \in E : journal[k] = journal'[k] /\ journal[k] \in Int
        BY <1>2, <1>4, <2>1
      <4> QED BY <1>4, <4>1, SumSame
    <3>3. \A k \in E' : k[2] <= Cardinality(E')
      BY <1>1, <3>1
    <3> QED BY <1>3, <1>5, <2>2, <2>3, <3>1, <3>2, <3>3 DEF JournalOK, Keys, Clearing, E
  <2>4. CASE key[1] = Clearing
    <3>1. E' = E \cup {key} /\ key \notin E
      BY <1>2, <1>7, <2>1, <2>4
    <3>2. Cardinality(E') = Cardinality(E) + 1
      BY <1>4, <3>1, FS_AddElement
    <3>3. key[2] = Cardinality(E) + 1
      <4>1. key = <<Clearing, Cardinality(E) + 1>>
        BY <2>4, OrderCounts DEF O!ClearingKey, E, Clearing
      <4> QED BY <4>1
    <3>4. \A k \in E : k[2] \in Nat
      BY <1>1, <1>2 DEF Keys
    <3>5. \A k \in E' : k[2] <= Cardinality(E')
      BY <1>1, <1>4, <3>1, <3>2, <3>3, <3>4
    <3>6. Sum(journal', E \cup {key}) = journal'[key] + Sum(journal', E)
      <4>1. \A k \in E \cup {key} : journal'[k] \in Int
        BY <1>2, <1>4, <2>1
      <4> QED BY <1>4, <3>1, <4>1, SumAdd
    <3>7. Sum(journal', E) = Sum(journal, E)
      <4>1. \A k \in E : journal[k] = journal'[k] /\ journal[k] \in Int
        BY <1>2, <1>4, <2>1
      <4> QED BY <1>4, <4>1, SumSame
    <3>8. O!Posted(Clearing)' = O!Posted(Clearing) + amount
      BY <1>3, <1>5, <2>1, <3>1, <3>6, <3>7
    <3> QED BY <1>5, <2>2, <2>4, <3>5, <3>8 DEF JournalOK, Keys, Clearing, E
  <2> QED BY <2>3, <2>4
<1> QED BY <1>6, <1>7

-----------------------------------------------------------------------------
(* What a step leaves alone.                                               *)

LEMMA PostedSame == ASSUME journal' = journal PROVE O!Posted(Clearing)' = O!Posted(Clearing)
<1>1. (O!Posted(Clearing) = Sum(journal, O!Entries(Clearing)))'
  BY PostedIs, PTL
<1>2. O!Entries(Clearing)' = O!Entries(Clearing)
  BY DEF O!Entries
<1>3. O!Posted(Clearing)' = Sum(journal', O!Entries(Clearing)')
  BY <1>1
<1> QED BY <1>2, <1>3, PostedIs

LEMMA JournalSame == ASSUME JournalOK, journal' = journal PROVE JournalOK'
BY DEF JournalOK, O!Entries

LEMMA CoveredSame ==
    ASSUME Covered, po'.prebilled = po.prebilled, UNCHANGED <<bills, journal, gross>>
    PROVE  Covered'
<1>1. O!Posted(Clearing)' = O!Posted(Clearing) /\ O!SumOver(gross)' = O!SumOver(gross)
  BY PostedSame
<1>2. O!None' = O!None /\ O!Value' = O!Value
  BY DEF O!None, O!Value
<1> QED BY <1>1, <1>2 DEF Covered, Clearing

\* The order, its bills and its journal, in a step of which they are not a part.
Books == OrderOK /\ JournalOK /\ O!ReceivedWithinOrdered /\ (Fresh => Covered)
LEMMA BooksSame ==
    ASSUME Books, ops' \in 0..MaxOps, UNCHANGED <<po, received, shelf, bills, journal, gross, returned, orderLapses>>
    PROVE  Books'
<1>1. OrderOK' /\ O!ReceivedWithinOrdered' /\ Fresh' = Fresh
  BY DEF Books, OrderOK, O!ReceivedWithinOrdered, Fresh
<1>2. JournalOK' /\ (Fresh => Covered')
  BY JournalSame, CoveredSame DEF Books
<1> QED BY <1>1, <1>2 DEF Books

LEMMA Parts == IInv <=> Books /\ ReqOK
BY DEF IInv, Books

LEMMA Shape ==
    ASSUME ReqOK, NEW r \in Users
    PROVE  /\ orderWork[r] \in Works
           /\ Takes(orderWork[r]) => orderWork[r] \in Receiving
           /\ O!At(r, "receiving") \/ O!At(r, "saving") => Takes(orderWork[r])
           /\ O!At(r, "returning") => orderWork[r] \in Returning
           /\ O!At(r, "patching") => orderWork[r] \in Patching
<1>1. orderWork[r] \in Works
  BY DEF ReqOK
<1> QED BY <1>1 DEF Works, Receiving, Converting, Returning, Patching, O!Idle, Takes, O!At

\* One request goes on, and what it holds then fits with the others.
LEMMA OneMoves ==
    ASSUME ReqOK, NEW r \in Users, NEW w \in Works, orderWork' = [orderWork EXCEPT ![r] = w], Fits(w, received'),
           \A q \in Users \ {r} : Fits(orderWork[q], received') /\ Apart(w, orderWork[q])
    PROVE  ReqOK'
<1>1. orderWork' \in [Users -> Works] /\ orderWork'[r] = w /\ \A q \in Users \ {r} : orderWork'[q] = orderWork[q]
  BY DEF ReqOK
<1>2. ASSUME NEW p \in Users, NEW q \in Users \ {p} PROVE Apart(orderWork'[p], orderWork'[q])
  <2>1. CASE p = r
    BY <1>1, <2>1
  <2>2. CASE q = r
    <3>1. Apart(w, orderWork[p]) /\ p # r
      BY <2>2
    <3> QED BY <1>1, <2>2, <3>1 DEF Apart
  <2>3. CASE p # r /\ q # r
    BY <1>1, <2>3 DEF ReqOK
  <2> QED BY <2>1, <2>2, <2>3
<1>3. \A p \in Users : Fits(orderWork'[p], received')
  BY <1>1
<1> QED BY <1>1, <1>2, <1>3 DEF ReqOK, Fits, Apart, Takes

LEMMA OneStays ==
    ASSUME ReqOK, NEW r \in Users, NEW w \in Works, orderWork' = [orderWork EXCEPT ![r] = w], received' = received,
           Fits(w, received), Takes(w) => Takes(orderWork[r]) /\ w.got = orderWork[r].got
    PROVE  ReqOK'
<1>1. \A q \in Users \ {r} : Fits(orderWork[q], received') /\ Apart(w, orderWork[q])
  BY DEF ReqOK, Apart
<1> QED BY <1>1, OneMoves

LEMMA OneEnds == ASSUME ReqOK, NEW r \in Users, O!End(r), received' = received PROVE ReqOK'
<1>1. O!Idle \in Works /\ Fits(O!Idle, received) /\ ~Takes(O!Idle)
  BY DEF Works, O!Idle, Fits, Takes
<1> QED BY <1>1, OneStays DEF O!End

LEMMA OneStarts ==
    ASSUME IInv, NEW r \in Users, NEW w \in Works, O!Start(r, w), Fits(w, received),
           Takes(w) => w.got = O!None, MaxOps \in Nat
    PROVE  IInv'
<1>1. \A q \in Users \ {r} : Fits(orderWork[q], received') /\ Apart(w, orderWork[q])
  BY Parts DEF ReqOK, Apart, O!Start, O!None
<1>2. ReqOK'
  BY <1>1, Parts, OneMoves DEF O!Start
<1>3. ops' \in 0..MaxOps
  BY Parts DEF O!Start, Books, OrderOK
<1>4. Books'
  BY <1>3, Parts, BooksSame DEF O!Start
<1> QED BY <1>2, <1>4 DEF IInv, Books

-----------------------------------------------------------------------------
(* Receipts.                                                               *)

LEMMA ReceiveStarts ==
    ASSUME O!PurchaseAssumption, IInv, NEW r \in Users, NEW s \in Seq(Entry), O!BeginReceive(r, s)
    PROVE  IInv'
<1> DEFINE w == [step |-> "receiving", copy |-> po, bills |-> bills, todo |-> s, got |-> O!None, rest |-> FALSE]
<1>1. O!None \in Quantity /\ \A l \in Lines : O!None[l] = 0
  BY DEF O!None, Quantity
<1>2. w \in Works /\ w.got = O!None
  BY <1>1 DEF IInv, OrderOK, Works, Receiving
<1>3. Fits(w, received)
  BY <1>1 DEF Fits
<1>4. O!Start(r, w)
  BY DEF O!BeginReceive
<1> HIDE DEF w
<1> QED BY <1>2, <1>3, <1>4, OneStarts DEF O!PurchaseAssumption

LEMMA AskedOK == ASSUME NEW s \in O!Asked PROVE s \in Seq(Entry)
<1> DEFINE E == [line : Lines, qty : 1..O!Max(O!Range(Ordered))]
<1>1. E \subseteq Entry
  BY DEF Entry
<1>2. PICK m \in 0..2 : s \in [1..m -> E]
  BY DEF O!Asked, O!SeqOf
<1>3. s \in [1..m -> Entry]
  BY <1>1, <1>2
<1> QED BY <1>2, <1>3

\* Lines in some order.
LEMMA ListOf ==
    ASSUME NEW S, IsFiniteSet(S) PROVE \E n \in Nat : O!SetToSeq(S) \in [1..n -> S]
<1>1. PICK n \in Nat : n = Cardinality(S) /\ ExistsBijection(1..n, S)
  BY FS_CardinalityType
<1>2. PICK f \in [1..n -> S] : IsInjective(f)
  BY <1>1 DEF ExistsBijection, Bijection, Injection, IsInjective
<1>3. O!SetToSeq(S) \in [1..n -> S]
  BY <1>1, <1>2, OrderCounts DEF O!SetToSeq, O!IsInjective, IsInjective
<1> QED BY <1>3

LEMMA QuickReceiveOK ==
    ASSUME O!PurchaseAssumption, IInv, NEW r \in Users, O!QuickReceive(r) PROVE IInv'
<1> DEFINE s == O!SetToSeq(O!Outstanding)
           t == [k \in DOMAIN s |-> [line |-> s[k], qty |-> Ordered[s[k]] - received[s[k]]]]
<1>1. O!Outstanding \subseteq Lines /\ IsFiniteSet(O!Outstanding)
  BY FS_Subset, OrderFinite DEF O!Outstanding, O!PurchaseAssumption
<1>2. PICK n \in Nat : s \in [1..n -> O!Outstanding]
  BY <1>1, ListOf
<1>3. \A l \in O!Outstanding : l \in Lines /\ Ordered[l] - received[l] \in Nat \ {0}
  BY DEF O!Outstanding, O!PurchaseAssumption, IInv, OrderOK, Quantity
<1>4. O!BeginReceive(r, t)
  BY DEF O!QuickReceive
<1> HIDE DEF s
<1>5. t \in [1..n -> Entry]
  BY <1>2, <1>3 DEF Entry
<1>6. t \in Seq(Entry)
  BY <1>2, <1>5
<1> HIDE DEF t
<1> QED BY <1>4, <1>6, ReceiveStarts

LEMMA ReceiveLineOK ==
    ASSUME O!PurchaseAssumption, IInv, NEW r \in Users, O!ReceiveLine(r) PROVE IInv'
<1> DEFINE e == Head(orderWork[r].todo)
           got == [orderWork[r].got EXCEPT ![e.line] = @ + e.qty]
           w == [orderWork[r] EXCEPT !.todo = Tail(@), !.got = got,
                               !.rest = @ \/ received[e.line] + got[e.line] < Ordered[e.line]]
<1>1. orderWork[r] \in Receiving /\ Takes(orderWork[r]) /\ orderWork[r].todo \in Seq(Entry) /\ orderWork[r].todo # <<>>
  BY Parts, Shape DEF O!ReceiveLine, Receiving
<1>2. e \in Entry /\ Tail(orderWork[r].todo) \in Seq(Entry)
  BY <1>1
<1>3. e.line \in Lines /\ e.qty \in Nat /\ orderWork[r].got \in Quantity /\ orderWork[r].rest \in BOOLEAN
  BY <1>1, <1>2 DEF Entry, Receiving
<1>4. got \in Quantity /\ got[e.line] <= Ordered[e.line] - received[e.line]
      /\ \A l \in Lines : l # e.line => got[l] = orderWork[r].got[l]
  <2>1. got[e.line] <= Ordered[e.line] - received[e.line]
    BY DEF O!ReceiveLine, O!Limit
  <2> DEFINE g == orderWork[r].got
             l0 == e.line
             n == e.qty
  <2>2. g \in [Lines -> Nat] /\ l0 \in Lines /\ n \in Nat
    BY <1>3 DEF Quantity
  <2>3. got = [g EXCEPT ![l0] = g[l0] + n]
    OBVIOUS
  <2> HIDE DEF g, l0, n, got, e
  <2>4. got \in [Lines -> Nat] /\ \A l \in Lines : l # l0 => got[l] = g[l]
    BY <2>2, <2>3
  <2> QED BY <2>1, <2>4 DEF Quantity, g, l0
<1>5. orderWork' = [orderWork EXCEPT ![r] = w]
  BY Parts DEF O!ReceiveLine, ReqOK
<1>6. w \in Receiving /\ w.got = got /\ Takes(w) /\ w.step = orderWork[r].step
  BY <1>1, <1>2, <1>3, <1>4 DEF Receiving, Takes
<1>7. received \in Quantity /\ Ordered \in Quantity /\ received' = received
  BY DEF IInv, OrderOK, O!PurchaseAssumption, Quantity, O!ReceiveLine
<1>8. \A l \in Lines : orderWork[r].got[l] > 0 => received[l] + orderWork[r].got[l] <= Ordered[l]
  BY <1>1, Parts DEF ReqOK, Fits
<1>9. ~O!OthersHold(r, e.line)
  BY DEF O!ReceiveLine
<1> HIDE DEF w, got, e
<1>10. Fits(w, received)
  <2>1. \A l \in Lines : w.got[l] > 0 => received[l] + w.got[l] <= Ordered[l]
    BY <1>3, <1>4, <1>6, <1>7, <1>8 DEF Quantity
  <2>2. w.step # "returning" /\ w.step # "patching"
    BY <1>6 DEF Receiving
  <2> QED BY <2>1, <2>2 DEF Fits
<1>11. ASSUME NEW q \in Users \ {r} PROVE Fits(orderWork[q], received') /\ Apart(w, orderWork[q])
  <2>1. Fits(orderWork[q], received') /\ Apart(orderWork[r], orderWork[q])
    BY <1>7, Parts DEF ReqOK
  <2>2. ASSUME Takes(orderWork[q]), NEW l \in Lines PROVE w.got[l] = 0 \/ orderWork[q].got[l] = 0
    <3>1. CASE l = e.line
      <4>1. orderWork[q].got \in Quantity
        BY <2>2, Parts, Shape DEF Receiving
      <4>2. ~(orderWork[q].got[l] > 0)
        BY <1>9, <2>2, <3>1 DEF O!OthersHold, Takes
      <4> QED BY <4>1, <4>2 DEF Quantity
    <3>2. CASE l # e.line
      BY <1>1, <1>4, <1>6, <2>1, <2>2, <3>2 DEF Apart
    <3> QED BY <3>1, <3>2
  <2> QED BY <2>1, <2>2 DEF Apart
<1>12. w \in Works
  BY <1>6 DEF Works
<1>13. ReqOK'
  BY <1>5, <1>10, <1>11, <1>12, Parts, OneMoves, <1>7
<1>14. Books'
  <2>1. ops' \in 0..MaxOps
    BY DEF O!ReceiveLine, IInv, OrderOK
  <2> QED BY <2>1, Parts, BooksSame DEF O!ReceiveLine
<1> QED BY <1>13, <1>14 DEF IInv, Books

LEMMA SaveOrderOK ==
    ASSUME O!PurchaseAssumption, IInv, NEW r \in Users, O!SaveOrder(r) PROVE IInv'
<1> DEFINE w == [orderWork[r] EXCEPT !.step = "saving"]
<1>1. orderWork[r] \in Receiving /\ Takes(orderWork[r])
  BY Parts, Shape DEF O!SaveOrder
<1>2. orderWork' = [orderWork EXCEPT ![r] = w] /\ received' = received
  BY Parts DEF O!SaveOrder, ReqOK
<1>3. w \in Receiving /\ w.got = orderWork[r].got /\ w.step = "saving"
  BY <1>1 DEF Receiving
<1> HIDE DEF w
<1>4. Fits(w, received)
  BY <1>1, <1>3, Parts DEF ReqOK, Fits
<1>5. ReqOK'
  BY <1>1, <1>2, <1>3, <1>4, Parts, OneStays DEF Works
<1>6. Books'
  <2>1. ops' \in 0..MaxOps
    BY DEF O!SaveOrder, IInv, OrderOK
  <2> QED BY <2>1, Parts, BooksSame DEF O!SaveOrder
<1> QED BY <1>5, <1>6 DEF IInv, Books

LEMMA CommitReceiptOK ==
    ASSUME O!PurchaseAssumption, IInv, NEW r \in Users, O!CommitReceipt(r) PROVE IInv'
<1> DEFINE got == orderWork[r].got
           batch == O!SumOver(got)
<1>1. orderWork[r] \in Receiving /\ Takes(orderWork[r]) /\ got \in Quantity
  BY Parts, Shape DEF O!CommitReceipt, Receiving
<1>2. received \in Quantity /\ shelf \in Quantity /\ gross \in Quantity /\ Ordered \in Quantity /\ returned \in Quantity
  BY DEF IInv, OrderOK, O!PurchaseAssumption, Quantity
<1>3. /\ received' = O!Plus(received, got) /\ shelf' = O!Plus(shelf, got) /\ gross' = O!Plus(gross, got) /\ returned' = returned
      /\ po'.prebilled = po.prebilled /\ po' \in Order /\ orderWork' = [orderWork EXCEPT ![r] = O!Idle] /\ ops' = ops
  BY DEF O!CommitReceipt, IInv, OrderOK, Order, O!Statuses, O!End
<1>4. batch \in Nat /\ (batch = 0 <=> got = O!None)
  BY <1>1, ValueIs, NothingIsNone
<1>5. orderLapses' = orderLapses \cup (IF orderWork[r].copy.prebilled = po.prebilled THEN {} ELSE {"receive"})
  BY DEF O!CommitReceipt, O!Lapse
<1>6. /\ received' \in Quantity /\ shelf' \in Quantity /\ gross' \in Quantity
      /\ \A l \in Lines : received'[l] = received[l] + got[l] /\ gross'[l] = gross[l] + got[l]
  BY <1>1, <1>2, <1>3, PlusIs
<1>7. O!SumOver(gross)' = O!SumOver(gross) + batch /\ O!SumOver(gross) \in Nat
  BY <1>1, <1>2, <1>3, SumOfPlus, ValueIs
<1> HIDE DEF got
<1>8. \/ batch = 0 /\ UNCHANGED <<bills, journal>>
      \/ batch > 0 /\ orderWork[r].copy.prebilled /\ O!Post(O!ClearingKey, batch) /\ bills' = bills
      \/ /\ batch > 0 /\ ~orderWork[r].copy.prebilled /\ O!Post(<<"po_receipt", 0>>, batch)
         /\ \/ bills = <<>> /\ bills' = Append(bills, batch)
            \/ \E b \in DOMAIN bills : bills' = [bills EXCEPT ![b] = bills[b] + batch]
  BY DEF O!CommitReceipt, O!BillsSeen, got
<1>9. bills \in Seq(Nat) /\ JournalOK
  BY DEF IInv, OrderOK
<1> HIDE DEF batch
<1>10. ReqOK'
  <2>1. \A l \in Lines : got[l] > 0 => received[l] + got[l] <= Ordered[l]
    BY <1>1, Parts DEF ReqOK, Fits, got
  <2>2. ASSUME NEW q \in Users \ {r} PROVE Fits(orderWork[q], received') /\ Apart(O!Idle, orderWork[q])
    <3>1. Fits(orderWork[q], received) /\ Apart(orderWork[r], orderWork[q])
      BY Parts DEF ReqOK
    <3>2. ASSUME Takes(orderWork[q]), NEW l \in Lines, orderWork[q].got[l] > 0 PROVE received'[l] + orderWork[q].got[l] <= Ordered[l]
      <4>1. got[l] = 0
        BY <1>1, <3>1, <3>2 DEF Apart, got
      <4>2. received'[l] = received[l]
        BY <1>2, <1>6, <4>1 DEF Quantity
      <4> QED BY <3>1, <3>2, <4>2 DEF Fits
    <3>3. Fits(orderWork[q], received')
      BY <3>1, <3>2 DEF Fits
    <3> QED BY <3>3 DEF Apart, Takes, O!Idle
  <2>3. O!Idle \in Works /\ Fits(O!Idle, received')
    BY DEF Works, O!Idle, Fits, Takes
  <2> QED BY <1>3, <2>2, <2>3, Parts, OneMoves
<1>11. O!ReceivedWithinOrdered'
  <2>1. ASSUME NEW l \in Lines PROVE received'[l] <= Ordered[l]
    <3>1. got[l] > 0 => received[l] + got[l] <= Ordered[l]
      BY <1>1, Parts DEF ReqOK, Fits, got
    <3>2. received[l] <= Ordered[l]
      BY DEF IInv, O!ReceivedWithinOrdered
    <3>3. received[l] \in Nat /\ got[l] \in Nat /\ received'[l] = received[l] + got[l]
      BY <1>1, <1>2, <1>6 DEF Quantity
    <3>4. got[l] = 0 => received'[l] = received[l]
      BY <3>3
    <3>5. got[l] = 0 \/ got[l] > 0
      BY <3>3
    <3> QED BY <3>1, <3>2, <3>3, <3>4, <3>5
  <2>2. ASSUME "return" \notin orderLapses', NEW l \in Lines PROVE received'[l] = gross'[l] - returned'[l]
    <3>1. "return" \notin orderLapses
      BY <1>5, <2>2
    <3>2. received[l] = gross[l] - returned[l]
      BY <3>1 DEF IInv, O!ReceivedWithinOrdered
    <3>3. received[l] \in Nat /\ got[l] \in Nat /\ gross[l] \in Nat /\ returned[l] \in Nat
      BY <1>1, <1>2 DEF Quantity
    <3> QED BY <1>3, <1>6, <3>2, <3>3
  <2> QED BY <2>1, <2>2 DEF O!ReceivedWithinOrdered
<1>12. <<"po_receipt", 0>> \in Keys /\ <<"po_receipt", 0>>[1] # Clearing
  BY DEF Keys, Clearing
<1>13. JournalOK'
  BY <1>4, <1>8, <1>9, <1>12, PostOK, ClearingKeyIsNew, JournalSame
<1>14. bills' \in Seq(Nat)
  <2>1. bills = <<>> => Append(bills, batch) \in Seq(Nat)
    BY <1>4, <1>9
  <2>2. ASSUME NEW b \in DOMAIN bills PROVE [bills EXCEPT ![b] = bills[b] + batch] \in Seq(Nat)
    <3>1. bills \in [1..Len(bills) -> Nat] /\ Len(bills) \in Nat /\ bills[b] + batch \in Nat
      BY <1>4, <1>9
    <3>2. [bills EXCEPT ![b] = bills[b] + batch] \in [1..Len(bills) -> Nat]
      BY <3>1
    <3> QED BY <3>1, <3>2
  <2> QED BY <1>8, <1>9, <2>1, <2>2
<1>15. OrderOK'
  BY <1>2, <1>3, <1>5, <1>6, <1>14 DEF OrderOK, IInv
<1>16. ASSUME Fresh' PROVE Covered'
  <2>1. Fresh /\ orderWork[r].copy.prebilled = po.prebilled
    BY <1>5, <1>16 DEF Fresh
  <2>2. Covered
    BY <2>1 DEF IInv
  <2>3. CASE batch = 0
    <3>1. gross' = gross
      BY <1>2, <1>3, <1>4, <2>3, PlusNone
    <3>2. UNCHANGED <<bills, journal>>
      BY <1>8, <2>3
    <3> QED BY <1>3, <2>2, <3>1, <3>2, CoveredSame
  <2>4. CASE batch # 0
    <3>0. O!None' = O!None /\ O!Value' = O!Value
      BY DEF O!None, O!Value
    <3>1. CASE po.prebilled
      <4>1. batch > 0 /\ O!Post(O!ClearingKey, batch) /\ bills' = bills
        BY <1>8, <2>1, <2>4, <3>1
      <4>2. O!Posted(Clearing)' = O!Posted(Clearing) + batch
        BY <1>4, <1>9, <4>1, PostOK, ClearingKeyIsNew
      <4>3. O!Posted(Clearing)' = O!SumOver(gross)'
        BY <1>7, <2>2, <3>1, <4>2 DEF Covered, Clearing
      <4>4. bills # <<>> /\ Len(bills) <= 1 /\ bills[1] = O!Value
        BY <2>2, <3>1 DEF Covered
      <4> QED BY <1>3, <3>0, <3>1, <4>1, <4>3, <4>4 DEF Covered, Clearing
    <3>2. CASE ~po.prebilled
      <4>1. /\ O!Post(<<"po_receipt", 0>>, batch)
            /\ \/ bills = <<>> /\ bills' = Append(bills, batch)
               \/ \E b \in DOMAIN bills : bills' = [bills EXCEPT ![b] = bills[b] + batch]
        BY <1>8, <2>1, <2>4, <3>2
      <4>2. O!Posted(Clearing)' = 0
        <5>1. O!Posted(Clearing) = 0
          BY <2>2, <3>2 DEF Covered, Clearing
        <5> QED BY <1>4, <1>9, <1>12, <4>1, <5>1, PostOK
      <4>3. bills' # <<>> /\ Len(bills') <= 1 /\ bills'[1] = O!SumOver(gross)'
        <5>1. CASE bills = <<>>
          <6>1. O!SumOver(gross) = 0
            BY <1>2, <2>2, <5>1, NothingIsNone DEF Covered
          <6>2. bills' = <<batch>>
            BY <1>9, <4>1, <5>1
          <6>3. O!SumOver(gross)' = batch
            BY <1>4, <1>7, <6>1
          <6> QED BY <6>2, <6>3
        <5>2. CASE bills # <<>>
          <6>1. Len(bills) = 1 /\ bills[1] = O!SumOver(gross)
            <7>1. Len(bills) \in Nat /\ Len(bills) # 0
              BY <1>9, <5>2
            <7>2. Len(bills) <= 1
              BY <2>2 DEF Covered
            <7>3. Len(bills) = 1
              <8> DEFINE n == Len(bills)
              <8>1. n \in Nat /\ n # 0 /\ n <= 1
                BY <7>1, <7>2
              <8> HIDE DEF n
              <8>2. n = 1
                BY <8>1
              <8> QED BY <8>2 DEF n
            <7>4. bills[1] = O!SumOver(gross)
              BY <2>2, <3>2, <5>2 DEF Covered
            <7> QED BY <7>3, <7>4
          <6>2. bills' = [bills EXCEPT ![1] = bills[1] + batch]
            BY <1>9, <4>1, <5>2, <6>1
          <6>3. Len(bills') = 1 /\ bills'[1] = O!SumOver(gross) + batch
            BY <1>9, <6>1, <6>2
          <6>4. bills' # <<>>
            BY <6>3
          <6> QED BY <1>7, <6>3, <6>4
        <5> QED BY <5>1, <5>2
      <4> QED BY <1>3, <3>0, <3>2, <4>2, <4>3 DEF Covered, Clearing
    <3> QED BY <3>1, <3>2
  <2> QED BY <2>3, <2>4
<1> QED BY <1>10, <1>11, <1>13, <1>15, <1>16 DEF IInv

-----------------------------------------------------------------------------
(* Bills, returns and changes of the order.                                *)

LEMMA BeginConvertOK ==
    ASSUME O!PurchaseAssumption, IInv, NEW r \in Users, O!BeginConvert(r) PROVE IInv'
<1> DEFINE w == [step |-> "converting"]
<1>1. w \in Works /\ Fits(w, received) /\ ~Takes(w)
  BY DEF Works, Converting, Fits, Takes
<1> QED BY <1>1, OneStarts DEF O!BeginConvert, O!PurchaseAssumption

LEMMA ConvertOK ==
    ASSUME O!PurchaseAssumption, IInv, NEW r \in Users, O!Convert(r) PROVE IInv'
<1>1. /\ bills' = Append(bills, O!Value) /\ po' = [po EXCEPT !.prebilled = TRUE] /\ O!End(r)
      /\ orderLapses' = orderLapses \cup (IF bills = <<>> THEN {} ELSE {"convert"})
      /\ UNCHANGED <<received, shelf, gross, returned>>
  BY DEF O!Convert, O!Lapse
<1>2. ReqOK'
  BY <1>1, Parts, OneEnds
<1>3. O!Value \in Nat
  BY ValueIs DEF O!Value, O!PurchaseAssumption, Quantity
<1>4. bills \in Seq(Nat) /\ JournalOK /\ gross \in Quantity
  BY DEF IInv, OrderOK
<1>5. <<"po_convert_to_bill", 0>> \in Keys /\ <<"po_convert_to_bill", 0>>[1] # Clearing
  BY DEF Keys, Clearing
<1>6. O!Post(<<"po_convert_to_bill", 0>>, O!Value)
  BY DEF O!Convert
<1>7. JournalOK' /\ O!Posted(Clearing)' = O!Posted(Clearing)
  BY <1>3, <1>4, <1>5, <1>6, PostOK
<1>8. bills' \in Seq(Nat) /\ po' \in Order /\ po'.prebilled = TRUE
  <2>1. bills' \in Seq(Nat)
    BY <1>1, <1>3, <1>4
  <2>2. po \in Order
    BY DEF IInv, OrderOK
  <2>3. po' \in Order /\ po'.prebilled = TRUE
    BY <1>1, <2>2 DEF Order
  <2> QED BY <2>1, <2>3
<1>9. OrderOK'
  BY <1>1, <1>8 DEF IInv, OrderOK, O!End
<1>10. O!ReceivedWithinOrdered'
  BY <1>1 DEF IInv, O!ReceivedWithinOrdered
<1>11. ASSUME Fresh' PROVE Covered'
  <2>1. Fresh /\ bills = <<>>
    BY <1>1, <1>11 DEF Fresh
  <2>2. Covered /\ gross = O!None /\ ~po.prebilled
    BY <2>1 DEF IInv, Covered
  <2>3. bills' = <<O!Value>>
    BY <1>1, <1>3, <2>1
  <2>4. O!Posted(Clearing) = 0 /\ O!SumOver(gross)' = 0
    BY <1>1, <1>4, <2>2, NothingIsNone DEF Covered, Clearing
  <2>5. Len(bills') <= 1 /\ bills' # <<>> /\ bills'[1] = O!Value /\ O!Value' = O!Value
    BY <2>3 DEF O!Value
  <2> QED BY <1>7, <1>8, <2>4, <2>5 DEF Covered, Clearing
<1> QED BY <1>2, <1>7, <1>9, <1>10, <1>11 DEF IInv

LEMMA BeginReturnOK ==
    ASSUME O!PurchaseAssumption, IInv, NEW r \in Users, NEW l \in Lines, NEW n \in 1..Ordered[l], O!BeginReturn(r, l, n)
    PROVE  IInv'
<1> DEFINE w == [step |-> "returning", line |-> l, qty |-> n, seen |-> received[l]]
<1>1. received[l] \in Nat /\ received[l] <= Ordered[l] /\ n \in Nat
  BY DEF IInv, OrderOK, Quantity, O!ReceivedWithinOrdered
<1>2. w \in Works /\ Fits(w, received) /\ ~Takes(w)
  BY <1>1 DEF Works, Returning, Fits, Takes
<1>3. O!Start(r, w)
  BY DEF O!BeginReturn
<1> HIDE DEF w
<1> QED BY <1>2, <1>3, OneStarts DEF O!PurchaseAssumption

LEMMA MaxOfTwo == \A n \in Int : O!Max({0, n}) = IF n >= 0 THEN n ELSE 0
BY DEF O!Max

LEMMA ReturnOK ==
    ASSUME O!PurchaseAssumption, IInv, NEW r \in Users, O!Return(r) PROVE IInv'
<1> DEFINE l == orderWork[r].line
           n == orderWork[r].qty
           seen == orderWork[r].seen
           left == O!Max({0, seen - n})
<1>1. l \in Lines /\ n \in Nat /\ seen \in Nat /\ seen <= Ordered[l]
  <2>1. orderWork[r] \in Returning /\ orderWork[r].step = "returning"
    BY Parts, Shape DEF O!Return, O!At
  <2>2. Fits(orderWork[r], received)
    BY Parts DEF ReqOK
  <2> QED BY <2>1, <2>2 DEF Returning, Fits
<1>2. /\ ~O!OthersHold(r, l) /\ n <= shelf[l] /\ O!End(r) /\ UNCHANGED <<po, bills, journal, gross>>
      /\ shelf' = [shelf EXCEPT ![l] = @ - n] /\ received' = [received EXCEPT ![l] = left]
      /\ returned' = [returned EXCEPT ![l] = @ + n]
      /\ orderLapses' = orderLapses \cup (IF seen = received[l] /\ n <= received[l] THEN {} ELSE {"return"})
  BY DEF O!Return, O!InStock, O!Lapse
<1>3. left \in Nat /\ left <= seen /\ (n <= seen => left = seen - n)
  BY <1>1, MaxOfTwo
<1>4. received \in Quantity /\ shelf \in Quantity /\ gross \in Quantity /\ Ordered \in Quantity /\ returned \in Quantity
  BY DEF IInv, OrderOK, O!PurchaseAssumption, Quantity
<1> HIDE DEF l, n, seen, left
<1>5. received' \in Quantity /\ shelf' \in Quantity /\ returned' \in Quantity
  BY <1>1, <1>2, <1>3, <1>4 DEF Quantity
<1>6. received'[l] = left /\ returned'[l] = returned[l] + n
      /\ \A m \in Lines : m # l => received'[m] = received[m] /\ returned'[m] = returned[m]
  BY <1>1, <1>2, <1>4 DEF Quantity
<1>7. ReqOK'
  <2>1. ASSUME NEW q \in Users \ {r} PROVE Fits(orderWork[q], received') /\ Apart(O!Idle, orderWork[q])
    <3>1. Fits(orderWork[q], received)
      BY Parts DEF ReqOK
    <3>2. ASSUME Takes(orderWork[q]), NEW m \in Lines, orderWork[q].got[m] > 0 PROVE received'[m] + orderWork[q].got[m] <= Ordered[m]
      <4>1. m # l
        BY <1>2, <3>2 DEF O!OthersHold, Takes
      <4> QED BY <1>6, <3>1, <3>2, <4>1 DEF Fits
    <3> QED BY <3>1, <3>2 DEF Fits, Apart, Takes, O!Idle
  <2>2. O!Idle \in Works /\ Fits(O!Idle, received')
    BY DEF Works, O!Idle, Fits, Takes
  <2>3. orderWork' = [orderWork EXCEPT ![r] = O!Idle]
    BY <1>2 DEF O!End
  <2> QED BY <2>1, <2>2, <2>3, Parts, OneMoves
<1>8. OrderOK'
  BY <1>2, <1>5 DEF IInv, OrderOK, O!End
<1>9. O!ReceivedWithinOrdered'
  <2>1. ASSUME NEW m \in Lines PROVE received'[m] <= Ordered[m]
    <3>1. received[m] <= Ordered[m] /\ Ordered[m] \in Nat
      BY <1>4 DEF IInv, O!ReceivedWithinOrdered, Quantity
    <3>2. CASE m = l
      BY <1>1, <1>3, <1>6, <3>1, <3>2
    <3>3. CASE m # l
      BY <1>6, <3>1, <3>3
    <3> QED BY <3>2, <3>3
  <2>2. ASSUME "return" \notin orderLapses', NEW m \in Lines PROVE received'[m] = gross'[m] - returned'[m]
    <3>1. "return" \notin orderLapses /\ seen = received[l] /\ n <= received[l]
      BY <1>2, <2>2
    <3>2. received[m] = gross[m] - returned[m]
      BY <3>1 DEF IInv, O!ReceivedWithinOrdered
    <3>3. CASE m = l
      <4>1. received[l] \in Nat /\ gross[l] \in Nat /\ returned[l] \in Nat
        BY <1>1, <1>4 DEF Quantity
      <4>2. received'[l] = received[l] - n /\ gross' = gross
        BY <1>2, <1>3, <1>6, <3>1
      <4> QED BY <1>1, <1>6, <3>2, <3>3, <4>1, <4>2
    <3>4. CASE m # l
      BY <1>2, <1>6, <3>2, <3>4
    <3> QED BY <3>3, <3>4
  <2> QED BY <2>1, <2>2 DEF O!ReceivedWithinOrdered
<1>10. JournalOK'
  BY <1>2, JournalSame DEF IInv
<1>11. Fresh' => Covered'
  <2>1. Fresh' => Fresh
    BY <1>2 DEF Fresh
  <2> QED BY <1>2, <2>1, CoveredSame DEF IInv
<1> QED BY <1>7, <1>8, <1>9, <1>10, <1>11 DEF IInv

LEMMA BeginPatchOK ==
    ASSUME O!PurchaseAssumption, IInv, NEW r \in Users, NEW status \in {po.status, "sent", "closed"}, O!BeginPatch(r, status)
    PROVE  IInv'
<1> DEFINE w == [step |-> "patching", row |-> [po EXCEPT !.status = status], copy |-> po]
<1>1. po \in Order /\ [po EXCEPT !.status = status] \in Order /\ [po EXCEPT !.status = status].prebilled = po.prebilled
  BY DEF IInv, OrderOK, Order, O!Statuses
<1>2. w \in Works /\ Fits(w, received) /\ ~Takes(w)
  BY <1>1 DEF Works, Patching, Fits, Takes
<1>3. O!Start(r, w)
  BY DEF O!BeginPatch
<1> HIDE DEF w
<1> QED BY <1>2, <1>3, OneStarts DEF O!PurchaseAssumption

LEMMA PatchOK ==
    ASSUME O!PurchaseAssumption, IInv, NEW r \in Users, O!Patch(r) PROVE IInv'
<1>1. /\ po' = orderWork[r].row /\ O!End(r) /\ UNCHANGED <<received, shelf, bills, journal, gross, returned>>
      /\ orderLapses' = orderLapses \cup (IF orderWork[r].copy = po THEN {} ELSE {"patch"})
  BY DEF O!Patch, O!Lapse
<1>2. ReqOK'
  BY <1>1, Parts, OneEnds
<1>3. orderWork[r] \in Patching /\ Fits(orderWork[r], received)
  BY Parts, Shape DEF O!Patch, ReqOK
<1>4. po' \in Order /\ po'.prebilled = orderWork[r].copy.prebilled
  BY <1>1, <1>3 DEF Patching, Fits
<1>5. OrderOK' /\ O!ReceivedWithinOrdered'
  BY <1>1, <1>4 DEF IInv, OrderOK, O!ReceivedWithinOrdered, O!End
<1>6. JournalOK'
  BY <1>1, JournalSame DEF IInv
<1>7. ASSUME Fresh' PROVE Covered'
  <2>1. Fresh /\ po'.prebilled = po.prebilled
    BY <1>1, <1>4, <1>7 DEF Fresh
  <2> QED BY <1>1, <2>1, CoveredSame DEF IInv
<1> QED BY <1>2, <1>5, <1>6, <1>7 DEF IInv

LEMMA RollbackOK ==
    ASSUME O!PurchaseAssumption, IInv, NEW r \in Users, O!Rollback(r) PROVE IInv'
<1>1. ReqOK'
  BY Parts, OneEnds DEF O!Rollback
<1>2. ops' \in 0..MaxOps
  BY DEF O!Rollback, O!End, IInv, OrderOK
<1> QED BY <1>1, <1>2, Parts, BooksSame DEF O!Rollback, IInv, Books

-----------------------------------------------------------------------------
(* Theorems about purchase orders.                                         *)

LEMMA InitOK == ASSUME O!PurchaseAssumption, O!Init PROVE IInv
<1>1. O!None \in Quantity /\ \A l \in Lines : O!None[l] = 0
  BY DEF O!None, Quantity
<1>2. OrderOK
  BY <1>1 DEF O!Init, OrderOK, Order, O!Statuses, O!PurchaseAssumption, Quantity
<1>3. ReqOK
  BY DEF O!Init, ReqOK, Works, O!Idle, Fits, Apart, Takes
<1>4. DOMAIN journal = {} /\ O!Entries(Clearing) = {} /\ journal \in [DOMAIN journal -> Nat]
  BY DEF O!Init, O!Entries
<1>5. JournalOK
  BY <1>4, FS_EmptySet DEF JournalOK, Clearing
<1>6. O!ReceivedWithinOrdered
  BY <1>1 DEF O!Init, O!ReceivedWithinOrdered, O!PurchaseAssumption
<1>7. O!Posted(Clearing) = 0
  BY <1>4, PostedIs, SumEmpty
<1>8. Covered
  BY <1>7 DEF O!Init, Covered, Clearing
<1> QED BY <1>2, <1>3, <1>5, <1>6, <1>8 DEF IInv

LEMMA StutterOK == ASSUME IInv, UNCHANGED O!vars PROVE IInv'
<1>1. ReqOK'
  BY Parts DEF O!vars, ReqOK, Fits, Apart, Takes
<1>2. ops' \in 0..MaxOps
  BY DEF O!vars, IInv, OrderOK
<1> QED BY <1>1, <1>2, Parts, BooksSame DEF O!vars, IInv, Books

LEMMA StepOK == ASSUME O!PurchaseAssumption, IInv, [O!Next]_O!vars PROVE IInv'
<1>1. CASE UNCHANGED O!vars
  BY <1>1, StutterOK
<1>2. ASSUME NEW r \in Users, NEW s \in O!Asked, O!BeginReceive(r, s) PROVE IInv'
  BY <1>2, AskedOK, ReceiveStarts
<1>3. ASSUME NEW r \in Users, O!QuickReceive(r) \/ O!ReceiveLine(r) \/ O!SaveOrder(r) \/ O!CommitReceipt(r) PROVE IInv'
  BY <1>3, QuickReceiveOK, ReceiveLineOK, SaveOrderOK, CommitReceiptOK
<1>4. ASSUME NEW r \in Users, O!BeginConvert(r) \/ O!Convert(r) \/ O!Return(r) \/ O!Patch(r) \/ O!Rollback(r) PROVE IInv'
  BY <1>4, BeginConvertOK, ConvertOK, ReturnOK, PatchOK, RollbackOK
<1>5. ASSUME NEW r \in Users, NEW l \in Lines, NEW n \in 1..Ordered[l], O!BeginReturn(r, l, n) PROVE IInv'
  BY <1>5, BeginReturnOK
<1>6. ASSUME NEW r \in Users, NEW s \in {po.status, "sent", "closed"}, O!BeginPatch(r, s) PROVE IInv'
  BY <1>6, BeginPatchOK
<1> QED BY <1>1, <1>2, <1>3, <1>4, <1>5, <1>6 DEF O!Next

\* Whatever receipts, returns, bills and changes of the order interleave, the invariant above holds.
THEOREM ReceiptsInvariance == O!Spec => []IInv
<1>0. O!PurchaseAssumption
  BY PartnersAssumption DEF PartnersAssumption
<1>1. O!Init => IInv
  BY <1>0, InitOK
<1>2. IInv /\ [O!Next]_O!vars => IInv'
  BY <1>0, StepOK
<1> QED BY <1>1, <1>2, PTL DEF O!Spec

LEMMA AgreeOK == ASSUME IInv PROVE O!ReceiptsAgree
<1>1. Covered => O!BillsCoverReceipts /\ O!ClearingCoversReceipts
  BY DEF Covered, O!BillsCoverReceipts, O!ClearingCoversReceipts
<1>2. ~Fresh => O!BillsCoverReceipts /\ O!ClearingCoversReceipts
  BY DEF Fresh, O!BillsCoverReceipts, O!ClearingCoversReceipts
<1> QED BY <1>1, <1>2 DEF IInv, O!ReceiptsAgree

\* A purchase order, of any lines and quantities, with any number of requests on it at the same
\* time: no line takes in more than was ordered, it has one bill, of what it received, and what
\* left goods in transit is what arrived (receive_purchase_order, _upsert_bill_for_po).
THEOREM ReceiptsMatch == O!Spec => []ReceiptsAgree
<1>1. IInv => ReceiptsAgree
  BY PartnersAssumption, AgreeOK DEF PartnersAssumption, ReceiptsAgree
<1> QED BY <1>1, ReceiptsInvariance, PTL

LEMMA TypesFollow == ASSUME IInv PROVE O!TypeOK
<1>1. DOMAIN orderWork = Users
  BY DEF IInv, ReqOK
<1> QED BY <1>1 DEF IInv, OrderOK, Order, Quantity, JournalOK, O!TypeOK

-----------------------------------------------------------------------------
(* A supplier's bill (SupplierBills).                                      *)

Rows == B!Rows(Users)
Operations == {"approve", "pay", "void", "patch", "edit", "delete", "retry"}
Working == [op : Operations, copy : Rows]

\* What a row says of its payments, when `sum` has been paid so far.
Explained(row, sum) ==
    /\ row.paid <= sum /\ row.due = B!Max({0, row.total - row.paid})
    /\ row.status = "paid" => row.due = 0
    /\ row.status = "partially_paid" => row.paid > 0 /\ row.due > 0

BillTypes ==
    /\ bill = B!NoBill \/ bill \in Rows
    /\ paid \in Nat /\ approved \in Nat /\ ordered \in Nat /\ settled \in Nat
    /\ shut \subseteq {"issue", "payment", "accounts"} /\ requests \in 0..MaxRequests
    /\ billWork \in [Users -> {B!Idle} \cup Working]

\* A copy was once the row: what it says of the payments is behind, never ahead.
Copies ==
    /\ bill # B!NoBill => Explained(bill, paid)
    /\ \A u \in Users : billWork[u] # B!Idle => bill # B!NoBill /\ Explained(billWork[u].copy, paid)
    /\ bill = B!NoBill => paid = 0 /\ approved = 0 /\ ordered = 0 /\ settled = 0

\* While nothing has gone wrong, either the approval or the order booked the bill, if anything
\* did, and all that was paid is booked.
Tied ==
    bill # B!NoBill =>
        /\ "stale" \notin billLapses => bill.paid = paid
        /\ billLapses = {} =>
              /\ settled = paid /\ (approved = 0 \/ ordered = 0)
              /\ approved + ordered = 0 \/ approved + ordered = bill.total
              /\ bill.gl = "posted" => approved + ordered = bill.total

BillInv == BillTypes /\ Copies /\ Tied

LEMMA MaxOfZero == \A n \in Int : B!Max({0, n}) = IF n >= 0 THEN n ELSE 0
BY DEF B!Max

LEMMA RowFields ==
    ASSUME NEW row \in Rows
    PROVE  /\ row.status \in B!Live /\ row.total \in Totals /\ row.paid \in Nat /\ row.due \in Nat
           /\ row.gl \in {"pending", "posted", "failed"} /\ row # B!NoBill
BY DEF Rows, B!Rows, B!NoBill, B!Live

LEMMA Held ==
    ASSUME BillInv, NEW u \in Users, billWork[u].op \in Operations
    PROVE  /\ billWork[u].copy \in Rows /\ Explained(billWork[u].copy, paid)
           /\ bill \in Rows /\ Explained(bill, paid) /\ bill # B!NoBill
<1>1. billWork[u] \in {B!Idle} \cup Working
  BY DEF BillInv, BillTypes
<1>2. billWork[u] # B!Idle
  BY DEF B!Idle, Operations
<1> QED BY <1>1, <1>2 DEF BillInv, BillTypes, Copies, Working

LEMMA More ==
    ASSUME NEW row \in Rows, NEW s \in Nat, NEW t \in Nat, s <= t, Explained(row, s) PROVE Explained(row, t)
<1>1. row.paid \in Nat /\ row.paid <= s
  BY RowFields DEF Explained
<1>2. row.paid <= t
  BY <1>1
<1> QED BY <1>2 DEF Explained

\* A request saves its row, and nobody's copy gets ahead of it.
LEMMA SaveOK ==
    ASSUME BillInv, NEW u \in Users, billWork[u].op \in Operations, bill' \in Rows, paid' \in Nat, paid <= paid',
           Explained(bill', paid'), B!Finished(u), approved' \in Nat, settled' \in Nat, UNCHANGED <<ordered, shut, requests>>
    PROVE  BillTypes' /\ Copies'
<1>1. billWork' \in [Users -> {B!Idle} \cup Working] /\ \A v \in Users : billWork'[v] = IF v = u THEN B!Idle ELSE billWork[v]
  BY DEF B!Finished, BillInv, BillTypes
<1>2. BillTypes'
  BY <1>1 DEF BillInv, BillTypes, Rows, B!Rows
<1>3. ASSUME NEW v \in Users, billWork'[v] # B!Idle PROVE Explained(billWork'[v].copy, paid')
  <2>1. billWork'[v] = billWork[v] /\ billWork[v] # B!Idle
    BY <1>1, <1>3
  <2>2. billWork[v].copy \in Rows /\ Explained(billWork[v].copy, paid) /\ paid \in Nat
    BY <2>1 DEF BillInv, BillTypes, Copies, Working
  <2> QED BY <2>1, <2>2, More
<1>4. bill' # B!NoBill
  BY RowFields
<1> QED BY <1>2, <1>3, <1>4 DEF Copies, Explained, B!NoBill, B!Idle

LEMMA BookedIs == 
    ASSUME NEW total \in Nat, approved \in Nat
    PROVE  B!Booked(total) \in Nat
BY DEF B!Booked

\* An approval, or its retry, that is neither of an edited bill nor of one the order booked.
LEMMA BookOK ==
    ASSUME NEW total \in Nat \ {0}, approved \in Nat, ordered \in Nat, approved = 0 \/ ordered = 0,
           approved + ordered = 0 \/ approved + ordered = total, B!Misbooked(total) = {}
    PROVE  /\ B!Booked(total) = 0 \/ ordered = 0
           /\ B!Booked(total) + ordered = 0 \/ B!Booked(total) + ordered = total
           /\ B!Postable("issue") => B!Booked(total) + ordered = total
<1>1. ~(B!Booked(total) > 0 /\ ordered > 0)
  BY DEF B!Misbooked, B!Lapse
<1>2. B!Booked(total) \in {approved, total} /\ (approved # 0 => B!Booked(total) = approved)
      /\ (approved = 0 => B!Booked(total) = IF B!Postable("issue") THEN total ELSE 0)
  BY DEF B!Booked
<1>3. CASE approved = 0
  BY <1>1, <1>2, <1>3
<1>4. CASE approved # 0
  BY <1>1, <1>2, <1>4
<1> QED BY <1>3, <1>4

\* What Tied says of a bill, without the history.
Tie(row, a, o, s, p) ==
    /\ row.paid = p /\ s = p /\ (a = 0 \/ o = 0) /\ (a + o = 0 \/ a + o = row.total)
    /\ row.gl = "posted" => a + o = row.total

LEMMA TieNow ==
    ASSUME BillInv, NEW u \in Users, billWork[u].op \in Operations, billLapses = {}, B!Overtaken(u) = {}
    PROVE  Tie(bill, approved, ordered, settled, paid) /\ billWork[u].copy = bill
<1>1. bill # B!NoBill
  BY Held
<1>2. billWork[u].copy = bill
  BY DEF B!Overtaken, B!Lapse
<1> QED BY <1>1, <1>2 DEF BillInv, Tied, Tie

LEMMA NotStale ==
    ASSUME BillInv, NEW u \in Users, billWork[u].op \in Operations, "stale" \notin billLapses, "stale" \notin B!Overtaken(u)
    PROVE  billWork[u].copy = bill /\ bill.paid = paid
<1>1. bill # B!NoBill
  BY Held
<1>2. billWork[u].copy = bill
  BY DEF B!Overtaken, B!Lapse
<1> QED BY <1>1, <1>2 DEF BillInv, Tied

LEMMA TieKept ==
    ASSUME bill' \in Rows,
           "stale" \notin billLapses' => bill'.paid = paid',
           billLapses' = {} => Tie(bill', approved', ordered', settled', paid')
    PROVE  Tied'
BY DEF Tied, Tie, B!NoBill

LEMMA ApproveOK == ASSUME B!BillAssumption, BillInv, NEW u \in Users, B!Approve(u) PROVE BillInv'
<1> DEFINE copy == billWork[u].copy
<1>1. /\ billWork[u].op = "approve" /\ billWork[u].op \in Operations
      /\ bill' = [copy EXCEPT !.status = "approved", !.gl = B!GL(B!Postable("issue"))]
      /\ approved' = B!Booked(copy.total)
      /\ billLapses' = billLapses \cup B!Overtaken(u) \cup B!Misbooked(copy.total)
      /\ B!Finished(u) /\ UNCHANGED <<paid, ordered, settled, shut, requests>>
  BY DEF B!Approve, Operations
<1>2. copy \in Rows /\ Explained(copy, paid)
  BY <1>1, Held
<1>3. /\ bill' \in Rows /\ bill'.paid = copy.paid /\ bill'.due = copy.due /\ bill'.total = copy.total
      /\ bill'.status = "approved" /\ (bill'.gl = "posted" => B!Postable("issue"))
  BY <1>1, <1>2 DEF Rows, B!Rows, B!Live, B!GL
<1>4. copy.total \in Nat \ {0} /\ paid \in Nat /\ approved \in Nat /\ settled \in Nat /\ ordered \in Nat
  BY <1>2, RowFields DEF B!BillAssumption, BillInv, BillTypes
<1> HIDE DEF copy
<1>5. Explained(bill', paid')
  BY <1>1, <1>2, <1>3 DEF Explained
<1>6. approved' \in Nat /\ settled' \in Nat /\ paid' \in Nat /\ paid <= paid'
  BY <1>1, <1>4, BookedIs
<1>7. BillTypes' /\ Copies'
  BY <1>1, <1>3, <1>5, <1>6, SaveOK
<1>8. ASSUME "stale" \notin billLapses' PROVE bill'.paid = paid'
  BY <1>1, <1>3, <1>8, NotStale DEF copy
<1>9. ASSUME billLapses' = {} PROVE Tie(bill', approved', ordered', settled', paid')
  <2>1. billLapses = {} /\ B!Overtaken(u) = {} /\ B!Misbooked(copy.total) = {}
    BY <1>1, <1>9
  <2>2. Tie(bill, approved, ordered, settled, paid) /\ copy = bill
    BY <1>1, <2>1, TieNow DEF copy
  <2>3. /\ approved' = 0 \/ ordered = 0
        /\ approved' + ordered = 0 \/ approved' + ordered = copy.total
        /\ B!Postable("issue") => approved' + ordered = copy.total
    BY <1>1, <1>4, <2>1, <2>2, BookOK DEF Tie
  <2> QED BY <1>1, <1>3, <2>2, <2>3 DEF Tie
<1>10. Tied'
  BY <1>3, <1>8, <1>9, TieKept
<1> QED BY <1>7, <1>10 DEF BillInv

LEMMA RetryOK == ASSUME B!BillAssumption, BillInv, NEW u \in Users, B!Retry(u) PROVE BillInv'
<1> DEFINE copy == billWork[u].copy
<1>1. /\ billWork[u].op = "retry" /\ billWork[u].op \in Operations
      /\ bill' = [bill EXCEPT !.gl = B!GL(B!Postable("issue"))]
      /\ approved' = B!Booked(copy.total)
      /\ billLapses' = billLapses \cup B!Overtaken(u) \cup B!Misbooked(copy.total)
      /\ B!Finished(u) /\ UNCHANGED <<paid, ordered, settled, shut, requests>>
  BY DEF B!Retry, Operations
<1>2. copy \in Rows /\ bill \in Rows /\ Explained(bill, paid) /\ bill # B!NoBill
  BY <1>1, Held
<1>3. /\ bill' \in Rows /\ bill'.paid = bill.paid /\ bill'.due = bill.due /\ bill'.total = bill.total
      /\ bill'.status = bill.status /\ (bill'.gl = "posted" => B!Postable("issue"))
  BY <1>1, <1>2 DEF Rows, B!Rows, B!GL
<1>4. copy.total \in Nat \ {0} /\ paid \in Nat /\ approved \in Nat /\ settled \in Nat /\ ordered \in Nat
  BY <1>2, RowFields DEF B!BillAssumption, BillInv, BillTypes
<1> HIDE DEF copy
<1>5. Explained(bill', paid')
  BY <1>1, <1>2, <1>3 DEF Explained
<1>6. approved' \in Nat /\ settled' \in Nat /\ paid' \in Nat /\ paid <= paid'
  BY <1>1, <1>4, BookedIs
<1>7. BillTypes' /\ Copies'
  BY <1>1, <1>3, <1>5, <1>6, SaveOK
<1>8. ASSUME "stale" \notin billLapses' PROVE bill'.paid = paid'
  BY <1>1, <1>3, <1>8, NotStale
<1>9. ASSUME billLapses' = {} PROVE Tie(bill', approved', ordered', settled', paid')
  <2>1. billLapses = {} /\ B!Overtaken(u) = {} /\ B!Misbooked(copy.total) = {}
    BY <1>1, <1>9
  <2>2. Tie(bill, approved, ordered, settled, paid) /\ copy = bill
    BY <1>1, <2>1, TieNow DEF copy
  <2>3. /\ approved' = 0 \/ ordered = 0
        /\ approved' + ordered = 0 \/ approved' + ordered = copy.total
        /\ B!Postable("issue") => approved' + ordered = copy.total
    BY <1>1, <1>4, <2>1, <2>2, BookOK DEF Tie
  <2> QED BY <1>1, <1>3, <2>2, <2>3 DEF Tie
<1>10. Tied'
  BY <1>3, <1>8, <1>9, TieKept
<1> QED BY <1>7, <1>10 DEF BillInv

LEMMA PayOK == ASSUME B!BillAssumption, BillInv, NEW u \in Users, NEW amount \in Amounts, B!Pay(u, amount) PROVE BillInv'
<1> DEFINE copy == billWork[u].copy
           sum == copy.paid + amount
           posts == B!Postable("payment")
<1>1. /\ billWork[u].op = "pay" /\ billWork[u].op \in Operations
      /\ bill' = [B!Settle(copy, amount) EXCEPT !.gl = B!GL(posts)]
      /\ paid' = paid + amount /\ settled' = IF posts THEN settled + amount ELSE settled
      /\ billLapses' = billLapses \cup B!Overtaken(u) \cup B!Lapse(~posts, "payment not booked")
                         \cup B!Lapse(posts /\ approved + ordered = 0, "masked")
      /\ B!Finished(u) /\ UNCHANGED <<approved, ordered, shut, requests>>
  BY DEF B!Pay, Operations
<1>2. copy \in Rows /\ Explained(copy, paid)
  BY <1>1, Held
<1>3. copy.total \in Nat \ {0} /\ copy.paid \in Nat /\ amount \in Nat \ {0} /\ paid \in Nat /\ settled \in Nat
      /\ approved \in Nat /\ ordered \in Nat
  BY <1>2, RowFields DEF B!BillAssumption, BillInv, BillTypes
<1>4. sum \in Nat /\ sum > 0 /\ B!Due(copy.total, sum) \in Nat
  BY <1>3, MaxOfZero DEF B!Due
<1>5. /\ bill' \in Rows /\ bill'.paid = sum /\ bill'.due = B!Due(copy.total, sum) /\ bill'.total = copy.total
      /\ bill'.status = IF B!Due(copy.total, sum) = 0 THEN "paid" ELSE "partially_paid"
      /\ (bill'.gl = "posted" => posts)
  BY <1>1, <1>2, <1>4 DEF Rows, B!Rows, B!Live, B!GL, B!Settle
<1> HIDE DEF copy, posts
<1>6. copy.paid <= paid
  BY <1>2 DEF Explained
<1>7. sum <= paid'
  <2>1. paid' = paid + amount
    BY <1>1
  <2> QED BY <1>3, <1>6, <2>1
<1> HIDE DEF sum
<1>8. B!Due(copy.total, sum) = 0 \/ B!Due(copy.total, sum) > 0
  BY <1>4
<1>9. Explained(bill', paid')
  BY <1>4, <1>5, <1>7, <1>8 DEF Explained, B!Due
<1>10. settled' \in Nat /\ paid' \in Nat /\ paid <= paid'
  <2>1. paid' = paid + amount /\ (settled' = settled + amount \/ settled' = settled)
    BY <1>1
  <2>2. settled + amount \in Nat /\ paid + amount \in Nat /\ paid <= paid + amount
    BY <1>3
  <2> QED BY <1>3, <2>1, <2>2
<1>11. BillTypes' /\ Copies'
  BY <1>1, <1>3, <1>5, <1>9, <1>10, SaveOK
<1>12. ASSUME "stale" \notin billLapses' PROVE bill'.paid = paid'
  <2>1. copy = bill /\ bill.paid = paid
    BY <1>1, <1>12, NotStale DEF copy
  <2> QED BY <1>1, <1>5, <2>1 DEF sum
<1>13. ASSUME billLapses' = {} PROVE Tie(bill', approved', ordered', settled', paid')
  <2>1. billLapses = {} /\ B!Overtaken(u) = {} /\ posts /\ ~(approved + ordered = 0)
    BY <1>1, <1>13 DEF B!Lapse
  <2>2. Tie(bill, approved, ordered, settled, paid) /\ copy = bill
    BY <1>1, <2>1, TieNow DEF copy
  <2>3. approved + ordered = copy.total /\ (approved = 0 \/ ordered = 0)
    BY <2>1, <2>2 DEF Tie
  <2>4. settled' = paid' /\ bill'.paid = paid'
    BY <1>1, <1>5, <2>1, <2>2 DEF Tie, sum
  <2> QED BY <1>1, <1>5, <2>3, <2>4 DEF Tie
<1>14. Tied'
  BY <1>5, <1>12, <1>13, TieKept
<1> QED BY <1>11, <1>14 DEF BillInv

\* void and PATCH: a status is saved that says nothing of the payments.
LEMMA StatusOK ==
    ASSUME B!BillAssumption, BillInv, NEW u \in Users, billWork[u].op \in Operations,
           NEW status \in {"voided", "draft", "received", "overdue"}, bill' = [billWork[u].copy EXCEPT !.status = status],
           billLapses' = billLapses \cup B!Overtaken(u), B!Finished(u), UNCHANGED <<paid, approved, ordered, settled, shut, requests>>
    PROVE  BillInv'
<1> DEFINE copy == billWork[u].copy
<1>2. copy \in Rows /\ Explained(copy, paid)
  BY Held
<1>3. /\ bill' \in Rows /\ bill'.paid = copy.paid /\ bill'.due = copy.due /\ bill'.total = copy.total
      /\ bill'.status = status /\ bill'.gl = copy.gl
  BY <1>2 DEF Rows, B!Rows, B!Live
<1>4. paid \in Nat /\ approved \in Nat /\ settled \in Nat /\ ordered \in Nat
  BY DEF BillInv, BillTypes
<1> HIDE DEF copy
<1>5. Explained(bill', paid')
  BY <1>2, <1>3 DEF Explained
<1>7. BillTypes' /\ Copies'
  BY <1>3, <1>4, <1>5, SaveOK
<1>8. ASSUME "stale" \notin billLapses' PROVE bill'.paid = paid'
  BY <1>3, <1>8, NotStale DEF copy
<1>9. ASSUME billLapses' = {} PROVE Tie(bill', approved', ordered', settled', paid')
  <2>1. Tie(bill, approved, ordered, settled, paid) /\ copy = bill
    BY <1>9, TieNow DEF copy
  <2> QED BY <1>3, <2>1 DEF Tie
<1>10. Tied'
  BY <1>3, <1>8, <1>9, TieKept
<1> QED BY <1>7, <1>10 DEF BillInv

LEMMA VoidOK == ASSUME B!BillAssumption, BillInv, NEW u \in Users, B!Void(u) PROVE BillInv'
<1>1. billWork[u].op \in Operations
  BY DEF B!Void, Operations
<1> QED BY <1>1, StatusOK DEF B!Void

LEMMA PatchBillOK ==
    ASSUME B!BillAssumption, BillInv, NEW u \in Users, NEW status \in {"draft", "received", "overdue"}, B!Patch(u, status)
    PROVE  BillInv'
<1>1. billWork[u].op \in Operations
  BY DEF B!Patch, Operations
<1> QED BY <1>1, StatusOK DEF B!Patch

LEMMA DeleteOK == ASSUME B!BillAssumption, BillInv, NEW u \in Users, B!Delete(u) PROVE BillInv'
<1>1. /\ billWork[u].op \in Operations /\ bill' = [bill EXCEPT !.deleted = TRUE]
      /\ B!Finished(u) /\ UNCHANGED <<paid, approved, ordered, settled, shut, requests, billLapses>>
  BY DEF B!Delete, Operations
<1>2. bill \in Rows /\ Explained(bill, paid) /\ bill # B!NoBill
  BY <1>1, Held
<1>3. /\ bill' \in Rows /\ bill'.paid = bill.paid /\ bill'.due = bill.due /\ bill'.total = bill.total
      /\ bill'.status = bill.status /\ bill'.gl = bill.gl
  BY <1>1, <1>2 DEF Rows, B!Rows
<1>4. paid \in Nat /\ approved \in Nat /\ settled \in Nat /\ ordered \in Nat
  BY DEF BillInv, BillTypes
<1>5. Explained(bill', paid')
  BY <1>1, <1>2, <1>3 DEF Explained
<1>6. BillTypes' /\ Copies'
  <2>1. paid' \in Nat /\ paid <= paid' /\ approved' \in Nat /\ settled' \in Nat
    BY <1>1, <1>4
  <2> QED BY <1>1, <1>3, <1>5, <2>1, SaveOK
<1>7. Tied'
  BY <1>1, <1>2, <1>3 DEF BillInv, Tied
<1> QED BY <1>6, <1>7 DEF BillInv

LEMMA EditOK ==
    ASSUME B!BillAssumption, BillInv, NEW u \in Users, NEW status \in {"draft", "received", "approved"}, NEW total \in Totals,
           B!Edit(u, status, total)
    PROVE  BillInv'
<1> DEFINE copy == billWork[u].copy
           posts == copy.status = "draft" /\ status # "draft"
<1>1. /\ billWork[u].op = "edit" /\ billWork[u].op \in Operations
      /\ bill' = [copy EXCEPT !.status = status, !.total = total, !.due = B!Due(total, copy.paid),
                              !.gl = IF posts THEN B!GL(B!Postable("issue")) ELSE @]
      /\ approved' = IF posts THEN B!Booked(total) ELSE approved
      /\ billLapses' = billLapses \cup B!Overtaken(u)
                         \cup B!Lapse(approved + ordered > 0 /\ total # approved + ordered, "edited")
                         \cup (IF posts THEN B!Misbooked(total) ELSE {})
      /\ B!Finished(u) /\ UNCHANGED <<paid, ordered, settled, shut, requests>>
  BY DEF B!Edit, Operations
<1>2. copy \in Rows /\ Explained(copy, paid)
  BY <1>1, Held
<1>3. total \in Nat \ {0} /\ copy.paid \in Nat /\ copy.total \in Nat \ {0} /\ paid \in Nat /\ settled \in Nat
      /\ approved \in Nat /\ ordered \in Nat
  BY <1>2, RowFields DEF B!BillAssumption, BillInv, BillTypes
<1>4. B!Due(total, copy.paid) \in Nat
  BY <1>3, MaxOfZero DEF B!Due
<1>5. /\ bill' \in Rows /\ bill'.paid = copy.paid /\ bill'.due = B!Due(total, copy.paid) /\ bill'.total = total
      /\ bill'.status = status /\ bill'.gl = IF posts THEN B!GL(B!Postable("issue")) ELSE copy.gl
  BY <1>1, <1>2, <1>4 DEF Rows, B!Rows, B!Live, B!GL
<1> HIDE DEF copy, posts
<1>6. Explained(bill', paid')
  BY <1>1, <1>2, <1>5 DEF Explained, B!Due
<1>7. approved' \in Nat /\ settled' \in Nat /\ paid' \in Nat /\ paid <= paid'
  BY <1>1, <1>3, BookedIs
<1>8. BillTypes' /\ Copies'
  BY <1>1, <1>5, <1>6, <1>7, SaveOK
<1>9. ASSUME "stale" \notin billLapses' PROVE bill'.paid = paid'
  BY <1>1, <1>5, <1>9, NotStale DEF copy
<1>10. ASSUME billLapses' = {} PROVE Tie(bill', approved', ordered', settled', paid')
  <2>1. billLapses = {} /\ B!Overtaken(u) = {} /\ ~(approved + ordered > 0 /\ total # approved + ordered)
        /\ (posts => B!Misbooked(total) = {})
    BY <1>1, <1>10 DEF B!Lapse
  <2>2. Tie(bill, approved, ordered, settled, paid) /\ copy = bill
    BY <1>1, <2>1, TieNow DEF copy
  <2>3. (approved = 0 \/ ordered = 0) /\ (copy.gl = "posted" => approved + ordered = copy.total)
    BY <2>2 DEF Tie
  <2>4. approved + ordered = 0 \/ approved + ordered = total
    BY <1>3, <2>1
  <2>5. CASE posts
    <3>1. /\ approved' = 0 \/ ordered = 0
          /\ approved' + ordered = 0 \/ approved' + ordered = total
          /\ B!Postable("issue") => approved' + ordered = total
      BY <1>1, <1>3, <2>1, <2>3, <2>4, <2>5, BookOK
    <3>2. bill'.gl = "posted" => B!Postable("issue")
      BY <1>5, <2>5 DEF B!GL
    <3> QED BY <1>1, <1>5, <2>2, <3>1, <3>2 DEF Tie
  <2>6. CASE ~posts
    <3>1. bill'.gl = "posted" => approved + ordered = total
      <4>1. copy.gl = "posted" => approved + ordered # 0
        BY <1>3, <2>3
      <4> QED BY <1>5, <2>4, <2>6, <4>1
    <3> QED BY <1>1, <1>5, <2>2, <2>3, <2>4, <2>6, <3>1 DEF Tie
  <2> QED BY <2>5, <2>6
<1>11. Tied'
  BY <1>5, <1>9, <1>10, TieKept
<1> QED BY <1>8, <1>11 DEF BillInv

LEMMA NewBill ==
    ASSUME BillInv, bill = B!NoBill, bill' \in Rows, bill'.paid = 0, bill'.due = bill'.total,
           bill'.total \in Nat \ {0}, bill'.status \in {"draft", "received", "approved"}, approved' \in Nat, ordered' \in Nat,
           UNCHANGED <<paid, settled, shut, billWork, requests, billLapses>>,
           approved' = 0 \/ ordered' = 0, approved' + ordered' = 0 \/ approved' + ordered' = bill'.total,
           bill'.gl = "posted" => approved' + ordered' = bill'.total
    PROVE  BillInv'
<1>1. paid = 0 /\ settled = 0 /\ \A v \in Users : billWork[v] = B!Idle
  BY DEF BillInv, Copies
<1>2. B!Max({0, bill'.total - bill'.paid}) = bill'.due
  BY MaxOfZero
<1>3. Explained(bill', paid')
  BY <1>1, <1>2 DEF Explained
<1>4. BillTypes'
  BY DEF BillInv, BillTypes, Rows, B!Rows, Working, B!Idle, Operations
<1>5. Copies'
  BY <1>1, <1>3, RowFields DEF Copies, Explained, B!NoBill, B!Idle
<1>6. Tied'
  BY <1>1 DEF Tied, B!NoBill
<1> QED BY <1>4, <1>5, <1>6 DEF BillInv

LEMMA CreateOK ==
    ASSUME B!BillAssumption, BillInv, NEW u \in Users, NEW status \in {"draft", "received", "approved"}, NEW total \in Totals,
           B!Create(u, status, total)
    PROVE  BillInv'
<1> DEFINE posts == status # "draft"
<1>1. /\ bill = B!NoBill
      /\ bill' = B!Row(u, status, total, "typed", IF posts THEN B!GL(B!Postable("issue")) ELSE "pending")
      /\ approved' = IF posts THEN B!Booked(total) ELSE 0
      /\ UNCHANGED <<paid, ordered, settled, shut, billWork, requests, billLapses>>
  BY DEF B!Create
<1>2. total \in Nat \ {0}
  BY DEF B!BillAssumption
<1>3. approved = 0 /\ ordered = 0
  BY <1>1 DEF BillInv, Copies
<1>4. /\ bill' \in Rows /\ bill'.paid = 0 /\ bill'.due = total /\ bill'.total = total /\ bill'.status = status
      /\ (bill'.gl = "posted" => posts /\ B!Postable("issue"))
  BY <1>1, <1>2 DEF B!Row, Rows, B!Rows, B!Live, B!GL
<1>5. approved' = IF posts /\ B!Postable("issue") THEN total ELSE 0
  BY <1>1, <1>3 DEF B!Booked
<1> HIDE DEF posts
<1> QED BY <1>1, <1>2, <1>3, <1>4, <1>5, NewBill

LEMMA FromOrderOK ==
    ASSUME B!BillAssumption, BillInv, NEW u \in Users, NEW total \in Totals, B!FromOrder(u, total) PROVE BillInv'
<1>1. /\ bill = B!NoBill /\ bill' = B!Row(u, "received", total, "order", B!GL(B!Postable("issue")))
      /\ ordered' = IF B!Postable("issue") THEN total ELSE 0
      /\ UNCHANGED <<paid, approved, settled, shut, billWork, requests, billLapses>>
  BY DEF B!FromOrder
<1>2. total \in Nat \ {0}
  BY DEF B!BillAssumption
<1>3. approved = 0 /\ ordered = 0
  BY <1>1 DEF BillInv, Copies
<1>4. /\ bill' \in Rows /\ bill'.paid = 0 /\ bill'.due = total /\ bill'.total = total /\ bill'.status = "received"
      /\ (bill'.gl = "posted" => B!Postable("issue"))
  BY <1>1, <1>2 DEF B!Row, Rows, B!Rows, B!Live, B!GL
<1> QED BY <1>1, <1>2, <1>3, <1>4, NewBill

LEMMA LoadOK ==
    ASSUME B!BillAssumption, BillInv, NEW u \in Users, NEW op \in Operations, B!Load(u, op) PROVE BillInv'
<1> DEFINE w == [op |-> op, copy |-> bill]
<1>1. /\ billWork' = [billWork EXCEPT ![u] = w] /\ requests < MaxRequests /\ requests' = requests + 1 /\ bill # B!NoBill
      /\ UNCHANGED <<bill, paid, approved, ordered, settled, shut, billLapses>>
  BY DEF B!Load
<1>2. bill \in Rows /\ Explained(bill, paid) /\ billWork \in [Users -> {B!Idle} \cup Working]
  BY <1>1 DEF BillInv, BillTypes, Copies
<1>3. w \in Working /\ w.copy = bill
  BY <1>2 DEF Working
<1> HIDE DEF w
<1>4. billWork' \in [Users -> {B!Idle} \cup Working]
  BY <1>1, <1>2, <1>3
<1>5. requests' \in 0..MaxRequests
  BY <1>1 DEF BillInv, BillTypes, B!BillAssumption
<1>6. BillTypes'
  BY <1>1, <1>4, <1>5 DEF BillInv, BillTypes, Rows, B!Rows
<1>7. \A v \in Users : billWork'[v] = IF v = u THEN w ELSE billWork[v]
  BY <1>1, <1>2
<1>8. Copies'
  BY <1>1, <1>2, <1>3, <1>7 DEF BillInv, Copies, Explained, B!NoBill, B!Idle
<1>9. Tied'
  BY <1>1 DEF BillInv, Tied, B!NoBill
<1> QED BY <1>6, <1>8, <1>9 DEF BillInv

\* The bill, its payments and what is posted for it stay, and at most a request ends.
LEMMA BillStays ==
    ASSUME BillInv, UNCHANGED <<bill, paid, approved, ordered, settled, requests, billLapses>>,
           shut' \subseteq {"issue", "payment", "accounts"}, billWork' = billWork \/ \E u \in Users : B!Finished(u)
    PROVE  BillInv'
<1>1. billWork' \in [Users -> {B!Idle} \cup Working] /\ \A v \in Users : billWork'[v] \in {B!Idle, billWork[v]}
  BY DEF B!Finished, BillInv, BillTypes
<1>2. BillTypes'
  BY <1>1 DEF BillInv, BillTypes, Rows, B!Rows
<1>3. Copies'
  BY <1>1 DEF BillInv, Copies, Explained, B!NoBill, B!Idle
<1>4. Tied'
  BY DEF BillInv, Tied, B!NoBill
<1> QED BY <1>2, <1>3, <1>4 DEF BillInv

LEMMA BillStepOK == ASSUME B!BillAssumption, BillInv, [B!Next]_(B!vars) PROVE BillInv'
<1>1. CASE UNCHANGED B!vars
  BY <1>1, BillStays DEF B!vars, BillInv, BillTypes
<1>2. ASSUME NEW u \in Users, NEW status \in {"draft", "received", "approved"}, NEW total \in Totals,
             B!Create(u, status, total) \/ B!Edit(u, status, total)
      PROVE  BillInv'
  BY <1>2, CreateOK, EditOK
<1>3. ASSUME NEW u \in Users, NEW total \in Totals, B!FromOrder(u, total) PROVE BillInv'
  BY <1>3, FromOrderOK
<1>4. ASSUME NEW u \in Users, NEW op \in Operations, B!Load(u, op) PROVE BillInv'
  BY <1>4, LoadOK
<1>5. ASSUME NEW u \in Users, NEW amount \in Amounts, B!Pay(u, amount) PROVE BillInv'
  BY <1>5, PayOK
<1>6. ASSUME NEW u \in Users, NEW status \in {"draft", "received", "overdue"}, B!Patch(u, status) PROVE BillInv'
  BY <1>6, PatchBillOK
<1>7. ASSUME NEW u \in Users, B!Refuse(u) PROVE BillInv'
  <2>1. shut' \subseteq {"issue", "payment", "accounts"}
    BY <1>7 DEF B!Refuse, BillInv, BillTypes
  <2> QED BY <1>7, <2>1, BillStays DEF B!Refuse
<1>8. ASSUME NEW u \in Users, B!Approve(u) \/ B!Void(u) \/ B!Delete(u) \/ B!Retry(u) PROVE BillInv'
  BY <1>8, ApproveOK, VoidOK, DeleteOK, RetryOK
<1>9. ASSUME NEW what \in {"issue", "payment", "accounts"}, B!Toggle(what) PROVE BillInv'
  <2>1. shut' \subseteq {"issue", "payment", "accounts"}
    BY <1>9 DEF B!Toggle, BillInv, BillTypes
  <2> QED BY <1>9, <2>1, BillStays DEF B!Toggle
<1> QED BY <1>1, <1>2, <1>3, <1>4, <1>5, <1>6, <1>7, <1>8, <1>9 DEF B!Next, Operations

-----------------------------------------------------------------------------
(* Theorems about supplier bills.                                          *)

LEMMA BillInitOK == ASSUME B!BillAssumption, B!Init PROVE BillInv
BY DEF B!Init, B!BillAssumption, BillInv, BillTypes, Copies, Tied

\* Whatever requests on a bill overtake each other, the invariant above holds.
THEOREM PayablesInvariance == B!Spec => []BillInv
<1>0. B!BillAssumption
  BY PartnersAssumption DEF PartnersAssumption
<1>1. B!Init => BillInv
  BY <1>0, BillInitOK
<1>2. BillInv /\ [B!Next]_(B!vars) => BillInv'
  BY <1>0, BillStepOK
<1> QED BY <1>1, <1>2, PTL DEF B!Spec

LEMMA BillAgrees == ASSUME BillInv PROVE B!PayablesAgree
<1>1. B!PaymentsExplainBill
  BY DEF BillInv, Copies, Tied, Explained, B!PaymentsExplainBill
<1>2. ASSUME bill # B!NoBill, bill.gl = "posted", billLapses = {}
      PROVE  approved + ordered - settled = bill.total - bill.paid
  <2>1. bill.paid = paid /\ settled = paid /\ approved + ordered = bill.total
    BY <1>2 DEF BillInv, Tied
  <2>2. bill.total \in Totals /\ bill.total = approved + ordered /\ paid \in Nat /\ approved \in Nat /\ ordered \in Nat
    BY <1>2, <2>1, RowFields DEF BillInv, BillTypes
  <2> QED BY <2>1, <2>2
<1> QED BY <1>1, <1>2 DEF B!PayablesAgree, B!PayablesTie

\* A supplier's bill, with any number of requests that each save the whole copy they loaded: the row
\* never claims more than was paid, what is due and its status follow from what it claims, and
\* where nothing lapsed a bill that reads as posted is in the ledger with what is still owed.
THEOREM PayablesMatch == B!Spec => []PayablesAgree
<1>1. BillInv => PayablesAgree
  BY PartnersAssumption, BillAgrees DEF PartnersAssumption, PayablesAgree
<1> QED BY <1>1, PayablesInvariance, PTL

LEMMA BillTypesFollow == ASSUME BillInv PROVE B!TypeOK
BY DEF BillInv, BillTypes, Rows, B!TypeOK

-----------------------------------------------------------------------------
(* A customer's account (CustomerCredit).                                  *)

InvoiceRow == [status : {"none", "open", "paid", "void", "deleted"}, total : Nat, paid : Nat, due : Nat,
               stamped : BOOLEAN, voided : BOOLEAN]
SaleOps == {"sell", "pay", "provider", "receipt", "return", "void", "delete"}
Loaded == [op : SaleOps, step : {"loaded"}, balance : Int, store : Int, seen : [Invoices -> InvoiceRow]]
Holding == [op : SaleOps, step : {"locked"}, balance : Int, store : Int, seen : [Invoices -> InvoiceRow],
            invoice : Invoices, amount : Nat, fresh : Int]

CreditTypes ==
    /\ balance \in Int /\ txns \in Int /\ receivable \in Int /\ store \in Int /\ opening \in Opening /\ opening \in Int
    /\ invoice \in [Invoices -> InvoiceRow] /\ posted \in BOOLEAN /\ sales \in 0..MaxSales
    /\ saleWork \in [Users -> {C!Idle} \cup Loaded \cup Holding]

\* What is due is part of the total, and the rest of it where no store credit was used.
RowOK(row) ==
    /\ row.status # "deleted" => row.paid + row.due <= row.total
    /\ row.status = "deleted" => row.due = 0
    /\ row.status = "none" => row.total = 0
NoStoreCredit == "store credit" \notin saleLapses
RowsOK ==
    \A i \in Invoices :
        /\ RowOK(invoice[i])
        /\ NoStoreCredit =>
              invoice[i].status = "deleted" \/ invoice[i].paid + invoice[i].due = invoice[i].total

\* A locked invoice can still be paid what was checked, and has one holder.
Holds(u, i) == saleWork[u] # C!Idle /\ saleWork[u].step = "locked" /\ saleWork[u].invoice = i
LocksOK ==
    \A u \in Users : \A i \in Invoices : Holds(u, i) =>
        /\ invoice[i].status \in {"open", "void"} /\ saleWork[u].amount <= invoice[i].due
        /\ \A v \in Users \ {u} : ~Holds(v, i)

Dues(inv) == [i \in Invoices |-> inv[i].due]
Owes(inv) == Sum(Dues(inv), Invoices)
Covers ==
    saleLapses \subseteq {"delete", "second payment", "recorded twice"} => balance = opening + Owes(invoice)

CreditInv ==
    /\ CreditTypes /\ RowsOK /\ LocksOK
    /\ C!TransactionsExplainBalance /\ Covers /\ C!ReceivablesTie

-----------------------------------------------------------------------------
(* Sums of what is due, and balances.                                      *)

LEMMA InvoicesFinite == ASSUME C!CreditAssumption PROVE IsFiniteSet(Invoices)
BY DEF C!CreditAssumption, C!IsFiniteSet, IsFiniteSet

\* What the property adds up is a sum over the invoices.
LEMMA DueSum ==
    ASSUME C!CreditAssumption, NEW inv \in [Invoices -> InvoiceRow]
    PROVE  C!MapThenSumSet(LAMBDA i : inv[i].due, Invoices) = Owes(inv)
<1> DEFINE g == Dues(inv)
           Fold(F) == F = [s \in SUBSET Invoices |-> IF s = {} THEN 0 ELSE inv[Chosen(s)].due + F[s \ {Chosen(s)}]]
<1>0. IsFiniteSet(Invoices)
  BY InvoicesFinite
<1>1. \A i \in Invoices : g[i] = inv[i].due /\ g[i] \in Int
  BY DEF Dues, InvoiceRow
<1>2. \A F : Fold(F) <=> IsFold(F, g, Invoices)
  <2>1. \A s \in SUBSET Invoices : s # {} => g[Chosen(s)] = inv[Chosen(s)].due
    BY <1>1, AnyIn
  <2> HIDE DEF g
  <2> QED BY <2>1 DEF IsFold
<1>3. C!MapThenSumSet(LAMBDA i : inv[i].due, Invoices) = (CHOOSE F : Fold(F))[Invoices]
  BY DEF C!MapThenSumSet, C!MapThenFoldSet, Chosen
<1> HIDE DEF Fold, g
<1>4. IsFold(CHOOSE F : Fold(F), g, Invoices)
  <2>1. \E F : IsFold(F, g, Invoices)
    BY <1>0, <1>1, SumExists
  <2>2. \E F : Fold(F)
    BY <1>2, <2>1
  <2>3. Fold(CHOOSE F : Fold(F))
    BY <2>2
  <2> QED BY <1>2, <2>3
<1>5. Sum(g, Invoices) = (CHOOSE F : Fold(F))[Invoices]
  <2>1. Invoices \in SUBSET Invoices
    OBVIOUS
  <2> QED BY <1>0, <1>1, <1>4, <2>1, SumOnSubset
<1> QED BY <1>3, <1>5 DEF g, Owes

LEMMA OwesNat ==
    ASSUME C!CreditAssumption, NEW inv \in [Invoices -> InvoiceRow] PROVE Owes(inv) \in Int
<1>1. IsFiniteSet(Invoices) /\ \A i \in Invoices : Dues(inv)[i] \in Int
  BY InvoicesFinite DEF Dues, InvoiceRow
<1> QED BY <1>1, SumRemove DEF Owes

LEMMA OwesChange ==
    ASSUME C!CreditAssumption, NEW inv \in [Invoices -> InvoiceRow], NEW i \in Invoices, NEW row \in InvoiceRow
    PROVE  /\ [inv EXCEPT ![i] = row] \in [Invoices -> InvoiceRow]
           /\ Owes([inv EXCEPT ![i] = row]) = Owes(inv) - inv[i].due + row.due
<1> DEFINE new == [inv EXCEPT ![i] = row]
<1>1. new \in [Invoices -> InvoiceRow] /\ new[i] = row /\ \A j \in Invoices \ {i} : new[j] = inv[j]
  OBVIOUS
<1> HIDE DEF new
<1>2. IsFiniteSet(Invoices) /\ \A j \in Invoices : Dues(inv)[j] \in Int /\ Dues(new)[j] \in Int
  BY <1>1, InvoicesFinite DEF Dues, InvoiceRow
<1>3. \A j \in Invoices \ {i} : Dues(inv)[j] = Dues(new)[j]
  BY <1>1 DEF Dues
<1>4. Dues(inv)[i] = inv[i].due /\ Dues(new)[i] = row.due
  BY <1>1 DEF Dues
<1>5. Sum(Dues(new), Invoices) = Sum(Dues(inv), Invoices) - Dues(inv)[i] + Dues(new)[i]
  BY <1>2, <1>3, SumChange
<1> QED BY <1>1, <1>4, <1>5 DEF Owes, new

LEMMA LoweredIs ==
    ASSUME NEW known \in Int, NEW amount \in Nat
    PROVE  /\ C!Lowered(known, amount) \in Int
           /\ C!Clamped(known, amount) = {} => C!Lowered(known, amount) = known - amount
<1>1. \A n \in Int : C!Max({n, 0}) = IF n >= 0 THEN n ELSE 0
  BY DEF C!Max
<1>2. known - amount \in Int
  OBVIOUS
<1> QED BY <1>1, <1>2 DEF C!Lowered, C!Clamped, C!Lapse

LEMMA SmallerOf == \A m \in Nat, n \in Nat : C!Min({m, n}) \in Nat /\ C!Min({m, n}) <= n /\ C!Min({m, n}) <= m
BY DEF C!Min

LEMMA BookedInt == ASSUME receivable \in Int, NEW amount \in Nat
    PROVE C!Booked(amount) \in Int /\ (~posted => C!Booked(amount) = receivable - amount)
BY DEF C!Booked

-----------------------------------------------------------------------------
(* What requests on the account leave behind.                              *)

LEMMA SaleShape ==
    ASSUME CreditInv, NEW u \in Users, saleWork[u] # C!Idle
    PROVE  /\ saleWork[u].op \in SaleOps /\ saleWork[u].balance \in Int /\ saleWork[u].store \in Int
           /\ saleWork[u].seen \in [Invoices -> InvoiceRow]
           /\ saleWork[u].step = "locked" =>
                 /\ saleWork[u].invoice \in Invoices /\ saleWork[u].amount \in Nat /\ saleWork[u].fresh \in Int
                 /\ Holds(u, saleWork[u].invoice)
<1>1. saleWork[u] \in Loaded \cup Holding
  BY DEF CreditInv, CreditTypes
<1> QED BY <1>1 DEF Loaded, Holding, Holds

LEMMA RequestEnds ==
    ASSUME CreditInv, NEW u \in Users, C!Finished(u), NEW i \in Invoices, \A v \in Users \ {u} : ~Holds(v, i),
           \A j \in Invoices \ {i} : invoice'[j] = invoice[j]
    PROVE  saleWork' \in [Users -> {C!Idle} \cup Loaded \cup Holding] /\ LocksOK'
<1>1. /\ saleWork' \in [Users -> {C!Idle} \cup Loaded \cup Holding]
      /\ \A v \in Users : saleWork'[v] = IF v = u THEN C!Idle ELSE saleWork[v]
  BY DEF CreditInv, CreditTypes, C!Finished, C!Goto
<1>2. ASSUME NEW v \in Users, NEW j \in Invoices, Holds(v, j)'
      PROVE  /\ invoice'[j].status \in {"open", "void"} /\ saleWork'[v].amount <= invoice'[j].due
             /\ \A x \in Users \ {v} : ~Holds(x, j)'
  <2>1. v # u /\ Holds(v, j) /\ saleWork'[v] = saleWork[v]
    BY <1>1, <1>2 DEF Holds, C!Idle
  <2>2. j # i /\ invoice'[j] = invoice[j]
    BY <2>1
  <2>3. \A x \in Users : Holds(x, j)' => Holds(x, j)
    BY <1>1 DEF Holds, C!Idle
  <2> QED BY <2>1, <2>2, <2>3 DEF CreditInv, LocksOK
<1> QED BY <1>1, <1>2 DEF LocksOK

LEMMA RequestEndsAlone ==
    ASSUME CreditInv, NEW u \in Users, C!Finished(u), invoice' = invoice
    PROVE  saleWork' \in [Users -> {C!Idle} \cup Loaded \cup Holding] /\ LocksOK'
<1>1. /\ saleWork' \in [Users -> {C!Idle} \cup Loaded \cup Holding]
      /\ \A v \in Users : saleWork'[v] = IF v = u THEN C!Idle ELSE saleWork[v]
  BY DEF CreditInv, CreditTypes, C!Finished, C!Goto
<1>2. \A x \in Users, j \in Invoices : Holds(x, j)' => x # u /\ Holds(x, j) /\ saleWork'[x] = saleWork[x]
  BY <1>1 DEF Holds, C!Idle
<1> QED BY <1>1, <1>2 DEF LocksOK, CreditInv

\* An invoice is written, and keeps to its total.
LEMMA RowChange ==
    ASSUME C!CreditAssumption, CreditInv, NEW i \in Invoices, NEW row \in InvoiceRow, invoice' = [invoice EXCEPT ![i] = row],
           saleLapses \subseteq saleLapses', RowOK(row),
           NoStoreCredit' => row.status = "deleted" \/ row.paid + row.due = row.total
    PROVE  /\ invoice' \in [Invoices -> InvoiceRow] /\ RowsOK' /\ Owes(invoice)' = Owes(invoice) - invoice[i].due + row.due
           /\ \A j \in Invoices \ {i} : invoice'[j] = invoice[j]
<1>1. invoice \in [Invoices -> InvoiceRow] /\ RowsOK
  BY DEF CreditInv, CreditTypes
<1>2. invoice' \in [Invoices -> InvoiceRow] /\ invoice'[i] = row /\ \A j \in Invoices \ {i} : invoice'[j] = invoice[j]
  BY <1>1
<1>3. RowsOK'
  <2>1. ASSUME NEW j \in Invoices
        PROVE  /\ RowOK(invoice'[j])
               /\ NoStoreCredit' =>
                     invoice'[j].status = "deleted" \/ invoice'[j].paid + invoice'[j].due = invoice'[j].total
    <3>1. CASE j = i
      BY <1>2, <3>1
    <3>2. CASE j # i
      BY <1>1, <1>2, <3>2 DEF RowsOK, NoStoreCredit
    <3> QED BY <3>1, <3>2
  <2> QED BY <2>1 DEF RowsOK, RowOK
<1>4. Owes(invoice)' = Owes(invoice')
  BY DEF Owes, Dues
<1>5. Owes(invoice') = Owes(invoice) - invoice[i].due + row.due
  BY <1>1, OwesChange
<1> QED BY <1>2, <1>3, <1>4, <1>5

LEMMA RowsStay ==
    ASSUME CreditInv, invoice' = invoice, saleLapses \subseteq saleLapses'
    PROVE  invoice' \in [Invoices -> InvoiceRow] /\ RowsOK' /\ Owes(invoice)' = Owes(invoice)
<1>1. Owes(invoice)' = Owes(invoice)
  BY DEF Owes, Dues
<1> QED BY <1>1 DEF CreditInv, CreditTypes, RowsOK, RowOK, NoStoreCredit

\* The row a payment writes, by whoever holds the invoice.
LEMMA PaidIs ==
    ASSUME CreditInv, NEW u \in Users, NEW i \in Invoices, Holds(u, i), NEW amount \in Nat, amount = saleWork[u].amount
    PROVE  /\ C!Paid(i, amount) \in InvoiceRow /\ RowOK(C!Paid(i, amount))
           /\ NoStoreCredit =>
                 /\ C!Paid(i, amount).paid + C!Paid(i, amount).due = C!Paid(i, amount).total
                 /\ C!Paid(i, amount).due = invoice[i].due - amount
<1> DEFINE row == invoice[i]
           paidNow == row.paid + amount
           new == C!Paid(i, amount)
<1>1. row \in InvoiceRow /\ RowOK(row) /\ row.status \in {"open", "void"} /\ amount <= row.due
  BY DEF CreditInv, CreditTypes, RowsOK, LocksOK
<1>2. row.paid \in Nat /\ row.total \in Nat /\ row.due \in Nat /\ row.paid + row.due <= row.total
  BY <1>1 DEF InvoiceRow, RowOK
<1>3. paidNow \in Nat /\ row.total - paidNow \in Nat /\ paidNow + (row.total - paidNow) = row.total
  BY <1>1, <1>2
<1>4. new = [row EXCEPT !.paid = paidNow, !.due = row.total - paidNow,
                        !.status = IF paidNow >= row.total THEN "paid" ELSE @]
  BY DEF C!Paid
<1>5. NoStoreCredit => row.paid + row.due = row.total
  BY <1>1 DEF CreditInv, RowsOK
<1>6. ASSUME NoStoreCredit PROVE row.total - paidNow = row.due - amount
  <2>1. row.paid + row.due = row.total
    BY <1>5, <1>6
  <2> QED BY <1>2, <2>1
<1> HIDE DEF row, paidNow, new
<1>7. new \in InvoiceRow /\ new.paid = paidNow /\ new.due = row.total - paidNow /\ new.total = row.total
      /\ new.status \in {"open", "void", "paid"}
  BY <1>1, <1>3, <1>4 DEF InvoiceRow
<1>8. RowOK(new)
  BY <1>2, <1>3, <1>7 DEF RowOK
<1> QED BY <1>3, <1>6, <1>7, <1>8 DEF new, row

\* Credit and the ledger when a payment is taken on a known balance.
LEMMA ReceiveIs ==
    ASSUME CreditInv, NEW known \in Int, NEW amount \in Nat
    PROVE  /\ C!Lowered(known, amount) \in Int /\ C!Booked(amount) \in Int /\ txns - amount \in Int
           /\ C!Overtaken(known) = {} /\ C!Clamped(known, amount) = {} => C!Lowered(known, amount) = balance - amount
<1>1. txns \in Int /\ receivable \in Int /\ balance \in Int
  BY DEF CreditInv, CreditTypes
<1>2. C!Overtaken(known) = {} => known = balance
  BY DEF C!Overtaken, C!Lapse
<1> QED BY <1>1, <1>2, LoweredIs, BookedInt

\* Which lapses the three properties allow.
LEMMA Lapsed ==
    /\ \A k, a : C!Overtaken(k) \in {{}, {"overtaken"}} /\ C!Clamped(k, a) \in {{}, {"clamped"}}
    /\ \A c, n : C!Lapse(c, n) = IF c THEN {n} ELSE {}
BY DEF C!Overtaken, C!Clamped, C!Lapse

LEMMA SellOK ==
    ASSUME C!CreditAssumption, CreditInv, NEW u \in Users, NEW i \in Invoices, NEW total \in Amounts,
           NEW credit \in Amounts \cup {0}, C!Sell(u, i, total, credit)
    PROVE  CreditInv'
<1> DEFINE used == C!Min({credit, total})
           row == [invoice[i] EXCEPT !.status = "open", !.total = total, !.due = total - used]
           known == saleWork[u].balance
<1>1. total \in Nat /\ used \in Nat /\ used <= total
  BY SmallerOf DEF C!CreditAssumption
<1>2. /\ saleWork[u] # C!Idle /\ saleWork[u].step = "loaded" /\ invoice[i].status = "none"
      /\ txns' = txns + total - used /\ balance' = known + total - used
      /\ store' = IF used > 0 THEN saleWork[u].store - used ELSE store
      /\ receivable' = receivable + total /\ C!Finished(u) /\ UNCHANGED <<sales, posted, opening>>
      /\ saleLapses' = saleLapses \cup C!Overtaken(known)
                         \cup C!Lapse(used > 0 /\ saleWork[u].store # store, "store overtaken")
                         \cup C!Lapse(used > 0, "store credit")
  BY DEF C!Sell, C!At
<1>3. invoice' = [invoice EXCEPT ![i] = row]
  BY DEF C!Sell
<1>4. known \in Int /\ saleWork[u].store \in Int
  BY <1>2, SaleShape
<1>5. /\ balance \in Int /\ txns \in Int /\ receivable \in Int /\ store \in Int /\ opening \in Int
      /\ invoice[i] \in InvoiceRow /\ RowOK(invoice[i]) /\ Owes(invoice) \in Int
  BY OwesNat DEF CreditInv, CreditTypes, RowsOK
<1>6. invoice[i].paid = 0 /\ invoice[i].due = 0
  <2>1. invoice[i].paid + invoice[i].due <= 0 /\ invoice[i].paid \in Nat /\ invoice[i].due \in Nat
    BY <1>2, <1>5 DEF RowOK, InvoiceRow
  <2> QED BY <2>1
<1> HIDE DEF used
<1>7. total - used \in Nat
  BY <1>1
<1>8. row \in InvoiceRow /\ row.paid = 0 /\ row.due = total - used /\ row.total = total /\ row.status = "open"
  BY <1>1, <1>5, <1>6, <1>7 DEF InvoiceRow
<1> HIDE DEF row, known
<1>9. RowOK(row)
  BY <1>1, <1>8 DEF RowOK
<1>10. saleLapses \subseteq saleLapses' /\ (NoStoreCredit' => used = 0)
  <2>1. ~(used > 0) => used = 0
    BY <1>1
  <2>2. NoStoreCredit' => ~(used > 0)
    BY <1>2 DEF C!Lapse, NoStoreCredit
  <2> QED BY <1>2, <2>1, <2>2
<1>11. NoStoreCredit' => row.status = "deleted" \/ row.paid + row.due = row.total
  <2>1. used = 0 => 0 + (total - used) = total
    BY <1>1
  <2> QED BY <1>8, <1>10, <2>1
<1>12. /\ invoice' \in [Invoices -> InvoiceRow] /\ RowsOK' /\ Owes(invoice)' = Owes(invoice) - invoice[i].due + row.due
       /\ \A j \in Invoices \ {i} : invoice'[j] = invoice[j]
  BY <1>3, <1>8, <1>9, <1>10, <1>11, RowChange
<1>13. saleWork' \in [Users -> {C!Idle} \cup Loaded \cup Holding] /\ LocksOK'
  <2>1. \A v \in Users \ {u} : ~Holds(v, i)
    BY <1>2 DEF CreditInv, LocksOK
  <2> QED BY <1>2, <1>12, <2>1, RequestEnds
<1>14. balance' \in Int /\ txns' \in Int /\ receivable' \in Int /\ store' \in Int
  <2>1. balance' \in Int /\ txns' \in Int /\ receivable' \in Int
    <3>1. known + total - used \in Int /\ txns + total - used \in Int /\ receivable + total \in Int
      BY <1>1, <1>4, <1>5
    <3> QED BY <1>2, <3>1
  <2>2. saleWork[u].store - used \in Int
    BY <1>1, <1>4
  <2> QED BY <1>2, <1>5, <2>1, <2>2
<1>15. CreditTypes'
  BY <1>2, <1>12, <1>13, <1>14 DEF CreditInv, CreditTypes
<1>16. "overtaken" \notin saleLapses' => balance' = balance + total - used
  BY <1>2 DEF C!Overtaken, C!Lapse
<1>17. ASSUME saleLapses' \cap {"overtaken", "clamped", "recorded twice"} = {} PROVE balance' = opening' + txns'
  <2>1. balance = opening + txns
    BY <1>10, <1>17 DEF CreditInv, C!TransactionsExplainBalance
  <2>2. balance' = balance + total - used /\ txns' = txns + total - used /\ opening' = opening
    BY <1>2, <1>16, <1>17
  <2> QED BY <1>1, <1>5, <2>1, <2>2
<1>18. ASSUME saleLapses' \subseteq {"delete", "second payment", "recorded twice"} PROVE balance' = opening' + Owes(invoice)'
  <2>1. balance = opening + Owes(invoice)
    BY <1>10, <1>18 DEF CreditInv, Covers
  <2>2. balance' = balance + total - used /\ opening' = opening
    BY <1>2, <1>16, <1>18
  <2>3. Owes(invoice)' = Owes(invoice) + total - used
    BY <1>1, <1>5, <1>6, <1>8, <1>12
  <2> QED BY <1>1, <1>5, <2>1, <2>2, <2>3
<1>19. ASSUME saleLapses' = {} PROVE receivable' = balance'
  <2>1. receivable = balance
    BY <1>10, <1>19 DEF CreditInv, C!ReceivablesTie
  <2>2. used = 0 /\ balance' = balance + total - used /\ receivable' = receivable + total
    BY <1>2, <1>10, <1>16, <1>19 DEF NoStoreCredit
  <2> QED BY <1>1, <1>5, <2>1, <2>2
<1> QED BY <1>12, <1>13, <1>15, <1>17, <1>18, <1>19 DEF CreditInv, C!TransactionsExplainBalance, Covers, C!ReceivablesTie

\* A payment of an invoice, from its page, through a provider or as a receipt: what is common.
LEMMA InvoicePaid ==
    ASSUME C!CreditAssumption, CreditInv, NEW u \in Users, saleWork[u] # C!Idle, saleWork[u].step = "locked",
           NEW i \in Invoices, i = saleWork[u].invoice, NEW amount, amount \in Nat, amount = saleWork[u].amount,
           NEW row \in InvoiceRow, invoice' = [invoice EXCEPT ![i] = row],
           row = C!Paid(i, amount) \/ row = [C!Paid(i, amount) EXCEPT !.stamped = TRUE],
           saleLapses \subseteq saleLapses', C!Finished(u)
    PROVE  /\ invoice' \in [Invoices -> InvoiceRow] /\ RowsOK' /\ LocksOK'
           /\ saleWork' \in [Users -> {C!Idle} \cup Loaded \cup Holding]
           /\ NoStoreCredit => Owes(invoice)' = Owes(invoice) - amount
<1> DEFINE new == C!Paid(i, amount)
<1>1. Holds(u, i)
  BY DEF Holds
<1>2. /\ new \in InvoiceRow /\ RowOK(new)
      /\ NoStoreCredit => new.paid + new.due = new.total /\ new.due = invoice[i].due - amount
  <2> HIDE DEF new
  <2>1. C!Paid(i, amount) \in InvoiceRow /\ RowOK(C!Paid(i, amount))
    BY <1>1, PaidIs
  <2>2. ASSUME NoStoreCredit
        PROVE  /\ C!Paid(i, amount).paid + C!Paid(i, amount).due = C!Paid(i, amount).total
               /\ C!Paid(i, amount).due = invoice[i].due - amount
    <3>1. C!Paid(i, amount).paid + C!Paid(i, amount).due = C!Paid(i, amount).total
      BY <1>1, <2>2, PaidIs
    <3>2. C!Paid(i, amount).due = invoice[i].due - amount
      BY <1>1, <2>2, PaidIs
    <3> QED BY <3>1, <3>2
  <2> QED BY <2>1, <2>2 DEF new
<1> HIDE DEF new
<1>3. row.paid = new.paid /\ row.due = new.due /\ row.total = new.total /\ row.status = new.status
  BY <1>2 DEF InvoiceRow, new
<1>4. RowOK(row) /\ (NoStoreCredit' => row.status = "deleted" \/ row.paid + row.due = row.total)
  <2>1. NoStoreCredit' => NoStoreCredit
    BY DEF NoStoreCredit
  <2> QED BY <1>2, <1>3, <2>1 DEF RowOK
<1>5. /\ invoice' \in [Invoices -> InvoiceRow] /\ RowsOK' /\ Owes(invoice)' = Owes(invoice) - invoice[i].due + row.due
      /\ \A j \in Invoices \ {i} : invoice'[j] = invoice[j]
  BY <1>4, RowChange
<1>6. saleWork' \in [Users -> {C!Idle} \cup Loaded \cup Holding] /\ LocksOK'
  <2>1. \A v \in Users \ {u} : ~Holds(v, i)
    BY <1>1 DEF CreditInv, LocksOK
  <2> QED BY <1>5, <2>1, RequestEnds
<1>7. ASSUME NoStoreCredit PROVE Owes(invoice)' = Owes(invoice) - amount
  <2>1. Owes(invoice)' = Owes(invoice) - invoice[i].due + (invoice[i].due - amount)
    BY <1>2, <1>3, <1>5, <1>7
  <2>2. Owes(invoice) \in Int /\ invoice[i].due \in Int
    BY OwesNat DEF CreditInv, CreditTypes, InvoiceRow
  <2> QED BY <2>1, <2>2
<1> QED BY <1>5, <1>6, <1>7

LEMMA PayInvoiceOK ==
    ASSUME C!CreditAssumption, CreditInv, NEW u \in Users, C!PayInvoice(u) PROVE CreditInv'
<1> DEFINE i == saleWork[u].invoice
           amount == saleWork[u].amount
           known == saleWork[u].fresh
           row == C!Paid(i, amount)
<1>1. /\ saleWork[u] # C!Idle /\ saleWork[u].step = "locked"
      /\ invoice' = [invoice EXCEPT ![i] = row] /\ C!Receive(known, amount)
      /\ saleLapses' = saleLapses \cup C!Overtaken(known) \cup C!Clamped(known, amount) \cup C!Lapse(posted, "second payment")
      /\ C!Finished(u) /\ UNCHANGED <<store, sales, opening>>
  BY DEF C!PayInvoice, C!At
<1>2. i \in Invoices /\ amount \in Nat /\ known \in Int /\ Holds(u, i)
  BY <1>1, SaleShape
<1>3. row \in InvoiceRow
  BY <1>2, PaidIs
<1>4. /\ invoice' \in [Invoices -> InvoiceRow] /\ RowsOK' /\ LocksOK'
      /\ saleWork' \in [Users -> {C!Idle} \cup Loaded \cup Holding]
      /\ NoStoreCredit => Owes(invoice)' = Owes(invoice) - amount
  BY <1>1, <1>2, <1>3, InvoicePaid
<1> HIDE DEF i, amount, known, row
<1>5. /\ txns' = txns - amount /\ balance' = C!Lowered(known, amount) /\ receivable' = C!Booked(amount) /\ posted' = TRUE
  BY <1>1 DEF C!Receive
<1>6. /\ balance' \in Int /\ receivable' \in Int /\ txns' \in Int
      /\ C!Overtaken(known) = {} /\ C!Clamped(known, amount) = {} => balance' = balance - amount
  BY <1>2, <1>5, ReceiveIs
<1>7. balance \in Int /\ txns \in Int /\ receivable \in Int /\ opening \in Int /\ Owes(invoice) \in Int
  BY OwesNat DEF CreditInv, CreditTypes
<1>8. CreditTypes'
  BY <1>1, <1>4, <1>5, <1>6 DEF CreditInv, CreditTypes
<1>9. ASSUME "overtaken" \notin saleLapses', "clamped" \notin saleLapses' PROVE balance' = balance - amount
  BY <1>1, <1>6, <1>9, Lapsed
<1>10. ASSUME saleLapses' \cap {"overtaken", "clamped", "recorded twice"} = {} PROVE balance' = opening' + txns'
  <2>1. balance = opening + txns /\ balance' = balance - amount /\ opening' = opening
    BY <1>1, <1>9, <1>10 DEF CreditInv, C!TransactionsExplainBalance
  <2> QED BY <1>2, <1>5, <1>7, <2>1
<1>11. ASSUME saleLapses' \subseteq {"delete", "second payment", "recorded twice"} PROVE balance' = opening' + Owes(invoice)'
  <2>1. balance = opening + Owes(invoice) /\ balance' = balance - amount /\ opening' = opening
    BY <1>1, <1>9, <1>11 DEF CreditInv, Covers
  <2>2. Owes(invoice)' = Owes(invoice) - amount
    BY <1>1, <1>4, <1>11 DEF NoStoreCredit
  <2> QED BY <1>2, <1>7, <2>1, <2>2
<1>12. ASSUME saleLapses' = {} PROVE receivable' = balance'
  <2>1. receivable = balance /\ balance' = balance - amount /\ ~posted
    BY <1>1, <1>9, <1>12 DEF CreditInv, C!ReceivablesTie, C!Lapse
  <2>2. receivable' = receivable - amount
    BY <1>2, <1>5, <1>7, <2>1, BookedInt
  <2> QED BY <2>1, <2>2
<1> QED BY <1>4, <1>8, <1>10, <1>11, <1>12 DEF CreditInv, C!TransactionsExplainBalance, Covers, C!ReceivablesTie

LEMMA PayByProviderOK ==
    ASSUME C!CreditAssumption, CreditInv, NEW u \in Users, C!PayByProvider(u) PROVE CreditInv'
<1> DEFINE i == saleWork[u].invoice
           amount == saleWork[u].amount
           row == C!Paid(i, amount)
<1>1. /\ saleWork[u] # C!Idle /\ saleWork[u].step = "locked"
      /\ invoice' = [invoice EXCEPT ![i] = row] /\ saleLapses' = saleLapses \cup {"provider"}
      /\ C!Finished(u) /\ UNCHANGED <<balance, store, txns, receivable, posted, sales, opening>>
  BY DEF C!PayByProvider, C!At
<1>2. i \in Invoices /\ amount \in Nat /\ Holds(u, i)
  BY <1>1, SaleShape
<1>3. row \in InvoiceRow
  BY <1>2, PaidIs
<1>4. /\ invoice' \in [Invoices -> InvoiceRow] /\ RowsOK' /\ LocksOK'
      /\ saleWork' \in [Users -> {C!Idle} \cup Loaded \cup Holding]
  BY <1>1, <1>2, <1>3, InvoicePaid
<1> HIDE DEF i, amount, row
<1>5. CreditTypes'
  BY <1>1, <1>4 DEF CreditInv, CreditTypes
<1>6. C!TransactionsExplainBalance' /\ Covers' /\ C!ReceivablesTie'
  BY <1>1 DEF CreditInv, C!TransactionsExplainBalance, Covers, C!ReceivablesTie
<1> QED BY <1>4, <1>5, <1>6 DEF CreditInv

LEMMA PayByReceiptOK ==
    ASSUME C!CreditAssumption, CreditInv, NEW u \in Users, C!PayByReceipt(u) PROVE CreditInv'
<1> DEFINE i == saleWork[u].invoice
           amount == saleWork[u].amount
           fresh == saleWork[u].fresh
           first == saleWork[u].balance
           known == IF invoice[i].stamped THEN fresh ELSE first
           row == [C!Paid(i, amount) EXCEPT !.stamped = TRUE]
<1>1. /\ saleWork[u] # C!Idle /\ saleWork[u].step = "locked"
      /\ invoice' = [invoice EXCEPT ![i] = row]
      /\ txns' = txns - (IF invoice[i].stamped THEN amount ELSE 2 * amount)
      /\ balance' = C!Lowered(known, amount) /\ receivable' = C!Booked(amount) /\ posted' = TRUE
      /\ saleLapses' = saleLapses \cup C!Overtaken(fresh) \cup C!Overtaken(first) \cup C!Clamped(fresh, amount)
                         \cup C!Lapse(posted, "second payment") \cup C!Lapse(~invoice[i].stamped, "recorded twice")
      /\ C!Finished(u) /\ UNCHANGED <<store, sales, opening>>
  BY DEF C!PayByReceipt, C!At
<1>2. i \in Invoices /\ amount \in Nat /\ fresh \in Int /\ first \in Int /\ Holds(u, i)
  BY <1>1, SaleShape
<1>3. row \in InvoiceRow
  <2>1. C!Paid(i, amount) \in InvoiceRow
    BY <1>2, PaidIs
  <2> QED BY <2>1 DEF InvoiceRow
<1>4. /\ invoice' \in [Invoices -> InvoiceRow] /\ RowsOK' /\ LocksOK'
      /\ saleWork' \in [Users -> {C!Idle} \cup Loaded \cup Holding]
      /\ NoStoreCredit => Owes(invoice)' = Owes(invoice) - amount
  BY <1>1, <1>2, <1>3, InvoicePaid
<1> HIDE DEF i, amount, fresh, first, row
<1>5. known \in Int
  BY <1>2
<1>6. balance \in Int /\ txns \in Int /\ receivable \in Int /\ opening \in Int /\ Owes(invoice) \in Int
  BY OwesNat DEF CreditInv, CreditTypes
<1>7. /\ balance' \in Int /\ receivable' \in Int
      /\ C!Overtaken(known) = {} /\ C!Clamped(known, amount) = {} => balance' = balance - amount
  BY <1>1, <1>2, <1>5, ReceiveIs
<1>8. txns' \in Int
  <2>1. txns' = txns - amount \/ txns' = txns - 2 * amount
    BY <1>1
  <2> QED BY <1>2, <1>6, <2>1
<1>9. CreditTypes'
  BY <1>1, <1>4, <1>7, <1>8 DEF CreditInv, CreditTypes
<1>10. ASSUME "overtaken" \notin saleLapses', "clamped" \notin saleLapses' PROVE balance' = balance - amount
  <2>1. C!Overtaken(fresh) = {} /\ C!Overtaken(first) = {} /\ C!Clamped(fresh, amount) = {}
    BY <1>1, <1>10, Lapsed
  <2>2. fresh = balance /\ first = balance
    BY <2>1 DEF C!Overtaken, C!Lapse
  <2>3. known = fresh
    BY <2>2
  <2> QED BY <1>7, <2>1, <2>3
<1>11. ASSUME saleLapses' \cap {"overtaken", "clamped", "recorded twice"} = {} PROVE balance' = opening' + txns'
  <2>1. balance = opening + txns /\ balance' = balance - amount /\ opening' = opening
    BY <1>1, <1>10, <1>11 DEF CreditInv, C!TransactionsExplainBalance
  <2>2. invoice[i].stamped
    BY <1>1, <1>11 DEF C!Lapse
  <2>3. txns' = txns - amount
    BY <1>1, <2>2
  <2> QED BY <1>2, <1>6, <2>1, <2>3
<1>12. ASSUME saleLapses' \subseteq {"delete", "second payment", "recorded twice"} PROVE balance' = opening' + Owes(invoice)'
  <2>1. balance = opening + Owes(invoice) /\ balance' = balance - amount /\ opening' = opening
    BY <1>1, <1>10, <1>12 DEF CreditInv, Covers
  <2>2. Owes(invoice)' = Owes(invoice) - amount
    BY <1>1, <1>4, <1>12 DEF NoStoreCredit
  <2> QED BY <1>2, <1>6, <2>1, <2>2
<1>13. ASSUME saleLapses' = {} PROVE receivable' = balance'
  <2>1. receivable = balance /\ balance' = balance - amount /\ ~posted
    BY <1>1, <1>10, <1>13 DEF CreditInv, C!ReceivablesTie, C!Lapse
  <2>2. receivable' = receivable - amount
    BY <1>1, <1>2, <1>6, <2>1, BookedInt
  <2> QED BY <2>1, <2>2
<1> QED BY <1>4, <1>9, <1>11, <1>12, <1>13 DEF CreditInv, C!TransactionsExplainBalance, Covers, C!ReceivablesTie

LEMMA Shift == \A b \in Int, o \in Int, t \in Int, n \in Nat : b = o + t => b - n = o + (t - n)
OBVIOUS

\* Lapses after which the invoices no longer say what is owed.
Outside == {"on account", "return"}

\* A payment on account, and the refund of a return: no invoice is written.
LEMMA OnAccount ==
    ASSUME C!CreditAssumption, CreditInv, NEW u \in Users, NEW known, known \in Int, NEW amount, amount \in Nat, NEW name, name \in Outside,
           txns' = txns - amount, balance' = C!Lowered(known, amount), receivable' \in Int, posted' = TRUE,
           saleLapses \cup C!Overtaken(known) \cup C!Clamped(known, amount) \cup {name} \subseteq saleLapses',
           C!Finished(u), UNCHANGED <<store, invoice, sales, opening>>
    PROVE  CreditInv'
<1>1. saleWork' \in [Users -> {C!Idle} \cup Loaded \cup Holding] /\ LocksOK'
  BY RequestEndsAlone
<1>2. invoice' \in [Invoices -> InvoiceRow] /\ RowsOK'
  BY RowsStay
<1>3. /\ balance' \in Int /\ txns' \in Int
      /\ C!Overtaken(known) = {} /\ C!Clamped(known, amount) = {} => balance' = balance - amount
  BY ReceiveIs
<1>4. balance \in Int /\ txns \in Int /\ opening \in Int
  BY DEF CreditInv, CreditTypes
<1>5. CreditTypes'
  BY <1>1, <1>2, <1>3 DEF CreditInv, CreditTypes
<1>6. ASSUME saleLapses' \cap {"overtaken", "clamped", "recorded twice"} = {} PROVE balance' = opening' + txns'
  <2>1. C!Overtaken(known) = {} /\ C!Clamped(known, amount) = {}
    BY <1>6, Lapsed
  <2>2. balance = opening + txns
    BY <1>6 DEF CreditInv, C!TransactionsExplainBalance
  <2>3. balance' = balance - amount /\ txns' = txns - amount /\ opening' = opening
    BY <1>3, <2>1
  <2>4. balance - amount = opening + (txns - amount)
    BY <1>4, <2>2, Shift
  <2> QED BY <2>3, <2>4
<1>7. Covers' /\ C!ReceivablesTie'
  <2>1. name \in saleLapses' /\ name \notin {"delete", "second payment", "recorded twice"}
    BY DEF Outside
  <2> QED BY <2>1 DEF Covers, C!ReceivablesTie
<1> QED BY <1>1, <1>2, <1>5, <1>6, <1>7 DEF CreditInv, C!TransactionsExplainBalance

LEMMA PayOnAccountOK ==
    ASSUME C!CreditAssumption, CreditInv, NEW u \in Users, NEW amount \in Amounts, C!PayOnAccount(u, amount) PROVE CreditInv'
<1> DEFINE known == saleWork[u].balance
<1>1. amount \in Nat
  BY DEF C!CreditAssumption
<1>2. known \in Int
  BY SaleShape DEF C!PayOnAccount, C!At
<1>3. receivable' \in Int
  BY <1>1, BookedInt DEF C!PayOnAccount, C!Receive, CreditInv, CreditTypes
<1>4. saleLapses \cup C!Overtaken(known) \cup C!Clamped(known, amount) \cup {"on account"} \subseteq saleLapses'
  BY DEF C!PayOnAccount
<1> QED BY <1>1, <1>2, <1>3, <1>4, OnAccount DEF C!PayOnAccount, C!Receive, Outside

LEMMA ReturnGoodsOK ==
    ASSUME C!CreditAssumption, CreditInv, NEW u \in Users, NEW i \in Invoices, NEW refund \in Amounts, C!Return(u, i, refund)
    PROVE  CreditInv'
<1> DEFINE known == saleWork[u].balance
<1>1. refund \in Nat
  BY DEF C!CreditAssumption
<1>2. known \in Int
  BY SaleShape DEF C!Return, C!At
<1>3. receivable' \in Int
  <2>1. C!Booked(refund) \in Int /\ receivable' = C!Booked(refund) - refund
    BY <1>1, BookedInt DEF C!Return, CreditInv, CreditTypes
  <2> QED BY <1>1, <2>1
<1>4. saleLapses \cup C!Overtaken(known) \cup C!Clamped(known, refund) \cup {"return"} \subseteq saleLapses'
  BY DEF C!Return
<1> QED BY <1>1, <1>2, <1>3, <1>4, OnAccount DEF C!Return, Outside

\* void_invoice: the row keeps its amounts.
LEMMA VoidInvoiceOK ==
    ASSUME C!CreditAssumption, CreditInv, NEW u \in Users, NEW i \in Invoices, C!Void(u, i) PROVE CreditInv'
<1> DEFINE row == [invoice[i] EXCEPT !.status = "void", !.voided = TRUE]
<1>1. /\ ~C!Locked(i) /\ invoice[i].status # "deleted"
      /\ receivable' = IF invoice[i].voided THEN receivable ELSE receivable - invoice[i].total
      /\ saleLapses' = saleLapses \cup {"void"}
      /\ C!Finished(u) /\ UNCHANGED <<balance, store, txns, posted, opening, sales>>
  BY DEF C!Void, C!Undoable
<1>2. invoice \in [Invoices -> InvoiceRow] /\ invoice[i] \in InvoiceRow /\ RowOK(invoice[i]) /\ receivable \in Int
      /\ (NoStoreCredit => invoice[i].status = "deleted" \/ invoice[i].paid + invoice[i].due = invoice[i].total)
  BY DEF CreditInv, CreditTypes, RowsOK
<1>3. invoice' = [invoice EXCEPT ![i] = row]
  <2>1. invoice' = [invoice EXCEPT ![i].status = "void", ![i].voided = TRUE]
    BY DEF C!Void
  <2> QED BY <1>2, <2>1
<1>4. /\ row \in InvoiceRow /\ row.paid = invoice[i].paid /\ row.due = invoice[i].due /\ row.total = invoice[i].total
      /\ row.status = "void"
  BY <1>2 DEF InvoiceRow
<1> HIDE DEF row
<1>5. RowOK(row) /\ (NoStoreCredit' => row.status = "deleted" \/ row.paid + row.due = row.total) /\ saleLapses \subseteq saleLapses'
  <2>1. NoStoreCredit' => NoStoreCredit
    BY <1>1 DEF NoStoreCredit
  <2> QED BY <1>1, <1>2, <1>4, <2>1 DEF RowOK
<1>6. invoice' \in [Invoices -> InvoiceRow] /\ RowsOK' /\ \A j \in Invoices \ {i} : invoice'[j] = invoice[j]
  BY <1>3, <1>4, <1>5, RowChange
<1>7. saleWork' \in [Users -> {C!Idle} \cup Loaded \cup Holding] /\ LocksOK'
  <2>1. \A v \in Users \ {u} : ~Holds(v, i)
    BY <1>1 DEF Holds, C!Locked
  <2> QED BY <1>1, <1>6, <2>1, RequestEnds
<1>8. receivable' \in Int
  <2>1. invoice[i].total \in Nat
    BY <1>2 DEF InvoiceRow
  <2>2. receivable - invoice[i].total \in Int
    BY <1>2, <2>1
  <2> QED BY <1>1, <1>2, <2>2
<1>9. CreditTypes'
  BY <1>1, <1>6, <1>7, <1>8 DEF CreditInv, CreditTypes
<1>10. C!TransactionsExplainBalance' /\ Covers' /\ C!ReceivablesTie'
  BY <1>1 DEF CreditInv, C!TransactionsExplainBalance, Covers, C!ReceivablesTie
<1> QED BY <1>6, <1>7, <1>9, <1>10 DEF CreditInv

LEMMA DeleteInvoiceOK ==
    ASSUME C!CreditAssumption, CreditInv, NEW u \in Users, NEW i \in Invoices, C!Delete(u, i) PROVE CreditInv'
<1> DEFINE seen == saleWork[u].seen[i]
           due == seen.due
           known == saleWork[u].balance
           row == [invoice[i] EXCEPT !.status = "deleted", !.due = 0]
<1>1. /\ saleWork[u] # C!Idle /\ ~C!Locked(i)
      /\ invoice' = [invoice EXCEPT ![i] = row]
      /\ saleLapses' = saleLapses \cup C!Stale(u, i) \cup {"delete"}
                         \cup (IF due > 0 THEN C!Overtaken(known) \cup C!Clamped(known, due) ELSE {})
      /\ C!Finished(u) /\ UNCHANGED <<store, sales, opening>>
  BY DEF C!Delete, C!Undoable, C!At
<1>2. \/ /\ due > 0 /\ txns' = txns - due /\ balance' = C!Lowered(known, due)
         /\ receivable' = C!Booked(due) - invoice[i].total /\ posted' = TRUE
      \/ ~(due > 0) /\ receivable' = receivable - invoice[i].total /\ UNCHANGED <<txns, balance, posted>>
  BY DEF C!Delete
<1>3. known \in Int /\ seen \in InvoiceRow
  BY <1>1, SaleShape
<1>4. due \in Nat
  BY <1>3 DEF InvoiceRow
<1>5. /\ invoice \in [Invoices -> InvoiceRow] /\ invoice[i] \in InvoiceRow /\ balance \in Int /\ txns \in Int /\ receivable \in Int
      /\ opening \in Int /\ Owes(invoice) \in Int /\ posted \in BOOLEAN
  BY OwesNat DEF CreditInv, CreditTypes
<1>6. row \in InvoiceRow /\ row.status = "deleted" /\ row.due = 0
  BY <1>5 DEF InvoiceRow
<1>7. C!Stale(u, i) = {} => invoice[i].due = due
  BY DEF C!Stale, C!Lapse
<1>8. invoice[i].total \in Nat /\ invoice[i].due \in Nat
  BY <1>5 DEF InvoiceRow
<1> HIDE DEF row, due, known, seen
<1>9. RowOK(row) /\ saleLapses \subseteq saleLapses'
  BY <1>1, <1>6 DEF RowOK
<1>10. /\ invoice' \in [Invoices -> InvoiceRow] /\ RowsOK' /\ Owes(invoice)' = Owes(invoice) - invoice[i].due + row.due
       /\ \A j \in Invoices \ {i} : invoice'[j] = invoice[j]
  BY <1>1, <1>6, <1>9, RowChange
<1>11. saleWork' \in [Users -> {C!Idle} \cup Loaded \cup Holding] /\ LocksOK'
  <2>1. \A v \in Users \ {u} : ~Holds(v, i)
    BY <1>1 DEF Holds, C!Locked
  <2> QED BY <1>1, <1>10, <2>1, RequestEnds
<1>12. /\ C!Lowered(known, due) \in Int /\ C!Booked(due) \in Int /\ txns - due \in Int
       /\ C!Overtaken(known) = {} /\ C!Clamped(known, due) = {} => C!Lowered(known, due) = balance - due
  BY <1>3, <1>4, ReceiveIs
<1>13. C!Booked(due) - invoice[i].total \in Int /\ receivable - invoice[i].total \in Int
  BY <1>5, <1>8, <1>12
<1>14. balance' \in Int /\ txns' \in Int /\ receivable' \in Int /\ posted' \in BOOLEAN
  BY <1>2, <1>5, <1>12, <1>13
<1>15. CreditTypes'
  BY <1>1, <1>10, <1>11, <1>14 DEF CreditInv, CreditTypes
<1>16. ASSUME "overtaken" \notin saleLapses', "clamped" \notin saleLapses'
       PROVE  balance' = balance - due /\ txns' = txns - due
  <2>1. CASE due > 0
    <3>1. C!Overtaken(known) = {} /\ C!Clamped(known, due) = {}
      BY <1>1, <1>16, <2>1, Lapsed
    <3> QED BY <1>2, <1>12, <2>1, <3>1
  <2>2. CASE ~(due > 0)
    <3>1. due = 0
      BY <1>4, <2>2
    <3>2. balance' = balance /\ txns' = txns
      BY <1>2, <2>2
    <3> QED BY <1>5, <3>1, <3>2
  <2> QED BY <2>1, <2>2
<1>17. ASSUME saleLapses' \cap {"overtaken", "clamped", "recorded twice"} = {} PROVE balance' = opening' + txns'
  <2>1. balance = opening + txns /\ balance' = balance - due /\ txns' = txns - due /\ opening' = opening
    BY <1>1, <1>9, <1>16, <1>17 DEF CreditInv, C!TransactionsExplainBalance
  <2>2. balance - due = opening + (txns - due)
    BY <1>4, <1>5, <2>1
  <2> QED BY <2>1, <2>2
<1>18. ASSUME saleLapses' \subseteq {"delete", "second payment", "recorded twice"} PROVE balance' = opening' + Owes(invoice)'
  <2>1. balance = opening + Owes(invoice) /\ balance' = balance - due /\ opening' = opening
    BY <1>1, <1>9, <1>16, <1>18 DEF CreditInv, Covers
  <2>2. C!Stale(u, i) = {}
    BY <1>1, <1>18 DEF C!Stale, C!Lapse
  <2>3. Owes(invoice)' = Owes(invoice) - due + 0
    BY <1>6, <1>7, <1>10, <2>2
  <2>4. balance - due = opening + (Owes(invoice) - due + 0)
    BY <1>4, <1>5, <2>1
  <2> QED BY <2>1, <2>3, <2>4
<1>19. "delete" \in saleLapses'
  BY <1>1
<1> QED BY <1>10, <1>11, <1>15, <1>17, <1>18, <1>19 DEF CreditInv, C!TransactionsExplainBalance, Covers, C!ReceivablesTie

LEMMA RefuseSaleOK ==
    ASSUME C!CreditAssumption, CreditInv, NEW u \in Users, C!Refuse(u) PROVE CreditInv'
<1>1. C!Finished(u) /\ UNCHANGED <<balance, store, txns, invoice, receivable, posted, sales, saleLapses, opening>>
  BY DEF C!Refuse
<1>2. saleWork' \in [Users -> {C!Idle} \cup Loaded \cup Holding] /\ LocksOK'
  BY <1>1, RequestEndsAlone
<1>3. invoice' \in [Invoices -> InvoiceRow] /\ RowsOK' /\ Owes(invoice)' = Owes(invoice)
  BY <1>1, RowsStay
<1>4. CreditTypes'
  BY <1>1, <1>2, <1>3 DEF CreditInv, CreditTypes
<1>5. C!TransactionsExplainBalance' /\ Covers' /\ C!ReceivablesTie'
  BY <1>1, <1>3 DEF CreditInv, C!TransactionsExplainBalance, Covers, C!ReceivablesTie
<1> QED BY <1>2, <1>3, <1>4, <1>5 DEF CreditInv

LEMMA BeginSaleOK ==
    ASSUME C!CreditAssumption, CreditInv, NEW u \in Users, NEW op \in SaleOps, C!Begin(u, op) PROVE CreditInv'
<1> DEFINE w == [op |-> op, step |-> "loaded", balance |-> balance, store |-> store, seen |-> invoice]
<1>1. /\ saleWork[u] = C!Idle /\ sales < MaxSales /\ sales' = sales + 1
      /\ saleWork' = [saleWork EXCEPT ![u] = w]
      /\ UNCHANGED <<balance, store, txns, invoice, receivable, posted, saleLapses, opening>>
  BY DEF C!Begin, C!Goto
<1>2. w \in Loaded
  BY DEF CreditInv, CreditTypes, Loaded
<1>3. w.step = "loaded"
  OBVIOUS
<1> HIDE DEF w
<1>4. /\ saleWork' \in [Users -> {C!Idle} \cup Loaded \cup Holding]
      /\ \A v \in Users : saleWork'[v] = IF v = u THEN w ELSE saleWork[v]
  BY <1>1, <1>2 DEF CreditInv, CreditTypes
<1>5. \A v \in Users, j \in Invoices : Holds(v, j)' => Holds(v, j) /\ saleWork'[v] = saleWork[v]
  BY <1>3, <1>4 DEF Holds
<1>6. LocksOK'
  BY <1>1, <1>5 DEF CreditInv, LocksOK
<1>7. invoice' \in [Invoices -> InvoiceRow] /\ RowsOK' /\ Owes(invoice)' = Owes(invoice)
  BY <1>1, RowsStay
<1>8. sales' \in 0..MaxSales
  BY <1>1 DEF CreditInv, CreditTypes, C!CreditAssumption
<1>9. CreditTypes'
  BY <1>1, <1>4, <1>7, <1>8 DEF CreditInv, CreditTypes
<1>10. C!TransactionsExplainBalance' /\ Covers' /\ C!ReceivablesTie'
  BY <1>1, <1>7 DEF CreditInv, C!TransactionsExplainBalance, Covers, C!ReceivablesTie
<1> QED BY <1>6, <1>7, <1>9, <1>10 DEF CreditInv

LEMMA LockAndLoadOK ==
    ASSUME C!CreditAssumption, CreditInv, NEW u \in Users, NEW i \in Invoices, NEW amount \in Amounts, C!LockAndLoad(u, i, amount)
    PROVE  CreditInv'
<1> DEFINE w == [op |-> saleWork[u].op, step |-> "locked", balance |-> saleWork[u].balance, store |-> saleWork[u].store,
                 seen |-> saleWork[u].seen, invoice |-> i, amount |-> amount, fresh |-> balance]
<1>1. /\ saleWork[u] # C!Idle /\ ~C!Locked(i) /\ invoice[i].status \in {"open", "void"} /\ amount <= invoice[i].due
      /\ saleWork' = [saleWork EXCEPT ![u] = w]
      /\ UNCHANGED <<balance, store, txns, invoice, receivable, posted, sales, saleLapses, opening>>
  BY DEF C!LockAndLoad, C!CanPay, C!Goto
<1>2. amount \in Nat /\ balance \in Int
  BY DEF C!CreditAssumption, CreditInv, CreditTypes
<1>3. w \in Holding /\ w.invoice = i /\ w.amount = amount
  BY <1>1, <1>2, SaleShape DEF Holding
<1> HIDE DEF w
<1>4. /\ saleWork' \in [Users -> {C!Idle} \cup Loaded \cup Holding]
      /\ \A v \in Users : saleWork'[v] = IF v = u THEN w ELSE saleWork[v]
  BY <1>1, <1>3 DEF CreditInv, CreditTypes
<1>5. \A v \in Users : ~Holds(v, i)
  BY <1>1 DEF Holds, C!Locked
<1>6. \A v \in Users \ {u}, j \in Invoices : Holds(v, j)' <=> Holds(v, j)
  BY <1>4 DEF Holds
<1>7. \A j \in Invoices : Holds(u, j)' => j = i
  BY <1>3, <1>4 DEF Holds
<1>8. ASSUME NEW v \in Users, NEW j \in Invoices, Holds(v, j)'
      PROVE  /\ invoice'[j].status \in {"open", "void"} /\ saleWork'[v].amount <= invoice'[j].due
             /\ \A x \in Users \ {v} : ~Holds(x, j)'
  <2>1. CASE v = u
    <3>1. j = i /\ saleWork'[v].amount = amount
      BY <1>3, <1>4, <1>7, <1>8, <2>1
    <3> QED BY <1>1, <1>5, <1>6, <2>1, <3>1
  <2>2. CASE v # u
    <3>1. Holds(v, j) /\ saleWork'[v] = saleWork[v]
      BY <1>4, <1>6, <1>8, <2>2
    <3>2. j # i
      BY <1>5, <3>1
    <3> QED BY <1>1, <1>6, <1>7, <3>1, <3>2 DEF CreditInv, LocksOK
  <2> QED BY <2>1, <2>2
<1>9. LocksOK'
  BY <1>8 DEF LocksOK
<1>10. invoice' \in [Invoices -> InvoiceRow] /\ RowsOK' /\ Owes(invoice)' = Owes(invoice)
  BY <1>1, RowsStay
<1>11. CreditTypes'
  BY <1>1, <1>4, <1>10 DEF CreditInv, CreditTypes
<1>12. C!TransactionsExplainBalance' /\ Covers' /\ C!ReceivablesTie'
  BY <1>1, <1>10 DEF CreditInv, C!TransactionsExplainBalance, Covers, C!ReceivablesTie
<1> QED BY <1>9, <1>10, <1>11, <1>12 DEF CreditInv

LEMMA CreditStepOK == ASSUME C!CreditAssumption, CreditInv, [C!Next]_(C!vars) PROVE CreditInv'
<1>1. CASE UNCHANGED C!vars
  <2>1. UNCHANGED <<balance, store, txns, opening, invoice, receivable, posted, saleWork, sales, saleLapses>>
    BY <1>1 DEF C!vars
  <2>2. invoice' \in [Invoices -> InvoiceRow] /\ RowsOK' /\ Owes(invoice)' = Owes(invoice)
    BY <2>1, RowsStay
  <2>3. CreditTypes' /\ LocksOK'
    BY <2>1 DEF CreditInv, CreditTypes, LocksOK, Holds
  <2>4. C!TransactionsExplainBalance' /\ Covers' /\ C!ReceivablesTie'
    BY <2>1, <2>2 DEF CreditInv, C!TransactionsExplainBalance, Covers, C!ReceivablesTie
  <2> QED BY <2>2, <2>3, <2>4 DEF CreditInv
<1>2. ASSUME NEW u \in Users, NEW op \in SaleOps, C!Begin(u, op) PROVE CreditInv'
  BY <1>2, BeginSaleOK
<1>3. ASSUME NEW u \in Users, NEW i \in Invoices, NEW total \in Amounts, NEW credit \in Amounts \cup {0}, C!Sell(u, i, total, credit)
      PROVE  CreditInv'
  BY <1>3, SellOK
<1>4. ASSUME NEW u \in Users, NEW i \in Invoices, NEW amount \in Amounts, C!LockAndLoad(u, i, amount) \/ C!Return(u, i, amount)
      PROVE  CreditInv'
  BY <1>4, LockAndLoadOK, ReturnGoodsOK
<1>5. ASSUME NEW u \in Users, C!PayInvoice(u) \/ C!PayByProvider(u) \/ C!PayByReceipt(u) \/ C!Refuse(u) PROVE CreditInv'
  BY <1>5, PayInvoiceOK, PayByProviderOK, PayByReceiptOK, RefuseSaleOK
<1>6. ASSUME NEW u \in Users, NEW amount \in Amounts, C!PayOnAccount(u, amount) PROVE CreditInv'
  BY <1>6, PayOnAccountOK
<1>7. ASSUME NEW u \in Users, NEW i \in Invoices, C!Void(u, i) \/ C!Delete(u, i) PROVE CreditInv'
  BY <1>7, VoidInvoiceOK, DeleteInvoiceOK
<1> QED BY <1>1, <1>2, <1>3, <1>4, <1>5, <1>6, <1>7 DEF C!Next, SaleOps

-----------------------------------------------------------------------------
(* Theorems about customers.                                               *)

LEMMA CreditInitOK == ASSUME C!CreditAssumption, C!Init PROVE CreditInv
<1>1. CreditTypes
  <2>1. invoice \in [Invoices -> InvoiceRow]
    BY DEF C!Init, InvoiceRow
  <2>2. opening \in Opening /\ opening \in Int /\ balance = opening /\ receivable = opening /\ txns = 0 /\ store = Store
    BY DEF C!Init, C!CreditAssumption
  <2>3. Store \in Int /\ 0 \in 0..MaxSales
    BY DEF C!CreditAssumption
  <2>4. saleWork \in [Users -> {C!Idle} \cup Loaded \cup Holding]
    BY DEF C!Init
  <2>5. sales \in 0..MaxSales /\ posted \in BOOLEAN
    BY <2>3 DEF C!Init
  <2> QED BY <2>1, <2>2, <2>3, <2>4, <2>5 DEF CreditTypes
<1>2. RowsOK /\ LocksOK
  BY DEF C!Init, RowsOK, RowOK, LocksOK, Holds
<1>3. Owes(invoice) = 0
  <2>1. \A i \in Invoices : Dues(invoice)[i] = 0
    BY DEF C!Init, Dues
  <2> QED BY <2>1, InvoicesFinite, SumZero DEF Owes
<1>4. balance = opening /\ txns = 0 /\ opening \in Int /\ receivable = balance
  BY DEF C!Init, C!CreditAssumption
<1>5. C!TransactionsExplainBalance /\ Covers /\ C!ReceivablesTie
  BY <1>3, <1>4 DEF C!TransactionsExplainBalance, Covers, C!ReceivablesTie
<1> QED BY <1>1, <1>2, <1>5 DEF CreditInv

\* Whatever sales, payments, returns, voids and deletions overlap, the invariant above holds.
THEOREM CreditInvariance == C!Spec => []CreditInv
<1>0. C!CreditAssumption
  BY PartnersAssumption DEF PartnersAssumption
<1>1. C!Init => CreditInv
  BY <1>0, CreditInitOK
<1>2. CreditInv /\ [C!Next]_(C!vars) => CreditInv'
  BY <1>0, CreditStepOK
<1> QED BY <1>1, <1>2, PTL DEF C!Spec

LEMMA CreditFollows == ASSUME C!CreditAssumption, CreditInv PROVE C!CreditAgrees
<1>1. C!MapThenSumSet(LAMBDA i : invoice[i].due, Invoices) = Owes(invoice)
  <2>1. invoice \in [Invoices -> InvoiceRow]
    BY DEF CreditInv, CreditTypes
  <2> QED BY <2>1, DueSum
<1>2. C!BalanceCoversInvoices
  BY <1>1 DEF CreditInv, Covers, C!BalanceCoversInvoices
<1> QED BY <1>2 DEF CreditInv, C!CreditAgrees

\* What a customer owes, for any number of invoices, amounts and requests on the account at the
\* same time: the balance is what the credit transactions add up to, what is due on the invoices,
\* and what the ledger has as receivable, each but for the overlaps and payments the model names.
THEOREM CreditMatches == C!Spec => []CreditAgrees
<1>1. CreditInv => CreditAgrees
  BY PartnersAssumption, CreditFollows DEF PartnersAssumption, CreditAgrees
<1> QED BY <1>1, CreditInvariance, PTL

LEMMA CreditTypesFollow == ASSUME CreditInv PROVE C!TypeOK
<1>1. InvoiceRow \subseteq [status : {"none", "open", "paid", "void", "deleted"}, total : Nat,
                            paid : Nat, due : Int, stamped : BOOLEAN, voided : BOOLEAN]
  BY DEF InvoiceRow
<1>2. DOMAIN saleWork = Users
  BY DEF CreditInv, CreditTypes
<1> QED BY <1>1, <1>2 DEF CreditInv, CreditTypes, C!TypeOK

-----------------------------------------------------------------------------
\* Every variable of the three keeps its type, whatever the requests of each.
THEOREM PartnersTypes == PartnersSpec => []PartnersTypeOK
<1>1. IInv /\ BillInv /\ CreditInv => PartnersTypeOK
  BY TypesFollow, BillTypesFollow, CreditTypesFollow DEF PartnersTypeOK
<1> QED BY <1>1, ReceiptsInvariance, PayablesInvariance, CreditInvariance, PTL DEF PartnersSpec
=============================================================================
