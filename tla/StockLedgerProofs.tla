-------------------------- MODULE StockLedgerProofs --------------------------
(* What record_movement guarantees for every number of products,           *)
(* warehouses, concurrent requests and costs, and without the bounds.      *)
EXTENDS StockAtomicity, SequenceTheorems, SumTheorems

-----------------------------------------------------------------------------
(* Sequences of movements and of costs.                                    *)

\* A movement appended to a chain of balances extends it.
LEMMA LeadsAppend ==
    ASSUME NEW s \in Seq(Movement), NEW m \in Movement, NEW a \in Nat, NEW b \in Nat,
           Leads(a, s, b), m.after = b + m.qty
    PROVE  Leads(a, Append(s, m), m.after)
<1> DEFINE t == Append(s, m)
<1>1. /\ t \in Seq(Movement) /\ Len(t) = Len(s) + 1 /\ t[Len(s) + 1] = m
      /\ \A k \in 1..Len(s) : t[k] = s[k]
    BY AppendProperties
<1>2. t # <<>> BY <1>1
<1>3. ASSUME NEW k \in DOMAIN t
      PROVE  t[k].after = (IF k = 1 THEN a ELSE t[k - 1].after) + t[k].qty
    <2>1. k \in 1..(Len(s) + 1) BY <1>1
    <2>2. CASE k = Len(s) + 1
        <3>1. CASE s = <<>>
            <4>1. Len(s) = 0 BY <3>1
            <4> QED BY <4>1, <3>1, <2>2, <1>1 DEF Leads
        <3>2. CASE s # <<>>
            <4>1. Len(s) \in 1..Len(s) /\ k # 1 /\ k - 1 = Len(s) BY <3>2, <2>2
            <4>2. t[k - 1] = s[Len(s)] BY <4>1, <1>1
            <4> QED BY <4>1, <4>2, <3>2, <2>2, <1>1 DEF Leads
        <3> QED BY <3>1, <3>2
    <2>3. CASE k # Len(s) + 1
        <3>1. k \in 1..Len(s) /\ (k # 1 => k - 1 \in 1..Len(s)) BY <2>1, <2>3
        <3> QED BY <3>1, <1>1 DEF Leads
    <2> QED BY <2>2, <2>3
<1> QED BY <1>1, <1>2, <1>3 DEF Leads

\* Two chains of balances that meet make one.
LEMMA LeadsConcat ==
    ASSUME NEW s \in Seq(Movement), NEW t \in Seq(Movement),
           NEW a \in Nat, NEW b \in Nat, NEW c \in Nat,
           Leads(a, s, b), Leads(b, t, c)
    PROVE  Leads(a, s \o t, c)
<1> DEFINE u == s \o t
<1>1. /\ u \in Seq(Movement) /\ Len(u) = Len(s) + Len(t)
      /\ \A k \in 1..(Len(s) + Len(t)) : u[k] = (IF k <= Len(s) THEN s[k] ELSE t[k - Len(s)])
    BY ConcatProperties
<1>2. Len(s) \in Nat /\ Len(t) \in Nat OBVIOUS
<1>3. ASSUME NEW k \in DOMAIN u
      PROVE  u[k].after = (IF k = 1 THEN a ELSE u[k - 1].after) + u[k].qty
    <2>1. k \in 1..(Len(s) + Len(t)) BY <1>1
    <2>2. CASE k <= Len(s)
        <3>1. k \in 1..Len(s) /\ (k # 1 => k - 1 \in 1..Len(s)) BY <2>1, <2>2, <1>2
        <3>2. u[k] = s[k] /\ (k # 1 => u[k - 1] = s[k - 1]) BY <3>1, <1>1, <1>2
        <3> QED BY <3>1, <3>2 DEF Leads
    <2>3. CASE k = Len(s) + 1
        <3>1. 1 \in 1..Len(t) /\ k - Len(s) = 1 /\ u[k] = t[1] BY <2>1, <2>3, <1>1, <1>2
        <3>2. t[1].after = b + t[1].qty BY <3>1 DEF Leads
        <3>3. CASE s = <<>>
            <4>1. k = 1 /\ a = b BY <3>3, <2>3 DEF Leads
            <4> QED BY <4>1, <3>1, <3>2
        <3>4. CASE s # <<>>
            <4>1. k # 1 /\ k - 1 = Len(s) /\ Len(s) \in 1..Len(s) BY <3>4, <2>3, <1>2
            <4>2. u[k - 1] = s[Len(s)] BY <4>1, <1>1, <1>2
            <4>3. b = s[Len(s)].after BY <3>4 DEF Leads
            <4> QED BY <4>1, <4>2, <4>3, <3>1, <3>2
        <3> QED BY <3>3, <3>4
    <2>4. CASE k > Len(s) + 1
        <3>1. /\ k - Len(s) \in 1..Len(t) /\ k - Len(s) # 1 /\ k # 1
              /\ (k - 1) - Len(s) = (k - Len(s)) - 1 /\ k - 1 > Len(s)
              /\ k - 1 \in 1..(Len(s) + Len(t))
            BY <2>1, <2>4, <1>2
        <3>2. u[k] = t[k - Len(s)] /\ u[k - 1] = t[(k - Len(s)) - 1]
            BY <3>1, <2>1, <2>4, <1>1, <1>2
        <3> QED BY <3>1, <3>2 DEF Leads
    <2> QED BY <2>1, <2>2, <2>3, <2>4, <1>2
<1>4. c = (IF u = <<>> THEN a ELSE u[Len(u)].after)
    <2>1. CASE t = <<>>
        <3>1. u = s /\ b = c BY <2>1, <1>1 DEF Leads
        <3> QED BY <3>1 DEF Leads
    <2>2. CASE t # <<>>
        <3>1. Len(t) \in 1..Len(t) /\ u # <<>> /\ Len(u) \in 1..(Len(s) + Len(t))
            BY <2>2, <1>1, <1>2
        <3>2. u[Len(u)] = t[Len(t)] BY <3>1, <1>1, <1>2
        <3> QED BY <3>1, <3>2, <2>2 DEF Leads
    <2> QED BY <2>1, <2>2
<1> QED BY <1>3, <1>4 DEF Leads

\* n units at one cost.
LEMMA TimesType ==
    ASSUME NEW n \in Nat, NEW c \in Costs
    PROVE  Times(n, c) \in Seq(Costs) /\ Len(Times(n, c)) = n
BY DEF Times

\* Consuming layers splits them: what is taken and what is kept are both layers,
\* and no unit is in both.
LEMMA ConsumeLayers ==
    ASSUME NEW s \in Seq(Costs), NEW n \in Nat, NEW m
    PROVE  /\ Taken(s, n, m) \in Seq(Costs) /\ Kept(s, n, m) \in Seq(Costs)
           /\ Len(Taken(s, n, m)) = Minimum(n, Len(s))
           /\ Len(Kept(s, n, m)) = Len(s) - Minimum(n, Len(s))
<1> DEFINE k == Minimum(n, Len(s))
<1>1. k \in 0..Len(s) BY DEF Minimum
<1>2. \A i, j \in Int : i >= 1 /\ j <= Len(s) /\ i <= j + 1 =>
        SubSeq(s, i, j) \in Seq(Costs) /\ Len(SubSeq(s, i, j)) = j - i + 1
    <2> SUFFICES ASSUME NEW i \in Int, NEW j \in Int, i >= 1, j <= Len(s), i <= j + 1
                 PROVE  SubSeq(s, i, j) \in Seq(Costs) /\ Len(SubSeq(s, i, j)) = j - i + 1
        OBVIOUS
    <2>1. SubSeq(s, i, j) = [x \in 1..(j - i + 1) |-> s[i + x - 1]] OBVIOUS
    <2>2. \A x \in 1..(j - i + 1) : s[i + x - 1] \in Costs
        <3> TAKE x \in 1..(j - i + 1)
        <3>1. i + x - 1 \in 1..Len(s) OBVIOUS
        <3> QED BY <3>1
    <2> QED BY <2>1, <2>2
<1>3. SubSeq(s, 1, k) \in Seq(Costs) /\ Len(SubSeq(s, 1, k)) = k BY <1>1, <1>2
<1>4. SubSeq(s, k + 1, Len(s)) \in Seq(Costs) /\ Len(SubSeq(s, k + 1, Len(s))) = Len(s) - k
    BY <1>1, <1>2
<1>5. SubSeq(s, Len(s) - k + 1, Len(s)) \in Seq(Costs)
      /\ Len(SubSeq(s, Len(s) - k + 1, Len(s))) = k
    BY <1>1, <1>2
<1>6. SubSeq(s, 1, Len(s) - k) \in Seq(Costs) /\ Len(SubSeq(s, 1, Len(s) - k)) = Len(s) - k
    BY <1>1, <1>2
<1> QED BY <1>3, <1>4, <1>5, <1>6 DEF Taken, Kept

\* One movement: its unit costs and the layers after it are costs again, and
\* layers that covered the stock before it cover the stock after it.
LEMMA LegCosts ==
    ASSUME NEW s \in Seq(Costs), NEW leg \in Leg, NEW onHand \in Nat,
           onHand <= Len(s), onHand + leg.qty \in Nat
    PROVE  /\ LayersAfter(s, leg) \in Seq(Costs) /\ UnitCosts(s, leg) \in Seq(Costs)
           /\ onHand + leg.qty <= Len(LayersAfter(s, leg))
<1> DEFINE q == leg.qty
           c == leg.cost
           m == Method[leg.item[1]]
<1>1. q \in Int /\ c \in Costs /\ Len(s) \in Nat BY DEF Leg
<1>2. /\ LayersAfter(s, leg) = (IF q > 0 THEN s \o Times(q, c)
                                ELSE IF UsesLayers(leg) THEN Kept(s, -q, m) ELSE s)
      /\ UnitCosts(s, leg) = (IF q > 0 THEN Times(q, c)
                              ELSE IF UsesLayers(leg)
                              THEN Taken(s, -q, m) \o Times(-q - Len(Taken(s, -q, m)), c)
                              ELSE Times(-q, c))
    BY DEF LayersAfter, UnitCosts
<1>3. onHand + q \in Nat OBVIOUS
<1> HIDE DEF q, c, m
<1>4. CASE q > 0
    <2>1. q \in Nat BY <1>1, <1>4
    <2>2. Times(q, c) \in Seq(Costs) /\ Len(Times(q, c)) = q BY <1>1, <2>1, TimesType
    <2>3. s \o Times(q, c) \in Seq(Costs) /\ Len(s \o Times(q, c)) = Len(s) + q
        BY <2>2, ConcatProperties
    <2>4. onHand + q <= Len(s) + q BY <1>1
    <2>5. LayersAfter(s, leg) = s \o Times(q, c) /\ UnitCosts(s, leg) = Times(q, c)
        BY <1>2, <1>4
    <2> QED BY <2>2, <2>3, <2>4, <2>5 DEF q
<1>5. CASE ~(q > 0) /\ UsesLayers(leg)
    <2>1. -q \in Nat BY <1>1, <1>5
    <2>2. /\ Taken(s, -q, m) \in Seq(Costs) /\ Kept(s, -q, m) \in Seq(Costs)
          /\ Len(Taken(s, -q, m)) = Minimum(-q, Len(s))
          /\ Len(Kept(s, -q, m)) = Len(s) - Minimum(-q, Len(s))
        BY <2>1, ConsumeLayers
    <2>3. -q - Len(Taken(s, -q, m)) \in Nat BY <1>1, <2>1, <2>2 DEF Minimum
    <2>4. Times(-q - Len(Taken(s, -q, m)), c) \in Seq(Costs) BY <1>1, <2>3, TimesType
    <2>5. Taken(s, -q, m) \o Times(-q - Len(Taken(s, -q, m)), c) \in Seq(Costs)
        BY <2>2, <2>4, ConcatProperties
    <2>6. onHand + q <= Len(s) - Minimum(-q, Len(s))
        <3>1. -q <= Len(s) BY <1>1, <1>3
        <3>2. Minimum(-q, Len(s)) = -q BY <1>1, <3>1 DEF Minimum
        <3> QED BY <1>1, <3>2
    <2>7. /\ LayersAfter(s, leg) = Kept(s, -q, m)
          /\ UnitCosts(s, leg) = Taken(s, -q, m) \o Times(-q - Len(Taken(s, -q, m)), c)
        BY <1>2, <1>5
    <2> QED BY <2>2, <2>5, <2>6, <2>7 DEF q
<1>6. CASE ~(q > 0) /\ ~UsesLayers(leg)
    <2>1. -q \in Nat BY <1>1, <1>6
    <2>2. Times(-q, c) \in Seq(Costs) BY <1>1, <2>1, TimesType
    <2>3. LayersAfter(s, leg) = s /\ UnitCosts(s, leg) = Times(-q, c) BY <1>2, <1>6
    <2>4. onHand + q <= Len(s) BY <1>1, <1>6
    <2> QED BY <2>2, <2>3, <2>4 DEF q
<1> QED BY <1>4, <1>5, <1>6

\* What has been written for one item since the row lock was granted: the
\* movements lead from the committed balance to the written one, and the layers
\* cover it.
WorkOK(start, w) == Leads(start, w.entries, w.row.onHand) /\ w.row.onHand <= Len(w.layers)

\* One accepted movement keeps all of that.
LEMMA MovedOK ==
    ASSUME NEW w \in Work, NEW leg \in Leg, NEW start \in Nat,
           Accepted(w, leg), WorkOK(start, w)
    PROVE  Moved(w, leg) \in Work /\ WorkOK(start, Moved(w, leg))
<1> DEFINE balance == w.row.onHand + leg.qty
           entry == [kind |-> leg.kind, qty |-> leg.qty, after |-> balance,
                     costs |-> UnitCosts(w.layers, leg)]
<1>1. /\ leg.item \in Items /\ leg.qty \in Int /\ leg.cost \in Costs /\ leg.kind \in Kinds
      /\ w.row \in Row /\ w.row.onHand \in Nat /\ w.layers \in Seq(Costs)
      /\ w.entries \in Seq(Movement)
    BY DEF Leg, Work, Row
<1>2. balance \in Nat BY <1>1 DEF Accepted
<1>3. /\ LayersAfter(w.layers, leg) \in Seq(Costs) /\ UnitCosts(w.layers, leg) \in Seq(Costs)
      /\ balance <= Len(LayersAfter(w.layers, leg))
    BY <1>1, <1>2, LegCosts DEF WorkOK
<1>4. entry \in Movement BY <1>1, <1>2, <1>3 DEF Movement
<1>5. Leads(start, Append(w.entries, entry), balance)
    <2>1. Leads(start, w.entries, w.row.onHand) /\ entry.after = w.row.onHand + entry.qty
        BY DEF WorkOK
    <2>2. entry.after = balance OBVIOUS
    <2> HIDE DEF entry, balance
    <2>3. Leads(start, Append(w.entries, entry), entry.after)
        BY <1>1, <1>4, <2>1, LeadsAppend
    <2> QED BY <2>2, <2>3
<1>6. Append(w.entries, entry) \in Seq(Movement) BY <1>1, <1>4, AppendProperties
<1>7. Moved(w, leg) = [row |-> [status |-> "live", onHand |-> balance],
                       layers |-> LayersAfter(w.layers, leg),
                       entries |-> Append(w.entries, entry)]
    BY DEF Moved
<1> HIDE DEF entry, balance
<1>8. Moved(w, leg) \in Work BY <1>2, <1>3, <1>6, <1>7 DEF Work, Row
<1>9. WorkOK(start, Moved(w, leg)) BY <1>3, <1>5, <1>7 DEF WorkOK
<1> QED BY <1>8, <1>9

-----------------------------------------------------------------------------
(* The inductive invariant.                                                *)

\* A row lock has one owner; a transaction's own writes continue the committed
\* ledger of the row; the committed ledger explains the committed stock.
LocksExclusive ==
    \A r, q \in Requests : r # q => DOMAIN work[r] \cap DOMAIN work[q] = {}
WorksOK ==
    \A r \in Requests : \A i \in DOMAIN work[r] : WorkOK(row[i].onHand, work[r][i])
IInv == TypeOK /\ LocksExclusive /\ WorksOK /\ LedgerExplainsStock /\ LayersCoverStock

ReqType == [active : BOOLEAN, legs : Seq(Leg), remove : Items \cup {NoItem}]

\* Two ways to say that every request holds a function on some of the items.
Holdings == [Requests -> UNION {[S -> Work] : S \in SUBSET Items}]
LEMMA HoldingsForm ==
    ASSUME NEW f
    PROVE  f \in Holdings <=>
             /\ f = [r \in Requests |-> f[r]]
             /\ \A r \in Requests : \E S \in SUBSET Items : f[r] \in [S -> Work]
BY DEF Holdings

LEMMA TypeOKHoldings ==
    ASSUME TypeOK PROVE work \in Holdings
BY HoldingsForm DEF TypeOK

\* What a request holds is a function on the items it has locked.
LEMMA WorkType ==
    ASSUME TypeOK, NEW r \in Requests
    PROVE  /\ DOMAIN work[r] \subseteq Items
           /\ \A i \in DOMAIN work[r] : work[r][i] \in Work
           /\ work[r] = [i \in DOMAIN work[r] |-> work[r][i]]
<1>1. PICK S \in SUBSET Items : work[r] \in [S -> Work] BY DEF TypeOK
<1> QED BY <1>1

\* The row under its lock is well formed and continues the committed ledger.
LEMMA SeenOK ==
    ASSUME IInv, NEW r \in Requests, NEW i \in Items
    PROVE  Seen(r, i) \in Work /\ WorkOK(row[i].onHand, Seen(r, i))
<1>1. CASE Owns(r, i)
    BY <1>1, WorkType DEF IInv, WorksOK, Owns, Seen
<1>2. CASE ~Owns(r, i)
    <2> DEFINE w == [row |-> row[i], layers |-> layers[i], entries |-> <<>>]
    <2>1. Seen(r, i) = w BY <1>2 DEF Seen
    <2>2. row[i] \in Row /\ layers[i] \in Seq(Costs) BY DEF IInv, TypeOK
    <2>3. w \in Work BY <2>2 DEF Work
    <2>4. Leads(row[i].onHand, <<>>, row[i].onHand) BY DEF Leads
    <2>5. row[i].onHand <= Len(layers[i]) BY DEF IInv, LayersCoverStock
    <2> QED BY <2>1, <2>3, <2>4, <2>5 DEF WorkOK
<1> QED BY <1>1, <1>2

\* Starting a request changes only what it has to do.
LEMMA StartOK ==
    ASSUME IInv, NEW r \in Requests, NEW legs \in Seq(Leg), NEW remove \in Items \cup {NoItem},
           Start(r, legs, remove)
    PROVE  IInv'
<1>1. req' \in [Requests -> ReqType] BY DEF IInv, TypeOK, Start, ReqType
<1> QED BY <1>1 DEF IInv, TypeOK, Start, ReqType, LocksExclusive, WorksOK, LedgerExplainsStock,
                    LayersCoverStock

\* Every request starts with well-formed movements.
LEMMA BeginOK ==
    ASSUME IInv, NEW r \in Requests, Begin(r)
    PROVE  IInv'
<1>1. \A i \in Items, q \in Int, c \in Costs, k \in Kinds : Move(i, q, c, k) \in Leg
    BY DEF Move, Leg
<1>2. \A l \in Leg : <<l>> \in Seq(Leg) OBVIOUS
<1>3. CostPrice \in Costs /\ MaxQty \in Nat /\ OpeningTargets \subseteq Nat
    BY CostAssumption, BoundAssumption
<1>4. CASE ReceiveStock(r)
    <2>1. PICK i \in Items, q \in 1..MaxQty, c \in Costs : Start(r, <<Move(i, q, c, "in")>>, NoItem)
        BY <1>4 DEF ReceiveStock
    <2>2. <<Move(i, q, c, "in")>> \in Seq(Leg) BY <1>1, <1>2, <1>3 DEF Kinds
    <2> QED BY <2>1, <2>2, StartOK
<1>5. CASE AdjustStock(r)
    <2>1. PICK i \in Items, q \in -MaxQty..MaxQty :
            Start(r, <<Move(i, q, CostPrice, IF q > 0 THEN "in" ELSE "out")>>, NoItem)
        BY <1>5 DEF AdjustStock
    <2>2. (IF q > 0 THEN "in" ELSE "out") \in Kinds BY DEF Kinds
    <2>3. <<Move(i, q, CostPrice, IF q > 0 THEN "in" ELSE "out")>> \in Seq(Leg)
        BY <2>2, <1>1, <1>2, <1>3
    <2> QED BY <2>1, <2>3, StartOK
<1>6. CASE TransferStock(r)
    <2>1. PICK p \in Products, a \in Warehouses, b \in Warehouses, q \in 1..MaxQty :
            Start(r, <<Move(<<p, a>>, -q, CostPrice, "out"),
                       Move(<<p, b>>, q, CostPrice, "in")>>, NoItem)
        BY <1>6 DEF TransferStock
    <2>2. <<p, a>> \in Items /\ <<p, b>> \in Items BY DEF Items
    <2>3. /\ Move(<<p, a>>, -q, CostPrice, "out") \in Leg
          /\ Move(<<p, b>>, q, CostPrice, "in") \in Leg
        BY <2>2, <1>1, <1>3 DEF Kinds
    <2>4. <<Move(<<p, a>>, -q, CostPrice, "out"), Move(<<p, b>>, q, CostPrice, "in")>> \in Seq(Leg)
        BY <2>3
    <2> QED BY <2>1, <2>4, StartOK
<1>7. CASE SellStock(r)
    <2>1. PICK w \in Warehouses, n \in 1..MaxLines :
            \E ps \in [1..n -> Products], q \in 1..MaxQty, c \in Costs :
                Start(r, [k \in 1..n |-> Move(<<ps[k], w>>, -q, c, "sale")], NoItem)
        BY <1>7 DEF SellStock
    <2>2. PICK ps \in [1..n -> Products], q \in 1..MaxQty, c \in Costs :
            Start(r, [k \in 1..n |-> Move(<<ps[k], w>>, -q, c, "sale")], NoItem)
        BY <2>1
    <2>3. ASSUME NEW k \in 1..n PROVE Move(<<ps[k], w>>, -q, c, "sale") \in Leg
        <3>1. <<ps[k], w>> \in Items BY DEF Items
        <3> QED BY <3>1, <1>1, <1>3 DEF Kinds
    <2>4. n \in Nat BY BoundAssumption
    <2>5. [k \in 1..n |-> Move(<<ps[k], w>>, -q, c, "sale")] \in Seq(Leg) BY <2>3, <2>4
    <2> QED BY <2>2, <2>5, StartOK
<1>8. CASE SetOpeningBalance(r)
    <2>1. PICK i \in Items, d \in Int : Start(r, <<Move(i, d, CostPrice, "opening")>>, NoItem)
        BY <1>8 DEF SetOpeningBalance
    <2>2. <<Move(i, d, CostPrice, "opening")>> \in Seq(Leg) BY <1>1, <1>2, <1>3 DEF Kinds
    <2> QED BY <2>1, <2>2, StartOK
<1>9. CASE DestroyStockItem(r)
    <2> DEFINE lines(i) == IF row[i].onHand > 0
                           THEN <<Move(i, -row[i].onHand, CostPrice, "out")>> ELSE <<>>
    <2>1. PICK i \in Items : Start(r, lines(i), i) BY <1>9 DEF DestroyStockItem
    <2>2. row[i].onHand \in Nat BY DEF IInv, TypeOK, Row
    <2>3. Move(i, -row[i].onHand, CostPrice, "out") \in Leg BY <2>2, <1>1, <1>3 DEF Kinds
    <2>4. lines(i) \in Seq(Leg) BY <2>3, <1>2
    <2> QED BY <2>1, <2>4, StartOK
<1> QED BY <1>4, <1>5, <1>6, <1>7, <1>8, <1>9 DEF Begin

\* Writing one locked row keeps the invariant if what is written continues the ledger.
LEMMA WriteOK ==
    ASSUME IInv, NEW r \in Requests, NEW i \in Items, NEW w \in Work,
           Free(r, i), WorkOK(row[i].onHand, w), Write(r, i, w),
           req' \in [Requests -> ReqType], UNCHANGED <<row, layers, ledger>>
    PROVE  IInv'
<1> DEFINE D == DOMAIN work[r] \cup {i}
           f == [j \in D |-> IF j = i THEN w ELSE work[r][j]]
<1>1. work' = [work EXCEPT ![r] = f] BY DEF Write
<1>2. work \in Holdings BY TypeOKHoldings DEF IInv
<1>3. D \in SUBSET Items /\ f \in [D -> Work]
    <2>1. DOMAIN work[r] \subseteq Items /\ \A j \in DOMAIN work[r] : work[r][j] \in Work
        BY WorkType DEF IInv
    <2> QED BY <2>1
<1>4. work'[r] = f /\ DOMAIN work'[r] = D /\ \A q \in Requests \ {r} : work'[q] = work[q]
    BY <1>1, <1>2 DEF Holdings
<1>5. TypeOK'
    <2>1. f \in UNION {[S -> Work] : S \in SUBSET Items} BY <1>3
    <2> HIDE DEF f
    <2>2. work' \in Holdings BY <1>1, <1>2, <2>1 DEF Holdings
    <2> QED BY <2>2, HoldingsForm DEF IInv, TypeOK, ReqType
<1>6. LocksExclusive'
    <2>1. \A q \in Requests \ {r} : i \notin DOMAIN work[q] BY DEF Free, Owns
    <2> QED BY <1>4, <2>1 DEF IInv, LocksExclusive
<1>7. WorksOK'
    <2> SUFFICES ASSUME NEW q \in Requests, NEW j \in DOMAIN work'[q]
                 PROVE  WorkOK(row[j].onHand, work'[q][j])
        BY DEF WorksOK, WorkOK
    <2>1. CASE q = r /\ j = i BY <2>1, <1>4
    <2>2. CASE q = r /\ j # i BY <2>2, <1>4 DEF IInv, WorksOK
    <2>3. CASE q # r BY <2>3, <1>4 DEF IInv, WorksOK
    <2> QED BY <2>1, <2>2, <2>3
<1>8. LedgerExplainsStock' /\ LayersCoverStock'
    BY DEF IInv, LedgerExplainsStock, LayersCoverStock
<1> QED BY <1>5, <1>6, <1>7, <1>8 DEF IInv

\* A transaction that ends gives up its locks; a rollback writes nothing.
LEMMA RollbackOK ==
    ASSUME IInv, NEW r \in Requests, Rollback(r)
    PROVE  IInv'
<1>1. req' \in [Requests -> ReqType]
    BY DEF IInv, TypeOK, Rollback, Idle, ReqType
<1>2. work \in Holdings BY TypeOKHoldings DEF IInv
<1>3. /\ work'[r] = <<>> /\ DOMAIN work'[r] = {}
      /\ \A q \in Requests \ {r} : work'[q] = work[q]
    BY <1>2 DEF Rollback, Holdings
<1>4. <<>> \in [{} -> Work] OBVIOUS
<1>5. work' \in Holdings
    BY <1>2, <1>4 DEF Holdings, Rollback
<1>6. TypeOK' BY <1>1, <1>5, HoldingsForm DEF IInv, TypeOK, ReqType, Rollback
<1>7. LocksExclusive' BY <1>3 DEF IInv, LocksExclusive
<1>8. WorksOK'
    <2> SUFFICES ASSUME NEW q \in Requests, NEW j \in DOMAIN work'[q]
                 PROVE  WorkOK(row[j].onHand, work'[q][j])
        BY DEF WorksOK, WorkOK, Rollback
    <2>1. q # r BY <1>3
    <2> QED BY <2>1, <1>3 DEF IInv, WorksOK
<1> QED BY <1>6, <1>7, <1>8 DEF IInv, Rollback, LedgerExplainsStock, LayersCoverStock

\* A commit moves the written chains of balances to the end of the ledger.
LEMMA CommitOK ==
    ASSUME IInv, NEW r \in Requests, Commit(r)
    PROVE  IInv'
<1>1. req' \in [Requests -> ReqType]
    BY DEF IInv, TypeOK, Commit, Idle, ReqType
<1>2. work \in Holdings BY TypeOKHoldings DEF IInv
<1>3. /\ work'[r] = <<>> /\ DOMAIN work'[r] = {}
      /\ \A q \in Requests \ {r} : work'[q] = work[q]
    BY <1>2 DEF Commit, Holdings
<1>4. <<>> \in [{} -> Work] OBVIOUS
<1>5. work' \in Holdings
    BY <1>2, <1>4 DEF Holdings, Commit
<1>6. ASSUME NEW i \in Items
      PROVE  /\ row'[i] \in Row /\ layers'[i] \in Seq(Costs) /\ ledger'[i] \in Seq(Movement)
             /\ Leads(0, ledger'[i], row'[i].onHand) /\ row'[i].onHand <= Len(layers'[i])
             /\ ~Owns(r, i) => row'[i] = row[i]
    <2>1. /\ row[i] \in Row /\ layers[i] \in Seq(Costs) /\ ledger[i] \in Seq(Movement)
          /\ Leads(0, ledger[i], row[i].onHand) /\ row[i].onHand <= Len(layers[i])
        BY DEF IInv, TypeOK, LedgerExplainsStock, LayersCoverStock
    <2>2. CASE ~Owns(r, i)
        <3>1. row'[i] = row[i] /\ layers'[i] = layers[i] /\ ledger'[i] = ledger[i]
            BY <2>2 DEF Commit
        <3> QED BY <3>1, <2>1
    <2>3. CASE Owns(r, i)
        <3> DEFINE w == work[r][i]
        <3>1. w \in Work /\ WorkOK(row[i].onHand, w)
            BY <2>3, WorkType DEF IInv, WorksOK, Owns
        <3>2. row'[i] = w.row /\ layers'[i] = w.layers /\ ledger'[i] = ledger[i] \o w.entries
            BY <2>3 DEF Commit
        <3> HIDE DEF w
        <3>3. /\ w.row \in Row /\ w.layers \in Seq(Costs) /\ w.entries \in Seq(Movement)
              /\ w.row.onHand \in Nat /\ row[i].onHand \in Nat
            BY <3>1, <2>1 DEF Work, Row
        <3>4. Leads(0, ledger[i] \o w.entries, w.row.onHand)
            BY <2>1, <3>1, <3>3, LeadsConcat DEF WorkOK
        <3>5. ledger[i] \o w.entries \in Seq(Movement) BY <2>1, <3>3, ConcatProperties
        <3>6. w.row.onHand <= Len(w.layers) BY <3>1 DEF WorkOK
        <3> QED BY <2>3, <3>2, <3>3, <3>4, <3>5, <3>6
    <2> QED BY <2>2, <2>3
<1>7. TypeOK'
    <2>1. /\ row' = [i \in Items |-> row'[i]] /\ layers' = [i \in Items |-> layers'[i]]
          /\ ledger' = [i \in Items |-> ledger'[i]]
        BY DEF Commit
    <2>2. /\ row' \in [Items -> Row] /\ layers' \in [Items -> Seq(Costs)]
          /\ ledger' \in [Items -> Seq(Movement)]
        BY <2>1, <1>6
    <2> QED BY <2>2, <1>1, <1>5, HoldingsForm DEF TypeOK, ReqType
<1>8. LocksExclusive' BY <1>3 DEF IInv, LocksExclusive
<1>9. WorksOK'
    <2> SUFFICES ASSUME NEW q \in Requests, NEW j \in DOMAIN work'[q]
                 PROVE  WorkOK(row'[j].onHand, work'[q][j])
        BY DEF WorksOK, WorkOK
    <2>1. q # r /\ work'[q] = work[q] BY <1>3
    <2>2. j \in Items BY <2>1, WorkType DEF IInv
    <2>3. ~Owns(r, j) BY <2>1 DEF IInv, LocksExclusive, Owns
    <2>4. row'[j] = row[j] BY <2>2, <2>3, <1>6
    <2> QED BY <2>1, <2>4 DEF IInv, WorksOK
<1>10. LedgerExplainsStock' /\ LayersCoverStock'
    BY <1>6 DEF LedgerExplainsStock, LayersCoverStock
<1> QED BY <1>7, <1>8, <1>9, <1>10 DEF IInv

\* A movement, applied under the lock of its row.
LEMMA RecordMovementOK ==
    ASSUME IInv, NEW r \in Requests, RecordMovement(r)
    PROVE  IInv'
<1> DEFINE leg == Head(req[r].legs)
           i == leg.item
           w == Moved(Seen(r, i), leg)
<1>1. req[r] \in ReqType BY DEF IInv, TypeOK, ReqType
<1>2. leg \in Leg /\ Tail(req[r].legs) \in Seq(Leg)
    BY <1>1, HeadTailProperties DEF ReqType, RecordMovement
<1>3. i \in Items BY <1>2 DEF Leg
<1>4. req' \in [Requests -> ReqType] BY <1>1, <1>2 DEF IInv, TypeOK, ReqType, RecordMovement
<1>5. Seen(r, i) \in Work /\ WorkOK(row[i].onHand, Seen(r, i)) BY <1>3, SeenOK
<1>6. row[i].onHand \in Nat BY <1>3 DEF IInv, TypeOK, Row
<1>7. Free(r, i) /\ Accepted(Seen(r, i), leg) /\ Write(r, i, w) BY DEF RecordMovement
<1>8. w \in Work /\ WorkOK(row[i].onHand, w)
    <2> HIDE DEF leg, i
    <2> QED BY <1>2, <1>5, <1>6, <1>7, MovedOK
<1>9. UNCHANGED <<row, layers, ledger>> BY DEF RecordMovement
<1> HIDE DEF w, i, leg
<1> QED BY <1>3, <1>4, <1>7, <1>8, <1>9, WriteOK

\* The soft delete of a row changes its status only.
LEMMA RemoveRowOK ==
    ASSUME IInv, NEW r \in Requests, RemoveRow(r)
    PROVE  IInv'
<1> DEFINE i == req[r].remove
           w == [Seen(r, i) EXCEPT !.row.status = "removed"]
<1>1. req[r] \in ReqType BY DEF IInv, TypeOK, ReqType
<1>2. i \in Items BY <1>1 DEF ReqType, RemoveRow
<1>3. req' \in [Requests -> ReqType] BY <1>1 DEF IInv, TypeOK, ReqType, RemoveRow
<1>4. Seen(r, i) \in Work /\ WorkOK(row[i].onHand, Seen(r, i)) BY <1>2, SeenOK
<1>5. Free(r, i) /\ Write(r, i, w) BY DEF RemoveRow
<1>6. w \in Work /\ WorkOK(row[i].onHand, w)
    <2> DEFINE v == Seen(r, i)
    <2>1. v \in Work /\ WorkOK(row[i].onHand, v) BY <1>4
    <2> HIDE DEF v
    <2>2. [v EXCEPT !.row.status = "removed"] \in Work BY <2>1 DEF Work, Row
    <2>3. WorkOK(row[i].onHand, [v EXCEPT !.row.status = "removed"])
        BY <2>1 DEF WorkOK, Work, Row
    <2> QED BY <2>2, <2>3 DEF v
<1>7. UNCHANGED <<row, layers, ledger>> BY DEF RemoveRow
<1> HIDE DEF w, i
<1> QED BY <1>2, <1>3, <1>5, <1>6, <1>7, WriteOK

-----------------------------------------------------------------------------

\* The strengthened invariant holds of every reachable state.
THEOREM Invariance == Spec => []IInv
<1>1. Init => IInv
    <2> SUFFICES ASSUME Init PROVE IInv
        OBVIOUS
    <2>1. row \in [Items -> Row] BY DEF Init, Row
    <2>2. <<>> \in [{} -> Work] /\ DOMAIN <<>> = {} OBVIOUS
    <2>3. work \in Holdings BY <2>2 DEF Init, Holdings
    <2>4. TypeOK
        <3>1. layers \in [Items -> Seq(Costs)] /\ ledger \in [Items -> Seq(Movement)] BY DEF Init
        <3>2. Idle \in ReqType BY DEF Idle, ReqType
        <3>3. req \in [Requests -> ReqType] BY <3>2 DEF Init
        <3> QED BY <2>1, <2>3, <3>1, <3>3, HoldingsForm DEF TypeOK, ReqType
    <2>5. LocksExclusive /\ WorksOK BY <2>2 DEF Init, LocksExclusive, WorksOK
    <2>6. LedgerExplainsStock BY DEF Init, LedgerExplainsStock, Leads
    <2>7. LayersCoverStock BY DEF Init, LayersCoverStock
    <2> QED BY <2>4, <2>5, <2>6, <2>7 DEF IInv
<1>2. IInv /\ [Next]_vars => IInv'
    <2> SUFFICES ASSUME IInv, [Next]_vars PROVE IInv'
        OBVIOUS
    <2>1. CASE UNCHANGED vars
        BY <2>1 DEF vars, IInv, TypeOK, LocksExclusive, WorksOK, WorkOK, LedgerExplainsStock,
                    LayersCoverStock
    <2>2. ASSUME NEW r \in Requests, Begin(r) PROVE IInv' BY <2>2, BeginOK
    <2>3. ASSUME NEW r \in Requests, Finish(r) PROVE IInv'
        <3>1. CASE RecordMovement(r) BY <3>1, RecordMovementOK
        <3>2. CASE Refuse(r) BY <3>2, RollbackOK DEF Refuse
        <3>3. CASE RemoveRow(r) BY <3>3, RemoveRowOK
        <3>4. CASE Commit(r) BY <3>4, CommitOK
        <3>5. CASE AbortDeadlock(r) BY <3>5, RollbackOK DEF AbortDeadlock
        <3> QED BY <2>3, <3>1, <3>2, <3>3, <3>4, <3>5 DEF Finish
    <2> QED BY <2>1, <2>2, <2>3 DEF Next, Done
<1> QED BY <1>1, <1>2, PTL DEF Spec

\* Well-typed states; in particular no committed or uncommitted balance is negative.
THEOREM TypeCorrect == Spec => []TypeOK
<1>1. IInv => TypeOK BY DEF IInv
<1> QED BY <1>1, Invariance, PTL

\* The movements of an item always add up to the stock on hand.
THEOREM LedgerCorrect == Spec => []LedgerExplainsStock
<1>1. IInv => LedgerExplainsStock BY DEF IInv
<1> QED BY <1>1, Invariance, PTL

\* There is a cost layer for every unit on hand.
THEOREM LayersCorrect == Spec => []LayersCoverStock
<1>1. IInv => LayersCoverStock BY DEF IInv
<1> QED BY <1>1, Invariance, PTL
-----------------------------------------------------------------------------
(* Cost: nothing is expensed twice or lost.                                *)

\* What one movement adds to the cost that is in stock, and what several add.
CostOf(e) ==
    IF e.qty > 0 THEN Total(e.costs) ELSE IF e.kind = "sale" THEN -Total(e.costs) ELSE 0
CostsOf(s) == [k \in DOMAIN s |-> CostOf(s[k])]

LEMMA TotalIsInt == ASSUME NEW s \in Seq(Costs) PROVE s \in Seq(Int) /\ Total(s) \in Int
<1>1. ASSUME NEW k \in 1..Len(s) PROVE s[k] \in Int
    <2>1. s[k] \in Costs OBVIOUS
    <2>2. \A c \in Costs : c \in Int BY CostAssumption
    <2> QED BY <2>1, <2>2
<1>2. s \in Seq(Int)
    BY <1>1
<1> QED BY <1>2, SumOfSeq DEF Total

LEMMA TotalOfConcatenation ==
    ASSUME NEW s \in Seq(Costs), NEW t \in Seq(Costs) PROVE Total(s \o t) = Total(s) + Total(t)
BY TotalIsInt, SumOfConcatenation DEF Total

LEMMA CostsOfMovements ==
    ASSUME NEW s \in Seq(Movement)
    PROVE  CostsOf(s) \in Seq(Int) /\ Len(CostsOf(s)) = Len(s) /\ Total(CostsOf(s)) \in Int
<1>1. ASSUME NEW k \in DOMAIN s PROVE CostOf(s[k]) \in Int
    <2>1. s[k] \in Movement OBVIOUS
    <2>2. s[k].qty \in Int /\ s[k].costs \in Seq(Costs) BY <2>1 DEF Movement
    <2>3. Total(s[k].costs) \in Int BY <2>2, TotalIsInt
    <2> QED BY <2>2, <2>3 DEF CostOf
<1>2. DOMAIN s = 1..Len(s) /\ Len(s) \in Nat OBVIOUS
<1>3. CostsOf(s) \in Seq(Int) /\ Len(CostsOf(s)) = Len(s)
    <2>1. CostsOf(s) \in [1..Len(s) -> Int] BY <1>1, <1>2 DEF CostsOf
    <2> QED BY <1>2, <2>1
<1> QED BY <1>3, SumOfSeq DEF Total

LEMMA CostsConcat ==
    ASSUME NEW s \in Seq(Movement), NEW t \in Seq(Movement)
    PROVE  Total(CostsOf(s \o t)) = Total(CostsOf(s)) + Total(CostsOf(t))
<1>1. s \o t \in Seq(Movement) /\ Len(s \o t) = Len(s) + Len(t)
    BY ConcatProperties
<1>2. /\ CostsOf(s) \in Seq(Int) /\ CostsOf(t) \in Seq(Int) /\ CostsOf(s \o t) \in Seq(Int)
      /\ Len(CostsOf(s)) = Len(s) /\ Len(CostsOf(t)) = Len(t) /\ Len(CostsOf(s \o t)) = Len(s) + Len(t)
    BY <1>1, CostsOfMovements
<1>3. ASSUME NEW k \in 1..(Len(s) + Len(t)) PROVE CostsOf(s \o t)[k] = (CostsOf(s) \o CostsOf(t))[k]
    <2>1. /\ (s \o t)[k] = (IF k <= Len(s) THEN s[k] ELSE t[k - Len(s)])
          /\ k <= Len(s) => k \in 1..Len(s)
          /\ ~(k <= Len(s)) => k - Len(s) \in 1..Len(t)
        OBVIOUS
    <2>2. (CostsOf(s) \o CostsOf(t))[k] = (IF k <= Len(s) THEN CostsOf(s)[k] ELSE CostsOf(t)[k - Len(s)])
        BY <1>2
    <2>3. /\ \A j \in 1..Len(s) : CostsOf(s)[j] = CostOf(s[j])
          /\ \A j \in 1..Len(t) : CostsOf(t)[j] = CostOf(t[j])
          /\ CostsOf(s \o t)[k] = CostOf((s \o t)[k])
        BY <1>1 DEF CostsOf
    <2> QED BY <2>1, <2>2, <2>3
<1>4. CostsOf(s \o t) = CostsOf(s) \o CostsOf(t)
    <2>1. CostsOf(s) \o CostsOf(t) \in Seq(Int) /\ Len(CostsOf(s) \o CostsOf(t)) = Len(s) + Len(t)
        BY <1>2, ConcatProperties
    <2>2. Len(CostsOf(s \o t)) = Len(CostsOf(s) \o CostsOf(t)) BY <1>2, <2>1
    <2>3. \A k \in 1..Len(CostsOf(s \o t)) : CostsOf(s \o t)[k] = (CostsOf(s) \o CostsOf(t))[k]
        BY <1>2, <1>3
    <2> QED BY <1>2, <2>1, <2>2, <2>3, SeqEqual
<1> QED BY <1>2, <1>4, SumOfConcatenation DEF Total

\* What is consumed and what is kept make up the layers there were.
LEMMA ConsumedAndKept ==
    ASSUME NEW s \in Seq(Costs), NEW n \in Nat, NEW m
    PROVE  Total(s) = Total(Taken(s, n, m)) + Total(Kept(s, n, m))
<1> DEFINE k == Minimum(n, Len(s))
<1>1. k \in 0..Len(s) /\ Len(s) - k \in 0..Len(s) /\ (Len(s) - k) + 1 = Len(s) - k + 1 BY DEF Minimum
<1>2. ASSUME NEW j \in 0..Len(s)
      PROVE  /\ s = SubSeq(s, 1, j) \o SubSeq(s, j + 1, Len(s))
             /\ SubSeq(s, 1, j) \in Seq(Costs) /\ SubSeq(s, j + 1, Len(s)) \in Seq(Costs)
    <2> DEFINE a == SubSeq(s, 1, j)
               b == SubSeq(s, j + 1, Len(s))
    <2>1. /\ a = [x \in 1..j |-> s[x]] /\ b = [x \in 1..(Len(s) - j) |-> s[j + x]]
        OBVIOUS
    <2>2. a \in Seq(Costs) /\ b \in Seq(Costs) /\ Len(a) = j /\ Len(b) = Len(s) - j
        BY <2>1
    <2>3. ASSUME NEW x \in 1..Len(s) PROVE s[x] = (a \o b)[x]
        <3>1. (a \o b)[x] = IF x <= j THEN a[x] ELSE b[x - j]
            <4> HIDE DEF a, b
            <4>1. x \in 1..(Len(a) + Len(b)) BY <2>2
            <4> QED BY <2>2, <4>1, ConcatProperties
        <3>2. CASE x <= j
            <4>1. x \in 1..j BY <3>2
            <4> QED BY <2>1, <3>1, <3>2, <4>1
        <3>3. CASE ~(x <= j)
            <4>1. x - j \in 1..(Len(s) - j) /\ j + (x - j) = x BY <3>3
            <4> QED BY <2>1, <3>1, <3>3, <4>1
        <3> QED BY <3>2, <3>3
    <2>4. a \o b \in Seq(Costs) /\ Len(a \o b) = Len(s)
        <3>1. a \o b \in Seq(Costs) /\ Len(a \o b) = Len(a) + Len(b)
            BY <2>2, ConcatProperties
        <3>2. j + (Len(s) - j) = Len(s) OBVIOUS
        <3> HIDE DEF a, b
        <3> QED BY <2>2, <3>1, <3>2
    <2>5. s = a \o b
        BY <2>3, <2>4, SeqEqual
    <2> QED BY <2>2, <2>5
<1>3. CASE m = "fifo"
    <2>1. Taken(s, n, m) = SubSeq(s, 1, k) /\ Kept(s, n, m) = SubSeq(s, k + 1, Len(s)) BY <1>3 DEF Taken, Kept
    <2> HIDE DEF k
    <2> QED BY <1>1, <1>2, <2>1, TotalOfConcatenation
<1>4. CASE m # "fifo"
    <2>1. /\ Taken(s, n, m) = SubSeq(s, (Len(s) - k) + 1, Len(s))
          /\ Kept(s, n, m) = SubSeq(s, 1, Len(s) - k)
        BY <1>4 DEF Taken, Kept
    <2> DEFINE j == Len(s) - k
    <2>2. j \in 0..Len(s) BY <1>1
    <2>3. Taken(s, n, m) = SubSeq(s, j + 1, Len(s)) /\ Kept(s, n, m) = SubSeq(s, 1, j)
        BY <2>1
    <2> HIDE DEF j
    <2>4. Total(s) = Total(Kept(s, n, m)) + Total(Taken(s, n, m))
        BY <1>2, <2>2, <2>3, TotalOfConcatenation
    <2>5. Total(Kept(s, n, m)) \in Int /\ Total(Taken(s, n, m)) \in Int
        BY <1>2, <2>2, <2>3, TotalIsInt
    <2> QED BY <2>4, <2>5
<1> QED BY <1>3, <1>4

\* A movement of a FIFO or LIFO product whose layers cover the stock: the cost it books is
\* the cost that enters or leaves the layers.  A sale that fell back on the flat cost price
\* would break this.
LEMMA LegConserves ==
    ASSUME NEW s \in Seq(Costs), NEW leg \in Leg, NEW onHand \in Nat, NEW e,
           onHand <= Len(s), onHand + leg.qty \in Nat, Method[leg.item[1]] \in {"fifo", "lifo"},
           e.qty = leg.qty, e.kind = leg.kind, e.costs = UnitCosts(s, leg)
    PROVE  Total(LayersAfter(s, leg)) = Total(s) + CostOf(e)
<1> DEFINE q == leg.qty
           c == leg.cost
           m == Method[leg.item[1]]
<1>1. q \in Int /\ c \in Costs /\ Len(s) \in Nat BY DEF Leg
<1>2. /\ LayersAfter(s, leg) = (IF q > 0 THEN s \o Times(q, c)
                                ELSE IF UsesLayers(leg) THEN Kept(s, -q, m) ELSE s)
      /\ UnitCosts(s, leg) = (IF q > 0 THEN Times(q, c)
                              ELSE IF UsesLayers(leg)
                              THEN Taken(s, -q, m) \o Times(-q - Len(Taken(s, -q, m)), c)
                              ELSE Times(-q, c))
      /\ UsesLayers(leg) <=> leg.kind = "sale"
      /\ CostOf(e) = (IF q > 0 THEN Total(UnitCosts(s, leg))
                      ELSE IF leg.kind = "sale" THEN -Total(UnitCosts(s, leg)) ELSE 0)
    BY DEF LayersAfter, UnitCosts, UsesLayers, CostOf
<1>3. onHand + q \in Nat /\ Total(s) \in Int BY TotalIsInt
<1> HIDE DEF q, c, m
<1>4. CASE q > 0
    <2>1. q \in Nat BY <1>1, <1>4
    <2>2. Times(q, c) \in Seq(Costs) BY <1>1, <2>1, TimesType
    <2> QED BY <1>2, <1>4, <2>2, TotalOfConcatenation
<1>5. CASE ~(q > 0) /\ UsesLayers(leg)
    <2>1. -q \in Nat /\ -q <= Len(s) BY <1>1, <1>3, <1>5
    <2>2. /\ Taken(s, -q, m) \in Seq(Costs) /\ Kept(s, -q, m) \in Seq(Costs)
          /\ Len(Taken(s, -q, m)) = Minimum(-q, Len(s))
        BY <2>1, ConsumeLayers
    <2>3. -q - Len(Taken(s, -q, m)) = 0 BY <1>1, <2>1, <2>2 DEF Minimum
    <2>4. Times(-q - Len(Taken(s, -q, m)), c) = <<>> BY <2>3 DEF Times
    <2>5. UnitCosts(s, leg) = Taken(s, -q, m) BY <1>2, <1>5, <2>2, <2>4
    <2>6. Total(s) = Total(Taken(s, -q, m)) + Total(Kept(s, -q, m)) BY <2>1, ConsumedAndKept
    <2>7. Total(Taken(s, -q, m)) \in Int /\ Total(Kept(s, -q, m)) \in Int BY <2>2, TotalIsInt
    <2>8. LayersAfter(s, leg) = Kept(s, -q, m) /\ CostOf(e) = -Total(Taken(s, -q, m))
        BY <1>2, <1>5, <2>5
    <2> QED BY <2>6, <2>7, <2>8
<1>6. CASE ~(q > 0) /\ ~UsesLayers(leg)
    BY <1>2, <1>3, <1>6
<1> QED BY <1>4, <1>5, <1>6
Layered(i) == Method[i[1]] \in {"fifo", "lifo"}
WrittenCosts(i, w) == Total(w.layers) = Total(layers[i]) + Total(CostsOf(w.entries))

\* The committed layers hold what the committed movements say, and those a transaction has
\* written differ from them by what it has moved.
CostsOK ==
    /\ \A i \in Items : Layered(i) => Total(CostsOf(ledger[i])) = Total(layers[i])
    /\ \A r \in Requests : \A i \in DOMAIN work[r] : Layered(i) => WrittenCosts(i, work[r][i])

LEMMA NoCosts == Total(CostsOf(<<>>)) = 0 /\ Total(<<>>) = 0
<1>1. DOMAIN CostsOf(<<>>) = {} /\ DOMAIN <<>> = {}
    BY DEF CostsOf
<1> QED BY <1>1, SumOfFunction, SumEmpty DEF Total

\* One entry after the others.
LEMMA CostsAppend ==
    ASSUME NEW s \in Seq(Movement), NEW m \in Movement
    PROVE  Total(CostsOf(Append(s, m))) = Total(CostsOf(s)) + CostOf(m)
<1>1. <<m>> \in Seq(Movement) /\ Append(s, m) = s \o <<m>> /\ DOMAIN <<m>> = {1} /\ <<m>>[1] = m
    BY AppendIsConcat
<1>2. Total(CostsOf(<<m>>)) = CostOf(m)
    <2>1. CostOf(m) \in Int
        <3>1. m.qty \in Int /\ Total(m.costs) \in Int BY TotalIsInt DEF Movement
        <3> QED BY <3>1 DEF CostOf
    <2>2. DOMAIN CostsOf(<<m>>) = {1} /\ CostsOf(<<m>>)[1] = CostOf(m) BY <1>1 DEF CostsOf
    <2> DEFINE g == CostsOf(<<m>>)
    <2>3. IsFiniteSet({1}) BY FS_Singleton
    <2>4. Total(g) = Sum(g, {1}) BY <2>2, SumOfFunction DEF Total
    <2> HIDE DEF g
    <2>5. Sum(g, {1}) = g[1] + Sum(g, {1} \ {1})
        BY <2>1, <2>2, <2>3, SumRemove DEF g
    <2>6. {1} \ {1} = {} OBVIOUS
    <2>7. g[1] = CostOf(m) BY <2>2 DEF g
    <2>8. Sum(g, {1} \ {1}) = 0 BY <2>6, SumEmpty
    <2>9. Total(g) = CostOf(m) BY <2>1, <2>4, <2>5, <2>7, <2>8
    <2> QED BY <2>9 DEF g
<1> QED BY <1>1, <1>2, CostsConcat

LEMMA CostsSeen ==
    ASSUME IInv, CostsOK, NEW r \in Requests, NEW i \in Items, Layered(i)
    PROVE  WrittenCosts(i, Seen(r, i))
<1>1. CASE Owns(r, i)
    BY <1>1 DEF CostsOK, Owns, Seen
<1>2. CASE ~Owns(r, i)
    <2>1. Seen(r, i).layers = layers[i] /\ Seen(r, i).entries = <<>> BY <1>2 DEF Seen
    <2>2. Total(layers[i]) \in Int BY TotalIsInt DEF IInv, TypeOK
    <2> QED BY <2>1, <2>2, NoCosts DEF WrittenCosts
<1> QED BY <1>1, <1>2

\* Nothing that is written for other rows or by other requests matters.
LEMMA CostsWrite ==
    ASSUME IInv, CostsOK, NEW r \in Requests, NEW i \in Items, NEW w, Write(r, i, w),
           Layered(i) => WrittenCosts(i, w), UNCHANGED <<layers, ledger>>
    PROVE  CostsOK'
<1> DEFINE D == DOMAIN work[r] \cup {i}
           f == [j \in D |-> IF j = i THEN w ELSE work[r][j]]
<1>1. work' = [work EXCEPT ![r] = f] BY DEF Write
<1>2. work \in Holdings BY TypeOKHoldings DEF IInv
<1>3. work'[r] = f /\ DOMAIN work'[r] = D /\ \A q \in Requests \ {r} : work'[q] = work[q]
    BY <1>1, <1>2 DEF Holdings
<1> SUFFICES ASSUME NEW q \in Requests, NEW j \in DOMAIN work'[q], Layered(j)
             PROVE  WrittenCosts(j, work'[q][j])
    BY DEF CostsOK, Layered, WrittenCosts
<1>4. CASE q = r /\ j = i BY <1>3, <1>4
<1>5. CASE q = r /\ j # i BY <1>3, <1>5 DEF CostsOK
<1>6. CASE q # r BY <1>3, <1>6 DEF CostsOK
<1> QED BY <1>4, <1>5, <1>6

LEMMA CostsRecordMovement ==
    ASSUME IInv, CostsOK, NEW r \in Requests, RecordMovement(r) PROVE CostsOK'
<1> DEFINE leg == Head(req[r].legs)
           i == leg.item
           v == Seen(r, i)
<1>1. leg \in Leg
    <2>1. req[r] \in ReqType BY DEF IInv, TypeOK, ReqType
    <2> QED BY <2>1, HeadTailProperties DEF ReqType, RecordMovement
<1>2. i \in Items BY <1>1 DEF Leg
<1>3. v \in Work /\ WorkOK(row[i].onHand, v) BY <1>2, SeenOK
<1>4. Accepted(v, leg) /\ Write(r, i, Moved(v, leg)) /\ UNCHANGED <<layers, ledger>> BY DEF RecordMovement
<1>5. ASSUME Layered(i) PROVE WrittenCosts(i, Moved(v, leg))
    <2> DEFINE e == [kind |-> leg.kind, qty |-> leg.qty, after |-> v.row.onHand + leg.qty,
                     costs |-> UnitCosts(v.layers, leg)]
    <2>1. WrittenCosts(i, v) BY <1>2, <1>5, CostsSeen
    <2>2. Moved(v, leg).layers = LayersAfter(v.layers, leg) /\ Moved(v, leg).entries = Append(v.entries, e)
        BY DEF Moved
    <2>3. /\ v.row.onHand \in Nat /\ v.layers \in Seq(Costs) /\ v.entries \in Seq(Movement)
          /\ v.row.onHand + leg.qty \in Nat /\ v.row.onHand <= Len(v.layers)
          /\ leg.qty \in Int /\ leg.kind \in Kinds
        <3> HIDE DEF v, leg
        <3> QED BY <1>1, <1>3, <1>4 DEF Work, Row, WorkOK, Accepted, Leg
    <2>4. Method[leg.item[1]] \in {"fifo", "lifo"} BY <1>5 DEF Layered
    <2>5. e.qty = leg.qty /\ e.kind = leg.kind /\ e.costs = UnitCosts(v.layers, leg) OBVIOUS
    <2>6. e \in Movement
        <3> HIDE DEF v, leg
        <3>1. UnitCosts(v.layers, leg) \in Seq(Costs) BY <1>1, <2>3, LegCosts
        <3> QED BY <2>3, <3>1 DEF Movement
    <2> HIDE DEF e, v, i, leg
    <2>7. Total(LayersAfter(v.layers, leg)) = Total(v.layers) + CostOf(e)
        BY <1>1, <2>3, <2>4, <2>5, LegConserves
    <2>8. Total(CostsOf(Append(v.entries, e))) = Total(CostsOf(v.entries)) + CostOf(e)
        BY <2>3, <2>6, CostsAppend
    <2>9. /\ Total(layers[i]) \in Int /\ Total(CostsOf(v.entries)) \in Int /\ CostOf(e) \in Int
        <3>1. layers[i] \in Seq(Costs) BY <1>2 DEF IInv, TypeOK
        <3>2. e.qty \in Int /\ Total(e.costs) \in Int BY <2>6, TotalIsInt DEF Movement
        <3> QED BY <2>3, <3>1, <3>2, TotalIsInt, CostsOfMovements DEF CostOf
    <2> QED BY <2>1, <2>2, <2>7, <2>8, <2>9 DEF WrittenCosts
<1> HIDE DEF v, i, leg
<1> QED BY <1>2, <1>4, <1>5, CostsWrite

LEMMA CostsRemoveRow ==
    ASSUME IInv, CostsOK, NEW r \in Requests, RemoveRow(r) PROVE CostsOK'
<1> DEFINE i == req[r].remove
           v == Seen(r, i)
           w == [v EXCEPT !.row.status = "removed"]
<1>1. i \in Items
    <2>1. req[r] \in ReqType BY DEF IInv, TypeOK, ReqType
    <2> QED BY <2>1 DEF ReqType, RemoveRow
<1>2. Write(r, i, w) /\ UNCHANGED <<layers, ledger>> BY DEF RemoveRow
<1>3. v \in Work BY <1>1, SeenOK
<1>4. w.layers = v.layers /\ w.entries = v.entries
    <2> HIDE DEF v
    <2> QED BY <1>3 DEF Work
<1>5. Layered(i) => WrittenCosts(i, w)
    BY <1>1, <1>4, CostsSeen DEF WrittenCosts
<1> HIDE DEF w, v, i
<1> QED BY <1>1, <1>2, <1>5, CostsWrite

LEMMA CostsRollback ==
    ASSUME IInv, CostsOK, NEW r \in Requests, Rollback(r) PROVE CostsOK'
<1>1. work \in Holdings BY TypeOKHoldings DEF IInv
<1>2. /\ DOMAIN work'[r] = {} /\ \A q \in Requests \ {r} : work'[q] = work[q]
      /\ UNCHANGED <<layers, ledger>>
    BY <1>1 DEF Rollback, Holdings
<1> SUFFICES ASSUME NEW q \in Requests, NEW j \in DOMAIN work'[q], Layered(j)
             PROVE  WrittenCosts(j, work'[q][j])
    BY <1>2 DEF CostsOK, Layered, WrittenCosts
<1> QED BY <1>2 DEF CostsOK

LEMMA CostsCommit ==
    ASSUME IInv, CostsOK, NEW r \in Requests, Commit(r) PROVE CostsOK'
<1>1. work \in Holdings BY TypeOKHoldings DEF IInv
<1>2. DOMAIN work'[r] = {} /\ \A q \in Requests \ {r} : work'[q] = work[q]
    BY <1>1 DEF Commit, Holdings
<1>3. ASSUME NEW i \in Items, Layered(i) PROVE Total(CostsOf(ledger'[i])) = Total(layers'[i])
    <2>1. Total(CostsOf(ledger[i])) = Total(layers[i]) BY <1>3 DEF CostsOK
    <2>2. CASE ~Owns(r, i)
        BY <2>1, <2>2 DEF Commit
    <2>3. CASE Owns(r, i)
        <3>1. WrittenCosts(i, work[r][i]) /\ work[r][i] \in Work
            BY <1>3, <2>3, WorkType DEF CostsOK, Owns, IInv
        <3>2. layers'[i] = work[r][i].layers /\ ledger'[i] = ledger[i] \o work[r][i].entries
            BY <2>3 DEF Commit
        <3>3. ledger[i] \in Seq(Movement) /\ work[r][i].entries \in Seq(Movement)
            BY <3>1 DEF IInv, TypeOK, Work
        <3> QED BY <2>1, <3>1, <3>2, <3>3, CostsConcat DEF WrittenCosts
    <2> QED BY <2>2, <2>3
<1>4. ASSUME NEW q \in Requests, NEW j \in DOMAIN work'[q], Layered(j)
      PROVE  Total(work'[q][j].layers) = Total(layers'[j]) + Total(CostsOf(work'[q][j].entries))
    <2>1. q # r /\ work'[q] = work[q] BY <1>2
    <2>2. j \in Items BY <2>1, WorkType DEF IInv
    <2>3. ~Owns(r, j) BY <2>1 DEF IInv, LocksExclusive, Owns
    <2>4. layers'[j] = layers[j] BY <2>2, <2>3 DEF Commit
    <2> QED BY <1>4, <2>1, <2>4 DEF CostsOK, WrittenCosts
<1> QED BY <1>3, <1>4 DEF CostsOK, Layered, WrittenCosts

\* No cost is expensed twice or lost: what came into a FIFO or LIFO product is what its layers
\* still hold plus what sales took out of them, whatever requests interleave or are undone.
THEOREM CostsCorrect == Spec => []CostConserved
<1>1. Init => CostsOK
    BY NoCosts DEF Init, CostsOK
<1>2. IInv /\ CostsOK /\ [Next]_vars => CostsOK'
    <2> SUFFICES ASSUME IInv, CostsOK, [Next]_vars PROVE CostsOK'
        OBVIOUS
    <2>1. ASSUME UNCHANGED <<layers, ledger, work>> PROVE CostsOK'
        BY <2>1 DEF CostsOK, Layered, WrittenCosts
    <2>2. ASSUME NEW r \in Requests, Begin(r) PROVE CostsOK'
        <3>1. UNCHANGED <<layers, ledger, work>>
            BY <2>2 DEF Begin, Start, ReceiveStock, AdjustStock, TransferStock, SellStock, SetOpeningBalance,
                        DestroyStockItem
        <3> QED BY <2>1, <3>1
    <2>3. ASSUME NEW r \in Requests, Finish(r) PROVE CostsOK'
        BY <2>3, CostsRecordMovement, CostsRollback, CostsRemoveRow, CostsCommit
           DEF Finish, Refuse, AbortDeadlock
    <2> QED BY <2>1, <2>2, <2>3 DEF Next, Done, vars
<1>3. CostsOK => CostConserved
    BY DEF CostsOK, CostConserved, Layered, CostsOf, CostOf
<1> QED BY <1>1, <1>2, <1>3, Invariance, PTL DEF Spec
-----------------------------------------------------------------------------
(* The ledger implements AtomicStock.  Here a movement can be of any size. *)

AllOrders == OrdersOf(Int, Nat)
Whole == INSTANCE AtomicStock WITH
    Orders <- AllOrders, onHand <- OnHand, history <- History, removed <- Removed

Parts == [item : Items, qty : Int, kind : Kinds]
PartOf(leg) == Part(leg.item, leg.qty, leg.kind)

\* f is what becomes of item i when the first n movements are made one after the other.
Committed(i) == [units |-> row[i].onHand, moved |-> HistoryOf(ledger[i])]
IsTrace(f, moves, n, i) ==
    f[0] = Committed(i) /\ \A k \in 1..n : f[k] = Whole!Step(i, f[k - 1], moves[k])

\* Item i, as the row w says, is where the first n movements lead, and none of them overdraws it.
State(i, w) == [units |-> w.row.onHand, moved |-> HistoryOf(ledger[i] \o w.entries)]
Reached(i, w, moves, n) ==
    \E f : /\ IsTrace(f, moves, n, i) /\ f[n] = State(i, w)
           /\ \A k \in 1..n : moves[k].item = i => f[k].units >= 0

\* Request r has made the first n movements of order o and has still to make the others: it
\* holds the rows they concern, as they have become, and has removed a record last of all.
Progress(r, o, n) ==
    /\ o \in AllOrders /\ o.moves \in Seq(Parts) /\ n \in 0..Len(o.moves) /\ o.removes \subseteq Items
    /\ Len(req[r].legs) = Len(o.moves) - n
    /\ \A k \in 1..Len(req[r].legs) : o.moves[n + k] = PartOf(req[r].legs[k])
    /\ \A k \in 1..n : o.moves[k].item \in DOMAIN work[r] /\ row[o.moves[k].item].status # "removed"
    /\ \A i \in DOMAIN work[r] :
          /\ Reached(i, work[r][i], o.moves, n)
          /\ (\E k \in 1..n : o.moves[k].item = i) \/ work[r][i].row.status = "removed"
          /\ work[r][i].row.status = "removed" => i \in o.removes
    /\ IF req[r].remove = NoItem
       THEN /\ \A i \in o.removes : i \in DOMAIN work[r] /\ work[r][i].row.status = "removed"
            /\ o.removes # {} => req[r].legs = <<>>
       ELSE o.removes = {req[r].remove} /\ \A i \in DOMAIN work[r] : work[r][i].row.status # "removed"

AtomicOK ==
    \A r \in Requests : IF req[r].active THEN \E o, n : Progress(r, o, n) ELSE DOMAIN work[r] = {}

-----------------------------------------------------------------------------
\* The abstract operation follows every trace: a recursive definition has one solution.
LEMMA AfterIs ==
    ASSUME NEW moves, NEW i \in Items, NEW f, Len(moves) \in Nat, IsTrace(f, moves, Len(moves), i)
    PROVE  \A n \in 0..Len(moves) : Whole!After(moves, i)[n] = f[n]
<1> DEFINE g == Whole!After(moves, i)
           N == Len(moves)
           h == [n \in 0..N |-> f[n]]
           T == {n \in Nat : n <= N => g[n] = f[n]}
<1>1. OnHand[i] = row[i].onHand /\ History[i] = HistoryOf(ledger[i])
  BY DEF OnHand, History
<1>2. h = [n \in 0..N |-> IF n = 0 THEN [units |-> OnHand[i], moved |-> History[i]]
                          ELSE Whole!Step(i, h[n - 1], moves[n])]
  <2>1. ASSUME NEW n \in 0..N
        PROVE  h[n] = IF n = 0 THEN [units |-> OnHand[i], moved |-> History[i]]
                      ELSE Whole!Step(i, h[n - 1], moves[n])
    <3>1. CASE n = 0
      BY <1>1, <3>1 DEF IsTrace, Committed
    <3>2. CASE n # 0
      <4>1. n \in 1..N /\ n - 1 \in 0..N
        BY <3>2
      <4>2. f[n] = Whole!Step(i, f[n - 1], moves[n])
        BY <4>1 DEF IsTrace
      <4> QED BY <3>2, <4>1, <4>2
    <3> QED BY <3>1, <3>2
  <2> QED BY <2>1
<1>3. g = [n \in 0..N |-> IF n = 0 THEN [units |-> OnHand[i], moved |-> History[i]]
                          ELSE Whole!Step(i, g[n - 1], moves[n])]
  BY <1>2 DEF Whole!After
<1> HIDE DEF g
<1>4. 0 \in T
  BY <1>1, <1>3 DEF IsTrace, Committed
<1>5. ASSUME NEW n \in T PROVE n + 1 \in T
  <2> SUFFICES ASSUME n + 1 <= N PROVE g[n + 1] = f[n + 1]
    OBVIOUS
  <2>1. n \in 0..N /\ n + 1 \in 1..N /\ (n + 1) - 1 = n /\ n + 1 # 0 /\ n + 1 \in 0..N
    OBVIOUS
  <2>2. g[n] = f[n]
    BY <2>1
  <2>3. f[n + 1] = Whole!Step(i, f[(n + 1) - 1], moves[n + 1])
    BY <2>1 DEF IsTrace
  <2>4. g[n + 1] = Whole!Step(i, g[(n + 1) - 1], moves[n + 1])
    BY <1>3, <2>1
  <2> QED BY <2>1, <2>2, <2>3, <2>4
<1>6. T = Nat
  <2>1. T \in SUBSET Nat
    OBVIOUS
  <2> HIDE DEF T
  <2> QED BY <1>4, <1>5, <2>1, InductionOverNat
<1> QED BY <1>6 DEF g

\* Before anything is moved, and when what is moved is other items, an item is as committed.
LEMMA NotMoved ==
    ASSUME NEW i, NEW w, NEW moves, NEW n \in Nat, \A k \in 1..n : moves[k].item # i, State(i, w) = Committed(i)
    PROVE  Reached(i, w, moves, n)
<1> DEFINE f == [k \in 0..n |-> Committed(i)]
<1>1. f[0] = Committed(i) /\ f[n] = Committed(i)
  OBVIOUS
<1>2. \A k \in 1..n : f[k] = Whole!Step(i, f[k - 1], moves[k])
  BY DEF Whole!Step
<1> QED BY <1>1, <1>2 DEF Reached, IsTrace

\* One more movement.
LEMMA MovedOnce ==
    ASSUME NEW i, NEW w, NEW v, NEW moves, NEW n \in Nat, Reached(i, w, moves, n),
           State(i, v) = Whole!Step(i, State(i, w), moves[n + 1]),
           moves[n + 1].item = i => v.row.onHand >= 0
    PROVE  Reached(i, v, moves, n + 1)
<1>1. PICK f : /\ IsTrace(f, moves, n, i) /\ f[n] = State(i, w)
               /\ \A k \in 1..n : moves[k].item = i => f[k].units >= 0
  BY DEF Reached
<1> DEFINE g == [k \in 0..(n + 1) |-> IF k <= n THEN f[k] ELSE State(i, v)]
<1>2. (\A k \in 0..n : g[k] = f[k]) /\ g[n + 1] = State(i, v)
  OBVIOUS
<1> HIDE DEF g
<1>3. IsTrace(g, moves, n + 1, i)
  <2>1. g[0] = Committed(i)
    BY <1>1, <1>2 DEF IsTrace
  <2>2. ASSUME NEW k \in 1..(n + 1) PROVE g[k] = Whole!Step(i, g[k - 1], moves[k])
    <3>1. CASE k \in 1..n
      <4>1. k \in 0..n /\ k - 1 \in 0..n
        BY <3>1
      <4> QED BY <1>1, <1>2, <3>1, <4>1 DEF IsTrace
    <3>2. CASE k = n + 1
      <4>1. k - 1 = n /\ n \in 0..n
        BY <3>2
      <4> QED BY <1>1, <1>2, <3>2, <4>1
    <3> QED BY <3>1, <3>2
  <2> QED BY <2>1, <2>2 DEF IsTrace
<1>4. ASSUME NEW k \in 1..(n + 1), moves[k].item = i PROVE g[k].units >= 0
  <2>1. CASE k \in 1..n
    <3>1. k \in 0..n
      BY <2>1
    <3> QED BY <1>1, <1>2, <1>4, <2>1, <3>1
  <2>2. CASE k = n + 1
    BY <1>2, <1>4, <2>2 DEF State
  <2> QED BY <2>1, <2>2
<1> QED BY <1>2, <1>3, <1>4 DEF Reached
\* A movement is remembered by its kind and quantity.
LEMMA HistoryAppend ==
    ASSUME NEW s \in Seq(Movement), NEW m \in Movement
    PROVE  HistoryOf(Append(s, m)) = Append(HistoryOf(s), <<m.kind, m.qty>>)
<1> DEFINE a == Append(s, m)
           h == HistoryOf(s)
           P == Kinds \X Int
<1>1. /\ a \in Seq(Movement) /\ Len(a) = Len(s) + 1 /\ a[Len(s) + 1] = m
      /\ \A k \in 1..Len(s) : a[k] = s[k]
  BY AppendProperties
<1>2. \A k \in 1..Len(s) : <<s[k].kind, s[k].qty>> \in P
  <2>1. ASSUME NEW k \in 1..Len(s) PROVE <<s[k].kind, s[k].qty>> \in P
    <3>1. s[k] \in Movement
      OBVIOUS
    <3> QED BY <3>1 DEF Movement
  <2> QED BY <2>1
<1>3. h \in Seq(P) /\ Len(h) = Len(s) /\ \A k \in 1..Len(s) : h[k] = <<s[k].kind, s[k].qty>>
  <2>1. DOMAIN s = 1..Len(s) /\ Len(s) \in Nat
    OBVIOUS
  <2>2. h = [k \in 1..Len(s) |-> <<s[k].kind, s[k].qty>>]
    BY <2>1 DEF HistoryOf
  <2> QED BY <1>2, <2>1, <2>2
<1>4. <<m.kind, m.qty>> \in P
  BY DEF Movement
<1>5. HistoryOf(a) = [k \in 1..(Len(s) + 1) |-> <<a[k].kind, a[k].qty>>]
  BY <1>1 DEF HistoryOf
<1> HIDE DEF h, a, P
<1>6. /\ Append(h, <<m.kind, m.qty>>) \in Seq(P) /\ Len(Append(h, <<m.kind, m.qty>>)) = Len(s) + 1
      /\ Append(h, <<m.kind, m.qty>>)[Len(s) + 1] = <<m.kind, m.qty>>
      /\ \A k \in 1..Len(s) : Append(h, <<m.kind, m.qty>>)[k] = h[k]
  BY <1>3, <1>4, AppendProperties
<1>7. \A k \in 1..(Len(s) + 1) : HistoryOf(a)[k] = Append(h, <<m.kind, m.qty>>)[k]
  <2>1. ASSUME NEW k \in 1..(Len(s) + 1) PROVE HistoryOf(a)[k] = Append(h, <<m.kind, m.qty>>)[k]
    <3>1. Len(s) \in Nat
      OBVIOUS
    <3>2. CASE k \in 1..Len(s)
      BY <1>1, <1>3, <1>5, <1>6, <3>2
    <3>3. CASE k = Len(s) + 1
      BY <1>1, <1>5, <1>6, <3>3
    <3>4. k \in 1..Len(s) \/ k = Len(s) + 1
      BY <3>1
    <3> QED BY <3>2, <3>3, <3>4
  <2> QED BY <2>1
<1>8. HistoryOf(a) = [k \in 1..(Len(s) + 1) |-> HistoryOf(a)[k]]
  BY <1>5
<1>9. Append(h, <<m.kind, m.qty>>) = [k \in 1..(Len(s) + 1) |-> Append(h, <<m.kind, m.qty>>)[k]]
  BY <1>6
<1> QED BY <1>7, <1>8, <1>9 DEF h, a

\* The row as its lock holder sees it, before and after a movement.
LEMMA SeenReached ==
    ASSUME IInv, NEW r \in Requests, NEW o, NEW n, Progress(r, o, n), NEW i \in Items
    PROVE  Reached(i, Seen(r, i), o.moves, n)
<1>1. CASE Owns(r, i)
  BY <1>1 DEF Progress, Owns, Seen
<1>2. CASE ~Owns(r, i)
  <2>1. \A k \in 1..n : o.moves[k].item # i
    BY <1>2 DEF Progress, Owns
  <2>2. ledger[i] \o <<>> = ledger[i]
    BY ConcatEmptySeq DEF IInv, TypeOK
  <2>3. State(i, Seen(r, i)) = Committed(i)
    BY <1>2, <2>2 DEF State, Committed, Seen
  <2>4. n \in Nat
    BY DEF Progress
  <2> QED BY <2>1, <2>3, <2>4, NotMoved
<1> QED BY <1>1, <1>2

LEMMA MovedState ==
    ASSUME IInv, NEW i \in Items, NEW w \in Work, NEW leg \in Leg, Accepted(w, leg), WorkOK(row[i].onHand, w)
    PROVE  /\ leg.item = i => State(i, Moved(w, leg)) = Whole!Step(i, State(i, w), PartOf(leg))
           /\ leg.item # i => State(i, w) = Whole!Step(i, State(i, w), PartOf(leg))
           /\ Moved(w, leg).row.onHand >= 0 /\ Moved(w, leg).row.status = "live"
<1>1. PartOf(leg).item = leg.item /\ PartOf(leg).qty = leg.qty /\ PartOf(leg).kind = leg.kind
  BY DEF PartOf, Part
<1> DEFINE e == [kind |-> leg.kind, qty |-> leg.qty, after |-> w.row.onHand + leg.qty,
                 costs |-> UnitCosts(w.layers, leg)]
<1>2. Moved(w, leg).entries = Append(w.entries, e) /\ Moved(w, leg).row.onHand = w.row.onHand + leg.qty
      /\ Moved(w, leg).row.status = "live"
  BY DEF Moved
<1>3. /\ w.entries \in Seq(Movement) /\ ledger[i] \in Seq(Movement) /\ w.row.onHand \in Nat
      /\ w.layers \in Seq(Costs) /\ w.row.onHand + leg.qty \in Nat /\ leg.qty \in Int /\ leg.kind \in Kinds
      /\ w.row.onHand <= Len(w.layers)
  BY DEF IInv, TypeOK, Work, Row, Accepted, Leg, WorkOK
<1>4. e \in Movement
  <2>1. UnitCosts(w.layers, leg) \in Seq(Costs)
    BY <1>3, LegCosts
  <2> QED BY <1>3, <2>1 DEF Movement
<1>5. e.kind = leg.kind /\ e.qty = leg.qty
  OBVIOUS
<1> HIDE DEF e
<1>6. ledger[i] \o Append(w.entries, e) = Append(ledger[i] \o w.entries, e)
  <2> DEFINE s == ledger[i]
             t == w.entries
  <2>1. s \in Seq(Movement) /\ t \in Seq(Movement)
    BY <1>3
  <2> HIDE DEF s, t
  <2>2. <<e>> \in Seq(Movement) /\ Append(t, e) = t \o <<e>> /\ s \o t \in Seq(Movement)
    BY <1>4, <2>1, AppendIsConcat, ConcatProperties
  <2>3. Append(s \o t, e) = (s \o t) \o <<e>>
    BY <1>4, <2>2, AppendIsConcat
  <2>4. (s \o t) \o <<e>> = s \o (t \o <<e>>)
    BY <2>1, <2>2, ConcatAssociative
  <2>5. s \o Append(t, e) = Append(s \o t, e)
    BY <2>2, <2>3, <2>4
  <2> QED BY <2>5 DEF s, t
<1>7. ledger[i] \o w.entries \in Seq(Movement)
  BY <1>3, ConcatProperties
<1>8. HistoryOf(ledger[i] \o Append(w.entries, e)) = Append(HistoryOf(ledger[i] \o w.entries), <<leg.kind, leg.qty>>)
  BY <1>4, <1>5, <1>6, <1>7, HistoryAppend
<1> QED BY <1>1, <1>2, <1>3, <1>8 DEF State, Whole!Step

\* A request whose rows nobody touches is as far as it was.
LEMMA ProgressElsewhere ==
    ASSUME NEW r, NEW o, NEW n, Progress(r, o, n), req'[r] = req[r], work'[r] = work[r],
           \A i \in DOMAIN work[r] : row'[i] = row[i] /\ ledger'[i] = ledger[i]
    PROVE  Progress(r, o, n)'
<1>1. ASSUME NEW i \in DOMAIN work[r] PROVE Reached(i, work[r][i], o.moves, n)'
  <2>1. Reached(i, work[r][i], o.moves, n)
    BY DEF Progress
  <2> QED BY <2>1 DEF Reached, IsTrace, Committed, State
<1> QED BY <1>1 DEF Progress
\* A step of one request that touches no committed row and no other request.
LEMMA OthersUntouched ==
    ASSUME IInv, AtomicOK, NEW r \in Requests, NEW q \in Requests, q # r,
           req' = [req EXCEPT ![r] = req'[r]], work'[q] = work[q], UNCHANGED <<row, ledger>>
    PROVE  IF req'[q].active THEN \E o, n : Progress(q, o, n)' ELSE DOMAIN work'[q] = {}
<1>1. req'[q] = req[q]
  BY DEF IInv, TypeOK
<1>2. CASE req[q].active
  <2>1. PICK o, n : Progress(q, o, n)
    BY <1>2 DEF AtomicOK
  <2>2. Progress(q, o, n)'
    BY <1>1, <2>1, ProgressElsewhere
  <2> QED BY <1>1, <1>2, <2>2
<1>3. CASE ~req[q].active
  BY <1>1, <1>3 DEF AtomicOK
<1> QED BY <1>2, <1>3

\* A request that starts is one of the orders, with everything still to do.
LEMMA StartsWhole ==
    ASSUME IInv, AtomicOK, NEW r \in Requests, NEW legs \in Seq(Leg), NEW remove \in Items \cup {NoItem},
           Start(r, legs, remove), NEW moves \in Seq(Parts), NEW removes \in SUBSET Items,
           [moves |-> moves, removes |-> removes] \in AllOrders, Len(moves) = Len(legs),
           \A k \in 1..Len(legs) : moves[k] = PartOf(legs[k]),
           IF remove = NoItem THEN removes = {} ELSE removes = {remove}
    PROVE  AtomicOK'
<1> DEFINE o == [moves |-> moves, removes |-> removes]
<1>1. /\ ~req[r].active /\ req' = [req EXCEPT ![r] = [active |-> TRUE, legs |-> legs, remove |-> remove]]
      /\ UNCHANGED <<row, ledger, work>>
  BY DEF Start
<1>2. req'[r].active /\ req'[r].legs = legs /\ req'[r].remove = remove /\ req' = [req EXCEPT ![r] = req'[r]]
  BY <1>1 DEF IInv, TypeOK
<1>3. DOMAIN work'[r] = {}
  BY <1>1 DEF AtomicOK
<1>4. o.moves = moves /\ o.removes = removes /\ o \in AllOrders
  OBVIOUS
<1> HIDE DEF o
<1>5. Len(legs) \in Nat /\ \A k \in 1..Len(legs) : moves[0 + k] = moves[k]
  OBVIOUS
<1>6. Progress(r, o, 0)'
  <2>1. 0 \in 0..Len(o.moves) /\ Len(legs) = Len(o.moves) - 0
    BY <1>4, <1>5
  <2>2. \A k \in 1..Len(legs) : o.moves[0 + k] = PartOf(legs[k])
    BY <1>4, <1>5
  <2>3. 1..0 = {}
    OBVIOUS
  <2>4. IF remove = NoItem THEN o.removes = {} ELSE o.removes = {remove}
    BY <1>4
  <2> QED BY <1>2, <1>3, <1>4, <2>1, <2>2, <2>3, <2>4 DEF Progress
<1>7. ASSUME NEW q \in Requests
      PROVE  IF req'[q].active THEN \E x, n : Progress(q, x, n)' ELSE DOMAIN work'[q] = {}
  <2>1. CASE q = r
    BY <1>2, <1>6, <2>1
  <2>2. CASE q # r
    BY <1>1, <1>2, <2>2, OthersUntouched
  <2> QED BY <2>1, <2>2
<1> QED BY <1>7 DEF AtomicOK

\* One movement is an order, and so are a transfer and the lines of a sale.
LEMMA SingleOrder ==
    ASSUME IInv, AtomicOK, NEW r \in Requests, NEW i \in Items, NEW q \in Int, NEW c \in Costs,
           NEW kind \in {"in", "out", "opening"}, Start(r, <<Move(i, q, c, kind)>>, NoItem)
    PROVE  AtomicOK'
<1>1. /\ Move(i, q, c, kind) \in Leg /\ Part(i, q, kind) \in Parts
      /\ PartOf(Move(i, q, c, kind)) = Part(i, q, kind)
  BY DEF Move, Leg, Part, Parts, PartOf, Kinds
<1> DEFINE legs == <<Move(i, q, c, kind)>>
           moves == <<Part(i, q, kind)>>
<1>2. legs \in Seq(Leg) /\ moves \in Seq(Parts) /\ Len(legs) = 1 /\ Len(moves) = 1
      /\ legs[1] = Move(i, q, c, kind) /\ moves[1] = Part(i, q, kind)
  BY <1>1
<1>3. [moves |-> moves, removes |-> {}] \in AllOrders
  <2>1. moves \in Single(Int)
    BY DEF Single
  <2> HIDE DEF moves
  <2> QED BY <2>1 DEF AllOrders, OrdersOf
<1>4. \A k \in 1..Len(legs) : moves[k] = PartOf(legs[k])
  BY <1>1, <1>2
<1>5. Start(r, legs, NoItem)
  OBVIOUS
<1> HIDE DEF legs, moves
<1> QED BY <1>2, <1>3, <1>4, <1>5, StartsWhole

LEMMA BeginsWhole == ASSUME IInv, AtomicOK, NEW r \in Requests, Begin(r) PROVE AtomicOK'
<1>1. CostPrice \in Costs /\ MaxQty \in Nat /\ MaxLines \in Nat
  BY CostAssumption, BoundAssumption
<1>2. CASE ReceiveStock(r)
  <2>1. PICK i \in Items, q \in 1..MaxQty, c \in Costs : Start(r, <<Move(i, q, c, "in")>>, NoItem)
    BY <1>2 DEF ReceiveStock
  <2> DEFINE kind == "in"
  <2>2. kind \in {"in", "out", "opening"} /\ q \in Int /\ Start(r, <<Move(i, q, c, kind)>>, NoItem)
    BY <1>1, <2>1
  <2> HIDE DEF kind
  <2> QED BY <2>2, SingleOrder
<1>3. CASE AdjustStock(r)
  <2>1. PICK i \in Items, q \in -MaxQty..MaxQty :
          Start(r, <<Move(i, q, CostPrice, IF q > 0 THEN "in" ELSE "out")>>, NoItem)
    BY <1>3 DEF AdjustStock
  <2> DEFINE kind == IF q > 0 THEN "in" ELSE "out"
  <2>2. kind \in {"in", "out", "opening"} /\ q \in Int /\ Start(r, <<Move(i, q, CostPrice, kind)>>, NoItem)
    BY <1>1, <2>1
  <2> HIDE DEF kind
  <2> QED BY <1>1, <2>2, SingleOrder
<1>4. CASE SetOpeningBalance(r)
  <2>1. PICK i \in Items, d \in Int : Start(r, <<Move(i, d, CostPrice, "opening")>>, NoItem)
    BY <1>4 DEF SetOpeningBalance
  <2> DEFINE kind == "opening"
  <2>2. kind \in {"in", "out", "opening"} /\ CostPrice \in Costs /\ Start(r, <<Move(i, d, CostPrice, kind)>>, NoItem)
    BY <1>1, <2>1
  <2> HIDE DEF kind
  <2> QED BY <2>2, SingleOrder
<1>5. CASE TransferStock(r)
  <2>1. PICK p \in Products, a \in Warehouses, b \in Warehouses, q \in 1..MaxQty :
          Start(r, <<Move(<<p, a>>, -q, CostPrice, "out"), Move(<<p, b>>, q, CostPrice, "in")>>, NoItem)
    BY <1>5 DEF TransferStock
  <2> DEFINE legs == <<Move(<<p, a>>, -q, CostPrice, "out"), Move(<<p, b>>, q, CostPrice, "in")>>
             moves == <<Part(<<p, a>>, -q, "out"), Part(<<p, b>>, q, "in")>>
  <2>2. /\ Move(<<p, a>>, -q, CostPrice, "out") \in Leg /\ Move(<<p, b>>, q, CostPrice, "in") \in Leg
        /\ Part(<<p, a>>, -q, "out") \in Parts /\ Part(<<p, b>>, q, "in") \in Parts
        /\ PartOf(Move(<<p, a>>, -q, CostPrice, "out")) = Part(<<p, a>>, -q, "out")
        /\ PartOf(Move(<<p, b>>, q, CostPrice, "in")) = Part(<<p, b>>, q, "in")
    <3>1. <<p, a>> \in Items /\ <<p, b>> \in Items /\ q \in Int /\ -q \in Int
      BY <1>1 DEF Items
    <3> QED BY <1>1, <3>1 DEF Move, Leg, Part, Parts, PartOf, Kinds
  <2>3. legs \in Seq(Leg) /\ moves \in Seq(Parts) /\ Len(legs) = 2 /\ Len(moves) = 2
        /\ \A k \in 1..2 : moves[k] = PartOf(legs[k])
    BY <2>2
  <2>4. [moves |-> moves, removes |-> {}] \in AllOrders
    <3>1. moves \in Transfers
      BY DEF Transfers
    <3> HIDE DEF moves
    <3> QED BY <3>1 DEF AllOrders, OrdersOf
  <2>5. Start(r, legs, NoItem)
    BY <2>1
  <2> HIDE DEF legs, moves
  <2> QED BY <2>3, <2>4, <2>5, StartsWhole
<1>6. CASE SellStock(r)
  <2>1. PICK w \in Warehouses, n \in 1..MaxLines :
          \E ps \in [1..n -> Products], q \in 1..MaxQty, c \in Costs :
              Start(r, [k \in 1..n |-> Move(<<ps[k], w>>, -q, c, "sale")], NoItem)
    BY <1>6 DEF SellStock
  <2>2. PICK ps \in [1..n -> Products], q \in 1..MaxQty, c \in Costs :
          Start(r, [k \in 1..n |-> Move(<<ps[k], w>>, -q, c, "sale")], NoItem)
    BY <2>1
  <2> DEFINE legs == [k \in 1..n |-> Move(<<ps[k], w>>, -q, c, "sale")]
             moves == [k \in 1..n |-> Part(<<ps[k], w>>, -q, "sale")]
  <2>3. n \in Nat /\ -q \in Int
    BY <1>1
  <2>4. ASSUME NEW k \in 1..n
        PROVE  /\ Move(<<ps[k], w>>, -q, c, "sale") \in Leg /\ Part(<<ps[k], w>>, -q, "sale") \in Parts
               /\ PartOf(Move(<<ps[k], w>>, -q, c, "sale")) = Part(<<ps[k], w>>, -q, "sale")
    <3>1. <<ps[k], w>> \in Items
      BY DEF Items
    <3> QED BY <2>3, <3>1 DEF Move, Leg, Part, Parts, PartOf, Kinds
  <2>5. legs \in Seq(Leg) /\ moves \in Seq(Parts) /\ Len(legs) = n /\ Len(moves) = n
        /\ \A k \in 1..n : moves[k] = PartOf(legs[k])
    BY <2>3, <2>4
  <2>6. [moves |-> moves, removes |-> {}] \in AllOrders
    <3>1. moves \in {[k \in 1..n |-> Part(<<ss[k], v>>, -x, "sale")] :
                        ss \in [1..n -> Products], v \in Warehouses, x \in 1..MaxQty}
      OBVIOUS
    <3> HIDE DEF moves
    <3>2. moves \in Sales
      BY <3>1 DEF Sales
    <3> QED BY <3>2 DEF AllOrders, OrdersOf
  <2>7. Start(r, legs, NoItem)
    BY <2>2
  <2> HIDE DEF legs, moves
  <2> QED BY <2>5, <2>6, <2>7, StartsWhole
<1>7. CASE DestroyStockItem(r)
  <2>1. PICK i \in Items :
          Start(r, IF row[i].onHand > 0 THEN <<Move(i, -row[i].onHand, CostPrice, "out")>> ELSE <<>>, i)
    BY <1>7 DEF DestroyStockItem
  <2> DEFINE h == row[i].onHand
             m == Move(i, -h, CostPrice, "out")
             p == Part(i, -h, "out")
             legs == IF h > 0 THEN <<m>> ELSE <<>>
             moves == IF h > 0 THEN <<p>> ELSE <<>>
  <2>2. h \in Nat
    BY DEF IInv, TypeOK, Row
  <2> HIDE DEF h
  <2>3. m \in Leg /\ p \in Parts /\ PartOf(m) = p /\ p.item = i
    BY <1>1, <2>2 DEF Move, Leg, Part, Parts, PartOf, Kinds
  <2>4. p \in {Part(j, -x, "out") : j \in Items, x \in Nat}
    BY <2>2
  <2> HIDE DEF m, p
  <2>5. legs \in Seq(Leg) /\ moves \in Seq(Parts) /\ Len(legs) = Len(moves)
        /\ \A k \in 1..Len(legs) : moves[k] = PartOf(legs[k])
    BY <2>3
  <2>6. [moves |-> moves, removes |-> {i}] \in AllOrders
    <3>1. moves \in Emptying(Nat)
      BY <2>2 DEF Emptying, p
    <3>2. \A k \in DOMAIN moves : moves[k].item \in {i}
      BY <2>3
    <3> HIDE DEF moves
    <3> DEFINE x == [moves |-> moves, removes |-> {i}]
    <3>3. x \in [moves : Emptying(Nat), removes : {{j} : j \in Items}] /\ x.moves = moves /\ x.removes = {i}
      BY <3>1
    <3> QED BY <3>2, <3>3 DEF AllOrders, OrdersOf
  <2>7. Start(r, legs, i)
    BY <2>1 DEF h, m
  <2>8. i # NoItem /\ i \in Items \cup {NoItem} /\ {i} \in SUBSET Items
    BY DEF Items, NoItem
  <2> HIDE DEF legs, moves
  <2> QED BY <2>5, <2>6, <2>7, <2>8, StartsWhole
<1> QED BY <1>2, <1>3, <1>4, <1>5, <1>6, <1>7 DEF Begin
\* A movement under the lock of its row takes the request one movement further.
LEMMA MovesOn == ASSUME IInv, AtomicOK, NEW r \in Requests, RecordMovement(r) PROVE AtomicOK'
<1> DEFINE leg == Head(req[r].legs)
           i == leg.item
           v == Seen(r, i)
           w == Moved(v, leg)
           f == [j \in DOMAIN work[r] \cup {i} |-> IF j = i THEN w ELSE work[r][j]]
<1>1. /\ req[r].active /\ req[r].legs # <<>> /\ Accepted(v, leg) /\ work' = [work EXCEPT ![r] = f]
      /\ req' = [req EXCEPT ![r].legs = Tail(@)] /\ UNCHANGED <<row, layers, ledger>>
  BY DEF RecordMovement, Write
<1>2. req[r] \in ReqType /\ leg \in Leg /\ i \in Items
  <2>1. req[r] \in ReqType
    BY DEF IInv, TypeOK, ReqType
  <2>2. leg \in Leg
    BY <1>1, <2>1, HeadTailProperties DEF ReqType
  <2> QED BY <2>1, <2>2 DEF Leg
<1>3. PICK o, n : Progress(r, o, n)
  BY <1>1 DEF AtomicOK
<1>4. /\ req' = [req EXCEPT ![r] = req'[r]] /\ req'[r].active /\ req'[r].remove = req[r].remove
      /\ req'[r].legs = Tail(req[r].legs)
  BY <1>1, <1>2 DEF IInv, TypeOK, ReqType
<1>5. /\ Len(req'[r].legs) = Len(req[r].legs) - 1 /\ Len(req[r].legs) \in Nat \ {0} /\ leg = req[r].legs[1]
      /\ \A k \in 1..Len(req'[r].legs) : req'[r].legs[k] = req[r].legs[k + 1] /\ k + 1 \in 1..Len(req[r].legs)
  <2> DEFINE s == req[r].legs
  <2>1. s \in Seq(Leg) /\ s # <<>> /\ req'[r].legs = Tail(s) /\ leg = Head(s)
    BY <1>1, <1>2, <1>4 DEF ReqType
  <2> HIDE DEF s, leg
  <2>2. /\ Len(Tail(s)) = Len(s) - 1 /\ Len(s) \in Nat \ {0} /\ Head(s) = s[1]
        /\ \A k \in 1..Len(Tail(s)) : Tail(s)[k] = s[k + 1] /\ k + 1 \in 1..Len(s)
    BY <2>1
  <2>3. Len(req[r].legs) = Len(s)
    BY DEF s
  <2> QED BY <2>1, <2>2, <2>3 DEF s
<1>6. DOMAIN work'[r] = DOMAIN work[r] \cup {i} /\ work'[r] = f
  <2>1. work \in Holdings
    BY TypeOKHoldings DEF IInv
  <2> HIDE DEF f
  <2>2. work'[r] = f
    BY <1>1, <2>1 DEF Holdings
  <2> QED BY <2>2 DEF f
<1>7. v \in Work /\ WorkOK(row[i].onHand, v)
  BY <1>2, SeenOK
<1> HIDE DEF leg, f
<1>8. n \in Nat /\ n + 1 \in 0..Len(o.moves) /\ o.moves[n + 1] = PartOf(leg) /\ Len(req'[r].legs) = Len(o.moves) - (n + 1)
  <2>1. n \in 0..Len(o.moves) /\ Len(o.moves) \in Nat /\ Len(req[r].legs) = Len(o.moves) - n
    BY <1>3 DEF Progress
  <2>2. 1 \in 1..Len(req[r].legs)
    BY <1>5
  <2>3. o.moves[n + 1] = PartOf(req[r].legs[1])
    BY <1>3, <2>2 DEF Progress
  <2> QED BY <1>5, <2>1, <2>3
<1>9. PartOf(leg).item = i
  BY DEF PartOf, Part
<1>10. v.row.status # "removed"
  BY <1>1 DEF Accepted
<1>11. row[i].status # "removed"
  <2>1. CASE Owns(r, i)
    <3>1. v = work[r][i]
      BY <2>1 DEF Seen
    <3>2. PICK k \in 1..n : o.moves[k].item = i
      BY <1>3, <1>10, <2>1, <3>1 DEF Progress, Owns
    <3> QED BY <1>3, <3>2 DEF Progress
  <2>2. CASE ~Owns(r, i)
    BY <1>10, <2>2 DEF Seen
  <2> QED BY <2>1, <2>2
<1>12. \A k \in 1..Len(req'[r].legs) : o.moves[(n + 1) + k] = PartOf(req'[r].legs[k])
  <2>1. ASSUME NEW k \in 1..Len(req'[r].legs) PROVE o.moves[(n + 1) + k] = PartOf(req'[r].legs[k])
    <3>1. k + 1 \in 1..Len(req[r].legs) /\ req'[r].legs[k] = req[r].legs[k + 1]
      BY <1>5
    <3>2. o.moves[n + (k + 1)] = PartOf(req[r].legs[k + 1])
      BY <1>3, <3>1 DEF Progress
    <3>3. n + (k + 1) = (n + 1) + k
      BY <1>8
    <3> QED BY <3>1, <3>2, <3>3
  <2> QED BY <2>1
<1>13. \A k \in 1..(n + 1) : o.moves[k].item \in DOMAIN work'[r] /\ row[o.moves[k].item].status # "removed"
  <2>1. ASSUME NEW k \in 1..(n + 1)
        PROVE  o.moves[k].item \in DOMAIN work'[r] /\ row[o.moves[k].item].status # "removed"
    <3>1. CASE k \in 1..n
      BY <1>3, <1>6, <3>1 DEF Progress
    <3>2. CASE k = n + 1
      BY <1>6, <1>8, <1>9, <1>11, <3>2
    <3> QED BY <1>8, <3>1, <3>2
  <2> QED BY <2>1
<1>14. ASSUME NEW j \in DOMAIN work'[r]
       PROVE  /\ Reached(j, work'[r][j], o.moves, n + 1)
              /\ (\E k \in 1..(n + 1) : o.moves[k].item = j) \/ work'[r][j].row.status = "removed"
              /\ work'[r][j].row.status = "removed" => j \in o.removes /\ j # i /\ j \in DOMAIN work[r]
                                                       /\ work[r][j].row.status = "removed"
  <2>1. CASE j = i
    <3>1. work'[r][j] = w
      BY <1>6, <2>1 DEF f
    <3>2. Reached(i, v, o.moves, n)
      BY <1>2, <1>3, SeenReached
    <3>3. State(i, w) = Whole!Step(i, State(i, v), o.moves[n + 1]) /\ w.row.onHand >= 0 /\ w.row.status = "live"
      <4> HIDE DEF v
      <4> QED BY <1>1, <1>2, <1>7, <1>8, MovedState
    <3>4. Reached(i, w, o.moves, n + 1)
      <4> HIDE DEF v, w
      <4> QED BY <1>8, <3>2, <3>3, MovedOnce
    <3>5. o.moves[n + 1].item = j /\ n + 1 \in 1..(n + 1)
      BY <1>8, <1>9, <2>1
    <3> HIDE DEF w, i
    <3> QED BY <2>1, <3>1, <3>3, <3>4, <3>5
  <2>2. CASE j # i
    <3>1. j \in DOMAIN work[r] /\ work'[r][j] = work[r][j] /\ j \in Items
      BY <1>6, <2>2, WorkType DEF f, IInv
    <3>2. Reached(j, work[r][j], o.moves, n)
      BY <1>3, <3>1 DEF Progress
    <3>3. State(j, work[r][j]) = Whole!Step(j, State(j, work[r][j]), o.moves[n + 1]) /\ o.moves[n + 1].item # j
      BY <1>8, <1>9, <2>2 DEF Whole!Step
    <3>4. Reached(j, work[r][j], o.moves, n + 1)
      BY <1>8, <3>2, <3>3, MovedOnce
    <3>5. \A k \in 1..n : k \in 1..(n + 1)
      BY <1>8
    <3> HIDE DEF i
    <3> QED BY <1>3, <2>2, <3>1, <3>4, <3>5 DEF Progress
  <2> QED BY <2>1, <2>2
<1> HIDE DEF i, v, w
<1>15. IF req'[r].remove = NoItem
       THEN /\ \A j \in o.removes : j \in DOMAIN work'[r] /\ work'[r][j].row.status = "removed"
            /\ o.removes # {} => req'[r].legs = <<>>
       ELSE o.removes = {req'[r].remove} /\ \A j \in DOMAIN work'[r] : work'[r][j].row.status # "removed"
  <2>1. CASE req[r].remove = NoItem
    <3>1. o.removes = {}
      BY <1>1, <1>3, <2>1 DEF Progress
    <3> QED BY <1>4, <2>1, <3>1
  <2>2. CASE req[r].remove # NoItem
    BY <1>3, <1>4, <1>14, <2>2 DEF Progress
  <2> QED BY <2>1, <2>2
<1>16. Progress(r, o, n + 1)'
  <2>1. \A j \in DOMAIN work'[r] : Reached(j, work[r][j], o.moves, n + 1)'
    <3>1. ASSUME NEW j \in DOMAIN work'[r] PROVE Reached(j, work[r][j], o.moves, n + 1)'
      <4>1. Reached(j, work'[r][j], o.moves, n + 1)
        BY <1>14
      <4> QED BY <1>1, <4>1 DEF Reached, IsTrace, Committed, State
    <3> QED BY <3>1
  <2>2. o \in AllOrders /\ o.moves \in Seq(Parts) /\ o.removes \subseteq Items
    BY <1>3 DEF Progress
  <2> QED BY <1>1, <1>8, <1>12, <1>13, <1>14, <1>15, <2>1, <2>2 DEF Progress
<1>17. \A q \in Requests \ {r} : work'[q] = work[q]
  <2>1. work \in Holdings
    BY TypeOKHoldings DEF IInv
  <2> QED BY <1>1, <2>1 DEF Holdings
<1>18. ASSUME NEW q \in Requests
       PROVE  IF req'[q].active THEN \E x, m : Progress(q, x, m)' ELSE DOMAIN work'[q] = {}
  <2>1. CASE q = r
    BY <1>4, <1>16, <2>1
  <2>2. CASE q # r
    BY <1>1, <1>4, <1>17, <2>2, OthersUntouched
  <2> QED BY <2>1, <2>2
<1> QED BY <1>18 DEF AtomicOK
\* The removal of the record is the last thing an order does.
LEMMA RemovesLast == ASSUME IInv, AtomicOK, NEW r \in Requests, RemoveRow(r) PROVE AtomicOK'
<1> DEFINE i == req[r].remove
           v == Seen(r, i)
           w == [v EXCEPT !.row.status = "removed"]
           f == [j \in DOMAIN work[r] \cup {i} |-> IF j = i THEN w ELSE work[r][j]]
<1>1. /\ req[r].active /\ req[r].legs = <<>> /\ i # NoItem /\ work' = [work EXCEPT ![r] = f]
      /\ req' = [req EXCEPT ![r].remove = NoItem] /\ UNCHANGED <<row, layers, ledger>>
  BY DEF RemoveRow, Write
<1>2. req[r] \in ReqType /\ i \in Items
  BY <1>1 DEF IInv, TypeOK, ReqType
<1>3. PICK o, n : Progress(r, o, n)
  BY <1>1 DEF AtomicOK
<1>4. /\ req' = [req EXCEPT ![r] = req'[r]] /\ req'[r].active /\ req'[r].remove = NoItem
      /\ req'[r].legs = req[r].legs
  BY <1>1, <1>2 DEF IInv, TypeOK, ReqType
<1>5. work \in Holdings
  BY TypeOKHoldings DEF IInv
<1>6. DOMAIN work'[r] = DOMAIN work[r] \cup {i} /\ work'[r] = f
  <2> HIDE DEF f
  <2>1. work'[r] = f
    BY <1>1, <1>5 DEF Holdings
  <2> QED BY <2>1 DEF f
<1>7. v \in Work
  BY <1>2, SeenOK
<1>8. w.row.status = "removed" /\ State(i, w) = State(i, v)
  <2> HIDE DEF v
  <2>1. w.row.status = "removed" /\ w.row.onHand = v.row.onHand /\ w.entries = v.entries
    BY <1>7 DEF Work, Row
  <2> HIDE DEF w
  <2> QED BY <2>1 DEF State
<1>9. o.removes = {i}
  BY <1>1, <1>3 DEF Progress
<1> HIDE DEF f
<1>10. ASSUME NEW j \in DOMAIN work'[r]
       PROVE  /\ Reached(j, work'[r][j], o.moves, n)
              /\ (\E k \in 1..n : o.moves[k].item = j) \/ work'[r][j].row.status = "removed"
              /\ work'[r][j].row.status = "removed" => j \in o.removes
  <2>1. CASE j = i
    <3>1. work'[r][j] = w
      BY <1>6, <2>1 DEF f
    <3>2. Reached(i, v, o.moves, n)
      BY <1>2, <1>3, SeenReached
    <3>3. Reached(i, w, o.moves, n)
      BY <1>8, <3>2 DEF Reached
    <3> HIDE DEF w
    <3> QED BY <1>8, <1>9, <2>1, <3>1, <3>3
  <2>2. CASE j # i
    <3>1. j \in DOMAIN work[r] /\ work'[r][j] = work[r][j]
      BY <1>6, <2>2 DEF f
    <3> QED BY <1>3, <3>1 DEF Progress
  <2> QED BY <2>1, <2>2
<1>11. work'[r][i].row.status = "removed" /\ i \in DOMAIN work'[r]
  BY <1>6, <1>8 DEF f
<1> HIDE DEF w, v, i
<1>12. Progress(r, o, n)'
  <2>1. \A j \in DOMAIN work'[r] : Reached(j, work[r][j], o.moves, n)'
    <3>1. ASSUME NEW j \in DOMAIN work'[r] PROVE Reached(j, work[r][j], o.moves, n)'
      <4>1. Reached(j, work'[r][j], o.moves, n)
        BY <1>10
      <4> QED BY <1>1, <4>1 DEF Reached, IsTrace, Committed, State
    <3> QED BY <3>1
  <2>2. \A k \in 1..n : o.moves[k].item \in DOMAIN work'[r] /\ row[o.moves[k].item].status # "removed"
    BY <1>3, <1>6 DEF Progress
  <2>3. /\ o \in AllOrders /\ o.moves \in Seq(Parts) /\ o.removes \subseteq Items /\ n \in 0..Len(o.moves)
        /\ Len(req'[r].legs) = Len(o.moves) - n
        /\ \A k \in 1..Len(req'[r].legs) : o.moves[n + k] = PartOf(req'[r].legs[k])
    BY <1>3, <1>4 DEF Progress
  <2>4. /\ \A j \in o.removes : j \in DOMAIN work'[r] /\ work'[r][j].row.status = "removed"
        /\ req'[r].legs = <<>>
    BY <1>1, <1>4, <1>9, <1>11
  <2> QED BY <1>1, <1>4, <1>10, <2>1, <2>2, <2>3, <2>4 DEF Progress
<1>13. \A q \in Requests \ {r} : work'[q] = work[q]
  BY <1>1, <1>5 DEF Holdings
<1>14. ASSUME NEW q \in Requests
       PROVE  IF req'[q].active THEN \E x, m : Progress(q, x, m)' ELSE DOMAIN work'[q] = {}
  <2>1. CASE q = r
    BY <1>4, <1>12, <2>1
  <2>2. CASE q # r
    BY <1>1, <1>4, <1>13, <2>2, OthersUntouched
  <2> QED BY <2>1, <2>2
<1> QED BY <1>14 DEF AtomicOK

\* A request that is undone has done nothing.
LEMMA UndoneWhole == ASSUME IInv, AtomicOK, NEW r \in Requests, Rollback(r) PROVE AtomicOK'
<1>1. work \in Holdings
  BY TypeOKHoldings DEF IInv
<1>2. /\ req' = [req EXCEPT ![r] = Idle] /\ UNCHANGED <<row, ledger>> /\ DOMAIN work'[r] = {}
      /\ \A q \in Requests \ {r} : work'[q] = work[q]
  BY <1>1 DEF Rollback, Holdings
<1>3. req'[r] = Idle /\ ~req'[r].active /\ req' = [req EXCEPT ![r] = req'[r]]
  BY <1>2 DEF IInv, TypeOK, Idle
<1>4. ASSUME NEW q \in Requests
      PROVE  IF req'[q].active THEN \E x, m : Progress(q, x, m)' ELSE DOMAIN work'[q] = {}
  <2>1. CASE q = r
    BY <1>2, <1>3, <2>1
  <2>2. CASE q # r
    BY <1>2, <1>3, <2>2, OthersUntouched
  <2> QED BY <2>1, <2>2
<1> QED BY <1>4 DEF AtomicOK

\* A commit leaves the rows of the others as they are.
LEMMA CommitsAlone == ASSUME IInv, AtomicOK, NEW r \in Requests, Commit(r) PROVE AtomicOK'
<1>1. work \in Holdings
  BY TypeOKHoldings DEF IInv
<1>2. /\ req' = [req EXCEPT ![r] = Idle] /\ DOMAIN work'[r] = {}
      /\ \A q \in Requests \ {r} : work'[q] = work[q]
  BY <1>1 DEF Commit, Holdings
<1>3. ~req'[r].active /\ \A q \in Requests \ {r} : req'[q] = req[q]
  BY <1>2 DEF IInv, TypeOK, Idle
<1>4. ASSUME NEW q \in Requests, q # r, req[q].active PROVE \E x, m : Progress(q, x, m)'
  <2>1. PICK o, n : Progress(q, o, n)
    BY <1>4 DEF AtomicOK
  <2>2. ASSUME NEW i \in DOMAIN work[q] PROVE row'[i] = row[i] /\ ledger'[i] = ledger[i]
    <3>1. i \in Items /\ ~Owns(r, i)
      BY <1>4, WorkType DEF IInv, LocksExclusive, Owns
    <3> QED BY <3>1 DEF Commit
  <2>3. Progress(q, o, n)'
    BY <1>2, <1>3, <1>4, <2>1, <2>2, ProgressElsewhere
  <2> QED BY <2>3
<1>5. ASSUME NEW q \in Requests
      PROVE  IF req'[q].active THEN \E x, m : Progress(q, x, m)' ELSE DOMAIN work'[q] = {}
  <2>1. CASE q = r
    BY <1>2, <1>3, <2>1
  <2>2. CASE q # r
    BY <1>2, <1>3, <1>4, <2>2 DEF AtomicOK
  <2> QED BY <2>1, <2>2
<1> QED BY <1>5 DEF AtomicOK

LEMMA AtomicSteps == ASSUME IInv, AtomicOK, [Next]_vars PROVE AtomicOK'
<1>1. CASE UNCHANGED vars
  <2>1. ASSUME NEW q \in Requests
        PROVE  IF req'[q].active THEN \E x, m : Progress(q, x, m)' ELSE DOMAIN work'[q] = {}
    <3>1. CASE req[q].active
      <4>1. PICK o, n : Progress(q, o, n)
        BY <3>1 DEF AtomicOK
      <4>2. Progress(q, o, n)'
        BY <1>1, <4>1, ProgressElsewhere DEF vars
      <4> QED BY <1>1, <3>1, <4>2 DEF vars
    <3>2. CASE ~req[q].active
      BY <1>1, <3>2 DEF AtomicOK, vars
    <3> QED BY <3>1, <3>2
  <2> QED BY <2>1 DEF AtomicOK
<1>2. ASSUME NEW r \in Requests, Begin(r) PROVE AtomicOK'
  BY <1>2, BeginsWhole
<1>3. ASSUME NEW r \in Requests, Finish(r) PROVE AtomicOK'
  BY <1>3, MovesOn, UndoneWhole, RemovesLast, CommitsAlone DEF Finish, Refuse, AbortDeadlock
<1> QED BY <1>1, <1>2, <1>3 DEF Next, Done

-----------------------------------------------------------------------------
\* A commit is the abstract request, whole.
LEMMA CommitIsOrder ==
    ASSUME IInv, AtomicOK, NEW r \in Requests, Commit(r) PROVE \E o \in AllOrders : Whole!Perform(o)
<1>1. /\ req[r].active /\ req[r].legs = <<>> /\ req[r].remove = NoItem
      /\ row' = [i \in Items |-> IF Owns(r, i) THEN work[r][i].row ELSE row[i]]
      /\ ledger' = [i \in Items |-> IF Owns(r, i) THEN ledger[i] \o work[r][i].entries ELSE ledger[i]]
  BY DEF Commit
<1>2. PICK o, n : Progress(r, o, n)
  BY <1>1 DEF AtomicOK
<1> DEFINE N == Len(o.moves)
<1>3. n = N /\ N \in Nat /\ o \in AllOrders
  BY <1>1, <1>2 DEF Progress
<1>4. ASSUME NEW i \in Items
      PROVE  /\ Whole!After(o.moves, i)[N].units = row'[i].onHand
             /\ Whole!After(o.moves, i)[N].moved = HistoryOf(ledger'[i])
  <2>1. Reached(i, Seen(r, i), o.moves, N)
    BY <1>2, <1>3, SeenReached
  <2>2. PICK f : IsTrace(f, o.moves, N, i) /\ f[N] = State(i, Seen(r, i))
    BY <2>1 DEF Reached
  <2>3. Whole!After(o.moves, i)[N] = f[N]
    BY <1>3, <2>2, AfterIs
  <2>4. f[N].units = row'[i].onHand /\ f[N].moved = HistoryOf(ledger'[i])
    <3>1. CASE Owns(r, i)
      BY <1>1, <2>2, <3>1 DEF State, Seen
    <3>2. CASE ~Owns(r, i)
      <4>1. ledger[i] \o <<>> = ledger[i]
        BY ConcatEmptySeq DEF IInv, TypeOK
      <4> QED BY <1>1, <2>2, <3>2, <4>1 DEF State, Seen
    <3> QED BY <3>1, <3>2
  <2> QED BY <2>3, <2>4
<1>5. ASSUME NEW k \in 1..N
      PROVE  o.moves[k].item \notin Removed /\ Whole!After(o.moves, o.moves[k].item)[k].units >= 0
  <2> DEFINE i == o.moves[k].item
  <2>1. i \in DOMAIN work[r] /\ row[i].status # "removed"
    BY <1>2, <1>3 DEF Progress
  <2>2. i \in Items
    BY <2>1, WorkType DEF IInv
  <2>3. PICK f : IsTrace(f, o.moves, N, i) /\ \A j \in 1..N : o.moves[j].item = i => f[j].units >= 0
    <3>1. Reached(i, work[r][i], o.moves, N)
      BY <1>2, <1>3, <2>1 DEF Progress
    <3> QED BY <3>1 DEF Reached
  <2>4. Whole!After(o.moves, i)[k] = f[k]
    <3>1. k \in 0..N
      BY <1>3
    <3> HIDE DEF i
    <3> QED BY <1>3, <2>2, <2>3, <3>1, AfterIs
  <2> QED BY <2>1, <2>3, <2>4 DEF Removed
<1>6. OnHand' = [i \in Items |-> Whole!After(o.moves, i)[N].units]
  BY <1>4 DEF OnHand
<1>7. History' = [i \in Items |-> Whole!After(o.moves, i)[N].moved]
  BY <1>4 DEF History
<1>8. Removed' = Removed \cup o.removes
  <2>1. ASSUME NEW i \in Items PROVE i \in Removed' <=> i \in Removed \cup o.removes
    <3>1. CASE Owns(r, i)
      <4>1. row'[i].status = "removed" <=> i \in o.removes
        BY <1>1, <1>2, <3>1 DEF Progress, Owns
      <4>2. row[i].status = "removed" => i \in o.removes
        BY <1>2, <3>1 DEF Progress, Owns
      <4> QED BY <4>1, <4>2 DEF Removed
    <3>2. CASE ~Owns(r, i)
      <4>1. i \notin o.removes /\ row'[i] = row[i]
        BY <1>1, <1>2, <3>2 DEF Progress, Owns
      <4> QED BY <4>1 DEF Removed
    <3> QED BY <3>1, <3>2
  <2>2. Removed' \subseteq Items /\ Removed \subseteq Items /\ o.removes \subseteq Items
    BY <1>2 DEF Removed, Progress
  <2> QED BY <2>1, <2>2
<1>9. Whole!Perform(o)
  BY <1>5, <1>6, <1>7, <1>8 DEF Whole!Perform
<1> QED BY <1>3, <1>9

\* Every request takes effect as a whole and alone, whatever else runs: the ledger with its
\* row locks, refusals, deadlock victims and commits implements AtomicStock, for any
\* products, warehouses, requests and quantities.
THEOREM LedgerIsAtomic == Spec => Whole!Spec
<1>1. Init => AtomicOK /\ Whole!Init
  <2> SUFFICES ASSUME Init PROVE AtomicOK /\ Whole!Init
    OBVIOUS
  <2>1. AtomicOK
    BY DEF Init, AtomicOK, Idle
  <2>2. HistoryOf(<<>>) = <<>>
    BY DEF HistoryOf
  <2>3. OnHand = [i \in Items |-> 0] /\ History = [i \in Items |-> <<>>] /\ Removed = {}
    BY <2>2 DEF Init, OnHand, History, Removed
  <2> QED BY <2>1, <2>3 DEF Whole!Init
<1>2. IInv /\ AtomicOK /\ [Next]_vars => AtomicOK'
  BY AtomicSteps
<1>3. IInv /\ AtomicOK /\ [Next]_vars => [Whole!Next]_(Whole!vars)
  <2> SUFFICES ASSUME IInv, AtomicOK, [Next]_vars PROVE [Whole!Next]_(Whole!vars)
    OBVIOUS
  <2>1. ASSUME UNCHANGED <<row, ledger>> PROVE UNCHANGED Whole!vars
    BY <2>1 DEF Whole!vars, OnHand, History, Removed
  <2>2. ASSUME NEW r \in Requests, Begin(r) PROVE UNCHANGED Whole!vars
    BY <2>1, <2>2 DEF Begin, Start, ReceiveStock, AdjustStock, TransferStock, SellStock, SetOpeningBalance,
                     DestroyStockItem
  <2>3. ASSUME NEW r \in Requests, Finish(r) PROVE [Whole!Next]_(Whole!vars)
    <3>1. CASE Commit(r)
      BY <3>1, CommitIsOrder DEF Whole!Next
    <3>2. CASE ~Commit(r)
      BY <2>1, <2>3, <3>2 DEF Finish, RecordMovement, Refuse, RemoveRow, AbortDeadlock, Rollback
    <3> QED BY <3>1, <3>2
  <2> QED BY <2>1, <2>2, <2>3 DEF Next, Done, vars
<1> QED BY <1>1, <1>2, <1>3, Invariance, PTL DEF Spec, Whole!Spec
=============================================================================
