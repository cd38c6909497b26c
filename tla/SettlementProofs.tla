---------------------------- MODULE SettlementProofs ----------------------------
(***************************************************************************)
(* Proofs about settlement for any workers, charges, links, accounts,      *)
(* claims and amounts: the types, that nothing is posted twice, and that   *)
(* what the records say of money happened.                                 *)
(***************************************************************************)
EXTENDS Settlement, SumTheorems

Sums == 0..Total
Logged == [step : {"logged"}, charge : Charges]
Settling == [step : {"found", "posted", "marked"}, charge : Charges, note : Notes, apply : Sums]
Confirming == [step : {"confirming"}, claim : Claims, apply : Sums]
Rejecting == [step : {"rejecting"}, claim : Claims]
Works == {Idle} \cup Logged \cup Settling \cup Confirming \cup Rejecting

OnCharge(w) == work[w].step \in {"logged", "found", "posted", "marked"}
OnClaim(w) == work[w].step = "confirming"
Paying == {"settled", "overpaid"}

\* The verdict a worker holds fits the charge, and the invoice when it says it is paid.
VerdictHolds(w) ==
    LET c == work[w].charge
    IN /\ work[w].note = "settled" => work[w].apply = charge[c].amount
       /\ work[w].note = "overpaid" => 0 < work[w].apply /\ work[w].apply < charge[c].amount
       /\ work[w].note = "fully paid" => paid = Total

\* A worker's charge is accepted and has been posted exactly when the worker has done so;
\* a worker's claim is still awaiting.
WorkTrue(w) ==
    /\ OnCharge(w) => log[work[w].charge] = "accepted"
    /\ work[w].step \in {"logged", "found"} => credit[work[w].charge][1] = 0
    /\ work[w].step \in {"found", "posted", "marked"} => VerdictHolds(w)
    /\ work[w].step = "posted" => work[w].note \in Paying
    /\ work[w].step \in {"posted", "marked"} /\ work[w].note \in Paying =>
          credit[work[w].charge] = <<1, work[w].apply>>
    /\ work[w].step = "marked" /\ work[w].note \notin Paying => credit[work[w].charge][1] = 0
    /\ OnClaim(w) => claim[work[w].claim].status = "awaiting"

WorksOK == work \in [Workers -> Works] /\ \A w \in Workers : WorkTrue(w)

\* No two workers have one charge, nor the lock of one claim.
Alone ==
    \A v, w \in Workers :
        /\ OnCharge(v) /\ OnCharge(w) /\ work[v].charge = work[w].charge => v = w
        /\ OnClaim(v) /\ OnClaim(w) /\ work[v].claim = work[w].claim => v = w

\* What is posted is posted once, and nothing before it is logged or while it is awaited.
CreditOK ==
    /\ \A s \in Sources : (credit[s][1] = 0 /\ credit[s][2] = 0) \/ credit[s][1] = 1
    /\ \A c \in Charges : log[c] = "none" => credit[c][1] = 0
    /\ \A k \in Claims : claim[k].status = "none" => credit[k][1] = 0
    /\ cash <= paid

IInv == TypeOK /\ WorksOK /\ Alone /\ CreditOK /\ RecordsAreTrue

-----------------------------------------------------------------------------
\* The shapes of what a worker is in the middle of.
LEMMA WorkShape ==
    ASSUME WorksOK, NEW w \in Workers
    PROVE  /\ work[w].step = "idle" => work[w] = Idle
           /\ work[w].step = "logged" => work[w] \in Logged
           /\ work[w].step \in {"found", "posted", "marked"} => work[w] \in Settling
           /\ work[w].step = "confirming" => work[w] \in Confirming
           /\ work[w].step = "rejecting" => work[w] \in Rejecting
           /\ OnCharge(w) => work[w].charge \in Charges
           /\ OnClaim(w) => work[w].claim \in Claims
<1>1. work[w] \in Works
  BY DEF WorksOK
<1>2. CASE work[w] = Idle
  BY <1>2 DEF Idle, OnCharge, OnClaim
<1>3. CASE work[w] \in Logged
  BY <1>3 DEF Logged, OnCharge, OnClaim
<1>4. CASE work[w] \in Settling
  <2>1. work[w].step \in {"found", "posted", "marked"} /\ work[w].charge \in Charges
    BY <1>4 DEF Settling
  <2> QED BY <1>4, <2>1 DEF OnCharge, OnClaim
<1>5. CASE work[w] \in Confirming
  BY <1>5 DEF Confirming, OnCharge, OnClaim
<1>6. CASE work[w] \in Rejecting
  BY <1>6 DEF Rejecting, OnCharge, OnClaim
<1> QED BY <1>1, <1>2, <1>3, <1>4, <1>5, <1>6 DEF Works

\* The smaller of two sums.
LEMMA MinOfTwo == ASSUME NEW x \in Sums, NEW y \in Sums, SettlementAssumption PROVE Min({x, y}) \in {x, y}
<1>1. \E z \in {x, y} : \A t \in {x, y} : z <= t
  <2>1. CASE x <= y
    BY <2>1 DEF Sums, SettlementAssumption
  <2>2. CASE y <= x
    BY <2>2 DEF Sums, SettlementAssumption
  <2> QED BY <2>1, <2>2 DEF Sums, SettlementAssumption
<1> QED BY <1>1 DEF Min

\* A payment the invoice takes keeps its total.
LEMMA PayableOK ==
    ASSUME SettlementAssumption, IInv, NEW amount \in Nat, Payable(amount)
    PROVE  paid + amount \in Sums /\ paid + amount >= paid /\ amount \in Sums /\ paid # Total
BY DEF SettlementAssumption, IInv, TypeOK, Payable, Due, Sums

\* A request of one worker moves on, or ends, without any record of money changing.
LEMMA MoveOn ==
    ASSUME SettlementAssumption, IInv, NEW w \in Workers, NEW new \in Works,
           work' = [work EXCEPT ![w] = new], WorkTrue(w)', kills' \in 0..MaxKills, acked' \subseteq Charges,
           UNCHANGED <<charge, target, log, claim, paid, credit, cash>>,
           OnCharge(w)' => OnCharge(w) /\ new.charge = work[w].charge,
           OnClaim(w)' => \A v \in Workers \ {w} : OnClaim(v) => work[v].claim # new.claim
    PROVE  IInv'
<1>1. /\ work \in [Workers -> Works] /\ work' \in [Workers -> Works] /\ work'[w] = new
      /\ \A v \in Workers : v # w => work'[v] = work[v]
  BY DEF IInv, WorksOK
<1>2. \A v \in Workers : v # w => WorkTrue(v)'
  BY <1>1 DEF IInv, WorksOK, WorkTrue, VerdictHolds, OnCharge, OnClaim
<1>3. Alone'
  BY <1>1 DEF IInv, Alone, OnCharge, OnClaim
<1>4. TypeOK'
  BY <1>1 DEF IInv, TypeOK
<1>5. CreditOK' /\ RecordsAreTrue'
  BY DEF IInv, CreditOK, RecordsAreTrue, NotesAreTrue, ClaimsArePosted, PaidTargetsAreCovered
<1> QED BY <1>1, <1>2, <1>3, <1>4, <1>5 DEF IInv, WorksOK

\* What is posted for a source that has posted nothing: its credit is this payment.
LEMMA PostOK ==
    ASSUME SettlementAssumption, IInv, NEW s \in Sources, NEW amount \in Nat, credit[s][1] = 0, Post(s, amount)
    PROVE  /\ credit'[s] = <<1, amount>> /\ \A x \in Sources : x # s => credit'[x] = credit[x]
           /\ credit' \in [Sources -> Nat \X Sums]
           /\ paid' \in Sums /\ paid' >= paid /\ paid # Total /\ cash <= paid'
<1>1. Payable(amount) /\ paid' = paid + amount /\ credit' = [credit EXCEPT ![s] = <<@[1] + 1, @[2] + amount>>]
  BY DEF Post
<1>2. paid + amount \in Sums /\ paid + amount >= paid /\ amount \in Sums /\ paid # Total
  BY <1>1, PayableOK
<1>3. credit[s] \in Nat \X Sums /\ credit \in [Sources -> Nat \X Sums]
  BY DEF IInv, TypeOK, Sums
<1>4. credit[s][1] = 0 /\ credit[s][2] = 0
  BY DEF IInv, CreditOK
<1>5. <<credit[s][1] + 1, credit[s][2] + amount>> = <<1, amount>>
  BY <1>2, <1>4 DEF Sums
<1>6. credit' = [credit EXCEPT ![s] = <<1, amount>>]
  BY <1>1, <1>5
<1>7. <<1, amount>> \in Nat \X Sums
  BY <1>2
<1>8. cash <= paid'
  BY <1>1, <1>2 DEF IInv, CreditOK, TypeOK, Sums, SettlementAssumption
<1> QED BY <1>1, <1>2, <1>3, <1>6, <1>7, <1>8

LEMMA RecordPaymentOK ==
    ASSUME SettlementAssumption, IInv, NEW amount \in Amounts, RecordPayment(amount) PROVE IInv'
<1>1. amount \in Nat
  BY DEF SettlementAssumption
<1>2. /\ paid' = paid + amount /\ cash' = cash + amount /\ paid' \in Sums /\ paid # Total
      /\ UNCHANGED <<charge, target, log, acked, claim, credit, work, kills>>
  BY <1>1, PayableOK DEF RecordPayment
<1>3. cash' <= paid' /\ cash' \in Sums
  BY <1>1, <1>2 DEF IInv, CreditOK, TypeOK, Sums, SettlementAssumption
<1>4. TypeOK'
  BY <1>2, <1>3 DEF IInv, TypeOK, Sums
<1>5. \A w \in Workers : WorkTrue(w)'
  BY <1>2 DEF IInv, WorksOK, WorkTrue, VerdictHolds, OnCharge, OnClaim
<1>6. WorksOK' /\ Alone' /\ CreditOK'
  BY <1>2, <1>3, <1>5 DEF IInv, WorksOK, Alone, OnCharge, OnClaim, CreditOK
<1>7. RecordsAreTrue'
  BY <1>2 DEF IInv, RecordsAreTrue, NotesAreTrue, ClaimsArePosted, PaidTargetsAreCovered
<1> QED BY <1>4, <1>6, <1>7 DEF IInv

\* A link or account that is issued or expires is not shown as paid.
LEMMA TargetOK ==
    ASSUME SettlementAssumption, IInv, NEW t \in Targets, NEW status \in {"pending", "expired"},
           target' = [target EXCEPT ![t] = status],
           UNCHANGED <<charge, log, acked, claim, paid, credit, cash, work, kills>>
    PROVE  IInv'
<1>1. TypeOK' /\ PaidTargetsAreCovered'
  BY DEF IInv, TypeOK, RecordsAreTrue, PaidTargetsAreCovered
<1>2. \A w \in Workers : WorkTrue(w)'
  BY DEF IInv, WorksOK, WorkTrue, VerdictHolds, OnCharge, OnClaim
<1>3. WorksOK' /\ Alone' /\ CreditOK' /\ NotesAreTrue' /\ ClaimsArePosted'
  BY <1>2 DEF IInv, WorksOK, Alone, OnCharge, OnClaim, CreditOK, RecordsAreTrue, NotesAreTrue, ClaimsArePosted
<1> QED BY <1>1, <1>3 DEF IInv, RecordsAreTrue

LEMMA DeliverOK ==
    ASSUME SettlementAssumption, IInv, NEW w \in Workers, NEW c \in Charges, Deliver(w, c) PROVE IInv'
<1> DEFINE new == [step |-> "logged", charge |-> c]
<1>1. /\ work' = [work EXCEPT ![w] = new] /\ log[c] = "none" /\ log' = [log EXCEPT ![c] = "accepted"]
      /\ UNCHANGED <<charge, target, acked, claim, paid, credit, cash, kills>>
  BY DEF Deliver, Goto, New
<1>2. new \in Works /\ new.step = "logged" /\ new.charge = c
  BY DEF Works, Logged
<1> HIDE DEF new
<1>3. /\ work' \in [Workers -> Works] /\ work'[w] = new /\ \A v \in Workers : v # w => work'[v] = work[v]
      /\ log' \in [Charges -> {"none", "accepted"} \cup Notes]
      /\ log'[c] = "accepted" /\ \A x \in Charges : x # c => log'[x] = log[x]
  BY <1>1, <1>2 DEF IInv, WorksOK, TypeOK
<1>4. \A v \in Workers : OnCharge(v) => work[v].charge \in Charges /\ work[v].charge # c
  BY <1>1, WorkShape DEF IInv, WorksOK, WorkTrue
<1>5. credit[c][1] = 0
  BY <1>1 DEF IInv, CreditOK
<1>6. WorkTrue(w)'
  BY <1>1, <1>2, <1>3, <1>5 DEF WorkTrue, OnCharge, OnClaim
<1>7. \A v \in Workers : v # w => WorkTrue(v)'
  BY <1>1, <1>3, <1>4 DEF IInv, WorksOK, WorkTrue, VerdictHolds, OnCharge, OnClaim
<1>8. Alone'
  BY <1>2, <1>3, <1>4 DEF IInv, Alone, OnCharge, OnClaim
<1>9. TypeOK'
  BY <1>1, <1>3 DEF IInv, TypeOK, WorksOK
<1>10. CreditOK' /\ RecordsAreTrue'
  BY <1>1, <1>3 DEF IInv, CreditOK, RecordsAreTrue, NotesAreTrue, ClaimsArePosted, PaidTargetsAreCovered
<1> QED BY <1>3, <1>6, <1>7, <1>8, <1>9, <1>10 DEF IInv, WorksOK

LEMMA DuplicateOK == ASSUME SettlementAssumption, IInv, NEW c \in Charges, Duplicate(c) PROVE IInv'
<1>1. acked' \subseteq Charges /\ UNCHANGED <<charge, target, log, claim, paid, credit, cash, work, kills>>
  BY DEF Duplicate, Answered, IInv, TypeOK
<1>2. \A w \in Workers : WorkTrue(w)'
  BY <1>1 DEF IInv, WorksOK, WorkTrue, VerdictHolds, OnCharge, OnClaim
<1>3. TypeOK' /\ WorksOK' /\ Alone' /\ CreditOK'
  BY <1>1, <1>2 DEF IInv, TypeOK, WorksOK, Alone, OnCharge, OnClaim, CreditOK
<1>4. RecordsAreTrue'
  BY <1>1 DEF IInv, RecordsAreTrue, NotesAreTrue, ClaimsArePosted, PaidTargetsAreCovered
<1> QED BY <1>3, <1>4 DEF IInv

\* What a verdict says of the charge and of the invoice.
LEMMA VerdictOK ==
    ASSUME SettlementAssumption, IInv, NEW c \in Charges
    PROVE  /\ Verdict(c) \in Notes /\ charge[c].amount \in Nat
           /\ Verdict(c) = "settled" => charge[c].amount \in Sums
           /\ Verdict(c) = "overpaid" => Due \in Sums /\ 0 < Due /\ Due < charge[c].amount
           /\ Verdict(c) = "fully paid" => paid = Total
<1>1. charge[c].amount \in Nat /\ paid \in Sums /\ Due = Total - paid /\ Total \in Nat
  BY DEF IInv, TypeOK, SettlementAssumption, Kind, Due, Sums
<1>2. Verdict(c) \in Notes
  BY DEF Verdict, Notes
<1>3. Verdict(c) = "settled" => charge[c].amount <= Due
  BY <1>1 DEF Verdict, Sums
<1>4. Verdict(c) = "overpaid" => ~(Due <= 0) /\ charge[c].amount > Due
  BY <1>1 DEF Verdict, Sums
<1>5. Verdict(c) = "fully paid" => Due <= 0
  BY <1>1 DEF Verdict, Sums
<1>6. Verdict(c) = "settled" => charge[c].amount \in Sums
  BY <1>1, <1>3 DEF Sums
<1>7. Verdict(c) = "overpaid" => Due \in Sums /\ 0 < Due /\ Due < charge[c].amount
  BY <1>1, <1>4 DEF Sums
<1>8. Verdict(c) = "fully paid" => paid = Total
  <2>1. Total - paid <= 0 => paid = Total
    BY <1>1 DEF Sums
  <2> QED BY <1>1, <1>5, <2>1
<1> QED BY <1>1, <1>2, <1>6, <1>7, <1>8

LEMMA FindTargetOK == ASSUME SettlementAssumption, IInv, NEW w \in Workers, FindTarget(w) PROVE IInv'
<1> DEFINE c == work[w].charge
           v == Verdict(c)
           sum == CASE v = "settled" -> charge[c].amount [] v = "overpaid" -> Due [] OTHER -> 0
           new == [step |-> "found", charge |-> c, note |-> v, apply |-> sum]
<1>1. work[w] \in Logged /\ c \in Charges /\ WorkTrue(w)
  BY WorkShape DEF FindTarget, At, IInv, WorksOK, OnCharge
<1>2. /\ work' = [work EXCEPT ![w] = new]
      /\ UNCHANGED <<charge, target, log, acked, claim, paid, credit, cash, kills>>
  BY DEF FindTarget, Goto
<1>3. /\ v \in Notes /\ charge[c].amount \in Nat
      /\ v = "settled" => charge[c].amount \in Sums
      /\ v = "overpaid" => Due \in Sums /\ 0 < Due /\ Due < charge[c].amount
      /\ v = "fully paid" => paid = Total
  BY <1>1, VerdictOK
<1>4. OnCharge(w) /\ log[c] = "accepted" /\ credit[c][1] = 0
  BY <1>1 DEF WorkTrue, OnCharge, Logged
<1>5. c = work[w].charge
  OBVIOUS
<1> HIDE DEF v, c
<1>6. /\ sum \in Sums
      /\ v = "settled" => sum = charge[c].amount
      /\ v = "overpaid" => 0 < sum /\ sum < charge[c].amount
  <2>1. CASE v = "settled"
    BY <1>3, <2>1
  <2>2. CASE v = "overpaid"
    BY <1>3, <2>2
  <2>3. CASE v \notin Paying
    <3>1. v # "settled" /\ v # "overpaid" /\ 0 \in Sums
      BY <2>3 DEF Paying, Sums, SettlementAssumption
    <3> QED BY <3>1
  <2> QED BY <2>1, <2>2, <2>3 DEF Paying
<1> HIDE DEF sum
<1>7. new \in Works
  BY <1>1, <1>3, <1>6 DEF Works, Settling
<1>8. work'[w] = new
  BY <1>2 DEF IInv, WorksOK
<1>9. /\ work'[w].step = "found" /\ work'[w].charge = c /\ work'[w].note = v /\ work'[w].apply = sum
  BY <1>8
<1>10. VerdictHolds(w)'
  BY <1>2, <1>3, <1>6, <1>9 DEF VerdictHolds
<1>11. WorkTrue(w)'
  BY <1>2, <1>4, <1>9, <1>10 DEF WorkTrue, OnClaim
<1>12. (OnCharge(w)' => OnCharge(w) /\ new.charge = work[w].charge) /\ ~OnClaim(w)'
  BY <1>4, <1>5, <1>9 DEF OnClaim
<1>13. kills' \in 0..MaxKills /\ acked' \subseteq Charges
  BY <1>2 DEF IInv, TypeOK
<1> HIDE DEF new
<1> QED BY <1>2, <1>7, <1>11, <1>12, <1>13, MoveOn

\* A payment of a charge: the charge had none, nobody else works on it, and the other
\* payments stay as they are.
LEMMA PostChargeOK == ASSUME SettlementAssumption, IInv, NEW w \in Workers, PostCharge(w) PROVE IInv'
<1> DEFINE c == work[w].charge
           new == [work[w] EXCEPT !.step = "posted"]
<1>1. /\ work[w] \in Settling /\ c \in Charges /\ WorkTrue(w) /\ work[w].step = "found" /\ OnCharge(w)
      /\ work[w].note \in Paying /\ work[w].apply \in Sums
  BY WorkShape DEF PostCharge, At, Pays, Paying, IInv, WorksOK, OnCharge, Settling
<1>2. /\ Post(c, work[w].apply) /\ work' = [work EXCEPT ![w] = new]
      /\ UNCHANGED <<charge, target, log, acked, claim, cash, kills>>
  BY DEF PostCharge, Goto
<1>3. credit[c][1] = 0 /\ log[c] = "accepted" /\ c \in Sources /\ c \notin Claims /\ work[w].apply \in Nat
  BY <1>1 DEF WorkTrue, Sources, Sums, SettlementAssumption
<1>4. /\ credit'[c] = <<1, work[w].apply>> /\ \A x \in Sources : x # c => credit'[x] = credit[x]
      /\ credit' \in [Sources -> Nat \X Sums]
      /\ paid' \in Sums /\ paid' >= paid /\ paid # Total /\ cash <= paid'
  BY <1>2, <1>3, PostOK
<1>5. new \in Works /\ new.step = "posted" /\ new.charge = c /\ new.note = work[w].note /\ new.apply = work[w].apply
  BY <1>1 DEF Settling, Works
<1> HIDE DEF new
<1>6. /\ work' \in [Workers -> Works] /\ work'[w] = new /\ \A v \in Workers : v # w => work'[v] = work[v]
  BY <1>2, <1>5 DEF IInv, WorksOK
<1>7. \A v \in Workers : v # w /\ OnCharge(v) =>
         /\ work[v].charge \in Charges /\ work[v].charge \in Sources /\ work[v].charge # c
  BY <1>1, WorkShape DEF IInv, WorksOK, Alone, Sources
<1>8. WorkTrue(w)'
  <2>1. VerdictHolds(w)'
    BY <1>1, <1>2, <1>5, <1>6 DEF WorkTrue, VerdictHolds, Paying
  <2> QED BY <1>1, <1>2, <1>3, <1>4, <1>5, <1>6, <2>1 DEF WorkTrue, OnCharge, OnClaim
<1>9. ASSUME NEW v \in Workers, v # w PROVE WorkTrue(v)'
  <2>1. WorkTrue(v) /\ work'[v] = work[v]
    BY <1>6, <1>9 DEF IInv, WorksOK
  <2>2. OnCharge(v) => credit'[work[v].charge] = credit[work[v].charge]
    BY <1>4, <1>7, <1>9
  <2>3. VerdictHolds(v) => VerdictHolds(v)'
    BY <1>2, <1>4, <2>1 DEF VerdictHolds
  <2> QED BY <1>2, <2>1, <2>2, <2>3 DEF WorkTrue, OnCharge, OnClaim
<1>10. Alone'
  BY <1>1, <1>5, <1>6 DEF IInv, Alone, OnCharge, OnClaim
<1>11. TypeOK'
  BY <1>2, <1>4, <1>6 DEF IInv, TypeOK, Sums
<1>12. CreditOK'
  <2>1. \A x \in Claims : x # c /\ x \in Sources
    BY <1>3 DEF Sources
  <2>2. \A x \in Charges : x \in Sources
    BY DEF Sources
  <2> QED BY <1>2, <1>3, <1>4, <2>1, <2>2 DEF IInv, CreditOK
<1>13. NotesAreTrue' /\ ClaimsArePosted'
  <2>1. (\A k \in Claims : k # c /\ k \in Sources) /\ \A x \in Charges : x \in Sources
    BY <1>3 DEF Sources
  <2> QED BY <1>2, <1>3, <1>4, <2>1 DEF IInv, RecordsAreTrue, NotesAreTrue, ClaimsArePosted
<1>14. PaidTargetsAreCovered'
  <2>1. \A x \in Charges : credit[x][1] > 0 => credit'[x][1] > 0
    BY <1>4 DEF Sources
  <2> QED BY <1>2, <1>4, <2>1 DEF IInv, RecordsAreTrue, PaidTargetsAreCovered
<1> QED BY <1>6, <1>8, <1>9, <1>10, <1>11, <1>12, <1>13, <1>14 DEF IInv, WorksOK, RecordsAreTrue

\* A request that gives up, or is killed.
LEMMA FinishOK ==
    ASSUME SettlementAssumption, IInv, NEW w \in Workers, Finished(w), kills' \in 0..MaxKills,
           UNCHANGED <<charge, target, log, acked, claim, paid, credit, cash>>
    PROVE  IInv'
<1>1. work' = [work EXCEPT ![w] = Idle] /\ Idle \in Works
  BY DEF Finished, Goto, Works
<1>2. work'[w] = Idle
  BY <1>1 DEF IInv, WorksOK
<1>3. WorkTrue(w)' /\ ~OnCharge(w)' /\ ~OnClaim(w)'
  BY <1>2 DEF WorkTrue, OnCharge, OnClaim, Idle
<1>4. acked' \subseteq Charges
  BY DEF IInv, TypeOK
<1> QED BY <1>1, <1>3, <1>4, MoveOn

LEMMA MarkTargetOK == ASSUME SettlementAssumption, IInv, NEW w \in Workers, MarkTarget(w) PROVE IInv'
<1> DEFINE c == work[w].charge
           t == charge[c].target
           new == [work[w] EXCEPT !.step = "marked"]
<1>1. work[w].step = "posted" \/ (work[w].step = "found" /\ work[w].note \notin Paying)
  <2>1. Markable(w)
    BY DEF MarkTarget
  <2> QED BY <2>1 DEF Markable, At, Pays, Paying
<1>2. work[w] \in Settling /\ c \in Charges /\ WorkTrue(w) /\ OnCharge(w)
  BY <1>1, WorkShape DEF IInv, WorksOK, OnCharge
<1>3. /\ work' = [work EXCEPT ![w] = new]
      /\ target' = IF work[w].note \in {"settled", "overpaid", "fully paid"}
                   THEN [target EXCEPT ![t] = "paid"]
                   ELSE IF work[w].note = "failed" /\ t \in Links
                   THEN [target EXCEPT ![t] = "failed"]
                   ELSE target
      /\ UNCHANGED <<charge, log, acked, claim, paid, credit, cash, kills>>
  BY DEF MarkTarget, Goto
<1>4. t \in Targets
  BY <1>2 DEF IInv, TypeOK, SettlementAssumption, Kind
<1>5. new \in Works /\ new.step = "marked" /\ new.charge = c /\ new.note = work[w].note /\ new.apply = work[w].apply
  BY <1>2 DEF Settling, Works
<1> HIDE DEF new, t
<1>6. work' \in [Workers -> Works] /\ work'[w] = new /\ \A v \in Workers : v # w => work'[v] = work[v]
  BY <1>3, <1>5 DEF IInv, WorksOK
<1>7. WorkTrue(w)'
  <2>1. VerdictHolds(w)'
    BY <1>1, <1>2, <1>3, <1>5, <1>6 DEF WorkTrue, VerdictHolds
  <2>2. log'[c] = "accepted"
    BY <1>2, <1>3 DEF WorkTrue
  <2>3. work[w].note \in Paying => credit[c] = <<1, work[w].apply>>
    BY <1>1, <1>2 DEF WorkTrue
  <2>4. work[w].note \notin Paying => credit[c][1] = 0
    BY <1>1, <1>2 DEF WorkTrue
  <2> QED BY <1>3, <1>5, <1>6, <2>1, <2>2, <2>3, <2>4 DEF WorkTrue, OnCharge, OnClaim
<1>8. \A v \in Workers : v # w => WorkTrue(v)'
  BY <1>3, <1>6 DEF IInv, WorksOK, WorkTrue, VerdictHolds, OnCharge, OnClaim
<1>9. Alone'
  BY <1>2, <1>5, <1>6 DEF IInv, Alone, OnCharge, OnClaim
<1>10. TypeOK'
  BY <1>3, <1>4, <1>6 DEF IInv, TypeOK
<1>11. CreditOK' /\ NotesAreTrue' /\ ClaimsArePosted'
  BY <1>3 DEF IInv, CreditOK, RecordsAreTrue, NotesAreTrue, ClaimsArePosted
<1>12. PaidTargetsAreCovered'
  <2>1. work[w].note \in Paying => credit[c][1] > 0
    BY <1>1, <1>2 DEF WorkTrue
  <2>2. work[w].note = "fully paid" => paid = Total
    BY <1>1, <1>2 DEF WorkTrue, VerdictHolds, Paying
  <2>3. t = charge[c].target
    BY DEF t
  <2>4. target'[t] = "paid" => target[t] = "paid" \/ work[w].note \in Paying \cup {"fully paid"}
    BY <1>3, <1>4 DEF IInv, TypeOK, Paying
  <2>5. \A x \in Targets : x # t => target'[x] = target[x]
    BY <1>3, <1>4 DEF IInv, TypeOK
  <2>6. ASSUME NEW x \in Targets, target'[x] = "paid"
        PROVE  paid = Total \/ \E d \in Charges : charge[d].target = x /\ credit[d][1] > 0
    <3>1. CASE target[x] = "paid"
      BY <3>1 DEF IInv, RecordsAreTrue, PaidTargetsAreCovered
    <3>2. CASE target[x] # "paid"
      <4>1. x = t /\ work[w].note \in Paying \cup {"fully paid"}
        BY <2>4, <2>5, <2>6, <3>2
      <4>2. CASE work[w].note \in Paying
        BY <1>2, <2>1, <2>3, <4>1, <4>2
      <4> QED BY <2>2, <4>1, <4>2
    <3> QED BY <3>1, <3>2
  <2> QED BY <1>3, <2>6 DEF PaidTargetsAreCovered
<1> QED BY <1>6, <1>7, <1>8, <1>9, <1>10, <1>11, <1>12 DEF IInv, WorksOK, RecordsAreTrue

LEMMA NoteOK == ASSUME SettlementAssumption, IInv, NEW w \in Workers, Note(w) PROVE IInv'
<1> DEFINE c == work[w].charge
           n == work[w].note
<1>1. work[w].step = "marked" /\ work[w] \in Settling /\ c \in Charges /\ WorkTrue(w) /\ OnCharge(w)
  BY WorkShape DEF Note, At, IInv, WorksOK, OnCharge
<1>2. /\ log' = [log EXCEPT ![c] = n] /\ acked' = acked \cup {c} /\ work' = [work EXCEPT ![w] = Idle]
      /\ UNCHANGED <<charge, target, claim, paid, credit, cash, kills>>
  BY DEF Note, Finished, Goto
<1>3. n \in Notes /\ n # "accepted" /\ n # "none"
  BY <1>1 DEF Settling, Notes
<1>4. /\ n = "settled" => credit[c][2] = charge[c].amount
      /\ n = "overpaid" => 0 < credit[c][2] /\ credit[c][2] < charge[c].amount
      /\ n \notin Paying => credit[c][1] = 0
  <2>1. work[w].step = "marked" /\ VerdictHolds(w)
    BY <1>1 DEF WorkTrue
  <2>2. n \in Paying => credit[c] = <<1, work[w].apply>>
    BY <1>1 DEF WorkTrue
  <2>3. n \in Paying => credit[c][2] = work[w].apply
    BY <2>2
  <2>4. n \notin Paying => credit[c][1] = 0
    BY <1>1 DEF WorkTrue
  <2> QED BY <2>1, <2>3, <2>4 DEF VerdictHolds, Paying
<1>5. \A v \in Workers : v # w /\ OnCharge(v) => work[v].charge \in Charges /\ work[v].charge # c
  BY <1>1, WorkShape DEF IInv, WorksOK, Alone
<1> HIDE DEF c, n
<1>6. /\ work' \in [Workers -> Works] /\ work'[w] = Idle /\ \A v \in Workers : v # w => work'[v] = work[v]
      /\ log' \in [Charges -> {"none", "accepted"} \cup Notes]
      /\ log'[c] = n /\ \A x \in Charges : x # c => log'[x] = log[x]
  BY <1>1, <1>2, <1>3 DEF IInv, WorksOK, TypeOK, Works
<1>7. WorkTrue(w)' /\ ~OnCharge(w)' /\ ~OnClaim(w)'
  BY <1>6 DEF WorkTrue, OnCharge, OnClaim, Idle
<1>8. ASSUME NEW v \in Workers, v # w PROVE WorkTrue(v)'
  <2>1. WorkTrue(v) /\ work'[v] = work[v]
    BY <1>6, <1>8 DEF IInv, WorksOK
  <2>2. OnCharge(v) => log'[work[v].charge] = log[work[v].charge]
    BY <1>5, <1>6, <1>8
  <2> QED BY <1>2, <2>1, <2>2 DEF WorkTrue, VerdictHolds, OnCharge, OnClaim
<1>9. Alone'
  BY <1>6, <1>7 DEF IInv, Alone, OnCharge, OnClaim
<1>10. TypeOK'
  BY <1>1, <1>2, <1>6 DEF IInv, TypeOK
<1>11. CreditOK' /\ ClaimsArePosted' /\ PaidTargetsAreCovered'
  BY <1>2, <1>3, <1>6 DEF IInv, CreditOK, RecordsAreTrue, ClaimsArePosted, PaidTargetsAreCovered
<1>12. NotesAreTrue'
  BY <1>2, <1>3, <1>4, <1>6 DEF IInv, RecordsAreTrue, NotesAreTrue, Paying
<1> QED BY <1>6, <1>7, <1>8, <1>9, <1>10, <1>11, <1>12 DEF IInv, WorksOK, RecordsAreTrue

-----------------------------------------------------------------------------
\* The status of a claim nobody holds may change; only one that was posted is confirmed.
LEMMA ClaimTransferOK ==
    ASSUME SettlementAssumption, IInv, NEW k \in Claims, NEW amount \in Amounts, ClaimTransfer(k, amount)
    PROVE  IInv'
<1>1. /\ claim[k].status = "none" /\ claim' = [claim EXCEPT ![k] = [status |-> "awaiting", amount |-> amount]]
      /\ UNCHANGED <<charge, target, log, acked, paid, credit, cash, work, kills>>
  BY DEF ClaimTransfer
<1>2. credit[k][1] = 0
  BY <1>1 DEF IInv, CreditOK
<1>3. /\ TypeOK' /\ claim'[k].status = "awaiting" /\ \A x \in Claims : x # k => claim'[x] = claim[x]
  BY <1>1 DEF IInv, TypeOK
<1>4. ASSUME NEW v \in Workers PROVE WorkTrue(v)'
  <2>1. WorkTrue(v) /\ (OnClaim(v) => work[v].claim \in Claims)
    BY WorkShape DEF IInv, WorksOK
  <2> QED BY <1>1, <1>3, <2>1 DEF WorkTrue, VerdictHolds, OnCharge, OnClaim
<1>5. WorksOK' /\ Alone'
  BY <1>1, <1>4 DEF IInv, WorksOK, Alone, OnCharge, OnClaim
<1>6. CreditOK' /\ RecordsAreTrue'
  BY <1>1, <1>2, <1>3 DEF IInv, CreditOK, RecordsAreTrue, NotesAreTrue, ClaimsArePosted, PaidTargetsAreCovered
<1> QED BY <1>3, <1>5, <1>6 DEF IInv

LEMMA BeginConfirmOK ==
    ASSUME SettlementAssumption, IInv, NEW w \in Workers, NEW k \in Claims, BeginConfirm(w, k) PROVE IInv'
<1> DEFINE sum == Min({claim[k].amount, Due})
           new == [step |-> "confirming", claim |-> k, apply |-> sum]
<1>1. /\ claim[k].status = "awaiting" /\ ~Locked(k) /\ Due > 0 /\ work' = [work EXCEPT ![w] = new]
      /\ UNCHANGED <<charge, target, log, acked, claim, paid, credit, cash, kills>>
  BY DEF BeginConfirm, Confirmable, Goto
<1>2. sum \in Sums
  <2>1. claim[k].amount \in Sums
    <3>1. claim[k].amount \in Amounts \cup {0}
      BY DEF IInv, TypeOK
    <3>2. 0 \in Sums /\ Amounts \subseteq Sums
      BY DEF SettlementAssumption, Sums
    <3> QED BY <3>1, <3>2
  <2>2. Due \in Sums
    BY <1>1 DEF IInv, TypeOK, SettlementAssumption, Sums, Due
  <2> QED BY <2>1, <2>2, MinOfTwo
<1> HIDE DEF sum
<1>3. new \in Works
  BY <1>2 DEF Works, Confirming
<1>4. work'[w] = new
  BY <1>1 DEF IInv, WorksOK
<1>5. WorkTrue(w)' /\ ~OnCharge(w)'
  BY <1>1, <1>4 DEF WorkTrue, OnCharge, OnClaim
<1>6. \A v \in Workers \ {w} : OnClaim(v) => work[v].claim # new.claim
  BY <1>1 DEF Locked, At, OnClaim
<1>7. kills' \in 0..MaxKills /\ acked' \subseteq Charges
  BY <1>1 DEF IInv, TypeOK
<1> HIDE DEF new
<1> QED BY <1>1, <1>3, <1>5, <1>6, <1>7, MoveOn

LEMMA ConfirmOK == ASSUME SettlementAssumption, IInv, NEW w \in Workers, Confirm(w) PROVE IInv'
<1> DEFINE k == work[w].claim
<1>1. /\ work[w] \in Confirming /\ k \in Claims /\ WorkTrue(w) /\ OnClaim(w) /\ ~OnCharge(w) /\ work[w].apply \in Sums
  BY WorkShape DEF Confirm, At, IInv, WorksOK, OnClaim, OnCharge, Confirming
<1>2. /\ Post(k, work[w].apply) /\ work' = [work EXCEPT ![w] = Idle]
      /\ claim' = [claim EXCEPT ![k].status = "confirmed"]
      /\ UNCHANGED <<charge, target, log, acked, cash, kills>>
  BY DEF Confirm, Finished, Goto
<1>3. /\ claim[k].status = "awaiting" /\ credit[k][1] = 0 /\ k \in Sources /\ k \notin Charges /\ work[w].apply \in Nat
  BY <1>1 DEF WorkTrue, IInv, RecordsAreTrue, ClaimsArePosted, Sources, Sums, SettlementAssumption
<1>4. /\ credit'[k] = <<1, work[w].apply>> /\ \A x \in Sources : x # k => credit'[x] = credit[x]
      /\ credit' \in [Sources -> Nat \X Sums]
      /\ paid' \in Sums /\ paid' >= paid /\ paid # Total /\ cash <= paid'
  BY <1>2, <1>3, PostOK
<1>5. \A v \in Workers : v # w /\ OnClaim(v) => work[v].claim \in Claims /\ work[v].claim # k
  BY <1>1, WorkShape DEF IInv, WorksOK, Alone
<1>6. \A v \in Workers : OnCharge(v) => work[v].charge \in Charges /\ work[v].charge \in Sources /\ work[v].charge # k
  BY <1>3, WorkShape DEF IInv, WorksOK, Sources
<1> HIDE DEF k
<1>7. /\ work' \in [Workers -> Works] /\ work'[w] = Idle /\ \A v \in Workers : v # w => work'[v] = work[v]
  BY <1>2 DEF IInv, WorksOK, Works
<1>8. /\ claim'[k].status = "confirmed" /\ \A x \in Claims : x # k => claim'[x] = claim[x]
  BY <1>1, <1>2 DEF IInv, TypeOK
<1>9. claim' \in [Claims -> [status : {"none", "awaiting", "confirmed", "rejected"}, amount : Amounts \cup {0}]]
  BY <1>1, <1>2 DEF IInv, TypeOK
<1>10. WorkTrue(w)' /\ ~OnCharge(w)' /\ ~OnClaim(w)'
  BY <1>7 DEF WorkTrue, OnCharge, OnClaim, Idle
<1>11. ASSUME NEW v \in Workers, v # w PROVE WorkTrue(v)'
  <2>1. WorkTrue(v) /\ work'[v] = work[v]
    BY <1>7, <1>11 DEF IInv, WorksOK
  <2>2. OnCharge(v) => credit'[work[v].charge] = credit[work[v].charge]
    BY <1>4, <1>6
  <2>3. VerdictHolds(v) => VerdictHolds(v)'
    BY <1>2, <1>4, <2>1 DEF VerdictHolds
  <2>4. OnClaim(v) => claim'[work[v].claim] = claim[work[v].claim]
    BY <1>5, <1>8, <1>11
  <2> QED BY <1>2, <2>1, <2>2, <2>3, <2>4 DEF WorkTrue, OnCharge, OnClaim
<1>12. Alone'
  BY <1>7, <1>10 DEF IInv, Alone, OnCharge, OnClaim
<1>13. TypeOK'
  BY <1>2, <1>4, <1>7, <1>9 DEF IInv, TypeOK, Sums
<1>14. /\ \A x \in Charges : x \in Sources /\ x # k
       /\ \A x \in Claims : x \in Sources
  BY <1>3 DEF Sources
<1>15. CreditOK'
  BY <1>2, <1>3, <1>4, <1>8, <1>14 DEF IInv, CreditOK
<1>16. NotesAreTrue' /\ ClaimsArePosted'
  BY <1>2, <1>3, <1>4, <1>8, <1>14 DEF IInv, RecordsAreTrue, NotesAreTrue, ClaimsArePosted
<1>17. PaidTargetsAreCovered'
  BY <1>2, <1>4, <1>14 DEF IInv, RecordsAreTrue, PaidTargetsAreCovered
<1> QED BY <1>7, <1>10, <1>11, <1>12, <1>13, <1>15, <1>16, <1>17 DEF IInv, WorksOK, RecordsAreTrue

LEMMA BeginRejectOK ==
    ASSUME SettlementAssumption, IInv, NEW w \in Workers, NEW k \in Claims, BeginReject(w, k) PROVE IInv'
<1> DEFINE new == [step |-> "rejecting", claim |-> k]
<1>1. /\ work' = [work EXCEPT ![w] = new]
      /\ UNCHANGED <<charge, target, log, acked, claim, paid, credit, cash, kills>>
  BY DEF BeginReject, Goto
<1>2. new \in Works
  BY DEF Works, Rejecting
<1>3. work'[w] = new
  BY <1>1 DEF IInv, WorksOK
<1>4. WorkTrue(w)' /\ ~OnCharge(w)' /\ ~OnClaim(w)'
  BY <1>3 DEF WorkTrue, OnCharge, OnClaim
<1>5. kills' \in 0..MaxKills /\ acked' \subseteq Charges
  BY <1>1 DEF IInv, TypeOK
<1> HIDE DEF new
<1> QED BY <1>1, <1>2, <1>4, <1>5, MoveOn

LEMMA RejectOK == ASSUME SettlementAssumption, IInv, NEW w \in Workers, Reject(w) PROVE IInv'
<1> DEFINE k == work[w].claim
<1>1. /\ work[w] \in Rejecting /\ k \in Claims
  BY WorkShape DEF Reject, At, IInv, WorksOK, Rejecting
<1>2. /\ ~Locked(k) /\ claim' = [claim EXCEPT ![k].status = "rejected"] /\ work' = [work EXCEPT ![w] = Idle]
      /\ UNCHANGED <<charge, target, log, acked, paid, credit, cash, kills>>
  BY DEF Reject, Finished, Goto
<1>3. \A v \in Workers : OnClaim(v) => work[v].claim \in Claims /\ work[v].claim # k
  BY <1>2, WorkShape DEF IInv, WorksOK, Locked, At, OnClaim
<1> HIDE DEF k
<1>4. /\ work' \in [Workers -> Works] /\ work'[w] = Idle /\ \A v \in Workers : v # w => work'[v] = work[v]
  BY <1>2 DEF IInv, WorksOK, Works
<1>5. /\ claim'[k].status = "rejected" /\ \A x \in Claims : x # k => claim'[x] = claim[x]
      /\ claim' \in [Claims -> [status : {"none", "awaiting", "confirmed", "rejected"}, amount : Amounts \cup {0}]]
  BY <1>1, <1>2 DEF IInv, TypeOK
<1>6. WorkTrue(w)' /\ ~OnCharge(w)' /\ ~OnClaim(w)'
  BY <1>4 DEF WorkTrue, OnCharge, OnClaim, Idle
<1>7. ASSUME NEW v \in Workers, v # w PROVE WorkTrue(v)'
  <2>1. WorkTrue(v) /\ work'[v] = work[v]
    BY <1>4, <1>7 DEF IInv, WorksOK
  <2>2. OnClaim(v) => claim'[work[v].claim] = claim[work[v].claim]
    BY <1>3, <1>5
  <2> QED BY <1>2, <2>1, <2>2 DEF WorkTrue, VerdictHolds, OnCharge, OnClaim
<1>8. Alone'
  BY <1>4, <1>6 DEF IInv, Alone, OnCharge, OnClaim
<1>9. TypeOK'
  BY <1>2, <1>4, <1>5 DEF IInv, TypeOK
<1>10. CreditOK' /\ RecordsAreTrue'
  BY <1>2, <1>5 DEF IInv, CreditOK, RecordsAreTrue, NotesAreTrue, ClaimsArePosted, PaidTargetsAreCovered
<1> QED BY <1>4, <1>6, <1>7, <1>8, <1>9, <1>10 DEF IInv, WorksOK

-----------------------------------------------------------------------------
\* Nothing is posted, logged or worked on at the start.
LEMMA Initially == ASSUME SettlementAssumption, Init PROVE IInv
<1>1. TypeOK
  BY DEF SettlementAssumption, Init, TypeOK
<1>2. Idle \in Works /\ work = [w \in Workers |-> Idle]
  BY DEF Init, Works
<1>3. WorksOK /\ Alone
  BY <1>2 DEF WorksOK, WorkTrue, Alone, OnCharge, OnClaim, Idle
<1>4. \A s \in Sources : credit[s] = <<0, 0>>
  BY DEF Init
<1>5. CreditOK
  BY <1>4 DEF CreditOK, Init, Sources, SettlementAssumption
<1>6. RecordsAreTrue
  BY <1>4 DEF Init, RecordsAreTrue, NotesAreTrue, ClaimsArePosted, PaidTargetsAreCovered, Sources
<1> QED BY <1>1, <1>3, <1>5, <1>6 DEF IInv

\* Every step keeps the invariant.
LEMMA Steps == ASSUME SettlementAssumption, IInv, [Next]_vars PROVE IInv'
<1>1. ASSUME NEW w \in Workers, Serve(w) PROVE IInv'
  <2>1. CASE PostRefused(w)
    BY <2>1, FinishOK DEF PostRefused, AfterRefusal, Finished, IInv, TypeOK
  <2>2. CASE ConfirmRefused(w)
    BY <2>2, FinishOK DEF ConfirmRefused, IInv, TypeOK
  <2> QED BY <1>1, <2>1, <2>2, FindTargetOK, PostChargeOK, MarkTargetOK, NoteOK, ConfirmOK, RejectOK DEF Serve
<1>2. ASSUME NEW w \in Workers, Kill(w) PROVE IInv'
  <2>1. kills' \in 0..MaxKills
    BY <1>2 DEF Kill, IInv, TypeOK, SettlementAssumption
  <2> QED BY <1>2, <2>1, FinishOK DEF Kill
<1>3. ASSUME NEW w \in Workers, NEW k \in Claims, BeginConfirm(w, k) \/ BeginReject(w, k) PROVE IInv'
  BY <1>3, BeginConfirmOK, BeginRejectOK
<1>4. ASSUME NEW c \in Charges, Notify(c) PROVE IInv'
  BY <1>4, DeliverOK, DuplicateOK DEF Notify
<1>5. ASSUME NEW t \in Targets, Issue(t) PROVE IInv'
  BY <1>5, TargetOK DEF Issue
<1>6. ASSUME NEW a \in Accounts, Expire(a) PROVE IInv'
  BY <1>6, TargetOK DEF Expire, Targets
<1>7. ASSUME NEW k \in Claims, NEW amount \in Amounts, ClaimTransfer(k, amount) PROVE IInv'
  BY <1>7, ClaimTransferOK
<1>8. ASSUME NEW amount \in Amounts, RecordPayment(amount) PROVE IInv'
  BY <1>8, RecordPaymentOK
<1>9. CASE UNCHANGED vars
  <2>1. UNCHANGED <<charge, target, log, acked, claim, paid, credit, cash, work, kills>>
    BY <1>9 DEF vars
  <2>2. \A w \in Workers : WorkTrue(w)'
    BY <2>1 DEF IInv, WorksOK, WorkTrue, VerdictHolds, OnCharge, OnClaim
  <2> QED BY <2>1, <2>2 DEF IInv, TypeOK, WorksOK, Alone, OnCharge, OnClaim, CreditOK, RecordsAreTrue,
                            NotesAreTrue, ClaimsArePosted, PaidTargetsAreCovered
<1> QED BY <1>1, <1>2, <1>3, <1>4, <1>5, <1>6, <1>7, <1>8, <1>9 DEF Next

\* However requests interleave, repeat and die: the types, that the work of a request fits
\* its charge or claim and is nobody else's, and that payments and records agree.
THEOREM SettlementInvariance == Spec => []IInv
BY SettlementAssumption, Initially, Steps, PTL DEF Spec

\* No charge and no claim is posted twice, for any number of workers, events, claims,
\* repeated notifications and killed requests.
THEOREM PostedOnce == Spec => []PostedAtMostOnce
<1>1. IInv => PostedAtMostOnce
  BY DEF IInv, CreditOK, PostedAtMostOnce
<1> QED BY <1>1, SettlementInvariance, PTL

\* The notes, the claims and the links and accounts always tell the truth of what was posted.
THEOREM RecordsTrue == Spec => []RecordsAreTrue
BY SettlementInvariance, PTL DEF IInv

\* No more than was billed is ever paid, and every variable keeps its type.
THEOREM SettlementTypes == Spec => []TypeOK
BY SettlementInvariance, PTL DEF IInv

-----------------------------------------------------------------------------
(* What the invoice shows as paid is the sum of what was posted.           *)

Credited(c) == [s \in Sources |-> c[s][2]]
Explained(p, k, c) == p = k + MapThenSumSet(LAMBDA s : c[s][2], Sources)

\* The credits add up as a sum over the sources.
LEMMA CreditSum ==
    ASSUME FiniteAssumption, NEW c \in [Sources -> Nat \X Sums]
    PROVE  /\ MapThenSumSet(LAMBDA s : c[s][2], Sources) = Sum(Credited(c), Sources)
           /\ \A s \in Sources : Credited(c)[s] = c[s][2] /\ Credited(c)[s] \in Int
<1> DEFINE g == Credited(c)
           Fold(F) == F = [s \in SUBSET Sources |-> IF s = {} THEN 0 ELSE c[Chosen(s)][2] + F[s \ {Chosen(s)}]]
<1>1. \A s \in Sources : g[s] = c[s][2] /\ g[s] \in Int
  BY DEF Credited, Sums
<1>2. \A F : Fold(F) <=> IsFold(F, g, Sources)
  <2>1. \A s \in SUBSET Sources : s # {} => g[Chosen(s)] = c[Chosen(s)][2]
    BY <1>1, AnyIn
  <2> HIDE DEF g
  <2> QED BY <2>1 DEF IsFold
<1>3. MapThenSumSet(LAMBDA s : c[s][2], Sources) = (CHOOSE F : Fold(F))[Sources]
  BY DEF MapThenSumSet, MapThenFoldSet, Chosen
<1> HIDE DEF Fold, g
<1>4. IsFold(CHOOSE F : Fold(F), g, Sources)
  <2>1. \E F : IsFold(F, g, Sources)
    BY <1>1, SumExists DEF FiniteAssumption
  <2>2. \E F : Fold(F)
    BY <1>2, <2>1
  <2>3. Fold(CHOOSE F : Fold(F))
    BY <2>2
  <2> QED BY <1>2, <2>3
<1>5. Sum(g, Sources) = (CHOOSE F : Fold(F))[Sources]
  <2>1. Sources \in SUBSET Sources
    OBVIOUS
  <2> QED BY <1>1, <1>4, <2>1, SumOnSubset DEF FiniteAssumption
<1> QED BY <1>1, <1>3, <1>5 DEF g

\* A payment of one source adds as much to the sum as to the invoice.
LEMMA PostKeepsSum ==
    ASSUME SettlementAssumption, FiniteAssumption, IInv, IInv', NEW x \in Sources, NEW amount \in Nat, Post(x, amount),
           UNCHANGED cash, Explained(paid, cash, credit)
    PROVE  Explained(paid', cash', credit')
<1>1. /\ paid' = paid + amount /\ credit' = [credit EXCEPT ![x] = <<@[1] + 1, @[2] + amount>>]
      /\ credit \in [Sources -> Nat \X Sums] /\ credit' \in [Sources -> Nat \X Sums]
  BY DEF Post, IInv, TypeOK, Sums
<1>2. credit'[x][2] = credit[x][2] + amount /\ \A s \in Sources \ {x} : credit'[s] = credit[s]
  <2>1. credit'[x] = <<credit[x][1] + 1, credit[x][2] + amount>>
    BY <1>1
  <2> QED BY <1>1, <2>1
<1> DEFINE g == Credited(credit)
           h == Credited(credit')
<1>3. /\ MapThenSumSet(LAMBDA s : credit[s][2], Sources) = Sum(g, Sources)
      /\ MapThenSumSet(LAMBDA s : credit'[s][2], Sources) = Sum(h, Sources)
      /\ \A s \in Sources : g[s] = credit[s][2] /\ g[s] \in Int /\ h[s] = credit'[s][2] /\ h[s] \in Int
  BY <1>1, CreditSum
<1> HIDE DEF g, h
<1>4. Sum(h, Sources) = Sum(g, Sources) - g[x] + h[x]
  <2>1. \A s \in Sources \ {x} : g[s] = h[s]
    BY <1>2, <1>3
  <2> QED BY <1>3, <2>1, SumChange DEF FiniteAssumption
<1>5. Sum(g, Sources) \in Int
  BY <1>3, SumRemove DEF FiniteAssumption
<1>6. paid \in Int /\ cash \in Int /\ h[x] = g[x] + amount /\ g[x] \in Int
  BY <1>2, <1>3 DEF IInv, TypeOK
<1>7. paid = cash + Sum(g, Sources)
  BY <1>3 DEF Explained
<1>8. paid + amount = cash + (Sum(g, Sources) - g[x] + h[x])
  BY <1>5, <1>6, <1>7
<1> QED BY <1>1, <1>3, <1>4, <1>8 DEF Explained

LEMMA SumInitially == ASSUME SettlementAssumption, FiniteAssumption, Init PROVE Explained(paid, cash, credit)
<1>1. credit \in [Sources -> Nat \X Sums] /\ \A s \in Sources : credit[s][2] = 0
  BY DEF Init, Sums, SettlementAssumption
<1>2. \A s \in Sources : Credited(credit)[s] = 0
  BY <1>1, CreditSum
<1>3. Sum(Credited(credit), Sources) = 0
  BY <1>2, SumZero DEF FiniteAssumption
<1>4. MapThenSumSet(LAMBDA s : credit[s][2], Sources) = 0
  BY <1>1, <1>3, CreditSum
<1> QED BY <1>4 DEF Explained, Init

\* Only clerks, charges and claims move money.
LEMMA SumSteps ==
    ASSUME SettlementAssumption, FiniteAssumption, IInv, IInv', [Next]_vars, Explained(paid, cash, credit)
    PROVE  Explained(paid', cash', credit')
<1>1. CASE UNCHANGED <<paid, cash, credit>>
  BY <1>1 DEF Explained
<1>2. ASSUME NEW w \in Workers, PostCharge(w) PROVE Explained(paid', cash', credit')
  <2>1. /\ work[w].charge \in Sources /\ work[w].apply \in Nat
        /\ Post(work[w].charge, work[w].apply) /\ UNCHANGED cash
    BY <1>2, WorkShape DEF PostCharge, At, IInv, WorksOK, Settling, Sources, Sums
  <2> QED BY <2>1, PostKeepsSum
<1>3. ASSUME NEW w \in Workers, Confirm(w) PROVE Explained(paid', cash', credit')
  <2>1. /\ work[w].claim \in Sources /\ work[w].apply \in Nat
        /\ Post(work[w].claim, work[w].apply) /\ UNCHANGED cash
    BY <1>3, WorkShape DEF Confirm, At, IInv, WorksOK, Confirming, Sources, Sums
  <2> QED BY <2>1, PostKeepsSum
<1>4. ASSUME NEW amount \in Amounts, RecordPayment(amount) PROVE Explained(paid', cash', credit')
  <2>1. paid' = paid + amount /\ cash' = cash + amount /\ credit' = credit
    BY <1>4 DEF RecordPayment
  <2>2. MapThenSumSet(LAMBDA s : credit[s][2], Sources) \in Int
    <3>1. credit \in [Sources -> Nat \X Sums]
      BY DEF IInv, TypeOK, Sums
    <3>2. Sum(Credited(credit), Sources) \in Int
      BY <3>1, CreditSum, SumRemove DEF FiniteAssumption
    <3> QED BY <3>1, <3>2, CreditSum
  <2>3. paid \in Int /\ cash \in Int /\ amount \in Int
    BY DEF IInv, TypeOK, SettlementAssumption
  <2> DEFINE n == MapThenSumSet(LAMBDA s : credit[s][2], Sources)
  <2>4. paid = cash + n /\ n \in Int
    BY <2>2 DEF Explained
  <2> HIDE DEF n
  <2>5. paid + amount = (cash + amount) + n
    BY <2>3, <2>4
  <2> QED BY <2>1, <2>5 DEF Explained, n
<1>5. ASSUME NEW w \in Workers, Serve(w), ~PostCharge(w), ~Confirm(w) PROVE UNCHANGED <<paid, cash, credit>>
  BY <1>5 DEF Serve, FindTarget, PostRefused, MarkTarget, Note, ConfirmRefused, Reject
<1>6. ASSUME NEW w \in Workers, NEW k \in Claims, Kill(w) \/ BeginConfirm(w, k) \/ BeginReject(w, k)
      PROVE  UNCHANGED <<paid, cash, credit>>
  BY <1>6 DEF Kill, BeginConfirm, BeginReject
<1>7. ASSUME NEW w \in Workers, Kill(w) PROVE UNCHANGED <<paid, cash, credit>>
  BY <1>7 DEF Kill
<1>8. ASSUME NEW c \in Charges, Notify(c) PROVE UNCHANGED <<paid, cash, credit>>
  BY <1>8 DEF Notify, Deliver, Duplicate
<1>9. ASSUME NEW t, Issue(t) \/ Expire(t) PROVE UNCHANGED <<paid, cash, credit>>
  BY <1>9 DEF Issue, Expire
<1>10. ASSUME NEW k, NEW amount, ClaimTransfer(k, amount) PROVE UNCHANGED <<paid, cash, credit>>
  BY <1>10 DEF ClaimTransfer
<1>11. CASE UNCHANGED vars
  BY <1>1, <1>11 DEF vars
<1> QED BY <1>1, <1>2, <1>3, <1>4, <1>5, <1>6, <1>7, <1>8, <1>9, <1>10, <1>11 DEF Next

\* What the invoice shows as paid is, at every moment, what clerks recorded and what each
\* charge and claim has posted, added up over all of them; and never more than was billed.
THEOREM BalanceExplained == Spec => []PaymentsExplainBalance
<1> DEFINE Sound == Explained(paid, cash, credit)
<1>1. Init => Sound
  BY SettlementAssumption, FiniteAssumption, SumInitially
<1>2. IInv /\ IInv' /\ Sound /\ [Next]_vars => Sound'
  BY SettlementAssumption, FiniteAssumption, SumSteps
<1>3. IInv /\ Sound => PaymentsExplainBalance
  BY SettlementAssumption DEF Explained, PaymentsExplainBalance, IInv, TypeOK, SettlementAssumption
<1> HIDE DEF Sound
<1> QED BY <1>1, <1>2, <1>3, SettlementInvariance, PTL DEF Spec
=============================================================================
