------------------------------- MODULE Payroll -------------------------------
(***************************************************************************)
(* Payroll runs (src/backend/apps/payroll: PayrollService.run_payroll,     *)
(* RemittanceService, PayrollRunViewSet, EmployeeLoanViewSet, and the      *)
(* journal accounting posts for a run).                                    *)
(*                                                                         *)
(* run_payroll is one transaction and locks the records it recovers from,  *)
(* but not the run: every view reads the run, judges its copy, and saves.  *)
(* `work[u]` holds that copy.  Of the deductions the model keeps the       *)
(* loan, the one-off items and the tax; pension, NHF, NSITF, ITF and       *)
(* benefits are computed from gross and follow the tax.                    *)
(***************************************************************************)
EXTENDS Integers, Sequences, FiniteSets, FiniteSetsExt

CONSTANTS
    Users, Owners,   \* Owners hold the owner or admin role
    Regular, Others, \* the month's regular run; the off-cycle runs
    Employees,
    Salaries,        \* a salary may change between two calculations
    Loan, Installment,
    Worth,           \* [item |-> amount] of bonus, penalty and advance
    Bands, Periods,  \* the annual tax table, rates in quarters; pay periods in a year
    Plans            \* bounds: which kinds of request come, for which runs, how many in all

Runs == {Regular} \cup Others
Items == {"bonus", "penalty", "advance"}

VARIABLES
    run,        \* status, submitted, submitter, approver, and the totals
    slip,       \* the payslips of the run
    loan,       \* status and amount repaid, for each employee
    due,        \* items awaiting a run
    remit,      \* the obligation of a run that the next calculation may delete
    kept,       \* obligations of a run that are remitted, so kept: due and paid
    journal,    \* what the ledger holds for the run
    bank,       \* the provider's transfers by reference: the run and the employee
    plan, work, requests,
    recorded,   \* history: worth of the penalties and advances recorded
    erased,     \* history: recoveries of payslips that a recalculation deleted
    payments,   \* history: what has been paid on the run's obligation
    submitters, \* history: who has submitted the run
    lapses      \* history: <<what happened, run>>

vars == <<run, slip, loan, due, remit, kept, journal, bank, plan, work, requests, recorded, erased, payments, submitters, lapses>>

None == [none |-> TRUE]
Nobody == "nobody"
NoRun == [status |-> "none", submitted |-> FALSE, submitter |-> Nobody, approver |-> Nobody,
          gross |-> 0, tax |-> 0, net |-> 0]
NoRow == [number |-> 0, status |-> "none", due |-> 0, paid |-> 0]

Init ==
    /\ run = [r \in Runs |-> NoRun] /\ slip = [r \in Runs |-> [e \in Employees |-> None]]
    /\ loan = [e \in Employees |-> [status |-> "pending", repaid |-> 0]]
    /\ due = [e \in Employees |-> {}]
    /\ remit = [r \in Runs |-> NoRow] /\ kept = [r \in Runs |-> [due |-> 0, paid |-> 0]]
    /\ journal = [r \in Runs |-> None] /\ bank = [r \in Runs |-> [e \in Employees |-> <<>>]]
    /\ plan \in Plans /\ work = [u \in Users |-> None] /\ requests = 0
    /\ recorded = [e \in Employees |-> 0] /\ erased = recorded
    /\ payments = [r \in Runs |-> 0] /\ submitters = [r \in Runs |-> {}] /\ lapses = {}

At(u, op, step) == work[u] # None /\ work[u].op = op /\ work[u].step = step
Goto(u, new) == work' = [work EXCEPT ![u] = new]
Finished(u) == Goto(u, None)
Lapse(cond, name, r) == IF cond THEN {<<name, r>>} ELSE {}
Count(kind) == kind \in plan.kinds /\ requests < plan.most /\ requests' = requests + 1 /\ plan' = plan
Paid(r) == {e \in Employees : slip[r][e] # None}

-----------------------------------------------------------------------------
(* The figures of a payslip.                                               *)

\* calculate_annual_paye: each band taxes the part of the income that lies in it.
Least(a, b) == IF a < b THEN a ELSE b
Most(a, b) == IF a < b THEN b ELSE a
AnnualPaye(income) ==
    MapThenSumSet(LAMBDA b : IF income <= b.lower THEN 0 ELSE ((Least(income, b.upper) - b.lower) * b.rate) \div 4, Bands)

\* What the year's committed runs have taxed and withheld.
Committed == {r \in Runs : run[r].status \in {"approved", "paid"}}
Before(r, e) == {q \in Committed \ {r} : slip[q][e] # None}

\* calculate_employee_paye: a regular run annualises the month; the others tax the
\* year so far with this payment on top, less what was withheld.
Paye(r, e, taxable) ==
    IF r = Regular THEN AnnualPaye(taxable * Periods) \div Periods
    ELSE LET prior == Before(r, e)
         IN Most(0, AnnualPaye(taxable + MapThenSumSet(LAMBDA q : slip[q][e].gross, prior))
                    - MapThenSumSet(LAMBDA q : slip[q][e].tax, prior))

Deducted_flat(e) == IF loan[e].status = "active" THEN Installment ELSE 0
Deducted(e) == IF loan[e].status = "active" THEN Least(Installment, Loan - loan[e].repaid) ELSE 0
Value(items, item) == IF item \in items THEN Worth[item] ELSE 0

Slip(r, e, salary) ==
    LET gross == salary + Value(due[e], "bonus")
        tax == Paye(r, e, gross)
        taken == Deducted(e) + Value(due[e], "penalty") + Value(due[e], "advance")
    IN [number |-> requests, gross |-> gross, tax |-> tax, loan |-> Deducted(e), items |-> due[e],
        net |-> Most(0, gross - tax - taken), transfer |-> "pending"]

\* What a payslip says was recovered from the employee, and what it withheld.
Recovered(s) == s.loan + Value(s.items, "penalty") + Value(s.items, "advance")
Withheld(s) == s.gross - s.tax - s.net
Clipped(s) == Recovered(s) - Withheld(s)

-----------------------------------------------------------------------------
(* Loans and one-off items.                                                *)

\* approve and cancel of a loan: get_object and the guard, then a save of the status.
From(op) == IF op = "lend" THEN "pending" ELSE "active"
BeginLoan(u, op, e) ==
    /\ work[u] = None /\ Count("loan") /\ loan[e].status = From(op)
    /\ Goto(u, [op |-> op, step |-> "read", employee |-> e])
    /\ UNCHANGED <<run, slip, loan, due, remit, kept, journal, bank, recorded, erased, payments, submitters, lapses>>

DecideLoan(u) ==
    /\ At(u, "lend", "read") \/ At(u, "cancel", "read")
    /\ loan' = [loan EXCEPT ![work[u].employee].status = IF work[u].op = "lend" THEN "active" ELSE "cancelled"]
    /\ Finished(u)
    /\ UNCHANGED <<run, slip, due, remit, kept, journal, bank, plan, requests, recorded, erased, payments, submitters, lapses>>

\* A penalty or bonus is recorded, or an advance disbursed, while none of its kind waits.
Record(e, item) ==
    /\ Count("item") /\ item \notin due[e] /\ due' = [due EXCEPT ![e] = @ \cup {item}]
    /\ recorded' = [recorded EXCEPT ![e] = @ + IF item = "bonus" THEN 0 ELSE Worth[item]]
    /\ UNCHANGED <<run, slip, loan, remit, kept, journal, bank, work, erased, payments, submitters, lapses>>

-----------------------------------------------------------------------------
(* PayrollRunViewSet.                                                      *)

\* create: get_or_create of the regular run, which must be a draft; a new other run.
BeginCreate(u, r) ==
    /\ work[u] = None /\ Count("create")
    /\ r \in plan.runs
    /\ run[r].status = "none" \/ (r = Regular /\ run[r].status = "draft")
    /\ run' = [run EXCEPT ![r].status = "draft"]
    /\ Goto(u, [op |-> "calculate", step |-> "read", run |-> r, copy |-> run'[r]])
    /\ UNCHANGED <<slip, loan, due, remit, kept, journal, bank, recorded, erased, payments, submitters, lapses>>

Sent(r) == \E e \in Paid(r) : slip[r][e].transfer \in {"initiated", "success"}
Rebuildable(r) == run[r].status \in {"draft", "processing"} /\ ~Sent(r)
BeginRecalculate(u, r) ==
    /\ work[u] = None /\ Count("recalculate") /\ Rebuildable(r)
    /\ Goto(u, [op |-> "calculate", step |-> "read", run |-> r, copy |-> run[r]])
    /\ UNCHANGED <<run, slip, loan, due, remit, kept, journal, bank, recorded, erased, payments, submitters, lapses>>

\* generate_for_run: rows not remitted in full are deleted, and the tax is owed afresh.
Regenerated(r, tax) ==
    /\ remit' = [remit EXCEPT ![r] = IF tax > 0 THEN [number |-> requests, status |-> "open", due |-> tax, paid |-> 0] ELSE NoRow]
    /\ kept' = IF remit[r].status = "remitted"
               THEN [kept EXCEPT ![r] = [due |-> @.due + remit[r].due, paid |-> @.paid + remit[r].paid]]
               ELSE kept

Repaid_nothing(e) == loan[e]
Repaid(e) ==
    LET now == loan[e].repaid + Deducted(e)
    IN [status |-> IF loan[e].status = "active" /\ Deducted(e) > 0 /\ now >= Loan THEN "settled" ELSE loan[e].status,
        repaid |-> now]

\* run_payroll: deletes the payslips and builds them again from what is due now.  Nothing
\* the deleted ones had applied is restored.  The run is saved whole from its copy.
Calculate(u) ==
    /\ At(u, "calculate", "read")
    /\ \E salary \in [Employees -> Salaries] :
          LET r == work[u].run
              made == [e \in Employees |-> Slip(r, e, salary[e])]
              Sum(f(_)) == MapThenSumSet(f, Employees)
              tax == Sum(LAMBDA e : made[e].tax)
              saved == [work[u].copy EXCEPT !.status = "processing", !.tax = tax,
                            !.gross = Sum(LAMBDA e : made[e].gross), !.net = Sum(LAMBDA e : made[e].net)]
          IN /\ slip' = [slip EXCEPT ![r] = made]
             /\ loan' = [e \in Employees |-> Repaid(e)]
             /\ due' = [e \in Employees |-> {}]
             /\ erased' = [e \in Employees |->
                              erased[e] + IF slip[r][e] = None THEN 0 ELSE Recovered(slip[r][e])]
             /\ run' = [run EXCEPT ![r] = saved]
             /\ Regenerated(r, tax)
             /\ lapses' = lapses
                    \cup Lapse(run[r].status \in {"approved", "paid"}, "unapproved", r)
                    \cup Lapse(run[r].submitter # saved.submitter, "unsubmitted", r)
                    \cup Lapse(remit[r].status = "remitted", "owed again", r)
                    \cup Lapse(remit[r].status = "partial", "payment forgotten", r)
                    \cup Lapse(\E q \in Runs \ {r} : Paid(q) # {} /\ (r = Regular \/ q \notin Committed), "blind", r)
    /\ Finished(u)
    /\ UNCHANGED <<journal, bank, plan, requests, recorded, payments, submitters>>

BeginSubmit(u, r) ==
    /\ work[u] = None /\ Count("submit") /\ run[r].status = "processing"
    /\ Goto(u, [op |-> "submit", step |-> "read", run |-> r])
    /\ UNCHANGED <<run, slip, loan, due, remit, kept, journal, bank, recorded, erased, payments, submitters, lapses>>

\* save(update_fields): the latest submitter replaces an earlier one.
Submit(u) ==
    /\ At(u, "submit", "read")
    /\ LET r == work[u].run
       IN /\ run' = [run EXCEPT ![r].submitted = TRUE, ![r].submitter = u]
          /\ submitters' = [submitters EXCEPT ![r] = @ \cup {u}]
          /\ lapses' = lapses \cup Lapse(submitters[r] \ {u} # {}, "submitted again", r)
    /\ Finished(u)
    /\ UNCHANGED <<slip, loan, due, remit, kept, journal, bank, plan, requests, recorded, erased, payments>>

Approvable_submitted(u, r) == run[r].status = "processing" /\ (run[r].submitted \/ u \in Owners)
Approvable(u, r) ==
    /\ run[r].status = "processing"
    /\ run[r].submitted \/ u \in Owners
    /\ run[r].submitter # u
BeginApprove(u, r) ==
    /\ work[u] = None /\ Count("approve") /\ Approvable(u, r)
    /\ Goto(u, [op |-> "approve", step |-> "read", run |-> r, copy |-> run[r]])
    /\ UNCHANGED <<run, slip, loan, due, remit, kept, journal, bank, recorded, erased, payments, submitters, lapses>>

\* The whole copy is saved: totals, submitter and status of a change made since are lost.
Approve(u) ==
    /\ At(u, "approve", "read")
    /\ LET r == work[u].run
           saved == [work[u].copy EXCEPT !.status = "approved", !.approver = u]
       IN /\ run' = [run EXCEPT ![r] = saved]
          /\ Goto(u, [op |-> "approve", step |-> "post", run |-> r, copy |-> saved])
          /\ lapses' = lapses
                \cup Lapse(\/ run[r].gross # saved.gross \/ run[r].tax # saved.tax
                           \/ run[r].net # saved.net, "overtaken", r)
                \cup Lapse(run[r].submitter # saved.submitter, "unsubmitted", r)
    /\ UNCHANGED <<slip, loan, due, remit, kept, journal, bank, plan, requests, recorded, erased, payments, submitters>>

\* post_payroll_journal: the totals of the copy against the deductions of the payslips as
\* they are now.  post_journal_entry refuses an entry that does not balance, and returns
\* the one that exists.
Recoveries(r) == MapThenSumSet(LAMBDA e : Recovered(slip[r][e]), Paid(r))
Balanced(r, copy) == copy.gross = copy.tax + copy.net + Recoveries(r)
Posted(r, copy) ==
    IF journal[r] = None /\ Balanced(r, copy)
    THEN [journal EXCEPT ![r] = [tax |-> copy.tax, net |-> copy.net, recovered |-> Recoveries(r)]]
    ELSE journal

PostRun(u) ==
    /\ At(u, "approve", "post") /\ journal' = Posted(work[u].run, work[u].copy) /\ Finished(u)
    /\ UNCHANGED <<run, slip, loan, due, remit, kept, bank, plan, requests, recorded, erased, payments, submitters, lapses>>

\* mark_paid reads the run under its lock.
MarkPaid(r) ==
    /\ Count("pay") /\ run[r].status = "approved" /\ run' = [run EXCEPT ![r].status = "paid"]
    /\ UNCHANGED <<slip, loan, due, remit, kept, journal, bank, work, recorded, erased, payments, submitters, lapses>>

-----------------------------------------------------------------------------
(* Transfers.  The provider, external, keeps one transfer for a reference. *)

\* initiate_transfers offers every payslip, retry_failed those failed or still pending.
Transferable(op, r) ==
    IF op = "initiate" THEN Paid(r)
    ELSE {e \in Paid(r) : slip[r][e].transfer \in {"failed", "pending"}}
BeginTransfer(u, op, r) ==
    /\ work[u] = None /\ Count("transfer") /\ Transferable(op, r) # {}
    /\ run[r].status = "approved" \/ (op = "retry" /\ run[r].status = "paid")
    /\ Goto(u, [op |-> op, step |-> "read", run |-> r, slips |-> [e \in Transferable(op, r) |-> slip[r][e]]])
    /\ UNCHANGED <<run, slip, loan, due, remit, kept, journal, bank, recorded, erased, payments, submitters, lapses>>

\* run_number-employee_id; the amount is the copy's.
Send_again(r, e, amount) == Append(bank[r][e], amount)
Send(r, e, amount) == IF bank[r][e] = <<>> THEN <<amount>> ELSE bank[r][e]

\* POST /transfer/bulk: the provider takes some of the transfers and refuses the others.
Transfer(u) ==
    /\ At(u, "initiate", "read") \/ At(u, "retry", "read")
    /\ \E taken \in SUBSET DOMAIN work[u].slips :
          /\ bank' = [bank EXCEPT ![work[u].run] =
                         [e \in Employees |-> IF e \in taken THEN Send(work[u].run, e, work[u].slips[e].net) ELSE @[e]]]
          /\ Goto(u, [work[u] EXCEPT !.step = "sent"])
    /\ UNCHANGED <<run, slip, loan, due, remit, kept, journal, plan, requests, recorded, erased, payments, submitters, lapses>>

\* The answer names each transfer; a payslip that was rebuilt has another id.  A retry
\* marks every transfer answered as initiated.
Answered(op, r, e) ==
    CASE op = "retry" -> "initiated"
      [] bank[r][e] # <<>> -> "initiated"
      [] OTHER -> "failed"
Answer(u) ==
    /\ At(u, "initiate", "sent") \/ At(u, "retry", "sent")
    /\ LET r == work[u].run
           known == {e \in Paid(r) \cap DOMAIN work[u].slips : slip[r][e].number = work[u].slips[e].number}
       IN \/ slip' = [slip EXCEPT ![r] = [e \in Employees |->
                      IF e \in known THEN [@[e] EXCEPT !.transfer = Answered(work[u].op, r, e)] ELSE @[e]]]
          \/ /\ work[u].op = "initiate"   \* an answer that lists nothing marks all that wait
             /\ slip' = [slip EXCEPT ![r] = [e \in Employees |->
                   IF e \in Paid(r) /\ @[e].transfer = "pending" THEN [@[e] EXCEPT !.transfer = "initiated"] ELSE @[e]]]
    /\ Finished(u)
    /\ UNCHANGED <<run, loan, due, remit, kept, journal, bank, plan, requests, recorded, erased, payments, submitters, lapses>>

\* urlopen times out, or the batch is refused as a whole: nothing is recorded.
NoAnswer(u) ==
    /\ \E op \in {"initiate", "retry"} : At(u, op, "read") \/ At(u, op, "sent")
    /\ Finished(u)
    /\ UNCHANGED <<run, slip, loan, due, remit, kept, journal, bank, plan, requests, recorded, erased, payments, submitters, lapses>>

-----------------------------------------------------------------------------
(* Remittances.                                                            *)

BeginRemit(u, r) ==
    /\ work[u] = None /\ Count("remit") /\ remit[r].status \in {"open", "partial"}
    /\ Goto(u, [op |-> "remit", step |-> "read", run |-> r, copy |-> remit[r]])
    /\ UNCHANGED <<run, slip, loan, due, remit, kept, journal, bank, recorded, erased, payments, submitters, lapses>>

\* mark_remitted adds to the amount it read.  A row deleted since cannot be updated.
Remitted(row, amount) ==
    [row EXCEPT !.paid = @ + amount, !.status = IF row.paid + amount >= row.due THEN "remitted" ELSE "partial"]
Remit(u) ==
    /\ At(u, "remit", "read")
    /\ LET r == work[u].run
       IN \/ /\ remit[r].number = work[u].copy.number
             /\ \E amount \in {1, work[u].copy.due} :
                   /\ remit' = [remit EXCEPT ![r] = Remitted(work[u].copy, amount)]
                   /\ payments' = [payments EXCEPT ![r] = @ + amount]
             /\ lapses' = lapses \cup Lapse(remit[r].paid # work[u].copy.paid, "payment forgotten", r)
          \/ remit[r].number # work[u].copy.number /\ UNCHANGED <<remit, payments, lapses>>
    /\ Finished(u)
    /\ UNCHANGED <<run, slip, loan, due, kept, journal, bank, plan, requests, recorded, erased, submitters>>

-----------------------------------------------------------------------------
Next ==
    \/ \E u \in Users :
          \/ \E e \in Employees, op \in {"lend", "cancel"} : BeginLoan(u, op, e)
          \/ DecideLoan(u)
          \/ \E r \in Runs :
                \/ BeginCreate(u, r) \/ BeginRecalculate(u, r) \/ BeginSubmit(u, r)
                \/ BeginApprove(u, r) \/ BeginRemit(u, r)
                \/ \E op \in {"initiate", "retry"} : BeginTransfer(u, op, r)
          \/ Calculate(u) \/ Submit(u) \/ Approve(u) \/ PostRun(u)
          \/ Transfer(u) \/ Answer(u) \/ NoAnswer(u) \/ Remit(u)
    \/ \E r \in Runs : MarkPaid(r)
    \/ \E e \in Employees, item \in Items : Record(e, item)
Spec == Init /\ [][Next]_vars

-----------------------------------------------------------------------------
(* Properties.                                                             *)

\* The states of runs, payslips, loans and obligations.
TypeOK ==
    /\ \A r \in Runs :
          /\ run[r].status \in {"none", "draft", "processing", "approved", "paid"}
          /\ run[r].submitter \in Users \cup {Nobody} /\ run[r].approver \in Users \cup {Nobody}
          /\ run[r].gross \in Nat /\ run[r].tax \in Nat /\ run[r].net \in Nat
          /\ remit[r].status \in {"none", "open", "partial", "remitted"} /\ remit[r].paid \in Nat
          /\ \A e \in Paid(r) : slip[r][e].transfer \in {"pending", "initiated", "failed"}
    /\ \A e \in Employees :
          /\ loan[e].status \in {"pending", "active", "settled", "cancelled"} /\ loan[e].repaid \in 0..Loan
          /\ due[e] \subseteq Items

Spared(r, names) == \A name \in names : <<name, r>> \notin lapses

\* What an employee is on record as having repaid - loan installments, and the penalties
\* and advances no longer due - is what the payslips recover, and what payslips recovered
\* that a recalculation has deleted: run_payroll restores nothing, and so takes it twice.
RecoveriesExplained ==
    \A e \in Employees :
        loan[e].repaid + recorded[e] - Value(due[e], "penalty") - Value(due[e], "advance")
            = erased[e] + MapThenSumSet(LAMBDA r : IF slip[r][e] = None THEN 0 ELSE Recovered(slip[r][e]), Runs)

\* The ledger and the bank carry the payslips: an entry is in the ledger only if gross pay
\* is all accounted for, so never when a payslip was clipped at zero, and then with the
\* payslips' figures; a salary is transferred at most once, however often the transfers
\* are repeated after a lost answer, at the net of the payslip.  Unless an approval and a
\* calculation of one run overlapped.
PostedAsPaid ==
    \A r \in Runs : Spared(r, {"overtaken", "unapproved"}) =>
        /\ journal[r] # None =>
              /\ journal[r].net = MapThenSumSet(LAMBDA e : slip[r][e].net, Paid(r))
              /\ journal[r].tax = MapThenSumSet(LAMBDA e : slip[r][e].tax, Paid(r))
              /\ \A e \in Paid(r) : slip[r][e].gross = slip[r][e].tax + slip[r][e].net + Recovered(slip[r][e])
        /\ \A e \in Employees : bank[r][e] # <<>> => bank[r][e] = <<slip[r][e].net>>

\* What is owed to the authority for a run is the tax its payslips withhold, unless it was
\* calculated again after a remittance; and every payment is on an obligation, unless its
\* row was deleted with the payment or two payments were recorded at once.
ObligationsTie ==
    \A r \in Runs :
        /\ Spared(r, {"owed again"}) =>
              remit[r].due + kept[r].due = MapThenSumSet(LAMBDA e : slip[r][e].tax, Paid(r))
        /\ Spared(r, {"payment forgotten"}) => remit[r].paid + kept[r].paid = payments[r]

\* "The person who submitted cannot approve" (views.py:797): nobody approves a run he
\* submitted, unless another submitted it after him or a save overwrote the submitter.
SubmitterNeverApproves ==
    \A r \in Runs : Spared(r, {"submitted again", "unsubmitted"}) => run[r].approver \notin submitters[r]

\* The runs of a year withhold at least the tax on what they paid in it, unless a run was
\* calculated without sight of another: while that one was not approved, or as a regular
\* run, which never looks back.
YearTaxIsWithheld ==
    \A e \in Employees :
        LET counted == {r \in Committed : slip[r][e] # None}
        IN (\A r \in Runs : Spared(r, {"blind", "unapproved"})) =>
              MapThenSumSet(LAMBDA r : slip[r][e].tax, counted)
                  >= AnnualPaye(MapThenSumSet(LAMBDA r : slip[r][e].gross, counted))

=============================================================================
