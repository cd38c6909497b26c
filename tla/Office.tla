-------------------------------- MODULE Office --------------------------------
(***************************************************************************)
(* The office, beside bank reconciliation (BankReconciliation): payroll    *)
(* runs (Payroll), leave (LeaveBalance), what the organisation pays the    *)
(* platform for (PlatformBilling), and its subscription with the partner's *)
(* wallet (PlanLifecycle).  No variable belongs to two of the parts.       *)
(***************************************************************************)
EXTENDS BankReconciliation

CONSTANTS
    Staff, Owners, Regular, Others, Employees, Salaries,               \* of payroll
    Loan, Installment, Worth, Bands, Periods, Plans,
    Leaves, LeaveDays, Ceiling, Share, MaxOps,                         \* of leave
    References, MaxActivates,                                          \* of what is paid to the platform
    Clients, Own, Payments, TrialDays, PeriodDays, Price, Commission,  \* of subscriptions
    Horizon, MaxJobs

VARIABLES
    run, slip, loan, due, remit, kept, entries, transfers, plan, payWork, payRequests,
    recorded, erased, payments, submitters, payLapses,
    direct, request, attendance, balance, cashing, accrued, baseline, sources, today, leaveWork,
    leaveOps, leaveLapses,
    kind, pay, provider, owns, payWorker, activates, charged, grants, payNotes,
    date, sub, settled, ledger, link, total, subWork, jobs, trials, cover, renewals, subLapses

payroll == <<run, slip, loan, due, remit, kept, entries, transfers, plan, payWork, payRequests,
             recorded, erased, payments, submitters, payLapses>>
leave == <<direct, request, attendance, balance, cashing, accrued, baseline, sources, today, leaveWork,
           leaveOps, leaveLapses>>
billing == <<kind, pay, provider, owns, payWorker, activates, charged, grants, payNotes>>
plans == <<date, sub, settled, ledger, link, total, subWork, jobs, trials, cover, renewals, subLapses>>

P == INSTANCE Payroll WITH
        Users <- Staff,
        journal <- entries, bank <- transfers, work <- payWork, requests <- payRequests, lapses <- payLapses
L == INSTANCE LeaveBalance WITH
        Requests <- Leaves, Days <- LeaveDays,
        rows <- attendance, booked <- sources, work <- leaveWork, ops <- leaveOps, lapses <- leaveLapses
S == INSTANCE PlatformBilling WITH
        Workers <- Users, work <- payWorker, lapses <- payNotes
B == INSTANCE PlanLifecycle WITH
        Workers <- Users, References <- Payments,
        today <- date, work <- subWork, lapses <- subLapses

ASSUME OfficeAssumption == L!LeaveAssumption /\ B!PlanAssumption

OfficeSpec == Spec /\ P!Spec /\ L!Spec /\ S!Spec /\ B!Spec

-----------------------------------------------------------------------------
\* The types of all five parts.
OfficeTypeOK == TypeOK /\ P!TypeOK /\ L!TypeOK /\ S!TypeOK /\ B!TypeOK

\* Recoveries are on payslips, the ledger, the bank and the obligations carry the figures of
\* the payslips, nobody approves his own run, and the tax of a year is withheld (Payroll).
PayrollAgrees ==
    /\ P!RecoveriesExplained /\ P!PostedAsPaid /\ P!ObligationsTie
    /\ P!SubmitterNeverApproves /\ P!YearTaxIsWithheld

\* The balance of an employee and the attendance are those of the requests, and the
\* accrued leave in the ledger is the baseline of the next true-up (LeaveBalance).
LeaveAgrees == L!BalanceFollowsRequests /\ L!AttendanceFollowsApproval /\ L!LedgerIsTheBaseline

\* What the platform grants was paid for, once, and nobody pays twice (PlatformBilling); a
\* paid plan is active and a trial is given once, and a partner's wallet holds what his
\* clients' payments earned less what he spent on his own plan (PlanLifecycle).
GrantsArePaid ==
    /\ S!GrantedOnce /\ S!PaidOnce
    /\ B!PaidIsActive /\ B!OneTrial /\ B!WalletAgrees /\ B!CreditPaysRenewals
=============================================================================
