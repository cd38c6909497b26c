------------------------------ MODULE MCOffice ------------------------------
(* Five parts of the office that share no state, checked in one run:       *)
(* `part` says whether a behaviour is one of bank reconciliation, of a     *)
(* payroll run, of leave, of what the organisation pays the platform for   *)
(* or of subscriptions; the others stay in their initial state.            *)
EXTENDS Office, TLC
CONSTANTS r1, r2

\* Two statement rows that one book line fits.
TwoUsers == {r1, r2}
TwoRows == {"row 1", "row 2"}
Days == [x \in TwoRows \cup {"book"} |-> IF x = "row 2" THEN 2 ELSE 1]
Sums == [x \in TwoRows \cup {"book"} |-> 1]
Symmetry == Permutations(TwoUsers)

\* An owner and another user; one employee; a year of two months.
OneOff == [bonus |-> 4, penalty |-> 2, advance |-> 6]
TaxBands == {[lower |-> 8, upper |-> 24, rate |-> 1], [lower |-> 24, upper |-> 1000, rate |-> 2]}
Plan(kinds, runs, most) == [kinds |-> kinds, runs |-> runs, most |-> most]
PayPlans == {
    Plan({"create", "recalculate", "item", "loan"}, {"month", "extra"}, 5),
    Plan({"create", "approve", "item"}, {"month", "extra"}, 5),
    Plan({"create", "recalculate", "submit", "approve"}, {"month"}, 6),
    Plan({"create", "recalculate", "approve", "pay", "transfer"}, {"month"}, 6),
    Plan({"create", "recalculate", "remit"}, {"month"}, 5)}

VARIABLE part

OfficeInit ==
    /\ part \in {"bank", "payroll", "leave", "billing", "plans"}
    /\ Init /\ P!Init /\ L!Init /\ S!Init /\ B!Init
    /\ part # "payroll" => "submit" \in plan.kinds
    /\ part # "leave" => ~direct
    /\ part # "billing" => kind = [r \in References |-> "plan"]
    /\ part # "bank" => booked = {}

BankStep == part = "bank" /\ Next /\ UNCHANGED <<part, payroll, leave, billing, plans>>
PayrollStep == part = "payroll" /\ P!Next /\ UNCHANGED <<part, vars, leave, billing, plans>>
LeaveStep == part = "leave" /\ L!Next /\ UNCHANGED <<part, vars, payroll, billing, plans>>
BillingStep == part = "billing" /\ S!Next /\ UNCHANGED <<part, vars, payroll, leave, plans>>
PlanStep == part = "plans" /\ B!Next /\ UNCHANGED <<part, vars, payroll, leave, billing>>

OfficeNext == BankStep \/ PayrollStep \/ LeaveStep \/ BillingStep \/ PlanStep
PackedSpec == OfficeInit /\ [][OfficeNext]_<<part, vars, payroll, leave, billing, plans>>
=============================================================================
