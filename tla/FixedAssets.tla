----------------------------- MODULE FixedAssets -----------------------------
(***************************************************************************)
(* The fixed-asset register beside the ledger (src/backend/apps/accounting):*)
(* purchase and take-on, monthly depreciation (posted or as drafts for     *)
(* review), usage, revaluation and disposal.  Every service is one         *)
(* transaction that reads without locks (`work[u].seen`); the unique       *)
(* indexes on depreciation entries and on journal sources have the last    *)
(* word.  Some postings may fail without failing the request.              *)
(***************************************************************************)
EXTENDS Integers, FiniteSets, FiniteSetsExt

CONSTANTS
    Users, Assets,
    Months,         \* 1 is the month of purchase
    Costs,          \* purchase costs, take-on depreciation and revalued amounts
    Residual,       \* residual value
    Charge,         \* the charge of a full month
    ByUsage,        \* assets depreciated by units of production
    MaxRequests     \* bound: requests

AssetsAssumption ==
    /\ Months \subseteq Nat /\ 1 \in Months /\ Costs \subseteq Nat \ {0}
    /\ Residual \in Nat /\ Charge \in Nat \ {0} /\ ByUsage \subseteq Assets /\ MaxRequests \in Nat

VARIABLES
    asset,     \* FixedAsset: status, purchase_cost, acquisition_posted
    dep,       \* DepreciationEntry.depreciation_amount by asset and month, where there is one
    cost,      \* Fixed Assets (1500), what it holds for each asset
    accum,     \* Accumulated Depreciation (1510), likewise, posted
    drafts,    \* depreciation journals still to be reviewed, by asset and month
    keys,      \* sources of journal entries
    work, requests,
    lapses     \* history: the ways in which register and ledger part

vars == <<asset, dep, cost, accum, drafts, keys, work, requests, lapses>>

Idle == [step |-> "idle"]
Init ==
    /\ asset = [a \in Assets |-> [status |-> "none", cost |-> 0, acquired |-> FALSE]]
    /\ dep = [a \in Assets |-> <<>>]
    /\ cost = [a \in Assets |-> 0] /\ accum = [a \in Assets |-> 0] /\ drafts = [a \in Assets |-> <<>>]
    /\ keys = {} /\ work = [u \in Users |-> Idle] /\ requests = 0 /\ lapses = {}

Total(f) == MapThenSumSet(LAMBDA m : f[m], DOMAIN f)
Plus(f, m, x) == [n \in DOMAIN f \cup {m} |-> IF n = m THEN x ELSE f[n]]
Without(f, m) == [n \in DOMAIN f \ {m} |-> f[n]]
Lapse(cond, name) == IF cond THEN {name} ELSE {}

Count == requests < MaxRequests /\ requests' = requests + 1
Finished(u) == work' = [work EXCEPT ![u] = Idle]

-----------------------------------------------------------------------------
\* set_asset_opening_balance seeds what was depreciated before the take-on.
Seeded(a, taken) == IF taken > 0 THEN [dep EXCEPT ![a] = Plus(<<>>, 1, taken)] ELSE dep

\* perform_create, then post_acquisition or set_asset_opening_balance, whose failure (or
\* the death of the worker in between) leaves a registered asset without its entry.
Register(a, price, taken, booked) ==
    /\ asset[a].status = "none" /\ Count /\ taken <= price
    /\ asset' = [asset EXCEPT ![a] = [status |-> "active", cost |-> price, acquired |-> booked]]
    /\ IF booked
       THEN /\ cost' = [cost EXCEPT ![a] = price] /\ accum' = [accum EXCEPT ![a] = taken]
            /\ dep' = Seeded(a, taken)
            /\ keys' = keys \cup {<<"acquisition", a>>}
            /\ lapses' = lapses \cup Lapse(price - taken < Residual, "taken on below residual")
       ELSE UNCHANGED <<cost, accum, dep, keys>> /\ lapses' = lapses \cup {"not booked"}
    /\ UNCHANGED <<drafts, work>>

\* The register as the request reads it.
Begin(u, op, target, m) ==
    /\ work[u] = Idle /\ Count
    /\ op \in {"dispose", "revalue"} => asset[target].status = "active"
    /\ op = "usage" => target \in ByUsage /\ m \notin DOMAIN dep[target]
    /\ work' = [work EXCEPT ![u] = [step |-> "read", op |-> op, asset |-> target, month |-> m,
                                    seen |-> [asset |-> asset, dep |-> dep]]]
    /\ UNCHANGED <<asset, dep, cost, accum, drafts, keys, lapses>>

\* What a month charges, given what was read: never more than is left above the residual.
Left(seen, a) == seen.asset[a].cost - Total(seen.dep[a]) - Residual
Due_uncapped(seen, a) == IF Left(seen, a) > 0 THEN Charge ELSE 0
Due(seen, a) == IF Left(seen, a) > 0 THEN Min({Charge, Left(seen, a)}) ELSE 0

\* An asset for which the month is there already is skipped; one that another run has
\* charged since makes the unique index fail the whole run.
Charged(u) ==
    {a \in Assets \ ByUsage : /\ work[u].seen.asset[a].status = "active"
                              /\ work[u].month \notin DOMAIN work[u].seen.dep[a]
                              /\ Due(work[u].seen, a) > 0}

\* run_depreciation; the journal of an asset may fail without failing the run.
Depreciate(u, mode) ==
    LET m == work[u].month
        seen == work[u].seen
    IN /\ work[u] # Idle /\ work[u].op = "run"
       /\ \A a \in Charged(u) : m \notin DOMAIN dep[a]
       /\ dep' = [a \in Assets |-> IF a \in Charged(u) THEN Plus(dep[a], m, Due(seen, a)) ELSE dep[a]]
       /\ accum' = [a \in Assets |-> IF a \in Charged(u) /\ mode = "posted" THEN accum[a] + Due(seen, a) ELSE accum[a]]
       /\ drafts' = [a \in Assets |-> IF a \in Charged(u) /\ mode = "draft" THEN Plus(drafts[a], m, Due(seen, a)) ELSE drafts[a]]
       /\ keys' = IF mode = "failed" THEN keys ELSE keys \cup {<<"depreciation", a, m>> : a \in Charged(u)}
       /\ lapses' = lapses \cup Lapse(mode = "failed" /\ Charged(u) # {}, "not booked")
                           \cup Lapse(\E a \in Charged(u) : asset[a] # seen.asset[a] \/ dep[a] # seen.dep[a], "overtaken")
       /\ Finished(u) /\ UNCHANGED <<asset, cost, requests>>

\* record_usage_depreciation: a failing journal fails the request.
RecordUsage(u, units) ==
    LET a == work[u].asset
        m == work[u].month
        left == Left(work[u].seen, a)
    IN /\ work[u] # Idle /\ work[u].op = "usage" /\ left > 0 /\ m \notin DOMAIN dep[a]
       /\ dep' = [dep EXCEPT ![a] = Plus(@, m, Min({units, left}))]
       /\ accum' = [accum EXCEPT ![a] = @ + Min({units, left})]
       /\ keys' = keys \cup {<<"depreciation", a, m>>}
       /\ lapses' = lapses \cup Lapse(asset[a] # work[u].seen.asset[a] \/ dep[a] # work[u].seen.dep[a], "overtaken")
                           \cup Lapse(asset[a].status # "active", "usage after disposal")
       /\ Finished(u) /\ UNCHANGED <<asset, cost, drafts, requests>>

\* post_depreciation_drafts: all drafts of the month, whatever is locked.
PostDrafts(m) ==
    LET ready == {a \in Assets : m \in DOMAIN drafts[a]}
    IN /\ ready # {}
       /\ accum' = [a \in Assets |-> IF a \in ready THEN accum[a] + drafts[a][m] ELSE accum[a]]
       /\ drafts' = [a \in Assets |-> Without(drafts[a], m)]
       /\ UNCHANGED <<asset, dep, cost, keys, work, requests, lapses>>

\* The accountant deletes a draft; its source stays taken, the register is not told.
DeleteDraft(a, m) ==
    /\ m \in DOMAIN drafts[a] /\ drafts' = [drafts EXCEPT ![a] = Without(@, m)]
    /\ lapses' = lapses \cup {"draft deleted"}
    /\ UNCHANGED <<asset, dep, cost, accum, keys, work, requests>>

-----------------------------------------------------------------------------
\* An entry whose source exists is returned, not posted again.
Books(key) == key \notin keys

\* dispose_asset: takes the cost and what has been depreciated off the books.
Cleared_without_history(seen, a) == 0
Cleared(seen, a) == Total(seen.dep[a])
Dispose(u) ==
    LET a == work[u].asset
        seen == work[u].seen
        key == <<"disposal", a>>
    IN /\ work[u] # Idle /\ work[u].op = "dispose"
       /\ cost' = [cost EXCEPT ![a] = IF Books(key) THEN @ - seen.asset[a].cost ELSE @]
       /\ accum' = [accum EXCEPT ![a] = IF Books(key) THEN @ - Cleared(seen, a) ELSE @]
       /\ keys' = keys \cup {key}
       /\ asset' = [asset EXCEPT ![a].status = "disposed"]
       /\ lapses' = lapses \cup Lapse(asset[a] # seen.asset[a] \/ dep[a] # seen.dep[a], "overtaken")
       /\ Finished(u) /\ UNCHANGED <<dep, drafts, requests>>

\* revalue_asset: the new amount becomes the cost and an entry of this month takes back
\* what was depreciated, so a month that has an entry refuses it.
Revalue(u, value) ==
    LET a == work[u].asset
        m == work[u].month
        seen == work[u].seen
        key == <<"revaluation", a, m>>
        gone == Total(seen.dep[a])
    IN /\ work[u] # Idle /\ work[u].op = "revalue"
       /\ gone > 0 => m \notin DOMAIN dep[a]
       /\ cost' = [cost EXCEPT ![a] = IF Books(key) THEN @ + value - seen.asset[a].cost ELSE @]
       /\ accum' = [accum EXCEPT ![a] = IF Books(key) THEN @ - gone ELSE @]
       /\ keys' = keys \cup {key}
       /\ asset' = [asset EXCEPT ![a].cost = value]
       /\ dep' = IF gone > 0 THEN [dep EXCEPT ![a] = Plus(@, m, -gone)] ELSE dep
       /\ lapses' = lapses \cup Lapse(asset[a] # seen.asset[a] \/ dep[a] # seen.dep[a], "overtaken")
                           \cup Lapse(~Books(key), "revalued twice on a day")
       /\ Finished(u) /\ UNCHANGED <<drafts, requests>>

\* An exception undoes the request: a unique index, a locked month, an account missing.
Refuse(u) ==
    /\ work[u] # Idle /\ Finished(u)
    /\ UNCHANGED <<asset, dep, cost, accum, drafts, keys, requests, lapses>>

Next ==
    \/ \E a \in Assets, price \in Costs, taken \in Costs \cup {0}, booked \in BOOLEAN : Register(a, price, taken, booked)
    \/ \E a \in Assets, m \in Months : DeleteDraft(a, m)
    \/ \E m \in Months : PostDrafts(m)
    \/ \E u \in Users :
          \/ \E op \in {"run", "usage", "dispose", "revalue"}, a \in Assets, m \in Months : Begin(u, op, a, m)
          \/ \E mode \in {"posted", "draft", "failed"} : Depreciate(u, mode)
          \/ Dispose(u) \/ Refuse(u)
          \/ \E x \in Costs : RecordUsage(u, x) \/ Revalue(u, x)

Spec == Init /\ [][Next]_vars

-----------------------------------------------------------------------------
TypeOK ==
    /\ asset \in [Assets -> [status : {"none", "active", "disposed"}, cost : Costs \cup {0}, acquired : BOOLEAN]]
    /\ \A a \in Assets : /\ DOMAIN dep[a] \subseteq Months /\ DOMAIN drafts[a] \subseteq DOMAIN dep[a]
                         /\ cost[a] \in Int /\ accum[a] \in Int
    /\ DOMAIN work = Users /\ requests \in 0..MaxRequests

\* "Prove the fixed-asset register ties to the general ledger" (gl_reconciliation): for each
\* asset the ledger, drafts under review included, holds its cost and its depreciation while
\* it is in use, and nothing of it after disposal.
RegisterTiesToLedger ==
    lapses = {} => \A a \in Assets :
        /\ cost[a] = (IF asset[a].status = "active" THEN asset[a].cost ELSE 0)
        /\ accum[a] + Total(drafts[a]) = (IF asset[a].status = "active" THEN Total(dep[a]) ELSE 0)

\* No asset is depreciated below its residual value, in whatever order months are run,
\* reviewed, revalued or charged by usage.
DepreciatedWithinCost ==
    lapses \ {"not booked", "draft deleted"} = {} =>
        \A a \in Assets : asset[a].status = "active" /\ asset[a].cost > Residual
                          => Total(dep[a]) <= asset[a].cost - Residual
=============================================================================
