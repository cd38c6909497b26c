--------------------------- MODULE PlatformBilling ---------------------------
(***************************************************************************)
(* What an organisation pays the platform for: its plan, an integration or *)
(* a connector (src/backend/apps/subscriptions/payment_engine.py).  One    *)
(* reference is settled by the provider's webhook, by the browser's return *)
(* and by a poll, at the same time if need be.  Each looks at the row,     *)
(* asks the provider with no lock held, and looks again before it grants.  *)
(***************************************************************************)
EXTENDS Integers, FiniteSets

CONSTANTS
    References,
    Workers,     \* settlements under way
    MaxActivates \* bound: settlements begun

VARIABLES
    kind,      \* what each reference pays for: the plan, or an integration or connector
    pay,       \* PaymentHistory.status of each reference
    provider,  \* the transaction at the provider, external
    owns,      \* what is in force: "plan", "integration"
    work, activates,
    charged,   \* history: references the customer was charged for
    grants,    \* history: how often each reference has been granted
    lapses     \* history: <<what happened, reference>>

vars == <<kind, pay, provider, owns, work, activates, charged, grants, lapses>>

None == [none |-> TRUE]

Init ==
    /\ kind \in [References -> {"plan", "integration"}]
    /\ pay = [r \in References |-> "none"] /\ provider = [r \in References |-> "none"]
    /\ owns = {} /\ work = [w \in Workers |-> None] /\ activates = 0
    /\ charged = {} /\ grants = [r \in References |-> 0] /\ lapses = {}

Guarded == {r \in References : kind[r] = "integration"}
At(w, step) == work[w] # None /\ work[w].step = step
Goto(w, new) == work' = [work EXCEPT ![w] = new]
Lapse(cond, name, r) == IF cond THEN {<<name, r>>} ELSE {}

\* initiate: an integration or a connector must not be owned, nor be waiting for a payment;
\* the check holds the row's lock.  A plan has no such check.
Waiting_ignored == FALSE
Waiting == \E q \in Guarded : pay[q] = "pending"
Initiate(r) ==
    /\ pay[r] = "none"
    /\ r \in Guarded => kind[r] \notin owns /\ ~Waiting
    /\ pay' = [pay EXCEPT ![r] = "pending"]
    /\ UNCHANGED <<kind, provider, owns, work, activates, charged, grants, lapses>>

\* _call_initialize: the customer gets a page to pay on, or the payment has failed.
Opened(r) ==
    /\ pay[r] # "none" /\ provider[r] = "none"
    /\ \/ provider' = [provider EXCEPT ![r] = "open"] /\ pay' = pay
       \/ pay' = [pay EXCEPT ![r] = "failed"] /\ provider' = [provider EXCEPT ![r] = "closed"]
    /\ UNCHANGED <<kind, owns, work, activates, charged, grants, lapses>>

\* At the provider a charge succeeds or fails; the customer may try again after a failure.
Charge(r) ==
    /\ provider[r] \in {"open", "failed"}
    /\ \/ /\ provider' = [provider EXCEPT ![r] = "success"] /\ charged' = charged \cup {r}
          /\ lapses' = lapses \cup Lapse(provider[r] = "failed", "paid after failure", r)
       \/ provider[r] = "open" /\ provider' = [provider EXCEPT ![r] = "failed"] /\ UNCHANGED <<charged, lapses>>
    /\ UNCHANGED <<kind, pay, owns, work, activates, grants>>

\* activate: a reference that has succeeded is left alone.
Begin(w, r) ==
    /\ work[w] = None /\ activates < MaxActivates /\ activates' = activates + 1
    /\ pay[r] \notin {"none", "succeeded"}
    /\ Goto(w, [reference |-> r, step |-> "verify"])
    /\ UNCHANGED <<kind, pay, provider, owns, charged, grants, lapses>>

\* The provider's verdict; without one, or while the customer has not paid, nothing changes.
\* A plan may have been withdrawn from sale: its payment is then marked as failed, too.
Verify(w) ==
    /\ At(w, "verify")
    /\ LET r == work[w].reference
       IN \/ provider[r] = "success" /\ Goto(w, [work[w] EXCEPT !.step = "grant"])
          \/ /\ provider[r] \in {"failed", "reversed"} \/ (provider[r] = "success" /\ r \notin Guarded)
             /\ Goto(w, [work[w] EXCEPT !.step = "fail"])
          \/ Goto(w, None)
    /\ UNCHANGED <<kind, pay, provider, owns, activates, charged, grants, lapses>>

\* _mark_failed saves the status without another look at the row.
MarkFailed(w) ==
    /\ At(w, "fail")
    /\ LET r == work[w].reference
       IN /\ pay' = [pay EXCEPT ![r] = "failed"]
          /\ lapses' = lapses \cup Lapse(pay[r] # "pending", "failed blindly", r)
    /\ Goto(w, None)
    /\ UNCHANGED <<kind, provider, owns, activates, charged, grants>>

\* The row is locked again: succeeded in the meantime, or granted now.
Granted_unlocked(r) == FALSE
Granted(r) == pay[r] = "succeeded"
Grant(w) ==
    /\ At(w, "grant")
    /\ LET r == work[w].reference
       IN IF Granted(r) THEN UNCHANGED <<pay, owns, grants, lapses>>
          ELSE /\ pay' = [pay EXCEPT ![r] = "succeeded"] /\ owns' = owns \cup {kind[r]}
               /\ grants' = [grants EXCEPT ![r] = @ + 1]
               /\ lapses' = lapses \cup Lapse(pay[r] \in {"refunded", "partially refunded"}, "granted after refund", r)
    /\ Goto(w, None)
    /\ UNCHANGED <<kind, provider, activates, charged>>

\* handle_refund_webhook, under the row's lock: for any event about a refund, repeated ones
\* and those of a refund that is pending or failed too.  Only a full one of an integration
\* or a connector takes back what was granted.
Refund(r, full) ==
    /\ r \in charged
    /\ pay' = [pay EXCEPT ![r] = IF full THEN "refunded" ELSE "partially refunded"]
    /\ owns' = IF full /\ r \in Guarded THEN owns \ {kind[r]} ELSE owns
    /\ lapses' = lapses \cup {<<"refunded", r>>}
    /\ UNCHANGED <<kind, provider, work, activates, charged, grants>>

\* A full refund at the provider turns the transaction.
Reverse(r) ==
    /\ provider[r] = "success" /\ provider' = [provider EXCEPT ![r] = "reversed"]
    /\ lapses' = lapses \cup {<<"refunded", r>>}
    /\ UNCHANGED <<kind, pay, owns, work, activates, charged, grants>>

-----------------------------------------------------------------------------
Next ==
    \/ \E r \in References :
          \/ Initiate(r) \/ Opened(r) \/ Charge(r) \/ Reverse(r)
          \/ Refund(r, TRUE) \/ Refund(r, FALSE)
          \/ \E w \in Workers : Begin(w, r)
    \/ \E w \in Workers : Verify(w) \/ MarkFailed(w) \/ Grant(w)

Spec == Init /\ [][Next]_vars

-----------------------------------------------------------------------------
TypeOK ==
    /\ kind \in [References -> {"plan", "integration"}]
    /\ pay \in [References -> {"none", "pending", "failed", "succeeded", "refunded", "partially refunded"}]
    /\ provider \in [References -> {"none", "closed", "open", "failed", "success", "reversed"}]
    /\ owns \subseteq {"plan", "integration"} /\ charged \subseteq References
    /\ grants \in [References -> Nat]

Clear(r, names) == \A name \in names : <<name, r>> \notin lapses

\* A payment grants once what it paid for, however many settlements of it cross: only a
\* status saved blindly over the row, or a refund, lets it grant again.
GrantedOnce ==
    \A r \in References :
        /\ grants[r] > 0 => r \in charged
        /\ Clear(r, {"failed blindly", "granted after refund"}) => grants[r] <= 1
        /\ pay[r] = "succeeded" => grants[r] > 0

\* Nobody pays twice for one integration, and who has paid owns it: unless a customer pays
\* after his payment was marked as failed, or is refunded.  What is owned has been paid for
\* and not been given back, whatever refunds cross: unless a status was saved blindly.
Undisturbed(names) == \A r \in Guarded : Clear(r, names)
Paid(r) == grants[r] > 0 /\ pay[r] \in {"succeeded", "partially refunded"}
PaidOnce ==
    /\ Undisturbed({"paid after failure", "failed blindly", "refunded"}) =>
          /\ Cardinality(charged \cap Guarded) <= 1
          /\ (\E r \in Guarded : Paid(r)) => "integration" \in owns
    /\ Undisturbed({"failed blindly"}) =>
          ("integration" \in owns => \E r \in Guarded : Paid(r))

=============================================================================
