---------------------------- MODULE RequestReplay ----------------------------
(***************************************************************************)
(* Requests sent again under one Idempotency-Key (IdempotencyMixin in      *)
(* src/backend/apps/core/idempotency.py, used by the views that create an  *)
(* invoice and record a payment).  The answer is looked up before the work *)
(* and saved after it; neither is in the transaction of the work.          *)
(***************************************************************************)
EXTENDS Integers, FiniteSets

CONSTANTS
    Keys,       \* scoped keys: user, action and the client's key
    Creating,   \* those of the action invoice:create
    Workers,    \* requests under way
    MaxSends    \* bound: copies sent

VARIABLES
    record,  \* keys with an IdempotencyRecord
    work, sends,
    done,    \* history: how often the work of each key was done
    lapses   \* history: <<what happened, key>>

vars == <<record, work, sends, done, lapses>>

None == [none |-> TRUE]

Init ==
    /\ record = {} /\ work = [w \in Workers |-> None] /\ sends = 0
    /\ done = [k \in Keys |-> 0] /\ lapses = {}

At(w, step) == work[w] # None /\ work[w].step = step
Goto(w, new) == work' = [work EXCEPT ![w] = new]
Lapse(cond, name, k) == IF cond THEN {<<name, k>>} ELSE {}

\* check_idempotency: a saved answer is returned, otherwise the view goes on.
Replayed_never(k) == FALSE
Replayed(k) == k \in record
Send(w, k) ==
    /\ work[w] = None /\ sends < MaxSends /\ sends' = sends + 1
    /\ Goto(w, IF Replayed(k) THEN None ELSE [key |-> k, step |-> "run"])
    /\ lapses' = lapses \cup Lapse(\E v \in Workers : work[v] # None /\ work[v].key = k, "crossed", k)
    /\ UNCHANGED <<record, done>>

\* The sale or the payment commits, or is refused: a refusal is not saved.
Run(w) ==
    /\ At(w, "run")
    /\ \/ done' = [done EXCEPT ![work[w].key] = @ + 1] /\ Goto(w, [work[w] EXCEPT !.step = "save"])
       \/ Goto(w, None) /\ UNCHANGED done
    /\ UNCHANGED <<record, sends, lapses>>

\* save_idempotency swallows every failure, and json.dumps fails for an invoice, whose
\* serialized foreign keys are UUID objects.
Encodable(k) == k \notin Creating
SaveAnswer(w) ==
    /\ At(w, "save")
    /\ LET k == work[w].key
       IN /\ record' = IF Encodable(k) THEN record \cup {k} ELSE record
          /\ lapses' = lapses \cup Lapse(~Encodable(k), "never saved", k)
    /\ Goto(w, None)
    /\ UNCHANGED <<sends, done>>

Expire(k) ==
    /\ k \in record /\ record' = record \ {k} /\ lapses' = lapses \cup {<<"expired", k>>}
    /\ UNCHANGED <<work, sends, done>>

Kill(w) ==
    /\ work[w] # None /\ Goto(w, None)
    /\ lapses' = lapses \cup Lapse(work[w].step = "save", "cut short", work[w].key)
    /\ UNCHANGED <<record, sends, done>>

Next ==
    \/ \E w \in Workers : (\E k \in Keys : Send(w, k)) \/ Run(w) \/ SaveAnswer(w) \/ Kill(w)
    \/ \E k \in Keys : Expire(k)

Spec == Init /\ [][Next]_vars

-----------------------------------------------------------------------------
TypeOK == record \subseteq Keys /\ done \in [Keys -> Nat] /\ sends \in 0..MaxSends

\* However often a request is sent, its work is done once, and an answer is replayed only
\* for work that was done.  What escapes: copies under way together, a worker that dies
\* before the answer is saved, an answer of more than a day ago, and every invoice:create.
DoneOnce ==
    \A k \in Keys :
        /\ k \in record => done[k] > 0
        /\ (\A name \in {"crossed", "cut short", "expired", "never saved"} : <<name, k>> \notin lapses) => done[k] <= 1

=============================================================================
