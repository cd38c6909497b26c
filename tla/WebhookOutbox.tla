---------------------------- MODULE WebhookOutbox ----------------------------
(***************************************************************************)
(* Domain events and their delivery to one webhook subscription            *)
(* (src/backend/apps/integrations).  An event is a row written with the    *)
(* mutation it tells of.  The task that delivers runs every two minutes    *)
(* whether or not its last run has ended, and nothing locks a delivery:    *)
(* a run reads the row, posts, and saves what it read, moved on by one     *)
(* attempt.  Time is left out: a backoff is over whenever the run says so. *)
(***************************************************************************)
EXTENDS Integers, Sequences, FiniteSets, SequencesExt

CONSTANTS
    Events,
    Workers,     \* the runs of the task that can overlap
    MaxAttempts, \* WebhookDelivery.MAX_ATTEMPTS
    MaxRuns,     \* bound: runs of the task
    MaxChanges,  \* bound: changes of the plan, the entitlement and the subscription
    MaxKills     \* bound: workers killed

VARIABLES
    row,      \* WebhookDelivery of each event, "none" before its first attempt
    occurred, \* the domain events written
    open,     \* [plan, entitled, active]: what delivery is gated by
    work, runs, changes, kills,
    posts,    \* history: requests the target has been sent, for each event
    accepted, \* history: events the target has answered with 2xx
    lapses    \* history: <<what happened, event>>

vars == <<row, occurred, open, work, runs, changes, kills, posts, accepted, lapses>>

None == [none |-> TRUE]
NoRow == [status |-> "none", attempts |-> 0]
Gates == {"plan", "entitled", "active"}

Init ==
    /\ row = [e \in Events |-> NoRow] /\ occurred = {} /\ open = Gates
    /\ work = [w \in Workers |-> None] /\ runs = 0 /\ changes = 0 /\ kills = 0
    /\ posts = [e \in Events |-> 0] /\ accepted = {} /\ lapses = {}

Lapse(cond, name, e) == IF cond THEN {<<name, e>>} ELSE {}
Goto(w, new) == work' = [work EXCEPT ![w] = new]
At(w, step) == work[w] # None /\ work[w].step = step
Turn(w) == Head(work[w].events)
\* The run goes on with its next event.
Done(w) == Goto(w, IF Len(work[w].events) = 1 THEN None
                   ELSE [step |-> "pick", events |-> Tail(work[w].events)])

\* IntegrationEventService.emit, in the transaction of the business mutation.
Emit(e) ==
    /\ e \notin occurred /\ occurred' = occurred \cup {e}
    /\ UNCHANGED <<row, open, work, runs, changes, kills, posts, accepted, lapses>>

\* The plan lapses or is paid again, the entitlement is revoked or bought, the
\* subscription is removed for good.
Change(gate) ==
    /\ changes < MaxChanges /\ changes' = changes + 1
    /\ gate = "active" => gate \in open
    /\ open' = IF gate \in open THEN open \ {gate} ELSE open \cup {gate}
    /\ UNCHANGED <<row, occurred, work, runs, kills, posts, accepted, lapses>>

\* deliver_pending_webhooks: the events with no delivered row, listed once.
Waiting == {e \in occurred : row[e].status # "delivered"}
BeginRun(w) ==
    /\ work[w] = None /\ runs < MaxRuns /\ runs' = runs + 1
    /\ "active" \in open /\ Waiting # {}
    /\ Goto(w, [step |-> "pick", events |-> SetToSeq(Waiting)])
    /\ UNCHANGED <<row, occurred, open, changes, kills, posts, accepted, lapses>>

\* A failed row is left alone, another may not be due yet.
Due(e) == row[e].status # "failed"
Pick(w) ==
    /\ At(w, "pick")
    /\ \/ /\ Due(Turn(w))
          /\ Goto(w, [work[w] EXCEPT !.step = "deliver"])
       \/ (~Due(Turn(w)) \/ row[Turn(w)].attempts > 0) /\ Done(w)
    /\ UNCHANGED <<row, occurred, open, runs, changes, kills, posts, accepted, lapses>>

\* get_or_create of the row, and the gates: a delivered row and a lapsed plan end the
\* attempt; a missing entitlement ends the delivery.
Created(e) == IF row[e].status = "none" THEN [row EXCEPT ![e].status = "pending"] ELSE row
Entitled == "entitled" \in open
Deliver(w) ==
    /\ At(w, "deliver")
    /\ LET e == Turn(w)
           copy == Created(e)[e]
       IN CASE copy.status = "delivered" \/ "plan" \notin open ->
                  row' = Created(e) /\ Done(w) /\ UNCHANGED lapses
            [] copy.status # "delivered" /\ "plan" \in open /\ ~Entitled ->
                  /\ row' = [row EXCEPT ![e].status = "failed"] /\ Done(w)
                  /\ lapses' = lapses \cup {<<"gated", e>>}
            [] OTHER ->
                  /\ row' = Created(e)
                  /\ lapses' = lapses \cup Lapse(copy.status = "failed", "overlapped", e)
                  /\ Goto(w, [work[w] EXCEPT !.step = "post"] @@ [copy |-> copy])
    /\ UNCHANGED <<occurred, open, runs, changes, kills, posts, accepted>>

\* The request to the target: it takes the event and says so, takes it though the answer
\* is lost, refuses it, or is never reached.
Post(w) ==
    /\ At(w, "post")
    /\ \E answer \in {"taken", "lost", "refused", "unreached"} :
          /\ posts' = [posts EXCEPT ![Turn(w)] = @ + IF answer = "unreached" THEN 0 ELSE 1]
          /\ accepted' = IF answer \in {"taken", "lost"} THEN accepted \cup {Turn(w)} ELSE accepted
          /\ lapses' = lapses \cup Lapse(answer = "lost", "answer lost", Turn(w))
          /\ Goto(w, [step |-> "save", events |-> work[w].events, copy |-> work[w].copy, heard |-> answer = "taken"])
    /\ UNCHANGED <<row, occurred, open, runs, changes, kills>>

\* One attempt more than the copy had, and delivered, failed or pending.
Settled_never_failed(copy, heard) ==
    [status |-> IF heard THEN "delivered" ELSE "pending", attempts |-> copy.attempts + 1]
Settled(copy, heard) ==
    [status |-> IF heard THEN "delivered" ELSE IF copy.attempts + 1 >= MaxAttempts THEN "failed" ELSE "pending",
     attempts |-> copy.attempts + 1]
Save(w) ==
    /\ At(w, "save")
    /\ LET e == Turn(w)
       IN /\ row' = [row EXCEPT ![e] = Settled(work[w].copy, work[w].heard)]
          /\ lapses' = lapses \cup Lapse(row[e] # work[w].copy, "overlapped", e)
    /\ Done(w)
    /\ UNCHANGED <<occurred, open, runs, changes, kills, posts, accepted>>

Kill(w) ==
    /\ work[w] # None /\ kills < MaxKills /\ kills' = kills + 1 /\ Goto(w, None)
    /\ lapses' = lapses \cup Lapse(work[w].step = "save", "uncounted", Turn(w))
    /\ UNCHANGED <<row, occurred, open, runs, changes, posts, accepted>>

-----------------------------------------------------------------------------
Next ==
    \/ \E e \in Events : Emit(e)
    \/ \E gate \in Gates : Change(gate)
    \/ \E w \in Workers : BeginRun(w) \/ Pick(w) \/ Deliver(w) \/ Post(w) \/ Save(w) \/ Kill(w)

Spec == Init /\ [][Next]_vars

-----------------------------------------------------------------------------
TypeOK ==
    /\ row \in [Events -> [status : {"none", "pending", "delivered", "failed"}, attempts : Nat]]
    /\ occurred \subseteq Events /\ open \subseteq Gates /\ accepted \subseteq occurred
    /\ posts \in [Events -> Nat]

Idle(e) == \A w \in Workers : work[w] # None => Turn(w) # e \/ work[w].step = "pick"
Clear(e, names) == \A name \in names : <<name, e>> \notin lapses

\* A row never says what the target does not know: delivered only if it was taken, and
\* given up only after every attempt, or with the entitlement gone.
RowsAreTrue ==
    \A e \in Events :
        /\ row[e].status = "delivered" => e \in accepted
        /\ row[e].status = "failed" => row[e].attempts >= MaxAttempts \/ <<"gated", e>> \in lapses

\* The target gets an event once, and never more often than it is to be tried, unless its
\* answer was lost, two runs overlapped, or a run died with the answer in its hands.
SentOnce ==
    \A e \in Events : Clear(e, {"answer lost", "overlapped", "uncounted"}) =>
        /\ row[e].attempts <= MaxAttempts
        /\ Idle(e) => posts[e] <= row[e].attempts
        /\ e \in accepted /\ Idle(e) => row[e].status = "delivered"

=============================================================================
