--------------------------- MODULE ConnectorLinks ---------------------------
(***************************************************************************)
(* The accounts an organisation connects (src/backend/apps/connectors):    *)
(* Slack, Sheets and the others through Nango, which keeps the grant and   *)
(* tells of it by a webhook or when asked; Telegram through a code its     *)
(* user sends to the bot.  The plan includes so many of them; any other is *)
(* paid for.  Events are then delivered to what is connected.              *)
(***************************************************************************)
EXTENDS Integers, FiniteSets

CONSTANTS
    Granted, Coded,    \* connectors granted through Nango, and linked by a code
    Events,
    Workers,           \* requests and runs of the delivery task under way
    MaxConnectors,     \* max_connectors of the plan
    MaxAttempts,       \* ConnectorEventDelivery.MAX_ATTEMPTS
    MaxSessions, MaxRuns \* bounds: sessions opened, requests and runs begun

Keys == Granted \cup Coded

VARIABLES
    row,      \* ConnectorConnection of each key
    addon,    \* keys whose ConnectorAddonSubscription is active
    sessions, \* sessions and codes handed out and not used, with their key and number
    accounts, \* connections that exist at Nango, external
    hooks,    \* webhooks of Nango on their way: they can be lost, late or repeated
    delivery, \* ConnectorEventDelivery of each key and event
    work, opened, runs,
    wanted,   \* history: keys whose last request was to connect them
    posts,    \* history: how often an account was told of an event
    lapses    \* history: <<what happened, key>>

vars == <<row, addon, sessions, accounts, hooks, delivery, work, opened, runs, wanted, posts, lapses>>
outside == <<sessions, accounts, hooks>>

None == [none |-> TRUE]
NoLink == 0
Unsent == [status |-> "none", attempts |-> 0]

Init ==
    /\ row = [k \in Keys |-> None] /\ addon = {} /\ sessions = {} /\ accounts = {} /\ hooks = {}
    /\ delivery = [k \in Keys, e \in Events |-> Unsent]
    /\ work = [w \in Workers |-> None] /\ opened = 0 /\ runs = 0
    /\ wanted = {} /\ posts = [k \in Keys, e \in Events |-> 0] /\ lapses = {}

At(w, step) == work[w] # None /\ work[w].step = step
Goto(w, new) == work' = [work EXCEPT ![w] = new]
Lapse(cond, name, k) == IF cond THEN {<<name, k>>} ELSE {}
Is(k, status) == row[k] # None /\ row[k].status = status

-----------------------------------------------------------------------------
(* start_connect_session: the row's lock is held across the call to Nango,   *)
(* if there is a row to lock.                                                *)

Held(k) == \E w \in Workers : At(w, "open") /\ work[w].key = k /\ work[w].locks

\* has_quota_slot counts what is connected, not what is about to be.
InPlan(statuses) == {k \in Keys : row[k] # None /\ row[k].status \in statuses /\ row[k].mode = "plan"}
Slot_paid == TRUE
Slot == Cardinality(InPlan({"active"})) < MaxConnectors

Connect(w, k) ==
    /\ work[w] = None /\ opened < MaxSessions /\ opened' = opened + 1
    /\ ~Held(k) /\ ~Is(k, "active") /\ (Slot \/ k \in addon)
    /\ LET mode == IF Slot THEN "plan" ELSE "addon"
           opening == {v \in Workers : At(v, "open") /\ work[v].mode = "plan" /\ work[v].key # k}
           promised == (InPlan({"pending"}) \ {k}) \cup {work[v].key : v \in opening}
       IN /\ Goto(w, [step |-> "open", key |-> k, mode |-> mode, locks |-> row[k] # None])
          /\ lapses' = lapses \cup
                Lapse(/\ mode = "plan" /\ promised # {}
                      /\ Cardinality(promised \cup InPlan({"active"})) >= MaxConnectors, "promised twice", k)
    /\ UNCHANGED <<row, addon, outside, delivery, runs, wanted, posts>>

\* A link or a code for the user, or an error and nothing saved.
Open(w) ==
    /\ At(w, "open")
    /\ LET k == work[w].key  link == IF row[k] = None THEN NoLink ELSE row[k].link
       IN \/ /\ work[w].locks \/ ~Held(k)
             /\ sessions' = sessions \cup {[key |-> k, number |-> opened]}
             /\ row' = [row EXCEPT ![k] =
                          [status |-> "pending", mode |-> work[w].mode, link |-> link, token |-> opened]]
             /\ wanted' = wanted \cup {k}
          \/ k \in Granted /\ UNCHANGED <<sessions, row, wanted>>
    /\ Goto(w, None) /\ UNCHANGED <<addon, accounts, hooks, delivery, opened, runs, posts, lapses>>

\* The user agrees at Nango: the connection exists there, and a webhook is on its way.
Agree(s) ==
    /\ s \in sessions /\ s.key \in Granted
    /\ sessions' = sessions \ {s} /\ accounts' = accounts \cup {s} /\ hooks' = hooks \cup {s}
    /\ UNCHANGED <<row, addon, delivery, work, opened, runs, wanted, posts, lapses>>

Linked(k, link) == [row EXCEPT ![k].status = "active", ![k].link = link, ![k].token = NoLink]

\* apply_webhook: whatever the row's state, disconnected since or not.
Webhook(s) ==
    /\ s \in hooks /\ row[s.key] # None /\ ~Held(s.key)
    /\ row' = Linked(s.key, s.number)
    /\ lapses' = lapses \cup Lapse(Is(s.key, "revoked"), "resurrected", s.key)
    /\ UNCHANGED <<addon, outside, delivery, work, opened, runs, wanted, posts>>

\* check_and_restore asks Nango for a row that is waiting: the newest connection there.
Waits_or_revoked(k) == Is(k, "pending") \/ Is(k, "revoked")
Waits(k) == Is(k, "pending")
Restore(k) ==
    /\ k \in Granted /\ Waits(k) /\ ~Held(k)
    /\ \E s \in accounts :
          /\ s.key = k /\ \A t \in accounts : t.key = k => t.number <= s.number
          /\ row' = Linked(k, s.number)
    /\ UNCHANGED <<addon, outside, delivery, work, opened, runs, wanted, posts, lapses>>

\* handle_start: the code of the row that waits, in time.
Start(s) ==
    /\ s \in sessions /\ s.key \in Coded /\ ~Held(s.key)
    /\ IF Is(s.key, "pending") /\ row[s.key].token = s.number
       THEN row' = Linked(s.key, s.number) ELSE row' = row
    /\ sessions' = sessions \ {s}
    /\ UNCHANGED <<addon, accounts, hooks, delivery, work, opened, runs, wanted, posts, lapses>>

\* disconnect reads the row without a lock, deletes the connection at Nango, which may
\* fail without notice, and saves.
Disconnect(w, k) ==
    /\ work[w] = None /\ runs < MaxRuns /\ runs' = runs + 1 /\ row[k] # None
    /\ accounts' \in {accounts, {s \in accounts : s.key # k \/ s.number # row[k].link}}
    /\ Goto(w, [step |-> "revoke", key |-> k])
    /\ UNCHANGED <<row, addon, sessions, hooks, delivery, opened, wanted, posts, lapses>>

Revoke(w) ==
    /\ At(w, "revoke") /\ ~Held(work[w].key)
    /\ row' = [row EXCEPT ![work[w].key].status = "revoked", ![work[w].key].token = NoLink]
    /\ wanted' = wanted \ {work[w].key}
    /\ Goto(w, None) /\ UNCHANGED <<addon, outside, delivery, opened, runs, posts, lapses>>

\* An add-on is paid for, or runs out.
Addon(k) ==
    /\ addon' = IF k \in addon THEN addon \ {k} ELSE addon \cup {k}
    /\ UNCHANGED <<row, outside, delivery, work, opened, runs, wanted, posts, lapses>>

-----------------------------------------------------------------------------
(* deliver_pending_connector_events: to each active connection every event   *)
(* it has not been told of.  The backoff between two attempts can be over at *)
(* any time.                                                                 *)

\* The connections are listed first, their status and their link with them.
List(w, k) ==
    /\ work[w] = None /\ runs < MaxRuns /\ runs' = runs + 1 /\ Is(k, "active")
    /\ Goto(w, [step |-> "pick", key |-> k, link |-> row[k].link])
    /\ UNCHANGED <<row, addon, outside, delivery, opened, wanted, posts, lapses>>

Due(k, e) == delivery[k, e].status \notin {"delivered", "failed"}
Pick(w, e) ==
    /\ At(w, "pick") /\ Due(work[w].key, e)
    /\ LET k == work[w].key
           new == IF delivery[k, e] = Unsent THEN [Unsent EXCEPT !.status = "pending"] ELSE delivery[k, e]
       IN /\ delivery' = [delivery EXCEPT ![k, e] = new]
          /\ Goto(w, [step |-> "post", key |-> k, event |-> e, copy |-> new, link |-> work[w].link])
    /\ UNCHANGED <<row, addon, outside, opened, runs, wanted, posts, lapses>>

ListedAll(w) ==
    /\ At(w, "pick") /\ \A e \in Events : ~Due(work[w].key, e)
    /\ Goto(w, None) /\ UNCHANGED <<row, addon, outside, delivery, opened, runs, wanted, posts, lapses>>

\* Through Nango with the connection that was read, or to the chat; the answer may be lost.
Reachable(k, link) == k \in Coded \/ [key |-> k, number |-> link] \in accounts
Post(w) ==
    /\ At(w, "post")
    /\ LET k == work[w].key  e == work[w].event
       IN \E answer \in {"taken", "lost", "refused"} :
            /\ answer # "refused" => Reachable(k, work[w].link)
            /\ posts' = [posts EXCEPT ![k, e] = IF answer = "refused" THEN @ ELSE @ + 1]
            /\ lapses' = lapses \cup Lapse(answer = "lost", "answer lost", k)
            /\ Goto(w, [step |-> "record", key |-> k, event |-> e, copy |-> work[w].copy,
                        taken |-> answer = "taken"])
    /\ UNCHANGED <<row, addon, outside, delivery, opened, runs, wanted>>

Outcome_pending(copy, taken) == [status |-> "pending", attempts |-> copy.attempts + 1]
Outcome(copy, taken) ==
    [attempts |-> copy.attempts + 1,
     status |-> IF taken THEN "delivered" ELSE IF copy.attempts + 1 >= MaxAttempts THEN "failed" ELSE "pending"]
Record(w) ==
    /\ At(w, "record")
    /\ LET k == work[w].key  e == work[w].event
       IN /\ delivery' = [delivery EXCEPT ![k, e] = Outcome(work[w].copy, work[w].taken)]
          /\ lapses' = lapses \cup Lapse(delivery[k, e] # work[w].copy, "overlapped", k)
    /\ Goto(w, None) /\ UNCHANGED <<row, addon, outside, opened, runs, wanted, posts>>

-----------------------------------------------------------------------------
Next ==
    \/ \E w \in Workers :
          \/ \E k \in Keys : Connect(w, k) \/ Disconnect(w, k) \/ List(w, k)
          \/ \E e \in Events : Pick(w, e)
          \/ ListedAll(w) \/ Open(w) \/ Revoke(w) \/ Post(w) \/ Record(w)
    \/ \E s \in sessions \cup hooks : Agree(s) \/ Webhook(s) \/ Start(s)
    \/ \E k \in Keys : Restore(k) \/ Addon(k)

Spec == Init /\ [][Next]_vars

-----------------------------------------------------------------------------
TypeOK ==
    /\ row \in [Keys -> {None} \cup
          [status : {"pending", "active", "revoked"}, mode : {"plan", "addon"},
           link : 0 .. MaxSessions, token : 0 .. MaxSessions]]
    /\ addon \subseteq Keys /\ wanted \subseteq Keys
    /\ sessions \cup accounts \cup hooks \subseteq [key : Keys, number : 1 .. MaxSessions]
    /\ \A k \in Keys, e \in Events :
          /\ delivery[k, e].status \in {"none", "pending", "delivered", "failed"}
          /\ delivery[k, e].attempts \in Nat /\ posts[k, e] \in Nat

Clear(k, names) == \A name \in names : <<name, k>> \notin lapses

\* The plan includes no more connectors than it says: unless one slot was promised to two
\* sessions that were open together, or a webhook brought back what had been disconnected.
QuotaHolds ==
    (\A k \in Keys : Clear(k, {"promised twice", "resurrected"})) =>
        Cardinality(InPlan({"active"})) <= MaxConnectors

\* What was disconnected stays so until it is connected again: a late webhook apart.
DisconnectedStays ==
    \A k \in Keys : Is(k, "active") /\ Clear(k, {"resurrected"}) => k \in wanted

\* An account is told of an event once, and it is told what is recorded as delivered: unless
\* the answer was lost or two runs overlapped.
ToldOnce ==
    \A k \in Keys, e \in Events :
        /\ delivery[k, e].status = "delivered" => posts[k, e] > 0
        /\ Clear(k, {"answer lost", "overlapped"}) /\ (\A w \in Workers : ~At(w, "record")) =>
              posts[k, e] = (IF delivery[k, e].status = "delivered" THEN 1 ELSE 0)
=============================================================================
