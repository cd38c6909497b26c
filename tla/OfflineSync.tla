----------------------------- MODULE OfflineSync -----------------------------
(***************************************************************************)
(* The offline write queue of the client (src/frontend/src/lib/            *)
(* syncEngine.ts, lib/syncFlush.ts, hooks/useNetworkStatus.ts and the      *)
(* offline half of services/api.ts), one window of the application, and    *)
(* the server it replays to.                                               *)
(*                                                                         *)
(* A mutation made while the client believes it is offline, or whose       *)
(* request fails on the wire, is answered locally and queued in IndexedDB. *)
(* A flush replays the queue of the active organisation, one item at a     *)
(* time.  Every await of a flush is a point where the user, the network or *)
(* a crash can intervene.  The queue survives a crash; the flush does not. *)
(***************************************************************************)
EXTENDS Integers, SequencesExt

CONSTANTS
    Ops,         \* the mutations a user will make
    Refs,        \* Refs[op]: the earlier create whose temporary id op mentions, or NoOp
    NoOp,
    Orgs,        \* organisations the user belongs to
    MaxRetries,  \* MAX_RETRIES, server errors before an item is a conflict
    Plans        \* what may go wrong in a behaviour: the kinds of fault, how many at most
                 \* (a bound), and the mutations the user makes

FaultKinds == {"cut", "off", "lost", "refused", "error", "crash", "remount", "retry", "dismiss",
               "switch"}

ASSUME RefsAssumption == NoOp \notin Ops /\ Refs \in [Ops -> Ops \cup {NoOp}]
ASSUME BoundsAssumption ==
    /\ MaxRetries \in Nat \ {0}
    /\ \A p \in Plans : p.kinds \subseteq FaultKinds /\ p.most \in Nat /\ p.ops \subseteq Ops

Statuses == {"none", "pending", "syncing", "conflict", "gone"}
Item == [status : Statuses, retries : 0..MaxRetries, resolved : BOOLEAN, org : Orgs]

VARIABLES
    net,        \* "up", "cut" (requests fail, navigator.onLine true) or "off" (false)
    offline,    \* _effectivelyOffline of api.ts
    failures,   \* _recentFailures
    acted,      \* actedOnlineRef of useNetworkStatus: the state last acted on
    settling,   \* the reconnect timer is running
    session,    \* "online" (has tokens) or "grace" (offline unlock)
    org,        \* active organisation
    trigger,    \* a flushQueuedMutations() call has been made and not yet run
    queue,      \* the IndexedDB store, by mutation
    stamps,     \* queued mutations in the order of their timestamps
    flush,      \* the running flush: step, snapshot, current item as read, its org
    stuck,      \* the items recoverStuck has read as syncing and not yet written
    \* the server
    request,    \* the flush's request: "none", "sent", or the server's answer
    log,        \* every mutation applied, with the organisation it went into
    \* history
    doubtful,   \* mutations in flight when an answer was lost or the layout was mounted
    dismissed,  \* mutations the user has dismissed
    replayed,   \* mutations a flush has sent at least once
    plan,       \* the plan of this behaviour (fixed)
    faults      \* number of faults so far

client == <<offline, failures, acted, settling, session, org, trigger>>
store == <<queue, stamps>>
history == <<doubtful, dismissed, replayed, plan>>
vars == <<net, client, store, flush, stuck, request, log, history, faults>>

NoFlush == [step |-> "idle", todo |-> <<>>, item |-> <<>>, org |-> CHOOSE o \in Orgs : TRUE]
Fresh == [status |-> "none", retries |-> 0, resolved |-> FALSE, org |-> CHOOSE o \in Orgs : TRUE]

Init ==
    /\ net = "up" /\ offline = FALSE /\ failures = 0 /\ acted = TRUE /\ settling = FALSE
    /\ session = "online" /\ org \in Orgs /\ trigger = FALSE
    /\ queue = [op \in Ops |-> Fresh] /\ stamps = <<>>
    /\ flush = NoFlush /\ stuck = <<>> /\ request = "none" /\ log = <<>>
    /\ doubtful = {} /\ dismissed = {} /\ replayed = {}
    /\ plan \in Plans /\ faults = 0

Fault(kind) == kind \in plan.kinds /\ faults < plan.most /\ faults' = faults + 1

Applied(op) == {k \in DOMAIN log : log[k].op = op}
Queued == {op \in Ops : queue[op].status \in {"pending", "syncing", "conflict"}}
Pending == {op \in Ops : queue[op].status = "pending"}

-----------------------------------------------------------------------------
(* Connectivity, as the client perceives it.                               *)

\* The request interceptor: answer from the cache and the queue, send nothing.
TreatAsOffline == net = "off" \/ offline \/ session = "grace"

\* handleOffline / handleOnline: redundant events are ignored, and going online
\* starts the settle timer.
HandleOffline == acted' = FALSE /\ settling' = (settling /\ ~acted)
HandleOnline == acted' = TRUE /\ settling' = (settling \/ ~acted)

\* _signalOffline: a second failure within the window, or navigator.onLine false.
\* Whether an earlier failure still counts is a matter of time: both can happen.
SignalOffline ==
    IF offline THEN UNCHANGED <<offline, failures, acted, settling>>
    ELSE \E n \in {1, failures + 1} :
            IF net # "off" /\ n < 2
            THEN failures' = n /\ UNCHANGED <<offline, acted, settling>>
            ELSE /\ offline' = TRUE /\ failures' = 0
                 /\ IF net # "off" THEN HandleOffline ELSE UNCHANGED <<acted, settling>>

\* _signalOnline: a live answer; the synthetic event only ends an offline mode.
SignalOnline ==
    /\ failures' = 0 /\ offline' = FALSE
    /\ IF offline THEN HandleOnline ELSE UNCHANGED <<acted, settling>>

\* Any GET that is not served from the cache: a failure counts, an answer resets.
Read ==
    /\ ~TreatAsOffline
    /\ \/ net = "up" /\ SignalOnline
       \/ net = "cut" /\ SignalOffline
    /\ UNCHANGED <<net, session, org, trigger, store, flush, stuck, request, log, history, faults>>

\* The link fails or comes back; the browser reports only what it knows of.
NetDown(state) ==
    /\ net = "up" /\ Fault(state) /\ net' = state
    /\ IF state = "off" THEN HandleOffline ELSE UNCHANGED <<acted, settling>>
    /\ UNCHANGED <<offline, failures, session, org, trigger, store, flush, stuck, request, log,
                   history>>
NetUp ==
    /\ net # "up" /\ net' = "up"
    /\ IF net = "off" THEN HandleOnline ELSE UNCHANGED <<acted, settling>>
    /\ UNCHANGED <<offline, failures, session, org, trigger, store, flush, stuck, request, log,
                   history, faults>>

\* The background probe, every 15 s while offline mode lasts.
Probe ==
    /\ offline /\ net = "up" /\ SignalOnline
    /\ UNCHANGED <<net, session, org, trigger, store, flush, stuck, request, log, history, faults>>

\* The connection has held: doReconnect.  A grace session tries a silent resume,
\* which may fail; otherwise the queue is flushed.
Reconnect_without_flush ==
    /\ settling /\ settling' = FALSE
    /\ UNCHANGED <<net, offline, failures, acted, session, org, trigger, store, flush, stuck,
                   request, log, history, faults>>
Reconnect ==
    /\ settling /\ settling' = FALSE
    /\ \/ ~acted /\ UNCHANGED <<session, trigger>>
       \/ acted /\ session = "grace" /\ UNCHANGED <<session, trigger>>
       \/ acted /\ session = "grace" /\ net = "up" /\ session' = "online" /\ trigger' = TRUE
       \/ acted /\ session = "online" /\ trigger' = TRUE /\ UNCHANGED session
    /\ UNCHANGED <<net, offline, failures, acted, org, store, flush, stuck, request, log, history,
                   faults>>

-----------------------------------------------------------------------------
(* Mutations.                                                              *)

\* The mutation's data mentions the real id once the local store has it.
Created(op) == {Refs[op]} \ {NoOp}
KnowsRealId(op) == \A c \in Created(op) : queue[c].status = "gone"

Enqueue(op) ==
    /\ queue' = [queue EXCEPT ![op] = [status |-> "pending", retries |-> 0,
                                       resolved |-> KnowsRealId(op), org |-> org]]
    /\ stamps' = Append(stamps, op)

\* The user can mention a record only after creating it, in the same organisation.
MayMutate(op) ==
    /\ op \in plan.ops /\ queue[op].status = "none"
    /\ \A c \in Created(op) :
          queue[c].status # "none" /\ c \notin dismissed /\ queue[c].org = org

\* Answered locally and queued, without touching the network.
MutateOffline(op) ==
    /\ TreatAsOffline /\ MayMutate(op) /\ Enqueue(op)
    /\ UNCHANGED <<net, client, flush, stuck, request, log, history, faults>>

\* Sent to the server at once, which applies it.
MutateOnline(op) ==
    /\ ~TreatAsOffline /\ net = "up" /\ MayMutate(op) /\ KnowsRealId(op)
    /\ log' = Append(log, [op |-> op, org |-> org])
    /\ queue' = [queue EXCEPT ![op] = [Fresh EXCEPT !.status = "gone", !.org = org]]
    /\ SignalOnline
    /\ UNCHANGED <<net, session, org, trigger, stamps, flush, stuck, request, history, faults>>

\* Sent, and failed on the wire: with no link, or (a fault) with the answer lost
\* before or after the server applied it.  Either way it is queued.
MutateFails(op) ==
    /\ ~TreatAsOffline /\ MayMutate(op)
    /\ \/ net = "cut" /\ UNCHANGED <<log, faults, doubtful>>
       \/ /\ Fault("lost") /\ doubtful' = doubtful \cup {op}
          /\ \/ UNCHANGED log
             \/ KnowsRealId(op) /\ log' = Append(log, [op |-> op, org |-> org])
    /\ Enqueue(op) /\ SignalOffline
    /\ UNCHANGED <<net, session, org, trigger, flush, stuck, request, dismissed, replayed, plan>>

-----------------------------------------------------------------------------
(* The flush.                                                              *)

Put(op, item) == queue' = [queue EXCEPT ![op] = item]
Current == Head(flush.todo)
Advance == flush' = [flush EXCEPT !.step = "pick", !.todo = Tail(@), !.item = <<>>]

\* The members of P, in the order of s.
InOrder(s, P) ==
    LET kept[k \in 0..Len(s)] ==
            IF k = 0 THEN <<>> ELSE IF s[k] \in P THEN Append(kept[k - 1], s[k]) ELSE kept[k - 1]
    IN kept[Len(s)]

\* The pending items of the active organisation, by timestamp.
ToFlush == {op \in Pending : queue[op].org = org}
Snapshot_newest_first == Reverse(InOrder(stamps, ToFlush))
Snapshot == InOrder(stamps, ToFlush)

\* flushQueuedMutations: nothing to do without tokens, without a network, with an
\* empty queue or while a flush runs.
FlushStart ==
    /\ trigger /\ trigger' = FALSE
    /\ IF session = "online" /\ net # "off" /\ Pending # {} /\ flush.step = "idle"
       THEN flush' = [step |-> "pick", todo |-> Snapshot, item |-> <<>>, org |-> org]
       ELSE UNCHANGED flush
    /\ UNCHANGED <<net, offline, failures, acted, settling, session, org, store, stuck, request,
                   log, history, faults>>

\* Re-read the item; skip it if it is no longer pending.
Pick ==
    /\ flush.step = "pick" /\ flush.todo # <<>>
    /\ IF queue[Current].status = "pending"
       THEN flush' = [flush EXCEPT !.step = "mark", !.item = queue[Current]]
       ELSE Advance
    /\ UNCHANGED <<net, client, store, stuck, request, log, history, faults>>

\* Save it as syncing and send it; the interceptor adds the active organisation.
Send ==
    /\ flush.step = "mark"
    /\ Put(Current, [flush.item EXCEPT !.status = "syncing"])
    /\ flush' = [flush EXCEPT !.step = "wait", !.org = org]
    /\ request' = "sent" /\ replayed' = replayed \cup {Current}
    /\ UNCHANGED <<net, client, stamps, stuck, log, doubtful, dismissed, plan, faults>>

\* The server handles the request.  A temporary id is not found (404); apart from
\* that it may refuse (4xx) or fail (5xx).
Serve ==
    /\ request = "sent" /\ net = "up"
    /\ \/ /\ flush.item.resolved /\ request' = "ok" /\ UNCHANGED faults
          /\ log' = Append(log, [op |-> Current, org |-> flush.org])
       \/ ~flush.item.resolved /\ request' = "4xx" /\ UNCHANGED <<log, faults>>
       \/ Fault("refused") /\ request' = "4xx" /\ UNCHANGED log
       \/ Fault("error") /\ request' = "5xx" /\ UNCHANGED log
    /\ UNCHANGED <<net, client, store, flush, stuck, history>>

\* Success: every queue item but those in conflict that mentions the temporary id
\* gets the real one, and the item is deleted.
RewriteTempId(op, q) ==
    [o \in Ops |-> IF Refs[o] = op /\ q[o].status \in {"pending", "syncing"}
                   THEN [q[o] EXCEPT !.resolved = TRUE] ELSE q[o]]
Succeed_keeping_the_item ==
    /\ request = "ok" /\ request' = "none"
    /\ queue' = [RewriteTempId(Current, queue) EXCEPT ![Current].status = "pending"]
    /\ Advance /\ SignalOnline
    /\ UNCHANGED <<net, session, org, trigger, stamps, stuck, log, history, faults>>
Succeed ==
    /\ request = "ok" /\ request' = "none"
    /\ queue' = [RewriteTempId(Current, queue) EXCEPT ![Current].status = "gone"]
    /\ Advance /\ SignalOnline
    /\ UNCHANGED <<net, session, org, trigger, stamps, stuck, log, history, faults>>

\* A 4xx is a conflict at once, a 5xx after MaxRetries; the flush goes on.
Rejected_discarding(item) ==
    [item EXCEPT !.status = IF request = "4xx" THEN "gone" ELSE "pending"]
Rejected_without_limit(item) ==
    [item EXCEPT !.retries = @ + 1, !.status = IF request = "4xx" THEN "conflict" ELSE "pending"]
Rejected(item) ==
    LET giveUp == request = "4xx" \/ item.retries + 1 >= MaxRetries
    IN [item EXCEPT !.retries = @ + 1, !.status = IF giveUp THEN "conflict" ELSE "pending"]
Reject ==
    /\ request \in {"4xx", "5xx"} /\ request' = "none"
    /\ Put(Current, Rejected(flush.item)) /\ Advance
    /\ UNCHANGED <<net, client, stamps, stuck, log, history, faults>>

\* No answer: the item goes back as it was read, and the flush stops.
NetworkFailure_still_flushing ==
    /\ request # "none"
    /\ \/ net # "up" /\ UNCHANGED faults
       \/ Fault("lost")
    /\ doubtful' = IF request = "ok" THEN doubtful \cup {Current} ELSE doubtful
    /\ request' = "none" /\ Put(Current, flush.item) /\ SignalOffline /\ UNCHANGED flush
    /\ UNCHANGED <<net, session, org, trigger, stamps, stuck, log, dismissed, replayed, plan>>
NetworkFailure ==
    /\ request # "none"
    /\ \/ net # "up" /\ UNCHANGED faults
       \/ Fault("lost")
    /\ doubtful' = IF request = "ok" THEN doubtful \cup {Current} ELSE doubtful
    /\ request' = "none" /\ Put(Current, flush.item) /\ flush' = NoFlush /\ SignalOffline
    /\ UNCHANGED <<net, session, org, trigger, stamps, stuck, log, dismissed, replayed, plan>>

FlushEnd ==
    /\ flush.step = "pick" /\ flush.todo = <<>> /\ flush' = NoFlush
    /\ UNCHANGED <<net, client, store, stuck, request, log, history, faults>>

-----------------------------------------------------------------------------
(* The user, restarts, and organisations.                                  *)

Retry(op) ==
    /\ queue[op].status = "conflict" /\ Fault("retry")
    /\ Put(op, [queue[op] EXCEPT !.status = "pending", !.retries = 0])
    /\ UNCHANGED <<net, client, stamps, flush, stuck, request, log, history>>

\* The badge offers Dismiss on every item.
Dismiss(op) ==
    /\ op \in Queued /\ Fault("dismiss")
    /\ Put(op, [queue[op] EXCEPT !.status = "gone"]) /\ dismissed' = dismissed \cup {op}
    /\ UNCHANGED <<net, client, stamps, flush, stuck, request, log, doubtful, replayed, plan>>

\* AppLayout mounts: recoverStuck reads the store, a flush is requested, and the
\* connectivity hook starts from what the browser says.
Mount ==
    /\ stuck' = [op \in {o \in Ops : queue[o].status = "syncing"} |-> queue[op]]
    /\ trigger' = TRUE /\ settling' = FALSE /\ acted' = (net # "off")
    /\ doubtful' = IF flush.step = "wait" THEN doubtful \cup {Current} ELSE doubtful

\* recoverStuck writes back, as pending, what it read as syncing.
RecoverStuck(op) ==
    /\ op \in DOMAIN stuck
    /\ Put(op, [stuck[op] EXCEPT !.status = "pending"])
    /\ stuck' = [o \in DOMAIN stuck \ {op} |-> stuck[o]]
    /\ UNCHANGED <<net, client, stamps, flush, request, log, history, faults>>

\* The application dies and starts again: the queue is all that is left.  Without a
\* network it starts with the tokens a browser persists, or with an offline unlock.
Crash ==
    /\ Fault("crash") /\ Mount
    /\ session' \in IF net = "up" THEN {"online"} ELSE {"online", "grace"}
    /\ offline' = FALSE /\ failures' = 0 /\ flush' = NoFlush /\ request' = "none"
    /\ UNCHANGED <<net, org, store, log, dismissed, replayed, plan>>

\* Signing in again mounts the layout anew in the same page: a running flush is
\* not interrupted.
Login ==
    /\ net = "up"
    /\ \/ session = "grace" /\ UNCHANGED faults
       \/ session = "online" /\ Fault("remount")
    /\ session' = "online" /\ Mount
    /\ UNCHANGED <<net, offline, failures, org, store, flush, request, log, dismissed, replayed, plan>>

SwitchOrg(o) ==
    /\ o # org /\ Fault("switch") /\ org' = o /\ trigger' = TRUE
    /\ UNCHANGED <<net, offline, failures, acted, settling, session, store, flush, stuck, request,
                   log, history>>

-----------------------------------------------------------------------------

FlushStep == Pick \/ Send \/ Serve \/ Succeed \/ Reject \/ NetworkFailure \/ FlushEnd
Mutate(op) == MutateOffline(op) \/ MutateOnline(op) \/ MutateFails(op)

Next ==
    \/ NetDown("cut") \/ NetDown("off") \/ NetUp \/ Read \/ Probe \/ Reconnect
    \/ FlushStart \/ FlushStep \/ Crash \/ Login
    \/ \E op \in Ops : Mutate(op) \/ Retry(op) \/ Dismiss(op) \/ RecoverStuck(op)
    \/ \E o \in Orgs : SwitchOrg(o)

Spec == Init /\ [][Next]_vars

\* What is bound to happen: the link comes back, the timers fire, the pending
\* promises settle, a user in a grace session signs in again.  Nothing makes the
\* user act on a conflict, restart or switch.
FairSpec ==
    /\ Spec /\ WF_vars(NetUp) /\ WF_vars(Probe) /\ WF_vars(Reconnect)
    /\ WF_vars(FlushStart) /\ WF_vars(FlushStep) /\ WF_vars(session = "grace" /\ Login)
    /\ \A op \in Ops : WF_vars(RecoverStuck(op))

-----------------------------------------------------------------------------
(* Properties.                                                             *)

TypeOK ==
    /\ net \in {"up", "cut", "off"} /\ session \in {"online", "grace"} /\ org \in Orgs
    /\ {offline, acted, settling, trigger} \subseteq BOOLEAN /\ failures \in 0..1
    /\ queue \in [Ops -> Item] /\ stamps \in Seq(Ops) /\ \A op \in DOMAIN stuck : stuck[op] \in Item
    /\ \A op \in Ops : queue[op].status \in {"pending", "syncing"} => queue[op].retries < MaxRetries
    /\ flush.step \in {"idle", "pick", "mark", "wait"} /\ flush.todo \in Seq(Ops)
    /\ flush.step \in {"mark", "wait"} => flush.item \in Item /\ flush.todo # <<>>
    /\ request \in {"none", "sent", "ok", "4xx", "5xx"}
    /\ request # "none" <=> flush.step = "wait"
    /\ \A k \in DOMAIN log : log[k].op \in Ops /\ log[k].org \in Orgs

\* "no queued operation ever lost" (OFFLINE_FIELD_TEST.md): a mutation leaves the
\* queue only when the server has applied it or the user has dismissed it, whatever
\* crashes, outages, refusals and organisation switches happen on the way.
NothingLost ==
    \A op \in Ops : queue[op].status = "gone" => Applied(op) # {} \/ op \in dismissed

\* The queue itself never repeats a mutation: one applied twice was in flight when
\* its answer was lost, the application crashed, or the layout was mounted again.
OnceUnlessDoubtful == \A op \in Ops : Cardinality(Applied(op)) > 1 => op \in doubtful

\* Replay is chronological: a flush sends a mutation only after every earlier one of
\* the same organisation has been sent at least once or dismissed.
AttemptedInOrder ==
    \A j \in DOMAIN stamps : stamps[j] \in replayed =>
        \A i \in 1..(j - 1) :
            \/ stamps[i] \in replayed \cup dismissed
            \/ queue[stamps[i]].org # queue[stamps[j]].org

\* A flush never hangs: _isFlushing is always reset.
FlushEnds == flush.step # "idle" ~> flush.step = "idle"

\* "Saved offline - will sync when back online" (api.ts): what is queued is sent, with no
\* help from the user, when nothing has happened but one outage that the browser reports.
OneOutage == plan.kinds = {"off"} /\ plan.most = 1
QueuedIsSent ==
    \A op \in Ops : (OneOutage /\ queue[op].status \in {"pending", "syncing"})
                        ~> (queue[op].status \in {"conflict", "gone"})

\* "Exactly the invoices you created - no duplicates" (OFFLINE_FIELD_TEST.md).
ExactlyOnce == \A op \in Ops : Cardinality(Applied(op)) <= 1

\* "an item queued under org A must never be flushed while org B is active - it
\* would be written into B's tenant" (syncEngine.ts).
OrgScoped == \A op \in Ops : \A k \in Applied(op) : log[k].org = queue[op].org
=============================================================================
