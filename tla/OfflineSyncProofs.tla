--------------------------- MODULE OfflineSyncProofs ---------------------------
(***************************************************************************)
(* Proofs about the offline queue, whatever the network, the user, the     *)
(* server and a restart do, and however often: no mutation leaves the      *)
(* queue before the server has applied it or the user has dismissed it;    *)
(* one applied twice was in doubt; and replay is chronological.            *)
(***************************************************************************)
EXTENDS OfflineSync, SumTheorems

Entry == [status : Statuses, retries : Int, resolved : BOOLEAN, org : Orgs]

LogOK == \E S : log \in Seq(S)
QueueOK == queue \in [Ops -> Entry] /\ org \in Orgs /\ \A op \in DOMAIN stuck : stuck[op] \in Entry

\* The flush has in hand what was pending when it read it, and an answer "ok" means that
\* the server has applied it.
FlushOK ==
    /\ flush = [step |-> flush.step, todo |-> flush.todo, item |-> flush.item, org |-> flush.org]
    /\ flush.step \in {"mark", "wait"} /\ Current \in Ops => flush.item \in Entry /\ flush.item.status = "pending"
    /\ request # "none" => flush.step = "wait"
    /\ request = "ok" => Applied(Current) # {}

Becoming(status) == [status : {status}, retries : Int, resolved : BOOLEAN, org : Orgs]

IInv == LogOK /\ QueueOK /\ FlushOK /\ NothingLost

-----------------------------------------------------------------------------
\* What the server has applied stays applied, and what it logs it has applied.
LEMMA LogGrows ==
    ASSUME LogOK, NEW c, NEW o, log' = Append(log, [op |-> c, org |-> o])
    PROVE  /\ LogOK' /\ \E k \in DOMAIN log' : log'[k].op = c
           /\ \A op : Applied(op) # {} => Applied(op)' # {}
<1> DEFINE e == [op |-> c, org |-> o]
<1>1. PICK S : log \in Seq(S)
  BY DEF LogOK
<1>2. log \in Seq(S \cup {e})
  BY <1>1
<1>3. log' \in Seq(S \cup {e}) /\ DOMAIN log = 1..Len(log) /\ Len(log) \in Nat
  BY <1>2
<1>4. /\ DOMAIN log' = 1..(Len(log) + 1) /\ log'[Len(log) + 1] = e
      /\ \A k \in 1..Len(log) : log'[k] = log[k]
  BY <1>2
<1>5. \E k \in DOMAIN log' : log'[k].op = c
  <2>1. Len(log) + 1 \in DOMAIN log' /\ log'[Len(log) + 1].op = c
    BY <1>3, <1>4
  <2> QED BY <2>1
<1>6. ASSUME NEW op, Applied(op) # {} PROVE Applied(op)' # {}
  <2>1. PICK k \in DOMAIN log : log[k].op = op
    BY <1>6 DEF Applied
  <2>2. k \in DOMAIN log' /\ log'[k] = log[k]
    BY <1>3, <1>4, <2>1
  <2> QED BY <2>1, <2>2 DEF Applied
<1>7. LogOK'
  BY <1>3 DEF LogOK
<1> QED BY <1>5, <1>6, <1>7

\* An item that is written and has not gone loses nothing.
LEMMA PutOK ==
    ASSUME QueueOK, NothingLost, NEW c, NEW e, c \in Ops => e \in Entry /\ e.status # "gone",
           queue' = [queue EXCEPT ![c] = e], \A op \in Ops : Applied(op) # {} => Applied(op)' # {},
           dismissed \subseteq dismissed'
    PROVE  queue' \in [Ops -> Entry] /\ NothingLost'
<1>1. queue \in [Ops -> Entry]
  BY DEF QueueOK
<1>2. CASE c \in Ops
  <2>1. queue' \in [Ops -> Entry] /\ queue'[c] = e /\ \A op \in Ops : op # c => queue'[op] = queue[op]
    BY <1>1, <1>2
  <2> QED BY <1>2, <2>1 DEF NothingLost
<1>3. CASE c \notin Ops
  <2>1. queue' = queue
    BY <1>1, <1>3
  <2> QED BY <1>1, <2>1 DEF NothingLost
<1> QED BY <1>2, <1>3

\* An item whose status and retries are written anew.
LEMMA Rewritten ==
    ASSUME NEW i \in Entry, NEW status, NEW n \in Int
    PROVE  /\ [i EXCEPT !.status = status, !.retries = n] \in Becoming(status)
           /\ [i EXCEPT !.retries = n, !.status = status] \in Becoming(status)
BY DEF Entry, Becoming

\* A step that leaves the queue and the server alone.
LEMMA QuietOK ==
    ASSUME IInv, UNCHANGED <<queue, log, dismissed, stuck>>, org' \in Orgs, FlushOK' PROVE IInv'
BY DEF IInv, LogOK, QueueOK, NothingLost, Applied

LEMMA SameFlush ==
    ASSUME FlushOK, UNCHANGED <<flush, request>>, \A op : Applied(op) # {} => Applied(op)' # {} PROVE FlushOK'
BY DEF FlushOK, Current

LEMMA SameLog ==
    ASSUME UNCHANGED log PROVE (LogOK => LogOK') /\ \A op : Applied(op) # {} => Applied(op)' # {}
BY DEF LogOK, Applied

\* A mutation that is answered locally, sent at once, or queued because it failed.
LEMMA MutateOK == ASSUME IInv, NEW op \in Ops, Mutate(op) PROVE IInv'
<1> DEFINE queued == [status |-> "pending", retries |-> 0, resolved |-> KnowsRealId(op), org |-> org]
           gone == [Fresh EXCEPT !.status = "gone", !.org = org]
<1>1. queued \in Entry /\ queued.status # "gone" /\ gone \in Entry
  <2>1. KnowsRealId(op) \in BOOLEAN /\ org \in Orgs
    BY DEF KnowsRealId, IInv, QueueOK
  <2>2. gone \in Becoming("gone")
    <3>1. Fresh \in [status : {"none"}, retries : Int, resolved : BOOLEAN, org : {Fresh.org}]
      BY DEF Fresh
    <3> HIDE DEF Fresh
    <3> QED BY <2>1, <3>1 DEF Becoming
  <2>3. queued \in Entry
    BY <2>1 DEF Entry, Statuses
  <2> HIDE DEF queued, gone
  <2> QED BY <2>2, <2>3 DEF Entry, Becoming, Statuses, queued
<1>2. CASE MutateOffline(op)
  <2>1. queue' = [queue EXCEPT ![op] = queued] /\ UNCHANGED <<log, dismissed, stuck, org, flush, request>>
    BY <1>2 DEF MutateOffline, Enqueue, client, history
  <2>2. LogOK' /\ \A x : Applied(x) # {} => Applied(x)' # {}
    BY <2>1, SameLog DEF IInv
  <2> HIDE DEF queued
  <2>3. queue' \in [Ops -> Entry] /\ NothingLost'
    BY <1>1, <2>1, <2>2, PutOK DEF IInv
  <2> QED BY <2>1, <2>2, <2>3, SameFlush DEF IInv, QueueOK
<1>3. CASE MutateOnline(op)
  <2>1. /\ log' = Append(log, [op |-> op, org |-> org]) /\ queue' = [queue EXCEPT ![op] = gone]
        /\ UNCHANGED <<dismissed, stuck, org, flush, request>>
    BY <1>3 DEF MutateOnline, history
  <2>2. LogOK' /\ Applied(op)' # {} /\ \A x : Applied(x) # {} => Applied(x)' # {}
    <3>1. \E k \in DOMAIN log' : log'[k].op = op
      BY <2>1, LogGrows DEF IInv
    <3> QED BY <2>1, <3>1, LogGrows DEF IInv, Applied
  <2> HIDE DEF gone
  <2>3. queue' \in [Ops -> Entry] /\ \A x \in Ops : x # op => queue'[x] = queue[x]
    BY <1>1, <2>1 DEF IInv, QueueOK
  <2>4. NothingLost'
    BY <2>1, <2>2, <2>3 DEF IInv, NothingLost
  <2> QED BY <2>1, <2>2, <2>3, <2>4, SameFlush DEF IInv, QueueOK
<1>4. CASE MutateFails(op)
  <2>1. /\ queue' = [queue EXCEPT ![op] = queued] /\ UNCHANGED <<dismissed, stuck, org, flush, request>>
        /\ UNCHANGED log \/ log' = Append(log, [op |-> op, org |-> org])
    BY <1>4 DEF MutateFails, Enqueue
  <2>2. LogOK' /\ \A x : Applied(x) # {} => Applied(x)' # {}
    <3>1. CASE UNCHANGED log
      BY <3>1, SameLog DEF IInv
    <3>2. CASE log' = Append(log, [op |-> op, org |-> org])
      BY <3>2, LogGrows DEF IInv
    <3> QED BY <2>1, <3>1, <3>2
  <2> HIDE DEF queued
  <2>3. queue' \in [Ops -> Entry] /\ NothingLost'
    BY <1>1, <2>1, <2>2, PutOK DEF IInv
  <2> QED BY <2>1, <2>2, <2>3, SameFlush DEF IInv, QueueOK
<1> QED BY <1>2, <1>3, <1>4 DEF Mutate

-----------------------------------------------------------------------------
(* The flush.                                                              *)

LEMMA FlushStartOK == ASSUME IInv, FlushStart PROVE IInv'
<1>1. UNCHANGED <<queue, log, dismissed, stuck, org, request>>
  BY DEF FlushStart, store, history
<1>2. FlushOK'
  <2>1. CASE UNCHANGED flush
    BY <1>1, <2>1, SameLog, SameFlush DEF IInv
  <2>2. CASE flush.step = "idle" /\ flush' = [step |-> "pick", todo |-> Snapshot, item |-> <<>>, org |-> org]
    <3>1. request = "none" /\ request' = "none" /\ flush'.step = "pick"
      BY <1>1, <2>2 DEF IInv, FlushOK
    <3>2. flush' = [step |-> flush'.step, todo |-> flush'.todo, item |-> flush'.item, org |-> flush'.org]
      BY <2>2
    <3> QED BY <3>1, <3>2 DEF FlushOK
  <2> QED BY <2>1, <2>2 DEF FlushStart
<1>3. org' \in Orgs
  BY <1>1 DEF IInv, QueueOK
<1> QED BY <1>1, <1>2, <1>3, QuietOK

LEMMA AdvanceShape == ASSUME FlushOK, Advance PROVE flush'.step = "pick"
<1>1. flush' = [step |-> "pick", todo |-> Tail(flush.todo), item |-> <<>>, org |-> flush.org]
  BY DEF FlushOK, Advance
<1> QED BY <1>1

LEMMA AdvanceOK ==
    ASSUME FlushOK, Advance, request' = "none" PROVE FlushOK'
<1>1. flush' = [step |-> "pick", todo |-> Tail(flush.todo), item |-> <<>>, org |-> flush.org]
  BY DEF FlushOK, Advance
<1>2. flush' = [step |-> flush'.step, todo |-> flush'.todo, item |-> flush'.item, org |-> flush'.org] /\ flush'.step = "pick"
  BY <1>1
<1> QED BY <1>2 DEF FlushOK

LEMMA NoFlushOK == ASSUME flush' = NoFlush, request' = "none" PROVE FlushOK'
<1>1. flush' = [step |-> flush'.step, todo |-> flush'.todo, item |-> flush'.item, org |-> flush'.org] /\ flush'.step = "idle"
  BY DEF NoFlush
<1> QED BY <1>1 DEF FlushOK

LEMMA PickOK == ASSUME IInv, Pick PROVE IInv'
<1>1. flush.step = "pick" /\ UNCHANGED <<queue, log, dismissed, stuck, org, request>>
  BY DEF Pick, client, store, history
<1>2. request = "none" /\ request' = "none"
  BY <1>1 DEF IInv, FlushOK
<1>3. FlushOK'
  <2>1. CASE Advance
    BY <1>2, <2>1, AdvanceOK DEF IInv
  <2>2. CASE queue[Current].status = "pending" /\ flush' = [flush EXCEPT !.step = "mark", !.item = queue[Current]]
    <3>1. flush' = [step |-> "mark", todo |-> flush.todo, item |-> queue[Current], org |-> flush.org]
      BY <2>2 DEF IInv, FlushOK
    <3>2. flush' = [step |-> flush'.step, todo |-> flush'.todo, item |-> flush'.item, org |-> flush'.org]
      BY <3>1
    <3>3. flush'.todo = flush.todo /\ flush'.item = queue[Current]
      BY <3>1
    <3>4. Current \in Ops => queue[Current] \in Entry
      BY DEF IInv, QueueOK
    <3> QED BY <1>2, <2>2, <3>2, <3>3, <3>4 DEF FlushOK, Current
  <2> QED BY <2>1, <2>2 DEF Pick
<1>4. org' \in Orgs
  BY <1>1 DEF IInv, QueueOK
<1> QED BY <1>1, <1>3, <1>4, QuietOK

LEMMA SendOK == ASSUME IInv, Send PROVE IInv'
<1>1. /\ flush.step = "mark" /\ queue' = [queue EXCEPT ![Current] = [flush.item EXCEPT !.status = "syncing"]]
      /\ flush' = [flush EXCEPT !.step = "wait", !.org = org] /\ request' = "sent"
      /\ UNCHANGED <<log, dismissed, stuck, org>>
  BY DEF Send, Put, client
<1>2. Current \in Ops => flush.item \in Entry /\ flush.item.status = "pending"
  BY <1>1 DEF IInv, FlushOK
<1>3. Current \in Ops => [flush.item EXCEPT !.status = "syncing"] \in Entry
                         /\ [flush.item EXCEPT !.status = "syncing"].status # "gone"
  BY <1>2 DEF Entry, Statuses
<1>4. LogOK' /\ \A x : Applied(x) # {} => Applied(x)' # {}
  BY <1>1, SameLog DEF IInv
<1>5. queue' \in [Ops -> Entry] /\ NothingLost'
  BY <1>1, <1>3, <1>4, PutOK DEF IInv
<1>6. flush' = [step |-> "wait", todo |-> flush.todo, item |-> flush.item, org |-> org]
  BY <1>1 DEF IInv, FlushOK
<1>7. /\ flush' = [step |-> flush'.step, todo |-> flush'.todo, item |-> flush'.item, org |-> flush'.org]
      /\ flush'.step = "wait" /\ flush'.todo = flush.todo /\ flush'.item = flush.item
  BY <1>6
<1>8. FlushOK'
  BY <1>1, <1>2, <1>7 DEF FlushOK, Current
<1> QED BY <1>1, <1>4, <1>5, <1>8 DEF IInv, QueueOK

LEMMA ServeOK == ASSUME IInv, Serve PROVE IInv'
<1>1. /\ request = "sent" /\ UNCHANGED <<queue, dismissed, stuck, org, flush>>
      /\ \/ request' = "ok" /\ log' = Append(log, [op |-> Current, org |-> flush.org])
         \/ request' \in {"4xx", "5xx"} /\ UNCHANGED log
  BY DEF Serve, client, store, history
<1>2. LogOK' /\ (\A x : Applied(x) # {} => Applied(x)' # {}) /\ (request' = "ok" => Applied(Current)' # {})
  <2>1. CASE request' = "ok" /\ log' = Append(log, [op |-> Current, org |-> flush.org])
    <3>1. Current' = Current
      BY <1>1 DEF Current
    <3>2. LogOK' /\ \A x : Applied(x) # {} => Applied(x)' # {}
      BY <2>1, LogGrows DEF IInv
    <3>3. \E k \in DOMAIN log' : log'[k].op = Current
      BY <2>1, LogGrows DEF IInv
    <3> QED BY <3>1, <3>2, <3>3 DEF Applied
  <2>2. CASE request' \in {"4xx", "5xx"} /\ UNCHANGED log
    BY <2>2, SameLog DEF IInv
  <2> QED BY <1>1, <2>1, <2>2
<1>3. NothingLost'
  BY <1>1, <1>2 DEF IInv, NothingLost
<1>4. FlushOK'
  BY <1>1, <1>2 DEF IInv, FlushOK, Current
<1> QED BY <1>1, <1>2, <1>3, <1>4 DEF IInv, QueueOK

\* A real id instead of a temporary one changes nobody's status.
LEMMA RewriteShape ==
    ASSUME QueueOK, NEW c
    PROVE  /\ RewriteTempId(c, queue) \in [Ops -> Entry]
           /\ \A op \in Ops : RewriteTempId(c, queue)[op].status = queue[op].status
<1>1. \A op \in Ops : queue[op] \in Entry
  BY DEF QueueOK
<1>2. \A op \in Ops : [queue[op] EXCEPT !.resolved = TRUE] \in Entry
                      /\ [queue[op] EXCEPT !.resolved = TRUE].status = queue[op].status
  BY <1>1 DEF Entry
<1> QED BY <1>1, <1>2 DEF RewriteTempId

LEMMA SucceedOK == ASSUME IInv, Succeed PROVE IInv'
<1> DEFINE q == RewriteTempId(Current, queue)
<1>1. /\ request = "ok" /\ request' = "none" /\ queue' = [q EXCEPT ![Current].status = "gone"] /\ Advance
      /\ UNCHANGED <<log, dismissed, stuck, org>>
  BY DEF Succeed, history
<1>2. q \in [Ops -> Entry] /\ \A op \in Ops : q[op].status = queue[op].status
  BY RewriteShape DEF IInv
<1> HIDE DEF q
<1>3. Applied(Current) # {}
  BY <1>1 DEF IInv, FlushOK
<1>4. LogOK' /\ \A x : Applied(x) # {} => Applied(x)' # {}
  BY <1>1, SameLog DEF IInv
<1>5. queue' \in [Ops -> Entry] /\ \A op \in Ops : op # Current => queue'[op].status = queue[op].status
  <2>1. CASE Current \in Ops
    <3>1. [q[Current] EXCEPT !.status = "gone"] \in Entry
      BY <1>2, <2>1 DEF Entry, Statuses
    <3>2. queue' = [q EXCEPT ![Current] = [q[Current] EXCEPT !.status = "gone"]]
      BY <1>1
    <3> QED BY <1>2, <2>1, <3>1, <3>2
  <2>2. CASE Current \notin Ops
    <3>1. queue' = q
      BY <1>1, <1>2, <2>2
    <3> QED BY <1>2, <3>1
  <2> QED BY <2>1, <2>2
<1>6. NothingLost'
  <2>1. \A op \in Ops : Applied(op) # {} => Applied(op)' # {}
    BY <1>4
  <2> QED BY <1>1, <1>3, <1>5, <2>1 DEF IInv, NothingLost
<1>7. FlushOK'
  BY <1>1, AdvanceOK DEF IInv
<1> QED BY <1>1, <1>4, <1>5, <1>6, <1>7 DEF IInv, QueueOK

\* A rejected item is a conflict or pending again.
LEMMA RejectedShape ==
    ASSUME NEW i \in Entry PROVE Rejected(i) \in Entry /\ Rejected(i).status \in {"pending", "conflict"}
<1>1. i.retries + 1 \in Int
  BY DEF Entry
<1>2. [i EXCEPT !.retries = @ + 1, !.status = "conflict"] \in Becoming("conflict")
  BY <1>1, Rewritten
<1>3. [i EXCEPT !.retries = @ + 1, !.status = "pending"] \in Becoming("pending")
  BY <1>1, Rewritten
<1>4. Rejected(i) \in {[i EXCEPT !.retries = @ + 1, !.status = "conflict"], [i EXCEPT !.retries = @ + 1, !.status = "pending"]}
  BY DEF Rejected
<1>5. Rejected(i) \in Becoming("conflict") \cup Becoming("pending")
  BY <1>2, <1>3, <1>4
<1> QED BY <1>5 DEF Entry, Becoming, Statuses

LEMMA RejectOK == ASSUME IInv, Reject PROVE IInv'
<1>1. /\ request # "none" /\ request' = "none" /\ queue' = [queue EXCEPT ![Current] = Rejected(flush.item)] /\ Advance
      /\ UNCHANGED <<log, dismissed, stuck, org>>
  BY DEF Reject, Put, client, history
<1>2. Current \in Ops => Rejected(flush.item) \in Entry /\ Rejected(flush.item).status # "gone"
  <2>1. Current \in Ops => flush.item \in Entry
    BY <1>1 DEF IInv, FlushOK
  <2> QED BY <2>1, RejectedShape
<1>3. LogOK' /\ \A x : Applied(x) # {} => Applied(x)' # {}
  BY <1>1, SameLog DEF IInv
<1>4. queue' \in [Ops -> Entry] /\ NothingLost'
  BY <1>1, <1>2, <1>3, PutOK DEF IInv
<1>5. FlushOK'
  BY <1>1, AdvanceOK DEF IInv
<1> QED BY <1>1, <1>3, <1>4, <1>5 DEF IInv, QueueOK

LEMMA NetworkFailureOK == ASSUME IInv, NetworkFailure PROVE IInv'
<1>1. /\ request # "none" /\ request' = "none" /\ queue' = [queue EXCEPT ![Current] = flush.item] /\ flush' = NoFlush
      /\ UNCHANGED <<log, dismissed, stuck, org>>
  BY DEF NetworkFailure, Put
<1>2. Current \in Ops => flush.item \in Entry /\ flush.item.status # "gone"
  BY <1>1 DEF IInv, FlushOK
<1>3. LogOK' /\ \A x : Applied(x) # {} => Applied(x)' # {}
  BY <1>1, SameLog DEF IInv
<1>4. queue' \in [Ops -> Entry] /\ NothingLost'
  BY <1>1, <1>2, <1>3, PutOK DEF IInv
<1> QED BY <1>1, <1>3, <1>4, NoFlushOK DEF IInv, QueueOK

LEMMA FlushEndOK == ASSUME IInv, FlushEnd PROVE IInv'
<1>1. flush.step = "pick" /\ flush' = NoFlush /\ UNCHANGED <<queue, log, dismissed, stuck, org, request>>
  BY DEF FlushEnd, client, store, history
<1>2. request' = "none" /\ org' \in Orgs
  BY <1>1 DEF IInv, FlushOK, QueueOK
<1> QED BY <1>1, <1>2, NoFlushOK, QuietOK

-----------------------------------------------------------------------------
(* The user, restarts, and organisations.                                  *)

LEMMA RetryOK == ASSUME IInv, NEW op \in Ops, Retry(op) PROVE IInv'
<1> DEFINE e == [queue[op] EXCEPT !.status = "pending", !.retries = 0]
<1>1. queue' = [queue EXCEPT ![op] = e] /\ UNCHANGED <<log, dismissed, stuck, org, flush, request>>
  BY DEF Retry, Put, client, history
<1>2. e \in Entry /\ e.status # "gone"
  <2>1. queue[op] \in Entry
    BY DEF IInv, QueueOK
  <2>2. e \in Becoming("pending")
    <3>1. PICK n \in Int : n = 0
      OBVIOUS
    <3>2. [queue[op] EXCEPT !.status = "pending", !.retries = n] \in Becoming("pending")
      BY <2>1, Rewritten
    <3> QED BY <3>1, <3>2, Zenon
  <2> QED BY <2>2 DEF Entry, Becoming, Statuses
<1> HIDE DEF e
<1>3. LogOK' /\ \A x : Applied(x) # {} => Applied(x)' # {}
  BY <1>1, SameLog DEF IInv
<1>4. queue' \in [Ops -> Entry] /\ NothingLost'
  BY <1>1, <1>2, <1>3, PutOK DEF IInv
<1> QED BY <1>1, <1>3, <1>4, SameFlush DEF IInv, QueueOK

LEMMA DismissOK == ASSUME IInv, NEW op \in Ops, Dismiss(op) PROVE IInv'
<1> DEFINE e == [queue[op] EXCEPT !.status = "gone"]
<1>1. /\ queue' = [queue EXCEPT ![op] = e] /\ dismissed' = dismissed \cup {op}
      /\ UNCHANGED <<log, stuck, org, flush, request>>
  BY DEF Dismiss, Put, client
<1>2. e \in Entry
  BY DEF IInv, QueueOK, Entry, Statuses
<1> HIDE DEF e
<1>3. LogOK' /\ \A x : Applied(x) # {} => Applied(x)' # {}
  BY <1>1, SameLog DEF IInv
<1>4. queue' \in [Ops -> Entry] /\ \A x \in Ops : x # op => queue'[x] = queue[x]
  BY <1>1, <1>2 DEF IInv, QueueOK
<1>5. NothingLost'
  BY <1>1, <1>3, <1>4 DEF IInv, NothingLost
<1> QED BY <1>1, <1>3, <1>4, <1>5, SameFlush DEF IInv, QueueOK

LEMMA RecoverStuckOK == ASSUME IInv, NEW op \in Ops, RecoverStuck(op) PROVE IInv'
<1> DEFINE e == [stuck[op] EXCEPT !.status = "pending"]
<1>1. /\ op \in DOMAIN stuck /\ queue' = [queue EXCEPT ![op] = e]
      /\ stuck' = [o \in DOMAIN stuck \ {op} |-> stuck[o]]
      /\ UNCHANGED <<log, dismissed, org, flush, request>>
  BY DEF RecoverStuck, Put, client, history
<1>2. e \in Entry /\ e.status # "gone"
  BY <1>1 DEF IInv, QueueOK, Entry, Statuses
<1> HIDE DEF e
<1>3. \A o \in DOMAIN stuck' : stuck'[o] \in Entry
  BY <1>1 DEF IInv, QueueOK
<1>4. LogOK' /\ \A x : Applied(x) # {} => Applied(x)' # {}
  BY <1>1, SameLog DEF IInv
<1>5. queue' \in [Ops -> Entry] /\ NothingLost'
  BY <1>1, <1>2, <1>4, PutOK DEF IInv
<1> QED BY <1>1, <1>3, <1>4, <1>5, SameFlush DEF IInv, QueueOK

\* The layout mounts, with or without the flush that was running.
LEMMA MountOK ==
    ASSUME IInv, Mount, UNCHANGED <<queue, log, dismissed, org>>, FlushOK' PROVE IInv'
<1>1. stuck' = [op \in {o \in Ops : queue[o].status = "syncing"} |-> queue[op]]
  BY DEF Mount
<1>2. \A o \in DOMAIN stuck' : stuck'[o] \in Entry
  BY <1>1 DEF IInv, QueueOK
<1>3. LogOK' /\ NothingLost'
  BY DEF IInv, LogOK, NothingLost, Applied
<1> QED BY <1>2, <1>3 DEF IInv, QueueOK

LEMMA CrashOK == ASSUME IInv, Crash PROVE IInv'
<1>1. flush' = NoFlush /\ request' = "none" /\ Mount /\ UNCHANGED <<queue, log, dismissed, org>>
  BY DEF Crash, store
<1> QED BY <1>1, NoFlushOK, MountOK

LEMMA LoginOK == ASSUME IInv, Login PROVE IInv'
<1>1. Mount /\ UNCHANGED <<queue, log, dismissed, org, flush, request>>
  BY DEF Login, store
<1>2. FlushOK'
  BY <1>1, SameLog, SameFlush DEF IInv
<1> QED BY <1>1, <1>2, MountOK

\* Connectivity and the active organisation.
LEMMA ElsewhereOK ==
    ASSUME IInv, UNCHANGED <<queue, log, dismissed, stuck, flush, request>>, org' \in Orgs PROVE IInv'
<1>1. FlushOK'
  BY SameLog, SameFlush DEF IInv
<1> QED BY <1>1, QuietOK

-----------------------------------------------------------------------------
LEMMA Initially == ASSUME Init PROVE IInv
<1>1. log \in Seq({})
  BY DEF Init
<1>2. org \in Orgs /\ Fresh \in Entry /\ queue = [op \in Ops |-> Fresh] /\ stuck = <<>>
  <2>1. (CHOOSE o \in Orgs : TRUE) \in Orgs
    BY DEF Init
  <2> QED BY <2>1 DEF Init, Fresh, Entry, Statuses
<1>3. QueueOK
  BY <1>2 DEF QueueOK
<1>4. flush.step = "idle" /\ request = "none"
      /\ flush = [step |-> flush.step, todo |-> flush.todo, item |-> flush.item, org |-> flush.org]
  BY DEF Init, NoFlush
<1>5. NothingLost
  BY <1>2 DEF NothingLost, Fresh
<1> QED BY <1>1, <1>3, <1>4, <1>5 DEF IInv, LogOK, FlushOK

LEMMA Steps == ASSUME IInv, [Next]_vars PROVE IInv'
<1>1. ASSUME NEW state, NetDown(state) PROVE IInv'
  BY <1>1, ElsewhereOK DEF NetDown, store, history, IInv, QueueOK
<1>2. CASE NetUp
  BY <1>2, ElsewhereOK DEF NetUp, store, history, IInv, QueueOK
<1>3. CASE Read
  BY <1>3, ElsewhereOK DEF Read, store, history, IInv, QueueOK
<1>4. CASE Probe
  BY <1>4, ElsewhereOK DEF Probe, store, history, IInv, QueueOK
<1>5. CASE Reconnect
  BY <1>5, ElsewhereOK DEF Reconnect, store, history, IInv, QueueOK
<1>6. CASE FlushStep
  BY <1>6, PickOK, SendOK, ServeOK, SucceedOK, RejectOK, NetworkFailureOK, FlushEndOK DEF FlushStep
<1>7. ASSUME NEW op \in Ops, Mutate(op) \/ Retry(op) \/ Dismiss(op) \/ RecoverStuck(op) PROVE IInv'
  BY <1>7, MutateOK, RetryOK, DismissOK, RecoverStuckOK
<1>8. ASSUME NEW o \in Orgs, SwitchOrg(o) PROVE IInv'
  BY <1>8, ElsewhereOK DEF SwitchOrg, store, history
<1>9. CASE UNCHANGED vars
  BY <1>9, ElsewhereOK DEF vars, client, store, history, IInv, QueueOK
<1> QED BY <1>1, <1>2, <1>3, <1>4, <1>5, <1>6, <1>7, <1>8, <1>9, FlushStartOK, CrashOK, LoginOK DEF Next

\* What the flush has in hand, and what an answer means, in every reachable state.
THEOREM QueueInvariance == Spec => []IInv
BY Initially, Steps, PTL DEF Spec

\* No queued mutation is ever lost: one that has left the queue was applied by the server
\* or dismissed by the user, for any mutations, organisations, faults and their number.
THEOREM NothingIsLost == Spec => []NothingLost
BY QueueInvariance, PTL DEF IInv

-----------------------------------------------------------------------------
(* What is applied twice was in doubt.                                     *)

\* A mutation that was never in doubt has been applied at most once; once applied it is not
\* sent again, and while it is being sent it has not been applied.
Once(op) ==
    /\ \A j, k \in Applied(op) : j = k
    /\ Applied(op) # {} => queue[op].status = "gone" \/ (request = "ok" /\ Current = op)
    /\ queue[op].status = "syncing" => flush.step = "wait" /\ Current = op
    /\ op \notin DOMAIN stuck
    /\ flush.step \in {"mark", "wait"} /\ request # "ok" /\ Current = op => Applied(op) = {}

OnceOK ==
    /\ \A op \in Ops : op \in doubtful \/ Once(op)
    /\ flush.step \in {"mark", "wait"} /\ Current \in Ops => queue[Current].status # "none"

\* A step that leaves the queue, the flush and the server alone, and forgets no doubt.
LEMMA OnceElsewhere ==
    ASSUME OnceOK, UNCHANGED <<queue, log, stuck, flush, request>>, doubtful \subseteq doubtful' PROVE OnceOK'
BY DEF OnceOK, Once, Applied, Current

\* The server logs a mutation it had not applied: that makes one.
LEMMA LogsOne ==
    ASSUME LogOK, NEW c, NEW o, log' = Append(log, [op |-> c, org |-> o])
    PROVE  /\ \A op : op # c => Applied(op)' = Applied(op)
           /\ Applied(c) = {} => \A j, k \in Applied(c)' : j = k
<1> DEFINE e == [op |-> c, org |-> o]
<1>1. PICK S : log \in Seq(S)
  BY DEF LogOK
<1>2. /\ DOMAIN log = 1..Len(log) /\ Len(log) \in Nat /\ DOMAIN log' = 1..(Len(log) + 1)
      /\ log'[Len(log) + 1] = e /\ \A k \in 1..Len(log) : log'[k] = log[k]
  <2>1. log \in Seq(S \cup {e})
    BY <1>1
  <2> QED BY <2>1
<1>3. e.op = c
  OBVIOUS
<1> HIDE DEF e
<1>4. \A k \in DOMAIN log' : k \in DOMAIN log \/ k = Len(log) + 1
  BY <1>2
<1>5. \A k \in DOMAIN log : k \in DOMAIN log' /\ log'[k] = log[k]
  BY <1>2
<1>6. ASSUME NEW op, op # c PROVE Applied(op)' = Applied(op)
  BY <1>2, <1>3, <1>4, <1>5, <1>6 DEF Applied
<1>7. ASSUME Applied(c) = {}, NEW j \in Applied(c)', NEW k \in Applied(c)' PROVE j = k
  BY <1>4, <1>5, <1>7 DEF Applied
<1> QED BY <1>6, <1>7

LEMMA OnceMutate == ASSUME IInv, OnceOK, NEW op \in Ops, Mutate(op) PROVE OnceOK'
<1>1. /\ queue[op].status = "none" /\ UNCHANGED <<stuck, flush, request>>
      /\ doubtful \subseteq doubtful'
      /\ \E e : /\ queue' = [queue EXCEPT ![op] = e] /\ e.status \in {"pending", "gone"}
                /\ log' # log /\ op \notin doubtful' => e.status = "gone"
      /\ log' = log \/ log' = Append(log, [op |-> op, org |-> org])
  <2>1. CASE MutateOffline(op)
    BY <2>1 DEF MutateOffline, MayMutate, Enqueue, history
  <2>2. CASE MutateOnline(op)
    <3>1. /\ queue' = [queue EXCEPT ![op] = [Fresh EXCEPT !.status = "gone", !.org = org]]
          /\ [Fresh EXCEPT !.status = "gone", !.org = org].status = "gone"
      BY <2>2 DEF MutateOnline, Fresh
    <3> QED BY <2>2, <3>1 DEF MutateOnline, MayMutate, history
  <2>3. CASE MutateFails(op)
    BY <2>3 DEF MutateFails, MayMutate, Enqueue
  <2> QED BY <2>1, <2>2, <2>3 DEF Mutate
<1>2. PICK e : /\ queue' = [queue EXCEPT ![op] = e] /\ e.status \in {"pending", "gone"}
               /\ log' # log /\ op \notin doubtful' => e.status = "gone"
  BY <1>1
<1>3. queue'[op] = e /\ \A x \in Ops : x # op => queue'[x] = queue[x]
  BY <1>2 DEF IInv, QueueOK
<1>4. \A x : x # op => Applied(x)' = Applied(x)
  <2>1. CASE log' = log
    BY <2>1 DEF Applied
  <2>2. CASE log' = Append(log, [op |-> op, org |-> org])
    BY <2>2, LogsOne DEF IInv
  <2> QED BY <1>1, <2>1, <2>2
<1>5. flush.step \in {"mark", "wait"} => Current # op
  BY <1>1 DEF OnceOK
<1>6. request # "none" => flush.step = "wait"
  BY DEF IInv, FlushOK
<1>7. UNCHANGED Current
  BY <1>1 DEF Current
<1>8. ASSUME NEW x \in Ops, x # op PROVE x \in doubtful' \/ Once(x)'
  BY <1>1, <1>3, <1>4, <1>7, <1>8 DEF OnceOK, Once
<1>9. ASSUME op \notin doubtful' PROVE Once(op)'
  <2>1. Applied(op) = {} /\ Once(op)
    BY <1>1, <1>5, <1>6, <1>9 DEF OnceOK, Once
  <2>2. CASE log' = log
    <3>1. Applied(op)' = {}
      BY <2>1, <2>2 DEF Applied
    <3> QED BY <1>1, <1>2, <1>3, <2>1, <3>1 DEF Once
  <2>3. CASE log' = Append(log, [op |-> op, org |-> org]) /\ log' # log
    <3>1. \A j, k \in Applied(op)' : j = k
      BY <2>1, <2>3, LogsOne DEF IInv
    <3> QED BY <1>1, <1>2, <1>3, <1>5, <1>7, <1>9, <2>1, <2>3, <3>1 DEF Once
  <2> QED BY <1>1, <2>2, <2>3
<1>10. flush'.step \in {"mark", "wait"} /\ Current' \in Ops => queue'[Current'].status # "none"
  BY <1>1, <1>3, <1>5, <1>7 DEF OnceOK
<1> QED BY <1>8, <1>9, <1>10 DEF OnceOK

\* Between two items nothing is being sent, so nothing is marked as syncing but what is in doubt.
LEMMA OnceAtRest ==
    ASSUME IInv, OnceOK, flush.step # "wait", request' = "none", flush'.step \in {"idle", "pick"},
           UNCHANGED <<queue, log, doubtful, stuck>>
    PROVE  OnceOK'
<1>1. request = "none"
  BY DEF IInv, FlushOK
<1>2. ASSUME NEW op \in Ops, op \notin doubtful' PROVE Once(op)'
  BY <1>1, <1>2 DEF OnceOK, Once, Applied
<1> QED BY <1>2 DEF OnceOK

LEMMA OncePick == ASSUME IInv, OnceOK, Pick PROVE OnceOK'
<1>1. flush.step = "pick" /\ request = "none" /\ UNCHANGED <<queue, log, stuck, doubtful, request>>
  BY DEF Pick, store, history, IInv, FlushOK
<1>2. CASE Advance
  <2>1. flush'.step = "pick"
    BY <1>2, AdvanceShape DEF IInv
  <2> QED BY <1>1, <2>1, OnceAtRest
<1>3. CASE queue[Current].status = "pending" /\ flush' = [flush EXCEPT !.step = "mark", !.item = queue[Current]]
  <2>1. flush'.step = "mark" /\ flush'.todo = flush.todo
    <3>1. flush' = [step |-> "mark", todo |-> flush.todo, item |-> queue[Current], org |-> flush.org]
      BY <1>3 DEF IInv, FlushOK
    <3> QED BY <3>1
  <2>2. UNCHANGED Current
    BY <2>1 DEF Current
  <2>3. ASSUME NEW op \in Ops, op \notin doubtful' PROVE Once(op)'
    <3>1. Applied(op)' = Applied(op) /\ Once(op)
      BY <1>1, <2>3 DEF Applied, OnceOK
    <3> QED BY <1>1, <1>3, <2>1, <2>2, <3>1 DEF Once
  <2> QED BY <1>1, <1>3, <2>2, <2>3 DEF OnceOK
<1> QED BY <1>2, <1>3 DEF Pick

LEMMA OnceSend == ASSUME IInv, OnceOK, Send PROVE OnceOK'
<1> DEFINE e == [flush.item EXCEPT !.status = "syncing"]
<1>1. /\ flush.step = "mark" /\ queue' = [queue EXCEPT ![Current] = e] /\ request' = "sent"
      /\ flush' = [flush EXCEPT !.step = "wait", !.org = org] /\ UNCHANGED <<log, stuck, doubtful>>
  BY DEF Send, Put
<1>2. request = "none"
  BY <1>1 DEF IInv, FlushOK
<1>3. flush'.step = "wait" /\ flush'.todo = flush.todo
  <2>1. flush' = [step |-> "wait", todo |-> flush.todo, item |-> flush.item, org |-> org]
    BY <1>1 DEF IInv, FlushOK
  <2> QED BY <2>1
<1>4. UNCHANGED Current
  BY <1>3 DEF Current
<1>5. Current \in Ops => e.status = "syncing"
  BY <1>1 DEF IInv, FlushOK, Entry
<1> HIDE DEF e
<1>6. (Current \in Ops => queue'[Current] = e) /\ \A x \in Ops : x # Current => queue'[x] = queue[x]
  BY <1>1 DEF IInv, QueueOK
<1>7. ASSUME NEW op \in Ops, op \notin doubtful' PROVE Once(op)'
  <2>1. Applied(op)' = Applied(op) /\ Once(op)
    BY <1>1, <1>7 DEF Applied, OnceOK
  <2> QED BY <1>1, <1>2, <1>3, <1>4, <1>6, <2>1 DEF Once
<1> QED BY <1>4, <1>5, <1>6, <1>7 DEF OnceOK

LEMMA OnceServe == ASSUME IInv, OnceOK, Serve PROVE OnceOK'
<1>1. /\ request = "sent" /\ UNCHANGED <<queue, stuck, flush, doubtful>> /\ flush.step = "wait"
      /\ \/ request' = "ok" /\ log' = Append(log, [op |-> Current, org |-> flush.org])
         \/ request' \in {"4xx", "5xx"} /\ UNCHANGED log
  BY DEF Serve, store, history, IInv, FlushOK
<1>2. UNCHANGED Current
  BY <1>1 DEF Current
<1>3. ASSUME NEW op \in Ops, op \notin doubtful' PROVE Once(op)'
  <2>1. Once(op)
    BY <1>1, <1>3 DEF OnceOK
  <2>2. CASE UNCHANGED log /\ request' \in {"4xx", "5xx"}
    <3>1. Applied(op)' = Applied(op)
      BY <2>2 DEF Applied
    <3> QED BY <1>1, <1>2, <2>1, <2>2, <3>1 DEF Once
  <2>3. CASE request' = "ok" /\ log' = Append(log, [op |-> Current, org |-> flush.org])
    <3>1. CASE op = Current
      <4>1. Applied(op) = {}
        BY <1>1, <2>1, <3>1 DEF Once
      <4>2. \A j, k \in Applied(op)' : j = k
        BY <2>3, <3>1, <4>1, LogsOne DEF IInv
      <4> QED BY <1>1, <1>2, <2>1, <2>3, <3>1, <4>2 DEF Once
    <3>2. CASE op # Current
      <4>1. Applied(op)' = Applied(op)
        BY <2>3, <3>2, LogsOne DEF IInv
      <4> QED BY <1>1, <1>2, <2>1, <2>3, <3>2, <4>1 DEF Once
    <3> QED BY <3>1, <3>2
  <2> QED BY <1>1, <2>2, <2>3
<1> QED BY <1>1, <1>2, <1>3 DEF OnceOK

\* The answer, or its loss: the item has gone, may be sent again because it was not applied,
\* or is in doubt.
LEMMA OnceAnswered ==
    ASSUME IInv, OnceOK, request # "none", request' = "none", flush'.step \in {"idle", "pick"},
           UNCHANGED <<log, stuck>>, doubtful \subseteq doubtful',
           \A op \in Ops : op # Current => queue'[op].status = queue[op].status,
           Current \in Ops => \/ Current \in doubtful'
                              \/ queue'[Current].status = "gone"
                              \/ request # "ok" /\ queue'[Current].status # "syncing"
    PROVE  OnceOK'
<1>1. flush.step = "wait"
  BY DEF IInv, FlushOK
<1>2. ASSUME NEW op \in Ops, op \notin doubtful' PROVE Once(op)'
  <2>1. Applied(op)' = Applied(op) /\ Once(op)
    BY <1>2 DEF Applied, OnceOK
  <2> QED BY <1>1, <1>2, <2>1 DEF Once
<1> QED BY <1>2 DEF OnceOK

LEMMA OnceSucceed == ASSUME IInv, OnceOK, Succeed PROVE OnceOK'
<1> DEFINE q == RewriteTempId(Current, queue)
<1>1. /\ request = "ok" /\ request' = "none" /\ queue' = [q EXCEPT ![Current].status = "gone"] /\ Advance
      /\ UNCHANGED <<log, doubtful, stuck>>
  BY DEF Succeed, history
<1>2. q \in [Ops -> Entry] /\ \A op \in Ops : q[op].status = queue[op].status
  BY RewriteShape DEF IInv
<1> HIDE DEF q
<1>3. Current \in Ops => queue'[Current].status = "gone"
  BY <1>1, <1>2 DEF Entry
<1>4. \A op \in Ops : op # Current => queue'[op].status = queue[op].status
  BY <1>1, <1>2
<1>5. flush'.step = "pick"
  BY <1>1, AdvanceShape DEF IInv
<1> QED BY <1>1, <1>3, <1>4, <1>5, OnceAnswered

LEMMA OnceReject == ASSUME IInv, OnceOK, Reject PROVE OnceOK'
<1>1. /\ request \in {"4xx", "5xx"} /\ request' = "none" /\ queue' = [queue EXCEPT ![Current] = Rejected(flush.item)]
      /\ Advance /\ UNCHANGED <<log, doubtful, stuck>>
  BY DEF Reject, Put, history
<1>2. Current \in Ops => Rejected(flush.item) \in Entry /\ Rejected(flush.item).status \in {"pending", "conflict"}
  BY <1>1, RejectedShape DEF IInv, FlushOK
<1>3. (Current \in Ops => queue'[Current].status # "syncing") /\ \A op \in Ops : op # Current => queue'[op] = queue[op]
  BY <1>1, <1>2 DEF IInv, QueueOK
<1>4. flush'.step = "pick"
  BY <1>1, AdvanceShape DEF IInv
<1> QED BY <1>1, <1>3, <1>4, OnceAnswered

LEMMA OnceNetworkFailure == ASSUME IInv, OnceOK, NetworkFailure PROVE OnceOK'
<1>1. /\ request # "none" /\ request' = "none" /\ queue' = [queue EXCEPT ![Current] = flush.item] /\ flush' = NoFlush
      /\ doubtful' = (IF request = "ok" THEN doubtful \cup {Current} ELSE doubtful)
      /\ UNCHANGED <<log, stuck>>
  BY DEF NetworkFailure, Put
<1>2. Current \in Ops => flush.item.status = "pending"
  BY <1>1 DEF IInv, FlushOK
<1>3. (Current \in Ops => queue'[Current].status # "syncing") /\ \A op \in Ops : op # Current => queue'[op] = queue[op]
  BY <1>1, <1>2 DEF IInv, QueueOK
<1>4. flush'.step = "idle"
  BY <1>1 DEF NoFlush
<1> QED BY <1>1, <1>3, <1>4, OnceAnswered

\* The user: what he does to one item makes it neither new nor syncing.
LEMMA OncePut ==
    ASSUME IInv, OnceOK, NEW op \in Ops, NEW e, queue' = [queue EXCEPT ![op] = e], e.status \in {"pending", "gone"},
           UNCHANGED <<log, flush, request>>, doubtful \subseteq doubtful', DOMAIN stuck' \subseteq DOMAIN stuck,
           op \in doubtful \/ queue[op].status # "gone" \/ e.status = "gone"
    PROVE  OnceOK'
<1>1. queue'[op] = e /\ \A x \in Ops : x # op => queue'[x] = queue[x]
  BY DEF IInv, QueueOK
<1>2. UNCHANGED Current /\ \A x : Applied(x)' = Applied(x)
  BY DEF Current, Applied
<1>3. ASSUME NEW x \in Ops, x \notin doubtful' PROVE Once(x)'
  <2>1. Once(x)
    BY <1>3 DEF OnceOK
  <2> QED BY <1>1, <1>2, <1>3, <2>1 DEF Once
<1> QED BY <1>1, <1>2, <1>3 DEF OnceOK

LEMMA OnceRetry == ASSUME IInv, OnceOK, NEW op \in Ops, Retry(op) PROVE OnceOK'
<1> DEFINE e == [queue[op] EXCEPT !.status = "pending", !.retries = 0]
<1>1. /\ queue' = [queue EXCEPT ![op] = e] /\ queue[op].status = "conflict"
      /\ UNCHANGED <<log, doubtful, stuck, flush, request>>
  BY DEF Retry, Put, history
<1>2. e.status = "pending"
  BY DEF IInv, QueueOK, Entry
<1> HIDE DEF e
<1> QED BY <1>1, <1>2, OncePut

LEMMA OnceDismiss == ASSUME IInv, OnceOK, NEW op \in Ops, Dismiss(op) PROVE OnceOK'
<1> DEFINE e == [queue[op] EXCEPT !.status = "gone"]
<1>1. queue' = [queue EXCEPT ![op] = e] /\ UNCHANGED <<log, doubtful, stuck, flush, request>>
  BY DEF Dismiss, Put
<1>2. e.status = "gone"
  BY DEF IInv, QueueOK, Entry
<1> HIDE DEF e
<1> QED BY <1>1, <1>2, OncePut

LEMMA OnceRecoverStuck == ASSUME IInv, OnceOK, NEW op \in Ops, RecoverStuck(op) PROVE OnceOK'
<1> DEFINE e == [stuck[op] EXCEPT !.status = "pending"]
<1>1. /\ op \in DOMAIN stuck /\ queue' = [queue EXCEPT ![op] = e]
      /\ stuck' = [o \in DOMAIN stuck \ {op} |-> stuck[o]] /\ UNCHANGED <<log, doubtful, flush, request>>
  BY DEF RecoverStuck, Put, history
<1>2. e.status = "pending"
  BY <1>1 DEF IInv, QueueOK, Entry
<1> HIDE DEF e
<1>3. op \in doubtful
  BY <1>1 DEF OnceOK, Once
<1> QED BY <1>1, <1>2, <1>3, OncePut

\* What a mount finds as syncing was being sent, so from now on it is in doubt.
LEMMA OnceMount ==
    ASSUME IInv, OnceOK, Mount, UNCHANGED <<queue, log>>,
           UNCHANGED <<flush, request>> \/ (flush' = NoFlush /\ request' = "none")
    PROVE  OnceOK'
<1>1. /\ stuck' = [op \in {o \in Ops : queue[o].status = "syncing"} |-> queue[op]]
      /\ doubtful' = (IF flush.step = "wait" THEN doubtful \cup {Current} ELSE doubtful)
  BY DEF Mount
<1>2. ASSUME NEW op \in Ops, op \notin doubtful' PROVE Once(op)'
  <2>1. Applied(op)' = Applied(op) /\ Once(op) /\ (flush.step = "wait" => Current # op) /\ op \notin DOMAIN stuck'
    BY <1>1, <1>2 DEF Applied, OnceOK, Once
  <2>2. request = "ok" => flush.step = "wait"
    BY DEF IInv, FlushOK
  <2>3. CASE UNCHANGED <<flush, request>>
    BY <2>1, <2>3 DEF Once, Current
  <2>4. CASE flush' = NoFlush /\ request' = "none"
    <3>1. flush'.step = "idle"
      BY <2>4 DEF NoFlush
    <3> QED BY <2>1, <2>2, <2>4, <3>1 DEF Once
  <2> QED BY <2>3, <2>4
<1>3. flush'.step \in {"mark", "wait"} /\ Current' \in Ops => queue'[Current'].status # "none"
  BY DEF OnceOK, NoFlush, Current
<1> QED BY <1>2, <1>3 DEF OnceOK

LEMMA OnceInitially == ASSUME Init PROVE OnceOK
<1>1. \A op \in Ops : Applied(op) = {} /\ queue[op].status = "none" /\ op \notin DOMAIN stuck
  BY DEF Init, Applied, Fresh
<1>2. flush.step = "idle" /\ request = "none"
  BY DEF Init, NoFlush
<1> QED BY <1>1, <1>2 DEF OnceOK, Once

LEMMA OnceSteps == ASSUME IInv, OnceOK, [Next]_vars PROVE OnceOK'
<1>1. ASSUME UNCHANGED <<queue, log, stuck, flush, request, doubtful>> PROVE OnceOK'
  BY <1>1, OnceElsewhere
<1>2. ASSUME NEW state, NetDown(state) PROVE OnceOK'
  BY <1>1, <1>2 DEF NetDown, store, history
<1>3. CASE NetUp \/ Read \/ Probe \/ Reconnect
  BY <1>1, <1>3 DEF NetUp, Read, Probe, Reconnect, store, history
<1>4. CASE FlushStart
  <2>1. CASE UNCHANGED flush
    BY <1>1, <1>4, <2>1 DEF FlushStart, store, history
  <2>2. CASE flush.step = "idle" /\ flush' = [step |-> "pick", todo |-> Snapshot, item |-> <<>>, org |-> org]
    <3>1. flush'.step = "pick" /\ request = "none"
      BY <2>2 DEF IInv, FlushOK
    <3> QED BY <1>4, <2>2, <3>1, OnceAtRest DEF FlushStart, store, history
  <2> QED BY <1>4, <2>1, <2>2 DEF FlushStart
<1>5. CASE FlushEnd
  <2>1. flush.step = "pick" /\ flush'.step = "idle" /\ request = "none"
    BY <1>5 DEF FlushEnd, NoFlush, IInv, FlushOK
  <2> QED BY <1>5, <2>1, OnceAtRest DEF FlushEnd, store, history
<1>6. CASE FlushStep
  BY <1>5, <1>6, OncePick, OnceSend, OnceServe, OnceSucceed, OnceReject, OnceNetworkFailure DEF FlushStep
<1>7. ASSUME NEW op \in Ops, Mutate(op) \/ Retry(op) \/ Dismiss(op) \/ RecoverStuck(op) PROVE OnceOK'
  BY <1>7, OnceMutate, OnceRetry, OnceDismiss, OnceRecoverStuck
<1>8. CASE Crash \/ Login
  BY <1>8, OnceMount DEF Crash, Login, store
<1>9. ASSUME NEW o \in Orgs, SwitchOrg(o) PROVE OnceOK'
  BY <1>1, <1>9 DEF SwitchOrg, store, history
<1>10. CASE UNCHANGED vars
  BY <1>1, <1>10 DEF vars, store, history
<1> QED BY <1>2, <1>3, <1>4, <1>6, <1>7, <1>8, <1>9, <1>10 DEF Next

\* The queue never repeats a mutation by itself: one that the server has applied twice was in
\* flight when an answer was lost, the application died, or the layout was mounted again.
THEOREM AppliedOnce == Spec => []OnceUnlessDoubtful
<1>1. OnceOK => OnceUnlessDoubtful
  <2>1. ASSUME OnceOK, NEW op \in Ops, op \notin doubtful PROVE ~(Cardinality(Applied(op)) > 1)
    <3>1. \A j, k \in Applied(op) : j = k
      BY <2>1 DEF OnceOK, Once
    <3>2. CASE Applied(op) = {}
      BY <3>2, FS_EmptySet
    <3>3. CASE Applied(op) # {}
      <4>1. PICK k \in Applied(op) : TRUE
        BY <3>3
      <4>2. Applied(op) = {k}
        BY <3>1, <4>1
      <4> QED BY <4>2, FS_Singleton
    <3> QED BY <3>2, <3>3
  <2> QED BY <2>1 DEF OnceUnlessDoubtful
<1> QED BY <1>1, OnceInitially, OnceSteps, QueueInvariance, PTL DEF Spec

-----------------------------------------------------------------------------
(* Types.                                                                  *)

\* An item that is still to be sent has attempts left.
Sound(item) == item \in Item /\ (item.status \in {"pending", "syncing"} => item.retries < MaxRetries)

ClientOK ==
    /\ net \in {"up", "cut", "off"} /\ session \in {"online", "grace"} /\ org \in Orgs
    /\ offline \in BOOLEAN /\ acted \in BOOLEAN /\ settling \in BOOLEAN /\ trigger \in BOOLEAN
    /\ failures \in 0..1
StoreOK ==
    /\ queue \in [Ops -> Item] /\ (\A op \in Ops : Sound(queue[op])) /\ stamps \in Seq(Ops)
    /\ \A op \in DOMAIN stuck : op \in Ops /\ Sound(stuck[op]) /\ stuck[op].status = "syncing"
WorkOK ==
    /\ flush.step \in {"idle", "pick", "mark", "wait"} /\ flush.todo \in Seq(Ops) /\ flush.org \in Orgs
    /\ flush.step \in {"mark", "wait"} => flush.todo # <<>> /\ Sound(flush.item)
    /\ request \in {"none", "sent", "ok", "4xx", "5xx"}
    /\ flush.step = "wait" => request # "none"
TypesOK == ClientOK /\ StoreOK /\ WorkOK /\ log \in Seq([op : Ops, org : Orgs])

\* What InOrder returns: members of P, each preceded by all that P has before it in s.
Follows(r, s, P, n) ==
    /\ \A i \in 1..n : s[i] \in P => \E m \in 1..Len(r) : r[m] = s[i]
    /\ \A k \in 1..Len(r) :
          \E j \in 1..n : /\ r[k] = s[j] /\ s[j] \in P
                          /\ \A i \in 1..(j - 1) : s[i] \in P => \E m \in 1..(k - 1) : r[m] = s[i]

LEMMA FollowsOne ==
    ASSUME NEW S, NEW s \in Seq(S), NEW P, NEW n \in Nat, n + 1 <= Len(s), NEW r \in Seq(S), Follows(r, s, P, n),
           NEW q, q = IF s[n + 1] \in P THEN Append(r, s[n + 1]) ELSE r
    PROVE  q \in Seq(S) /\ Follows(q, s, P, n + 1)
<1>1. s[n + 1] \in S /\ Len(r) \in Nat
  OBVIOUS
<1>2. CASE s[n + 1] \notin P
  <2>1. q = r
    BY <1>2
  <2>2. \A i \in 1..(n + 1) : s[i] \in P => i \in 1..n
    BY <1>2
  <2>3. \A i \in 1..n : i \in 1..(n + 1)
    OBVIOUS
  <2> QED BY <2>1, <2>2, <2>3 DEF Follows
<1>3. CASE s[n + 1] \in P
  <2>1. /\ q \in Seq(S) /\ Len(q) = Len(r) + 1 /\ q[Len(r) + 1] = s[n + 1]
        /\ \A k \in 1..Len(r) : q[k] = r[k] /\ k \in 1..Len(q)
    BY <1>1, <1>3
  <2>2. ASSUME NEW i \in 1..(n + 1), s[i] \in P PROVE \E m \in 1..Len(q) : q[m] = s[i]
    <3>1. CASE i \in 1..n
      <4>1. PICK m \in 1..Len(r) : r[m] = s[i]
        BY <2>2, <3>1 DEF Follows
      <4> QED BY <2>1, <4>1
    <3>2. CASE i = n + 1
      BY <1>1, <2>1, <3>2
    <3> QED BY <3>1, <3>2
  <2>3. ASSUME NEW k \in 1..Len(q)
        PROVE  \E j \in 1..(n + 1) : /\ q[k] = s[j] /\ s[j] \in P
                 /\ \A i \in 1..(j - 1) : s[i] \in P => \E m \in 1..(k - 1) : q[m] = s[i]
    <3>1. CASE k \in 1..Len(r)
      <4>1. PICK j \in 1..n : /\ r[k] = s[j] /\ s[j] \in P
                 /\ \A i \in 1..(j - 1) : s[i] \in P => \E m \in 1..(k - 1) : r[m] = s[i]
        BY <3>1 DEF Follows
      <4>2. j \in 1..(n + 1) /\ q[k] = s[j] /\ \A m \in 1..(k - 1) : q[m] = r[m]
        BY <1>1, <2>1, <3>1, <4>1
      <4> QED BY <4>1, <4>2
    <3>2. CASE k = Len(r) + 1
      <4>1. n + 1 \in 1..(n + 1) /\ (n + 1) - 1 = n /\ k - 1 = Len(r)
        BY <1>1, <3>2
      <4>2. \A i \in 1..n : s[i] \in P => \E m \in 1..Len(r) : q[m] = s[i]
        BY <2>1 DEF Follows
      <4> QED BY <1>3, <2>1, <3>2, <4>1, <4>2
    <3>3. k \in 1..Len(r) \/ k = Len(r) + 1
      BY <1>1, <2>1
    <3> QED BY <3>1, <3>2, <3>3
  <2> QED BY <2>1, <2>2, <2>3 DEF Follows
<1> QED BY <1>2, <1>3

LEMMA InOrderIs ==
    ASSUME NEW S, NEW s \in Seq(S), NEW P
    PROVE  InOrder(s, P) \in Seq(S) /\ Follows(InOrder(s, P), s, P, Len(s))
<1> DEFINE N == Len(s)
           X == Seq(S)
           step == [k \in 1..N |-> [v \in X |-> IF s[k] \in P THEN Append(v, s[k]) ELSE v]]
           g == CHOOSE f : f = [k \in 0..N |-> IF k = 0 THEN <<>> ELSE IF s[k] \in P THEN Append(f[k - 1], s[k]) ELSE f[k - 1]]
           T == {n \in Nat : n <= N => g[n] \in X /\ Follows(g[n], s, P, n)}
<1>1. N \in Nat /\ <<>> \in X /\ \A k \in 1..N : s[k] \in S
  OBVIOUS
<1>2. step \in [1..N -> [X -> X]]
  <2>1. ASSUME NEW k \in 1..N, NEW v \in X PROVE (IF s[k] \in P THEN Append(v, s[k]) ELSE v) \in X
    BY <1>1
  <2> HIDE DEF X, N
  <2> QED BY <2>1
<1>3. PICK f \in [0..N -> X] : f[0] = <<>> /\ \A k \in 1..N : f[k] = step[k][f[k - 1]]
  <2> DEFINE x == <<>>
  <2>1. x \in X /\ x = <<>>
    BY <1>1
  <2> HIDE DEF x, X, N, step
  <2>2. N \in Nat
    BY <1>1
  <2>3. \E f \in [0..N -> X] : f[0] = x /\ \A k \in 1..N : f[k] = step[k][f[k - 1]]
    BY <2>1, <2>2, <1>2, RecursionOverNat
  <2> QED BY <2>1, <2>3
<1>4. f = [k \in 0..N |-> IF k = 0 THEN <<>> ELSE IF s[k] \in P THEN Append(f[k - 1], s[k]) ELSE f[k - 1]]
  <2>1. ASSUME NEW k \in 0..N
        PROVE  f[k] = IF k = 0 THEN <<>> ELSE IF s[k] \in P THEN Append(f[k - 1], s[k]) ELSE f[k - 1]
    <3>1. CASE k = 0
      BY <1>3, <3>1
    <3>2. CASE k # 0
      <4>1. k \in 1..N /\ k - 1 \in 0..N
        BY <1>1, <3>2
      <4>2. f[k] = step[k][f[k - 1]] /\ f[k - 1] \in X
        BY <1>3, <4>1
      <4> HIDE DEF X
      <4> QED BY <3>2, <4>2
    <3> QED BY <3>1, <3>2
  <2> HIDE DEF N, X, step
  <2> QED BY <1>3, <2>1
<1>5. g = [k \in 0..N |-> IF k = 0 THEN <<>> ELSE IF s[k] \in P THEN Append(g[k - 1], s[k]) ELSE g[k - 1]]
  <2> HIDE DEF N, X, step
  <2> QED BY <1>4
<1>6. InOrder(s, P) = g[N]
  BY DEF InOrder
<1> HIDE DEF g, step
<1>7. 0 \in T
  <2>1. g[0] = <<>> /\ Len(g[0]) = 0
    BY <1>1, <1>5
  <2>2. Follows(g[0], s, P, 0)
    BY <2>1 DEF Follows
  <2> QED BY <1>1, <2>1, <2>2
<1>8. ASSUME NEW n \in T PROVE n + 1 \in T
  <2> SUFFICES ASSUME n + 1 <= N PROVE g[n + 1] \in X /\ Follows(g[n + 1], s, P, n + 1)
    OBVIOUS
  <2>1. n \in Nat /\ g[n] \in X /\ Follows(g[n], s, P, n) /\ n + 1 \in 0..N /\ n + 1 # 0 /\ (n + 1) - 1 = n
    BY <1>1
  <2>2. g[n + 1] = IF s[n + 1] \in P THEN Append(g[n], s[n + 1]) ELSE g[n]
    BY <1>5, <2>1
  <2> QED BY <2>1, <2>2, FollowsOne
<1>9. T = Nat
  <2>1. T \in SUBSET Nat
    OBVIOUS
  <2> HIDE DEF T
  <2> QED BY <1>7, <1>8, <2>1, InductionOverNat
<1>10. N \in T
  BY <1>1, <1>9
<1> QED BY <1>1, <1>6, <1>10

-----------------------------------------------------------------------------
\* What the client believes of the network and of the user.
LEMMA ClientSteps == ASSUME ClientOK, [Next]_vars PROVE ClientOK'
<1>1. ASSUME UNCHANGED <<net, client>> PROVE ClientOK'
  BY <1>1 DEF ClientOK, client
<1>2. ASSUME SignalOffline PROVE offline' \in BOOLEAN /\ failures' \in 0..1 /\ acted' \in BOOLEAN /\ settling' \in BOOLEAN
  <2>1. offline \in BOOLEAN /\ acted \in BOOLEAN /\ settling \in BOOLEAN /\ failures \in 0..1
    BY DEF ClientOK
  <2>2. CASE UNCHANGED <<offline, failures, acted, settling>>
    BY <2>1, <2>2
  <2>3. HandleOffline => acted' \in BOOLEAN /\ settling' \in BOOLEAN
    <3>1. (settling /\ ~acted) \in BOOLEAN /\ FALSE \in BOOLEAN
      OBVIOUS
    <3> QED BY <3>1, Zenon DEF HandleOffline
  <2>4. CASE ~offline
    <3>1. PICK n \in {1, failures + 1} :
            IF net # "off" /\ n < 2
            THEN failures' = n /\ UNCHANGED <<offline, acted, settling>>
            ELSE /\ offline' = TRUE /\ failures' = 0
                 /\ IF net # "off" THEN HandleOffline ELSE UNCHANGED <<acted, settling>>
      BY <1>2, <2>4 DEF SignalOffline
    <3>2. n \in Int /\ n >= 1
      BY <2>1
    <3>3. CASE net # "off" /\ n < 2
      BY <2>1, <3>1, <3>2, <3>3
    <3>4. CASE ~(net # "off" /\ n < 2)
      <4>1. /\ offline' = TRUE /\ failures' = 0
            /\ IF net # "off" THEN HandleOffline ELSE UNCHANGED <<acted, settling>>
        BY <3>1, <3>4, Zenon
      <4>2. offline' \in BOOLEAN /\ failures' \in 0..1
        BY <4>1
      <4>3. acted' \in BOOLEAN /\ settling' \in BOOLEAN
        BY <2>1, <2>3, <4>1, Zenon
      <4> QED BY <4>2, <4>3, Zenon
    <3> QED BY <3>3, <3>4
  <2> QED BY <1>2, <2>2, <2>4 DEF SignalOffline
<1>3. ASSUME SignalOnline PROVE offline' \in BOOLEAN /\ failures' \in 0..1 /\ acted' \in BOOLEAN /\ settling' \in BOOLEAN
  <2>1. offline \in BOOLEAN /\ acted \in BOOLEAN /\ settling \in BOOLEAN
    BY DEF ClientOK
  <2>2. HandleOnline => acted' \in BOOLEAN /\ settling' \in BOOLEAN
    <3>1. (settling \/ ~acted) \in BOOLEAN /\ TRUE \in BOOLEAN
      OBVIOUS
    <3> QED BY <3>1, Zenon DEF HandleOnline
  <2>3. offline' = FALSE /\ failures' = 0 /\ IF offline THEN HandleOnline ELSE UNCHANGED <<acted, settling>>
    BY <1>3 DEF SignalOnline
  <2>4. acted' \in BOOLEAN /\ settling' \in BOOLEAN
    BY <2>1, <2>2, <2>3, Zenon
  <2>5. offline' \in BOOLEAN /\ failures' \in 0..1
    <3>1. offline' = FALSE /\ failures' = 0
      BY <1>3 DEF SignalOnline
    <3>2. FALSE \in BOOLEAN /\ 0 \in 0..1
      OBVIOUS
    <3> QED BY <3>1, <3>2, Zenon
  <2> QED BY <2>4, <2>5, Zenon
<1>4. ASSUME NEW state \in {"cut", "off"}, NetDown(state) PROVE ClientOK'
  BY <1>4 DEF NetDown, HandleOffline, ClientOK
<1>5. CASE NetUp
  BY <1>5 DEF NetUp, HandleOnline, ClientOK
<1>6. CASE Read \/ Probe
  BY <1>2, <1>3, <1>6 DEF Read, Probe, ClientOK
<1>7. CASE Reconnect
  BY <1>7 DEF Reconnect, ClientOK
<1>8. CASE FlushStart
  BY <1>8 DEF FlushStart, ClientOK
<1>9. CASE Pick \/ Send \/ Serve \/ Reject \/ FlushEnd
  BY <1>1, <1>9 DEF Pick, Send, Serve, Reject, FlushEnd
<1>10. CASE Succeed \/ NetworkFailure
  BY <1>2, <1>3, <1>10 DEF Succeed, NetworkFailure, ClientOK
<1>11. CASE Crash
  <2>1. /\ session' \in {"online", "grace"} /\ UNCHANGED <<net, org>>
        /\ offline' = FALSE /\ failures' = 0 /\ trigger' = TRUE /\ settling' = FALSE /\ acted' = (net # "off")
    <3>1. session' \in (IF net = "up" THEN {"online"} ELSE {"online", "grace"})
      BY <1>11 DEF Crash
    <3>2. session' \in {"online", "grace"}
      BY <3>1
    <3> QED BY <1>11, <3>2 DEF Crash, Mount
  <2>2. acted' \in BOOLEAN
    BY <2>1
  <2>3. offline' \in BOOLEAN /\ failures' \in 0..1 /\ trigger' \in BOOLEAN /\ settling' \in BOOLEAN
    <3>1. FALSE \in BOOLEAN /\ TRUE \in BOOLEAN /\ 0 \in 0..1
      OBVIOUS
    <3> QED BY <2>1, <3>1, Zenon
  <2>4. net' \in {"up", "cut", "off"} /\ session' \in {"online", "grace"} /\ org' \in Orgs
    BY <2>1 DEF ClientOK
  <2> QED BY <2>2, <2>3, <2>4, Zenon DEF ClientOK
<1>12. CASE Login
  BY <1>12 DEF Login, Mount, ClientOK
<1>13. ASSUME NEW op \in Ops, Mutate(op) PROVE ClientOK'
  BY <1>1, <1>2, <1>3, <1>13 DEF Mutate, MutateOffline, MutateOnline, MutateFails, ClientOK
<1>14. ASSUME NEW op \in Ops, Retry(op) \/ Dismiss(op) \/ RecoverStuck(op) PROVE ClientOK'
  BY <1>1, <1>14 DEF Retry, Dismiss, RecoverStuck
<1>15. ASSUME NEW o \in Orgs, SwitchOrg(o) PROVE ClientOK'
  BY <1>15 DEF SwitchOrg, ClientOK
<1>16. CASE UNCHANGED vars
  BY <1>1, <1>16 DEF vars
<1> QED BY <1>4, <1>5, <1>6, <1>7, <1>8, <1>9, <1>10, <1>11, <1>12, <1>13, <1>14, <1>15, <1>16 DEF Next, FlushStep

\* An item written anew.
LEMMA Rewrites ==
    ASSUME NEW i \in Item, NEW s, NEW n, NEW o
    PROVE  /\ [i EXCEPT !.status = s] = [status |-> s, retries |-> i.retries, resolved |-> i.resolved, org |-> i.org]
           /\ [i EXCEPT !.status = s, !.retries = n] = [status |-> s, retries |-> n, resolved |-> i.resolved, org |-> i.org]
           /\ [i EXCEPT !.retries = n, !.status = s] = [status |-> s, retries |-> n, resolved |-> i.resolved, org |-> i.org]
           /\ [i EXCEPT !.status = s, !.org = o] = [status |-> s, retries |-> i.retries, resolved |-> i.resolved, org |-> o]
<1> DEFINE Only(st, re, og) == [status : {st}, retries : {re}, resolved : {i.resolved}, org : {og}]
<1>1. ASSUME NEW st, NEW re, NEW og, NEW e \in Only(st, re, og)
      PROVE  e = [status |-> st, retries |-> re, resolved |-> i.resolved, org |-> og]
  OBVIOUS
<1>2. [i EXCEPT !.status = s] \in Only(s, i.retries, i.org)
  BY DEF Item
<1>3. [i EXCEPT !.status = s, !.retries = n] \in Only(s, n, i.org)
  BY DEF Item
<1>4. [i EXCEPT !.retries = n, !.status = s] \in Only(s, n, i.org)
  BY DEF Item
<1>5. [i EXCEPT !.status = s, !.org = o] \in Only(s, i.retries, o)
  BY DEF Item
<1> HIDE DEF Only
<1> QED BY <1>1, <1>2, <1>3, <1>4, <1>5, Zenon

LEMMA ItemIs ==
    ASSUME NEW s \in Statuses, NEW n \in 0..MaxRetries, NEW r \in BOOLEAN, NEW o \in Orgs,
           s \in {"pending", "syncing"} => n < MaxRetries
    PROVE  Sound([status |-> s, retries |-> n, resolved |-> r, org |-> o])
BY DEF Item, Sound

\* What an operation writes in the place of an item is sound, and keeps its organisation.
LEMMA RejectedSound ==
    ASSUME NEW i, Sound(i), i.status = "pending"
    PROVE  Sound(Rejected(i)) /\ Rejected(i).org = i.org /\ Rejected(i).status \in {"pending", "conflict"}
<1>1. i \in Item /\ i.retries \in 0..MaxRetries /\ i.retries < MaxRetries /\ MaxRetries \in Nat
  BY BoundsAssumption DEF Sound, Item
<1> DEFINE n == i.retries + 1
           giveUp == request = "4xx" \/ n >= MaxRetries
           s == IF giveUp THEN "conflict" ELSE "pending"
<1>2. n \in 0..MaxRetries /\ s \in {"pending", "conflict"} /\ s \in Statuses /\ (s = "pending" => n < MaxRetries)
  BY <1>1 DEF Statuses
<1>3. Rejected(i) = [i EXCEPT !.retries = n, !.status = s]
  BY DEF Rejected
<1>4. i.resolved \in BOOLEAN /\ i.org \in Orgs
  BY <1>1 DEF Item
<1> HIDE DEF n, s
<1>5. Rejected(i) = [status |-> s, retries |-> n, resolved |-> i.resolved, org |-> i.org]
  BY <1>1, <1>3, Rewrites
<1>6. s \in {"pending", "syncing"} => n < MaxRetries
  BY <1>2
<1>7. Sound([status |-> s, retries |-> n, resolved |-> i.resolved, org |-> i.org])
  BY <1>2, <1>4, <1>6, ItemIs
<1> QED BY <1>2, <1>5, <1>7

LEMMA QueuedSound ==
    ASSUME org \in Orgs, NEW op
    PROVE  LET e == [status |-> "pending", retries |-> 0, resolved |-> KnowsRealId(op), org |-> org]
           IN Sound(e) /\ e.status = "pending"
<1>1. KnowsRealId(op) \in BOOLEAN /\ MaxRetries \in Nat \ {0}
  BY BoundsAssumption DEF KnowsRealId
<1> QED BY <1>1 DEF Sound, Item, Statuses

LEMMA FreshSound ==
    ASSUME org \in Orgs
    PROVE  /\ Sound(Fresh) /\ Fresh.status = "none"
           /\ LET e == [Fresh EXCEPT !.status = "gone", !.org = org] IN Sound(e) /\ e.status = "gone"
<1> DEFINE o == CHOOSE x \in Orgs : TRUE
<1>1. o \in Orgs /\ MaxRetries \in Nat \ {0}
  BY BoundsAssumption
<1>2. Fresh = [status |-> "none", retries |-> 0, resolved |-> FALSE, org |-> o]
  BY DEF Fresh
<1> HIDE DEF o
<1>3. 0 \in 0..MaxRetries /\ 0 < MaxRetries /\ "none" \in Statuses /\ "gone" \in Statuses /\ FALSE \in BOOLEAN
  BY <1>1 DEF Statuses
<1>4. Sound(Fresh) /\ Fresh.status = "none"
  <2>1. Sound([status |-> "none", retries |-> 0, resolved |-> FALSE, org |-> o])
    BY <1>1, <1>3, ItemIs
  <2> QED BY <1>2, <2>1
<1> DEFINE Left == [status : {"gone"}, retries : {0}, resolved : {FALSE}, org : {org}]
<1>5. [Fresh EXCEPT !.status = "gone", !.org = org] \in Left
  <2>1. Fresh \in Item /\ Fresh.retries = 0 /\ Fresh.resolved = FALSE
    BY <1>2, <1>4 DEF Sound
  <2> QED BY <2>1 DEF Item
<1>6. ASSUME NEW e \in Left PROVE Sound(e) /\ e.status = "gone"
  BY <1>3 DEF Item, Sound
<1> HIDE DEF Left
<1> QED BY <1>4, <1>5, <1>6, Zenon

\* One item is written.
LEMMA PutSound ==
    ASSUME StoreOK, NEW c, NEW e, c \in Ops => Sound(e), queue' = [queue EXCEPT ![c] = e],
           stamps' \in Seq(Ops), \A op \in DOMAIN stuck' : op \in DOMAIN stuck /\ stuck'[op] = stuck[op]
    PROVE  StoreOK'
<1>1. queue' \in [Ops -> Item] /\ \A op \in Ops : queue'[op] = IF op = c THEN e ELSE queue[op]
  BY DEF StoreOK, Sound
<1>2. \A op \in Ops : Sound(queue[op])'
  BY <1>1 DEF StoreOK, Sound
<1>3. \A op \in DOMAIN stuck' : op \in Ops /\ Sound(stuck'[op]) /\ stuck'[op].status = "syncing"
  BY DEF StoreOK
<1> QED BY <1>1, <1>2, <1>3 DEF StoreOK, Sound

LEMMA SameStore == ASSUME StoreOK, UNCHANGED <<queue, stamps, stuck>> PROVE StoreOK'
BY DEF StoreOK, Sound

\* The item in hand, when there is one.
LEMMA InHand ==
    ASSUME IInv, WorkOK, flush.step \in {"mark", "wait"}
    PROVE  Current \in Ops /\ Sound(flush.item) /\ flush.item.status = "pending" /\ flush.item \in Item
<1>1. flush.todo \in Seq(Ops) /\ flush.todo # <<>>
  BY DEF WorkOK
<1>2. Current \in Ops
  BY <1>1 DEF Current
<1> QED BY <1>2 DEF IInv, FlushOK, WorkOK, Sound

LEMMA RewriteSound ==
    ASSUME StoreOK, NEW c
    PROVE  /\ RewriteTempId(c, queue) \in [Ops -> Item]
           /\ \A op \in Ops : /\ Sound(RewriteTempId(c, queue)[op])
                              /\ RewriteTempId(c, queue)[op].status = queue[op].status
                              /\ RewriteTempId(c, queue)[op].org = queue[op].org
<1>1. ASSUME NEW i \in Item
      PROVE  LET e == [i EXCEPT !.resolved = TRUE]
             IN e \in Item /\ e.status = i.status /\ e.org = i.org /\ e.retries = i.retries
  BY DEF Item
<1>2. \A op \in Ops : queue[op] \in Item /\ Sound(queue[op])
  BY DEF StoreOK
<1>3. ASSUME NEW op \in Ops
      PROVE  LET e == RewriteTempId(c, queue)[op]
             IN e \in Item /\ Sound(e) /\ e.status = queue[op].status /\ e.org = queue[op].org
  BY <1>1, <1>2 DEF RewriteTempId, Sound
<1>4. RewriteTempId(c, queue) = [op \in Ops |-> RewriteTempId(c, queue)[op]]
  BY DEF RewriteTempId
<1> QED BY <1>3, <1>4

LEMMA StoreMutate == ASSUME ClientOK, StoreOK, NEW op \in Ops, Mutate(op) PROVE StoreOK'
<1> DEFINE queued == [status |-> "pending", retries |-> 0, resolved |-> KnowsRealId(op), org |-> org]
           gone == [Fresh EXCEPT !.status = "gone", !.org = org]
<1>1. Sound(queued) /\ Sound(gone)
  <2>1. org \in Orgs
    BY DEF ClientOK
  <2> QED BY <2>1, QueuedSound, FreshSound, Zenon
<1>2. /\ queue' = [queue EXCEPT ![op] = queued] \/ queue' = [queue EXCEPT ![op] = gone]
      /\ stamps' = stamps \/ stamps' = Append(stamps, op)
      /\ UNCHANGED stuck
  BY DEF Mutate, MutateOffline, MutateOnline, MutateFails, Enqueue
<1>3. stamps' \in Seq(Ops)
  BY <1>2 DEF StoreOK
<1> HIDE DEF queued, gone
<1> QED BY <1>1, <1>2, <1>3, PutSound

LEMMA StoreSteps == ASSUME IInv, ClientOK, StoreOK, WorkOK, [Next]_vars PROVE StoreOK'
<1>1. ASSUME UNCHANGED <<queue, stamps, stuck>> PROVE StoreOK'
  BY <1>1, SameStore
<1>2. CASE NetDown("cut") \/ NetDown("off") \/ NetUp \/ Read \/ Probe \/ Reconnect \/ FlushStart
  BY <1>1, <1>2 DEF NetDown, NetUp, Read, Probe, Reconnect, FlushStart, store
<1>3. CASE Pick \/ Serve \/ FlushEnd
  BY <1>1, <1>3 DEF Pick, Serve, FlushEnd, store
<1>4. stamps \in Seq(Ops) /\ \A op \in Ops : queue[op] \in Item /\ Sound(queue[op])
  BY DEF StoreOK
<1>5. CASE Send
  <2> DEFINE e == [flush.item EXCEPT !.status = "syncing"]
  <2>1. /\ flush.step = "mark" /\ queue' = [queue EXCEPT ![Current] = e] /\ UNCHANGED <<stamps, stuck>>
    BY <1>5 DEF Send, Put
  <2>2. Sound(flush.item) /\ flush.item.status = "pending" /\ flush.item \in Item
    BY <2>1, InHand
  <2>3. Sound(e)
    BY <2>2 DEF Sound, Item, Statuses
  <2> HIDE DEF e
  <2> QED BY <1>4, <2>1, <2>3, PutSound
<1>6. CASE Succeed
  <2> DEFINE q == RewriteTempId(Current, queue)
             e == [q[Current] EXCEPT !.status = "gone"]
  <2>1. queue' = [q EXCEPT ![Current].status = "gone"] /\ UNCHANGED <<stamps, stuck>> /\ flush.step = "wait"
    BY <1>6 DEF Succeed, IInv, FlushOK
  <2>2. Current \in Ops
    BY <2>1, InHand
  <2>3. q \in [Ops -> Item] /\ \A op \in Ops : Sound(q[op])
    BY RewriteSound
  <2> HIDE DEF q
  <2>4. Sound(e)
    BY <2>2, <2>3 DEF Sound, Item, Statuses
  <2>5. queue' = [q EXCEPT ![Current] = e]
    BY <2>1
  <2> HIDE DEF e
  <2>6. queue' \in [Ops -> Item] /\ \A op \in Ops : queue'[op] = IF op = Current THEN e ELSE q[op]
    BY <2>2, <2>3, <2>4, <2>5 DEF Sound
  <2>7. \A op \in Ops : Sound(queue[op])'
    BY <2>3, <2>4, <2>6 DEF Sound
  <2>8. \A op \in DOMAIN stuck' : op \in Ops /\ Sound(stuck'[op]) /\ stuck'[op].status = "syncing"
    BY <2>1 DEF StoreOK
  <2> QED BY <1>4, <2>1, <2>6, <2>7, <2>8 DEF StoreOK, Sound
<1>7. CASE Reject
  <2>1. /\ queue' = [queue EXCEPT ![Current] = Rejected(flush.item)] /\ UNCHANGED <<stamps, stuck>>
        /\ flush.step = "wait"
    BY <1>7 DEF Reject, Put, IInv, FlushOK
  <2>2. Sound(Rejected(flush.item))
    BY <2>1, InHand, RejectedSound
  <2> QED BY <1>4, <2>1, <2>2, PutSound
<1>8. CASE NetworkFailure
  <2>1. queue' = [queue EXCEPT ![Current] = flush.item] /\ UNCHANGED <<stamps, stuck>> /\ flush.step = "wait"
    BY <1>8 DEF NetworkFailure, Put, IInv, FlushOK
  <2>2. Sound(flush.item)
    BY <2>1, InHand
  <2> QED BY <1>4, <2>1, <2>2, PutSound
<1>9. CASE Crash \/ Login
  <2>1. UNCHANGED <<queue, stamps>> /\ stuck' = [op \in {o \in Ops : queue[o].status = "syncing"} |-> queue[op]]
    BY <1>9 DEF Crash, Login, Mount, store
  <2>2. \A op \in DOMAIN stuck' : op \in Ops /\ Sound(stuck'[op]) /\ stuck'[op].status = "syncing"
    BY <1>4, <2>1
  <2> QED BY <2>1, <2>2 DEF StoreOK, Sound
<1>10. ASSUME NEW op \in Ops, Retry(op) PROVE StoreOK'
  <2> DEFINE e == [queue[op] EXCEPT !.status = "pending", !.retries = 0]
  <2>1. queue' = [queue EXCEPT ![op] = e] /\ UNCHANGED <<stamps, stuck>>
    BY <1>10 DEF Retry, Put
  <2>2. e \in [status : {"pending"}, retries : {0}, resolved : BOOLEAN, org : Orgs]
    BY <1>4 DEF Item
  <2>3. 0 \in 0..MaxRetries /\ 0 < MaxRetries /\ "pending" \in Statuses
    BY BoundsAssumption DEF Statuses
  <2> HIDE DEF e
  <2>4. Sound(e)
    BY <2>2, <2>3 DEF Item, Sound
  <2> QED BY <1>4, <2>1, <2>4, PutSound
<1>11. ASSUME NEW op \in Ops, Dismiss(op) PROVE StoreOK'
  <2> DEFINE e == [queue[op] EXCEPT !.status = "gone"]
  <2>1. queue' = [queue EXCEPT ![op] = e] /\ UNCHANGED <<stamps, stuck>>
    BY <1>11 DEF Dismiss, Put
  <2>2. Sound(e)
    BY <1>4 DEF Sound, Item, Statuses
  <2> HIDE DEF e
  <2> QED BY <1>4, <2>1, <2>2, PutSound
<1>12. ASSUME NEW op \in Ops, RecoverStuck(op) PROVE StoreOK'
  <2> DEFINE e == [stuck[op] EXCEPT !.status = "pending"]
  <2>1. /\ op \in DOMAIN stuck /\ queue' = [queue EXCEPT ![op] = e] /\ UNCHANGED stamps
        /\ stuck' = [o \in DOMAIN stuck \ {op} |-> stuck[o]]
    BY <1>12 DEF RecoverStuck, Put
  <2>2. Sound(stuck[op]) /\ stuck[op].status = "syncing" /\ stuck[op] \in Item
    BY <2>1 DEF StoreOK, Sound
  <2>3. Sound(e)
    BY <2>2 DEF Sound, Item, Statuses
  <2>4. \A o \in DOMAIN stuck' : o \in DOMAIN stuck /\ stuck'[o] = stuck[o]
    BY <2>1
  <2> HIDE DEF e
  <2> QED BY <1>4, <2>1, <2>3, <2>4, PutSound
<1>13. ASSUME NEW o \in Orgs, SwitchOrg(o) PROVE StoreOK'
  BY <1>1, <1>13 DEF SwitchOrg, store
<1>14. CASE UNCHANGED vars
  BY <1>1, <1>14 DEF vars, store
<1> QED BY <1>2, <1>3, <1>5, <1>6, <1>7, <1>8, <1>9, <1>10, <1>11, <1>12, <1>13, <1>14, StoreMutate DEF Next, FlushStep

LEMMA WorkAdvances ==
    ASSUME IInv, WorkOK, flush.todo # <<>>, Advance, request' = "none" PROVE WorkOK' /\ flush'.step = "pick" /\ flush'.todo = Tail(flush.todo)
<1>1. flush' = [step |-> "pick", todo |-> Tail(flush.todo), item |-> <<>>, org |-> flush.org]
  BY DEF Advance, IInv, FlushOK
<1>2. Tail(flush.todo) \in Seq(Ops)
  BY DEF WorkOK
<1>3. flush'.step = "pick" /\ flush'.todo = Tail(flush.todo) /\ flush'.org = flush.org
  BY <1>1
<1> QED BY <1>2, <1>3 DEF WorkOK

LEMMA WorkStops == ASSUME ClientOK, flush' = NoFlush, request' = "none" PROVE WorkOK' /\ flush'.step = "idle" /\ flush'.todo = <<>>
<1>1. flush'.step = "idle" /\ flush'.todo = <<>> /\ flush'.org = CHOOSE o \in Orgs : TRUE
  BY DEF NoFlush
<1>2. org \in Orgs
  BY DEF ClientOK
<1>3. flush'.org \in Orgs
  BY <1>1, <1>2
<1> QED BY <1>1, <1>3 DEF WorkOK

LEMMA WorkSteps == ASSUME IInv, ClientOK, StoreOK, WorkOK, [Next]_vars PROVE WorkOK'
<1>1. ASSUME UNCHANGED <<flush, request>> PROVE WorkOK'
  BY <1>1 DEF WorkOK, Sound
<1>2. CASE NetDown("cut") \/ NetDown("off") \/ NetUp \/ Read \/ Probe \/ Reconnect \/ Login
  BY <1>1, <1>2 DEF NetDown, NetUp, Read, Probe, Reconnect, Login
<1>3. CASE FlushStart
  <2>1. UNCHANGED request
    BY <1>3 DEF FlushStart
  <2>2. CASE UNCHANGED flush
    BY <1>1, <2>1, <2>2
  <2>3. CASE flush.step = "idle" /\ flush' = [step |-> "pick", todo |-> Snapshot, item |-> <<>>, org |-> org]
    <3>1. Snapshot \in Seq(Ops) /\ org \in Orgs
      BY InOrderIs DEF Snapshot, StoreOK, ClientOK
    <3>2. flush'.step = "pick" /\ flush'.todo = Snapshot /\ flush'.org = org
      BY <2>3
    <3> QED BY <2>1, <3>1, <3>2 DEF WorkOK
  <2> QED BY <1>3, <2>2, <2>3 DEF FlushStart
<1>4. CASE Pick
  <2>1. flush.step = "pick" /\ flush.todo # <<>> /\ UNCHANGED request /\ request = "none"
    BY <1>4 DEF Pick, IInv, FlushOK
  <2>2. CASE Advance
    BY <2>1, <2>2, WorkAdvances
  <2>3. CASE queue[Current].status = "pending" /\ flush' = [flush EXCEPT !.step = "mark", !.item = queue[Current]]
    <3>1. flush' = [step |-> "mark", todo |-> flush.todo, item |-> queue[Current], org |-> flush.org]
      BY <2>3 DEF IInv, FlushOK
    <3>2. flush'.step = "mark" /\ flush'.todo = flush.todo /\ flush'.item = queue[Current] /\ flush'.org = flush.org
      BY <3>1
    <3>3. Current \in Ops
      BY <2>1 DEF WorkOK, Current
    <3>4. Sound(queue[Current])
      BY <3>3 DEF StoreOK
    <3> QED BY <2>1, <3>2, <3>4 DEF WorkOK, Sound
  <2> QED BY <1>4, <2>2, <2>3 DEF Pick
<1>5. CASE Send
  <2>1. flush.step = "mark" /\ flush' = [flush EXCEPT !.step = "wait", !.org = org] /\ request' = "sent"
    BY <1>5 DEF Send
  <2>2. flush' = [step |-> "wait", todo |-> flush.todo, item |-> flush.item, org |-> org]
    BY <2>1 DEF IInv, FlushOK
  <2>3. flush'.step = "wait" /\ flush'.todo = flush.todo /\ flush'.item = flush.item /\ flush'.org = org
    BY <2>2
  <2> QED BY <2>1, <2>3 DEF WorkOK, ClientOK, Sound
<1>6. CASE Serve
  <2>1. request' \in {"ok", "4xx", "5xx"} /\ UNCHANGED flush
    BY <1>6 DEF Serve
  <2> QED BY <2>1 DEF WorkOK, Sound
<1>7. CASE Succeed \/ Reject
  <2>1. flush.todo # <<>>
    BY <1>7 DEF Succeed, Reject, IInv, FlushOK, WorkOK
  <2> QED BY <1>7, <2>1, WorkAdvances DEF Succeed, Reject
<1>8. CASE NetworkFailure \/ Crash
  BY <1>8, WorkStops DEF NetworkFailure, Crash
<1>9. CASE FlushEnd
  <2>1. request' = "none"
    BY <1>9 DEF FlushEnd, IInv, FlushOK
  <2> QED BY <1>9, <2>1, WorkStops DEF FlushEnd
<1>10. ASSUME NEW op \in Ops, Mutate(op) \/ Retry(op) \/ Dismiss(op) \/ RecoverStuck(op) PROVE WorkOK'
  BY <1>1, <1>10 DEF Mutate, MutateOffline, MutateOnline, MutateFails, Retry, Dismiss, RecoverStuck
<1>11. ASSUME NEW o \in Orgs, SwitchOrg(o) PROVE WorkOK'
  BY <1>1, <1>11 DEF SwitchOrg
<1>12. CASE UNCHANGED vars
  BY <1>1, <1>12 DEF vars
<1> QED BY <1>2, <1>3, <1>4, <1>5, <1>6, <1>7, <1>8, <1>9, <1>10, <1>11, <1>12 DEF Next, FlushStep

LEMMA LogSteps ==
    ASSUME IInv, ClientOK, WorkOK, log \in Seq([op : Ops, org : Orgs]), [Next]_vars
    PROVE  log' \in Seq([op : Ops, org : Orgs])
<1>1. UNCHANGED log \/ \E op \in Ops, o \in Orgs : log' = Append(log, [op |-> op, org |-> o])
  <2>1. CASE Serve
    <3>1. flush.step = "wait"
      BY <2>1 DEF Serve, IInv, FlushOK
    <3>2. Current \in Ops /\ flush.org \in Orgs
      BY <3>1, InHand DEF WorkOK
    <3> QED BY <2>1, <3>2 DEF Serve
  <2>2. ASSUME NEW op \in Ops, Mutate(op)
        PROVE  UNCHANGED log \/ log' = Append(log, [op |-> op, org |-> org])
    BY <2>2 DEF Mutate, MutateOffline, MutateOnline, MutateFails
  <2>3. CASE NetDown("cut") \/ NetDown("off") \/ NetUp \/ Read \/ Probe \/ Reconnect \/ FlushStart \/ Crash \/ Login
    BY <2>3 DEF NetDown, NetUp, Read, Probe, Reconnect, FlushStart, Crash, Login
  <2>4. CASE Pick \/ Send \/ Succeed \/ Reject \/ NetworkFailure \/ FlushEnd
    BY <2>4 DEF Pick, Send, Succeed, Reject, NetworkFailure, FlushEnd
  <2>5. ASSUME NEW op \in Ops, Retry(op) \/ Dismiss(op) \/ RecoverStuck(op) PROVE UNCHANGED log
    BY <2>5 DEF Retry, Dismiss, RecoverStuck
  <2>6. ASSUME NEW o \in Orgs, SwitchOrg(o) PROVE UNCHANGED log
    BY <2>6 DEF SwitchOrg
  <2>7. CASE UNCHANGED vars
    BY <2>7 DEF vars
  <2>8. org \in Orgs
    BY DEF ClientOK
  <2> QED BY <2>1, <2>2, <2>3, <2>4, <2>5, <2>6, <2>7, <2>8 DEF Next, FlushStep
<1>2. CASE UNCHANGED log
  BY <1>2
<1>3. ASSUME NEW op \in Ops, NEW o \in Orgs, log' = Append(log, [op |-> op, org |-> o])
      PROVE  log' \in Seq([op : Ops, org : Orgs])
  <2>1. [op |-> op, org |-> o] \in [op : Ops, org : Orgs]
    OBVIOUS
  <2> QED BY <1>3, <2>1
<1> QED BY <1>1, <1>2, <1>3

LEMMA TypesInitially == ASSUME Init PROVE TypesOK
<1>1. ClientOK
  <2>1. net \in {"up", "cut", "off"} /\ session \in {"online", "grace"} /\ org \in Orgs /\ failures \in 0..1
    BY DEF Init
  <2>2. offline \in BOOLEAN /\ acted \in BOOLEAN /\ settling \in BOOLEAN /\ trigger \in BOOLEAN
    BY DEF Init
  <2> QED BY <2>1, <2>2, Zenon DEF ClientOK
<1>2. Sound(Fresh)
  BY <1>1, FreshSound DEF ClientOK
<1>3. StoreOK
  <2>1. DOMAIN stuck = {} /\ stamps \in Seq(Ops)
    BY DEF Init
  <2>2. queue \in [Ops -> Item] /\ \A op \in Ops : Sound(queue[op])
    BY <1>2 DEF Init, Sound
  <2> QED BY <2>1, <2>2 DEF StoreOK
<1>4. WorkOK
  <2>1. flush.step = "idle" /\ flush.todo = <<>> /\ flush.org \in Orgs /\ request = "none"
    BY DEF Init, NoFlush
  <2> QED BY <2>1 DEF WorkOK
<1>5. log \in Seq([op : Ops, org : Orgs])
  BY DEF Init
<1> QED BY <1>1, <1>3, <1>4, <1>5 DEF TypesOK

LEMMA TypesInvariant == Spec => []TypesOK
<1>1. IInv /\ TypesOK /\ [Next]_vars => TypesOK'
  BY ClientSteps, StoreSteps, WorkSteps, LogSteps DEF TypesOK
<1> QED BY <1>1, TypesInitially, QueueInvariance, PTL DEF Spec

\* The queue, the flush, the server's log and what the client believes keep their types, the
\* item in hand included; an item still to be sent has attempts left; a request is under way
\* exactly while the flush waits for its answer.
THEOREM QueueTypes == Spec => []TypeOK
<1>1. IInv /\ TypesOK => TypeOK
  <2> SUFFICES ASSUME IInv, TypesOK PROVE TypeOK
    OBVIOUS
  <2>1. {offline, acted, settling, trigger} \subseteq BOOLEAN
    BY Zenon DEF TypesOK, ClientOK
  <2>2. \A k \in DOMAIN log : log[k].op \in Ops /\ log[k].org \in Orgs
    <3> DEFINE S == [op : Ops, org : Orgs]
    <3>1. log \in Seq(S)
      BY DEF TypesOK
    <3>2. \A e \in S : e.op \in Ops /\ e.org \in Orgs
      OBVIOUS
    <3> HIDE DEF S
    <3>3. \A k \in DOMAIN log : log[k] \in S
      BY <3>1
    <3> QED BY <3>2, <3>3
  <2>3. request # "none" <=> flush.step = "wait"
    BY DEF TypesOK, WorkOK, IInv, FlushOK
  <2>4. /\ \A op \in Ops : queue[op].status \in {"pending", "syncing"} => queue[op].retries < MaxRetries
        /\ \A op \in DOMAIN stuck : stuck[op] \in Item
    BY DEF TypesOK, StoreOK, Sound
  <2>5. flush.step \in {"mark", "wait"} => flush.item \in Item /\ flush.todo # <<>>
    BY DEF TypesOK, WorkOK, Sound
  <2> QED BY <2>1, <2>2, <2>3, <2>4, <2>5 DEF TypesOK, ClientOK, StoreOK, WorkOK, TypeOK
<1> QED BY <1>1, TypesInvariant, QueueInvariance, PTL

-----------------------------------------------------------------------------
(* The order of replay.                                                    *)

Stamped(op) == \E j \in DOMAIN stamps : stamps[j] = op
Handled == replayed \cup dismissed

\* Whatever of its organisation was queued before op has been sent or dismissed, or is in S.
DueAfter(op, S) ==
    \A j \in DOMAIN stamps : stamps[j] = op =>
        \A i \in 1..(j - 1) : stamps[i] \in Handled \cup S \/ queue[stamps[i]].org # queue[op].org

\* A mutation is queued once, and what is not pending any more has been sent or dismissed.
StampsOK ==
    /\ \A i, j \in DOMAIN stamps : stamps[i] = stamps[j] => i = j
    /\ \A op \in Ops : Stamped(op) => queue[op].status # "none" /\ (queue[op].status = "pending" \/ op \in Handled)
StuckOK == \A op \in DOMAIN stuck : stuck[op].org = queue[op].org /\ queue[op].status # "none"
HandOK ==
    /\ flush.step \in {"mark", "wait"} => flush.item.org = queue[Current].org
    /\ flush.step = "wait" => Current \in replayed
\* Before each mutation the flush has still to send come all that it waits for.
TodoOK ==
    \A k \in DOMAIN flush.todo :
        Stamped(flush.todo[k]) /\ DueAfter(flush.todo[k], {flush.todo[m] : m \in 1..(k - 1)})
OrderOK == StampsOK /\ StuckOK /\ HandOK /\ TodoOK /\ \A op \in replayed : Stamped(op) /\ DueAfter(op, {})

\* What every step leaves as it is: who comes before whom, and in which organisation.
Keeps ==
    /\ \/ UNCHANGED stamps
       \/ \E op \in Ops : ~Stamped(op) /\ stamps' = Append(stamps, op) /\ queue'[op].status = "pending"
    /\ replayed \subseteq replayed' /\ dismissed \subseteq dismissed'
    /\ \A op \in Ops : Stamped(op) =>
          /\ queue'[op].org = queue[op].org /\ queue'[op].status # "none"
          /\ queue'[op].status = "pending" \/ op \in Handled'

LEMMA StampsGrow ==
    ASSUME stamps \in Seq(Ops), Keeps
    PROVE  /\ stamps' \in Seq(Ops)
           /\ \A x : Stamped(x) => x \in Ops
           /\ \A x : Stamped(x)' => Stamped(x) \/ (x \in Ops /\ queue'[x].status = "pending")
           /\ \A j \in DOMAIN stamps : j \in DOMAIN stamps' /\ stamps'[j] = stamps[j]
           /\ \A j \in DOMAIN stamps' : Stamped(stamps'[j]) => j \in DOMAIN stamps
           /\ \A j \in DOMAIN stamps' : ~Stamped(stamps'[j]) => j = Len(stamps')
<1>1. \A x : Stamped(x) => x \in Ops
  BY DEF Stamped
<1>2. CASE UNCHANGED stamps
  BY <1>1, <1>2 DEF Stamped
<1>3. ASSUME NEW op \in Ops, ~Stamped(op), stamps' = Append(stamps, op), queue'[op].status = "pending"
      PROVE  /\ stamps' \in Seq(Ops)
             /\ \A x : Stamped(x)' => Stamped(x) \/ (x \in Ops /\ queue'[x].status = "pending")
             /\ \A j \in DOMAIN stamps : j \in DOMAIN stamps' /\ stamps'[j] = stamps[j]
             /\ \A j \in DOMAIN stamps' : Stamped(stamps'[j]) => j \in DOMAIN stamps
             /\ \A j \in DOMAIN stamps' : ~Stamped(stamps'[j]) => j = Len(stamps')
  <2>1. /\ stamps' \in Seq(Ops) /\ DOMAIN stamps = 1..Len(stamps) /\ Len(stamps) \in Nat
        /\ Len(stamps') = Len(stamps) + 1 /\ DOMAIN stamps' = 1..(Len(stamps) + 1)
        /\ stamps'[Len(stamps) + 1] = op /\ \A j \in 1..Len(stamps) : stamps'[j] = stamps[j]
    BY <1>3
  <2>2. \A j \in DOMAIN stamps' : j \in DOMAIN stamps \/ (j = Len(stamps') /\ stamps'[j] = op)
    BY <2>1
  <2>3. \A j \in DOMAIN stamps : j \in DOMAIN stamps' /\ stamps'[j] = stamps[j]
    BY <2>1
  <2>4. \A j \in DOMAIN stamps : Stamped(stamps'[j])
    BY <2>3 DEF Stamped
  <2> QED BY <1>3, <2>1, <2>2, <2>3, <2>4 DEF Stamped
<1> QED BY <1>1, <1>2, <1>3 DEF Keeps

LEMMA OrderKept ==
    ASSUME stamps \in Seq(Ops), StampsOK, Keeps
    PROVE  /\ StampsOK'
           /\ \A x, S, T : Stamped(x) /\ DueAfter(x, S) /\ S \subseteq T \cup Handled' => (Stamped(x) /\ DueAfter(x, T))'
<1>1. StampsOK'
  <2>1. ASSUME NEW i \in DOMAIN stamps', NEW j \in DOMAIN stamps', stamps'[i] = stamps'[j] PROVE i = j
    <3>1. CASE Stamped(stamps'[i])
      BY <2>1, <3>1, StampsGrow DEF StampsOK
    <3>2. CASE ~Stamped(stamps'[i])
      BY <2>1, <3>2, StampsGrow
    <3> QED BY <3>1, <3>2
  <2>2. \A op \in Ops : Stamped(op)' => queue'[op].status # "none" /\ (queue'[op].status = "pending" \/ op \in Handled')
    BY StampsGrow DEF Keeps
  <2> QED BY <2>1, <2>2 DEF StampsOK
<1>2. ASSUME NEW x, NEW S, NEW T, Stamped(x), DueAfter(x, S), S \subseteq T \cup Handled'
      PROVE  (Stamped(x) /\ DueAfter(x, T))'
  <2>1. Stamped(x)'
    BY <1>2, StampsGrow DEF Stamped
  <2>2. ASSUME NEW j \in DOMAIN stamps', stamps'[j] = x, NEW i \in 1..(j - 1)
        PROVE  stamps'[i] \in Handled' \cup T \/ queue'[stamps'[i]].org # queue'[x].org
    <3>1. j \in DOMAIN stamps /\ stamps[j] = x
      BY <1>2, <2>2, StampsGrow
    <3>2. i \in DOMAIN stamps
      BY <2>2, <3>1
    <3>3. stamps'[i] = stamps[i] /\ Stamped(stamps[i]) /\ stamps[i] \in Ops /\ x \in Ops
      BY <1>2, <3>2, StampsGrow DEF Stamped
    <3>4. stamps[i] \in Handled \cup S \/ queue[stamps[i]].org # queue[x].org
      BY <1>2, <2>2, <3>1 DEF DueAfter
    <3>5. Handled \subseteq Handled'
      BY DEF Keeps, Handled
    <3>6. queue'[stamps[i]].org = queue[stamps[i]].org /\ queue'[x].org = queue[x].org
      BY <1>2, <3>3 DEF Keeps
    <3> QED BY <1>2, <3>3, <3>4, <3>5, <3>6
  <2> QED BY <2>1, <2>2 DEF DueAfter
<1> QED BY <1>1, <1>2

\* The mutation in hand is the first of those still to be sent.
LEMMA CurrentStamped ==
    ASSUME WorkOK, TodoOK, flush.todo # <<>>
    PROVE  Current = flush.todo[1] /\ Stamped(Current) /\ DueAfter(Current, {}) /\ Current \in Ops
<1>1. flush.todo \in Seq(Ops) /\ 1 \in DOMAIN flush.todo
  BY DEF WorkOK
<1>2. Current = flush.todo[1] /\ Current \in Ops
  BY <1>1 DEF Current
<1>3. {flush.todo[m] : m \in 1..(1 - 1)} = {}
  OBVIOUS
<1>4. DueAfter(flush.todo[1], {flush.todo[m] : m \in 1..(1 - 1)}) /\ Stamped(flush.todo[1])
  BY <1>1 DEF TodoOK
<1> QED BY <1>2, <1>3, <1>4

LEMMA ReplayedKept ==
    ASSUME stamps \in Seq(Ops), OrderOK, Keeps, UNCHANGED replayed
    PROVE  \A op \in replayed' : (Stamped(op) /\ DueAfter(op, {}))'
<1> SUFFICES ASSUME NEW op \in replayed PROVE (Stamped(op) /\ DueAfter(op, {}))'
  OBVIOUS
<1>1. Stamped(op) /\ DueAfter(op, {}) /\ {} \subseteq {} \cup Handled'
  BY DEF OrderOK
<1> QED BY <1>1, OrderKept DEF OrderOK

\* A step of the user, the network or the server: the flush goes on as it was.
LEMMA OrderBeside ==
    ASSUME StoreOK, WorkOK, OrderOK, Keeps, StuckOK', UNCHANGED <<flush, replayed>> PROVE OrderOK'
<1>1. stamps \in Seq(Ops)
  BY DEF StoreOK
<1>2. HandOK'
  <2>1. UNCHANGED Current
    BY DEF Current
  <2>2. flush.step \in {"mark", "wait"} => queue'[Current].org = queue[Current].org
    BY CurrentStamped DEF WorkOK, OrderOK, Keeps
  <2> QED BY <2>1, <2>2 DEF OrderOK, HandOK
<1>3. TodoOK'
  <2> SUFFICES ASSUME NEW k \in DOMAIN flush.todo
               PROVE  (Stamped(flush.todo[k]) /\ DueAfter(flush.todo[k], {flush.todo[m] : m \in 1..(k - 1)}))'
    BY DEF TodoOK
  <2>1. PICK x, S : x = flush.todo[k] /\ S = {flush.todo[m] : m \in 1..(k - 1)}
    OBVIOUS
  <2>2. Stamped(x) /\ DueAfter(x, S) /\ S \subseteq S \cup Handled'
    BY <2>1 DEF OrderOK, TodoOK
  <2>3. (Stamped(x) /\ DueAfter(x, S))'
    BY <1>1, <2>2, OrderKept DEF OrderOK
  <2>4. x = flush'.todo[k] /\ S = {flush'.todo[m] : m \in 1..(k - 1)}
    BY <2>1
  <2> QED BY <2>3, <2>4
<1> QED BY <1>1, <1>2, <1>3, OrderKept, ReplayedKept DEF OrderOK

LEMMA OrderStops ==
    ASSUME StoreOK, OrderOK, Keeps, StuckOK', UNCHANGED replayed, flush'.step = "idle", flush'.todo = <<>> PROVE OrderOK'
<1>1. stamps \in Seq(Ops)
  BY DEF StoreOK
<1>2. TodoOK' /\ HandOK'
  BY DEF TodoOK, HandOK
<1> QED BY <1>1, <1>2, OrderKept, ReplayedKept DEF OrderOK

\* The flush leaves the mutation in hand, which has been sent or dismissed.
LEMMA OrderAdvances ==
    ASSUME StoreOK, WorkOK, OrderOK, Keeps, StuckOK', UNCHANGED replayed, flush.todo # <<>>,
           flush'.step = "pick", flush'.todo = Tail(flush.todo), Current \in Handled'
    PROVE  OrderOK'
<1>1. stamps \in Seq(Ops) /\ flush.todo \in Seq(Ops)
  BY DEF StoreOK, WorkOK
<1>2. TodoOK'
  <2> SUFFICES ASSUME NEW k \in DOMAIN flush'.todo
               PROVE  (Stamped(flush.todo[k]) /\ DueAfter(flush.todo[k], {flush.todo[m] : m \in 1..(k - 1)}))'
    BY DEF TodoOK
  <2>1. /\ k \in Nat /\ k >= 1 /\ k + 1 \in DOMAIN flush.todo /\ flush'.todo[k] = flush.todo[k + 1]
        /\ \A m \in 1..(k - 1) : flush'.todo[m] = flush.todo[m + 1]
    BY <1>1
  <2>2. PICK x, S, T : /\ x = flush.todo[k + 1] /\ S = {flush.todo[m] : m \in 1..((k + 1) - 1)}
                       /\ T = {flush'.todo[m] : m \in 1..(k - 1)}
    OBVIOUS
  <2>3. S \subseteq T \cup Handled'
    <3>1. ASSUME NEW m \in 1..((k + 1) - 1) PROVE flush.todo[m] \in T \cup Handled'
      <4>1. CASE m = 1
        BY <4>1, CurrentStamped DEF OrderOK
      <4>2. CASE m # 1
        <5>1. m - 1 \in 1..(k - 1) /\ (m - 1) + 1 = m
          BY <2>1, <4>2
        <5> QED BY <2>1, <2>2, <5>1
      <4> QED BY <4>1, <4>2
    <3> QED BY <2>2, <3>1
  <2>4. Stamped(x) /\ DueAfter(x, S)
    BY <2>1, <2>2 DEF OrderOK, TodoOK
  <2>5. (Stamped(x) /\ DueAfter(x, T))'
    BY <1>1, <2>3, <2>4, OrderKept DEF OrderOK
  <2> QED BY <2>1, <2>2, <2>5
<1>3. HandOK'
  BY DEF HandOK
<1> QED BY <1>1, <1>2, <1>3, OrderKept, ReplayedKept DEF OrderOK

\* One item is written, in the organisation it had.
LEMMA WriteKeeps ==
    ASSUME StoreOK, OrderOK, NEW c \in Ops, NEW e, queue' = [queue EXCEPT ![c] = e], e.org = queue[c].org,
           e.status # "none", e.status = "pending" \/ c \in Handled', UNCHANGED stamps,
           replayed \subseteq replayed', dismissed \subseteq dismissed',
           \A op \in DOMAIN stuck' : op \in DOMAIN stuck /\ stuck'[op] = stuck[op]
    PROVE  Keeps /\ StuckOK'
<1>1. queue'[c] = e /\ \A op \in Ops : op # c => queue'[op] = queue[op]
  BY DEF StoreOK
<1>2. Handled \subseteq Handled'
  BY DEF Handled
<1>3. Keeps
  BY <1>1, <1>2 DEF Keeps, OrderOK, StampsOK
<1>4. StuckOK'
  BY <1>1 DEF OrderOK, StuckOK, StoreOK
<1> QED BY <1>3, <1>4

LEMMA QuietKeeps ==
    ASSUME OrderOK, UNCHANGED <<queue, stamps, replayed, dismissed>> PROVE Keeps /\ (UNCHANGED stuck => StuckOK')
BY DEF Keeps, OrderOK, StampsOK, StuckOK, Handled

LEMMA OrderMutate == ASSUME IInv, TypesOK, OrderOK, NEW op \in Ops, Mutate(op) PROVE OrderOK'
<1> DEFINE queued == [status |-> "pending", retries |-> 0, resolved |-> KnowsRealId(op), org |-> org]
           gone == [Fresh EXCEPT !.status = "gone", !.org = org]
<1>1. /\ queue[op].status = "none" /\ UNCHANGED <<flush, replayed, dismissed, stuck>>
      /\ \/ queue' = [queue EXCEPT ![op] = queued] /\ stamps' = Append(stamps, op)
         \/ queue' = [queue EXCEPT ![op] = gone] /\ stamps' = stamps
  BY DEF Mutate, MutateOffline, MutateOnline, MutateFails, MayMutate, Enqueue, history
<1>2. ~Stamped(op) /\ op \notin DOMAIN stuck
  BY <1>1 DEF OrderOK, StampsOK, StuckOK
<1>3. queue \in [Ops -> Item] /\ queued.status = "pending" /\ Handled' = Handled /\ StoreOK /\ WorkOK
  BY <1>1 DEF TypesOK, StoreOK, Handled
<1> HIDE DEF queued, gone
<1>4. \A x \in Ops : x # op => queue'[x] = queue[x]
  BY <1>1, <1>3
<1>5. stamps' = Append(stamps, op) => queue'[op].status = "pending"
  <2>1. CASE queue' = [queue EXCEPT ![op] = queued]
    BY <1>3, <2>1
  <2>2. CASE stamps' = stamps
    <3>1. stamps \in Seq(Ops)
      BY <1>3 DEF StoreOK
    <3>2. stamps # Append(stamps, op)
      BY <3>1
    <3> QED BY <2>2, <3>2
  <2> QED BY <1>1, <2>1, <2>2
<1>6. Keeps
  BY <1>1, <1>2, <1>3, <1>4, <1>5 DEF Keeps, OrderOK, StampsOK
<1>7. StuckOK'
  BY <1>1, <1>2, <1>3, <1>4 DEF OrderOK, StuckOK, StoreOK
<1> QED BY <1>1, <1>3, <1>6, <1>7, OrderBeside

LEMMA OrderFlushStart == ASSUME IInv, TypesOK, OrderOK, FlushStart PROVE OrderOK'
<1>1. UNCHANGED <<queue, stamps, replayed, dismissed, stuck>> /\ StoreOK /\ WorkOK
  BY DEF FlushStart, store, history, TypesOK
<1>2. Keeps /\ StuckOK'
  BY <1>1, QuietKeeps
<1>3. CASE UNCHANGED flush
  BY <1>1, <1>2, <1>3, OrderBeside
<1>4. CASE flush' = [step |-> "pick", todo |-> Snapshot, item |-> <<>>, org |-> org]
  <2>1. flush'.step = "pick" /\ flush'.todo = Snapshot
    BY <1>4
  <2>2. /\ Snapshot \in Seq(Ops) /\ Follows(Snapshot, stamps, ToFlush, Len(stamps)) /\ stamps \in Seq(Ops)
        /\ DOMAIN stamps = 1..Len(stamps) /\ Len(stamps) \in Nat
    BY <1>1, InOrderIs DEF Snapshot, StoreOK
  <2> HIDE DEF Snapshot
  <2>3. ASSUME NEW k \in DOMAIN Snapshot, NEW S, S = {Snapshot[m] : m \in 1..(k - 1)}
        PROVE  Stamped(Snapshot[k]) /\ DueAfter(Snapshot[k], S)
    <3>1. k \in 1..Len(Snapshot)
      BY <2>2, <2>3
    <3>2. PICK j \in 1..Len(stamps) :
             /\ Snapshot[k] = stamps[j] /\ stamps[j] \in ToFlush
             /\ \A i \in 1..(j - 1) : stamps[i] \in ToFlush => \E m \in 1..(k - 1) : Snapshot[m] = stamps[i]
      BY <2>2, <3>1 DEF Follows
    <3>3. Stamped(Snapshot[k])
      BY <2>2, <3>2 DEF Stamped
    <3>4. ASSUME NEW h \in DOMAIN stamps, stamps[h] = Snapshot[k], NEW i \in 1..(h - 1)
          PROVE  stamps[i] \in Handled \cup S \/ queue[stamps[i]].org # queue[Snapshot[k]].org
      <4>1. h = j
        BY <2>2, <3>2, <3>4 DEF OrderOK, StampsOK
      <4>2. i \in DOMAIN stamps /\ stamps[i] \in Ops /\ Stamped(stamps[i])
        BY <2>2, <3>2, <3>4, <4>1 DEF Stamped
      <4>3. CASE stamps[i] \in ToFlush
        BY <2>3, <3>2, <4>1, <4>3
      <4>4. CASE stamps[i] \notin ToFlush
        <5>1. queue[stamps[i]].status = "pending" \/ stamps[i] \in Handled
          BY <4>2 DEF OrderOK, StampsOK
        <5> QED BY <3>2, <4>2, <4>4, <5>1 DEF ToFlush, Pending
      <4> QED BY <4>3, <4>4
    <3> QED BY <3>3, <3>4 DEF DueAfter
  <2>4. TodoOK'
    <3> SUFFICES ASSUME NEW k \in DOMAIN flush'.todo
                 PROVE  (Stamped(flush.todo[k]) /\ DueAfter(flush.todo[k], {flush.todo[m] : m \in 1..(k - 1)}))'
      BY DEF TodoOK
    <3>1. PICK x, S : x = Snapshot[k] /\ S = {Snapshot[m] : m \in 1..(k - 1)}
      OBVIOUS
    <3>2. Stamped(x) /\ DueAfter(x, S) /\ S \subseteq S \cup Handled'
      BY <2>1, <2>3, <3>1
    <3>3. (Stamped(x) /\ DueAfter(x, S))'
      BY <1>2, <2>2, <3>2, OrderKept DEF OrderOK
    <3>4. x = flush'.todo[k] /\ S = {flush'.todo[m] : m \in 1..(k - 1)}
      BY <2>1, <3>1
    <3> QED BY <3>3, <3>4
  <2>5. HandOK'
    BY <2>1 DEF HandOK
  <2> QED BY <1>1, <1>2, <2>2, <2>4, <2>5, OrderKept, ReplayedKept DEF OrderOK
<1> QED BY <1>3, <1>4 DEF FlushStart

LEMMA OrderPick == ASSUME IInv, TypesOK, OrderOK, Pick PROVE OrderOK'
<1>1. /\ UNCHANGED <<queue, stamps, replayed, dismissed, stuck, request>> /\ StoreOK /\ WorkOK
      /\ flush.step = "pick" /\ flush.todo # <<>> /\ request = "none"
  BY DEF Pick, store, history, TypesOK, IInv, FlushOK
<1>2. Keeps /\ StuckOK'
  BY <1>1, QuietKeeps
<1>3. Stamped(Current) /\ Current \in Ops
  BY <1>1, CurrentStamped DEF OrderOK
<1>4. CASE queue[Current].status # "pending" /\ Advance
  <2>1. flush'.step = "pick" /\ flush'.todo = Tail(flush.todo)
    BY <1>1, <1>4, WorkAdvances
  <2>2. Current \in Handled'
    BY <1>1, <1>3, <1>4 DEF OrderOK, StampsOK, Handled
  <2> QED BY <1>1, <1>2, <2>1, <2>2, OrderAdvances
<1>5. CASE queue[Current].status = "pending" /\ flush' = [flush EXCEPT !.step = "mark", !.item = queue[Current]]
  <2>1. flush' = [step |-> "mark", todo |-> flush.todo, item |-> queue[Current], org |-> flush.org]
    BY <1>5 DEF IInv, FlushOK
  <2>2. flush'.step = "mark" /\ flush'.todo = flush.todo /\ flush'.item = queue[Current]
    BY <2>1
  <2>3. HandOK'
    BY <1>1, <2>2 DEF HandOK, Current
  <2>4. TodoOK'
    BY <1>1, <2>2 DEF OrderOK, TodoOK, Stamped, DueAfter, Handled
  <2>5. stamps \in Seq(Ops)
    BY <1>1 DEF StoreOK
  <2> QED BY <1>1, <1>2, <2>3, <2>4, <2>5, OrderKept, ReplayedKept DEF OrderOK
<1> QED BY <1>4, <1>5 DEF Pick

LEMMA OrderSend == ASSUME IInv, TypesOK, OrderOK, Send PROVE OrderOK'
<1> DEFINE e == [flush.item EXCEPT !.status = "syncing"]
<1>1. /\ flush.step = "mark" /\ queue' = [queue EXCEPT ![Current] = e] /\ UNCHANGED <<stamps, dismissed, stuck>>
      /\ flush' = [flush EXCEPT !.step = "wait", !.org = org] /\ replayed' = replayed \cup {Current}
      /\ StoreOK /\ WorkOK /\ stamps \in Seq(Ops) /\ flush.todo # <<>>
  BY DEF Send, Put, TypesOK, StoreOK, WorkOK
<1>2. flush.item \in Item /\ flush.item.org = queue[Current].org
  BY <1>1, InHand DEF OrderOK, HandOK
<1>3. e.status = "syncing" /\ e.org = queue[Current].org
  BY <1>2 DEF Item
<1> HIDE DEF e
<1>4. Current \in Ops /\ Stamped(Current) /\ DueAfter(Current, {}) /\ Current = flush.todo[1]
  BY <1>1, CurrentStamped DEF OrderOK
<1>5. Current \in Handled' /\ Handled \subseteq Handled'
  BY <1>1 DEF Handled
<1>6. Keeps /\ StuckOK'
  BY <1>1, <1>3, <1>4, <1>5, WriteKeeps
<1>7. flush' = [step |-> "wait", todo |-> flush.todo, item |-> flush.item, org |-> org]
  BY <1>1 DEF IInv, FlushOK
<1>8. flush'.step = "wait" /\ flush'.todo = flush.todo /\ flush'.item = flush.item
  BY <1>7
<1>9. HandOK'
  <2>1. Current' = Current
    BY <1>8 DEF Current
  <2>2. queue'[Current].org = queue[Current].org
    BY <1>4, <1>6 DEF Keeps
  <2> QED BY <1>1, <1>2, <1>8, <2>1, <2>2 DEF HandOK
<1>10. TodoOK'
  <2> SUFFICES ASSUME NEW k \in DOMAIN flush'.todo
               PROVE  (Stamped(flush.todo[k]) /\ DueAfter(flush.todo[k], {flush.todo[m] : m \in 1..(k - 1)}))'
    BY DEF TodoOK
  <2>1. PICK x, S : x = flush.todo[k] /\ S = {flush.todo[m] : m \in 1..(k - 1)}
    OBVIOUS
  <2>2. Stamped(x) /\ DueAfter(x, S) /\ S \subseteq S \cup Handled'
    BY <1>8, <2>1 DEF OrderOK, TodoOK
  <2>3. (Stamped(x) /\ DueAfter(x, S))'
    BY <1>1, <1>6, <2>2, OrderKept DEF OrderOK
  <2>4. x = flush'.todo[k] /\ S = {flush'.todo[m] : m \in 1..(k - 1)}
    BY <1>8, <2>1
  <2> QED BY <2>3, <2>4
<1>11. ASSUME NEW op \in replayed' PROVE (Stamped(op) /\ DueAfter(op, {}))'
  <2>1. Stamped(op) /\ DueAfter(op, {}) /\ {} \subseteq {} \cup Handled'
    BY <1>1, <1>4, <1>11 DEF OrderOK
  <2> QED BY <1>1, <1>6, <2>1, OrderKept DEF OrderOK
<1> QED BY <1>1, <1>6, <1>9, <1>10, <1>11, OrderKept DEF OrderOK

\* The answer, or its loss.
LEMMA OrderAnswered == ASSUME IInv, TypesOK, OrderOK, Succeed \/ Reject \/ NetworkFailure PROVE OrderOK'
<1>1. /\ flush.step = "wait" /\ flush.todo # <<>> /\ StoreOK /\ WorkOK
      /\ UNCHANGED <<stamps, stuck, replayed, dismissed>>
  BY DEF Succeed, Reject, NetworkFailure, IInv, FlushOK, TypesOK, WorkOK, history
<1>2. Current \in Ops /\ Current \in replayed /\ flush.item.org = queue[Current].org /\ Stamped(Current)
  BY <1>1, CurrentStamped DEF OrderOK, HandOK
<1>3. Sound(flush.item) /\ flush.item.status = "pending" /\ flush.item \in Item /\ Current \in Handled'
  BY <1>1, <1>2, InHand DEF Handled
<1>4. CASE Succeed
  <2> DEFINE q == RewriteTempId(Current, queue)
  <2>1. queue' = [q EXCEPT ![Current].status = "gone"] /\ Advance /\ request' = "none"
    BY <1>4 DEF Succeed
  <2>2. /\ q \in [Ops -> Item]
        /\ \A op \in Ops : q[op].status = queue[op].status /\ q[op].org = queue[op].org
    BY <1>1, RewriteSound
  <2> HIDE DEF q
  <2>3. /\ queue'[Current].status = "gone" /\ queue'[Current].org = queue[Current].org
        /\ \A op \in Ops : op # Current => queue'[op] = q[op]
    BY <1>2, <2>1, <2>2 DEF Item
  <2>4. Keeps
    BY <1>1, <1>3, <2>2, <2>3 DEF Keeps, OrderOK, StampsOK, Handled
  <2>5. StuckOK'
    BY <1>1, <2>2, <2>3 DEF OrderOK, StuckOK, StoreOK
  <2>6. flush'.step = "pick" /\ flush'.todo = Tail(flush.todo)
    BY <1>1, <2>1, WorkAdvances
  <2> QED BY <1>1, <1>3, <2>4, <2>5, <2>6, OrderAdvances
<1>5. CASE Reject
  <2>1. queue' = [queue EXCEPT ![Current] = Rejected(flush.item)] /\ Advance /\ request' = "none"
    BY <1>5 DEF Reject, Put
  <2>2. Rejected(flush.item).org = queue[Current].org /\ Rejected(flush.item).status # "none"
    BY <1>2, <1>3, RejectedSound
  <2>3. Keeps /\ StuckOK'
    BY <1>1, <1>2, <1>3, <2>1, <2>2, WriteKeeps
  <2>4. flush'.step = "pick" /\ flush'.todo = Tail(flush.todo)
    BY <1>1, <2>1, WorkAdvances
  <2> QED BY <1>1, <1>3, <2>3, <2>4, OrderAdvances
<1>6. CASE NetworkFailure
  <2>1. queue' = [queue EXCEPT ![Current] = flush.item] /\ flush' = NoFlush
    BY <1>6 DEF NetworkFailure, Put
  <2>2. Keeps /\ StuckOK'
    BY <1>1, <1>2, <1>3, <2>1, WriteKeeps
  <2>3. flush'.step = "idle" /\ flush'.todo = <<>>
    BY <2>1 DEF NoFlush
  <2> QED BY <1>1, <2>2, <2>3, OrderStops
<1> QED BY <1>4, <1>5, <1>6

\* What the user does to an item, and what recoverStuck writes back.
LEMMA OrderUser ==
    ASSUME IInv, TypesOK, OrderOK, NEW op \in Ops, Retry(op) \/ Dismiss(op) \/ RecoverStuck(op) PROVE OrderOK'
<1>1. StoreOK /\ WorkOK /\ queue[op] \in Item /\ UNCHANGED <<stamps, flush, replayed>>
  BY DEF TypesOK, StoreOK, Retry, Dismiss, RecoverStuck, history
<1>2. CASE Retry(op)
  <2> DEFINE e == [queue[op] EXCEPT !.status = "pending", !.retries = 0]
  <2>1. queue' = [queue EXCEPT ![op] = e] /\ UNCHANGED <<stuck, dismissed>>
    BY <1>2 DEF Retry, Put, history
  <2>2. e.status = "pending" /\ e.org = queue[op].org
    BY <1>1 DEF Item
  <2> HIDE DEF e
  <2> QED BY <1>1, <2>1, <2>2, WriteKeeps, OrderBeside
<1>3. CASE Dismiss(op)
  <2> DEFINE e == [queue[op] EXCEPT !.status = "gone"]
  <2>1. queue' = [queue EXCEPT ![op] = e] /\ UNCHANGED stuck /\ dismissed' = dismissed \cup {op}
    BY <1>3 DEF Dismiss, Put
  <2>2. e.status = "gone" /\ e.org = queue[op].org
    BY <1>1 DEF Item
  <2>3. op \in Handled'
    BY <2>1 DEF Handled
  <2> HIDE DEF e
  <2> QED BY <1>1, <2>1, <2>2, <2>3, WriteKeeps, OrderBeside
<1>4. CASE RecoverStuck(op)
  <2> DEFINE e == [stuck[op] EXCEPT !.status = "pending"]
  <2>1. /\ op \in DOMAIN stuck /\ queue' = [queue EXCEPT ![op] = e] /\ UNCHANGED dismissed
        /\ stuck' = [o \in DOMAIN stuck \ {op} |-> stuck[o]]
    BY <1>4 DEF RecoverStuck, Put, history
  <2>2. stuck[op] \in Item /\ stuck[op].org = queue[op].org
    BY <1>1, <2>1 DEF StoreOK, Sound, OrderOK, StuckOK
  <2>3. e.status = "pending" /\ e.org = queue[op].org
    BY <2>2 DEF Item
  <2>4. \A o \in DOMAIN stuck' : o \in DOMAIN stuck /\ stuck'[o] = stuck[o]
    BY <2>1
  <2> HIDE DEF e
  <2> QED BY <1>1, <2>1, <2>3, <2>4, WriteKeeps, OrderBeside
<1> QED BY <1>2, <1>3, <1>4

LEMMA OrderMount == ASSUME IInv, TypesOK, OrderOK, Crash \/ Login PROVE OrderOK'
<1>1. /\ StoreOK /\ WorkOK /\ UNCHANGED <<queue, stamps, replayed, dismissed>>
      /\ stuck' = [op \in {o \in Ops : queue[o].status = "syncing"} |-> queue[op]]
      /\ UNCHANGED flush \/ flush' = NoFlush
  BY DEF TypesOK, Crash, Login, Mount, store
<1>2. Keeps /\ StuckOK'
  <2>1. StuckOK'
    BY <1>1 DEF StuckOK
  <2> QED BY <1>1, <2>1, QuietKeeps
<1>3. CASE UNCHANGED flush
  BY <1>1, <1>2, <1>3, OrderBeside
<1>4. CASE flush' = NoFlush
  <2>1. flush'.step = "idle" /\ flush'.todo = <<>>
    BY <1>4 DEF NoFlush
  <2> QED BY <1>1, <1>2, <2>1, OrderStops
<1> QED BY <1>1, <1>3, <1>4

LEMMA OrderSteps == ASSUME IInv, TypesOK, OrderOK, [Next]_vars PROVE OrderOK'
<1>1. StoreOK /\ WorkOK
  BY DEF TypesOK
<1>2. ASSUME UNCHANGED <<queue, stamps, replayed, dismissed, stuck, flush>> PROVE OrderOK'
  BY <1>1, <1>2, QuietKeeps, OrderBeside
<1>3. CASE NetDown("cut") \/ NetDown("off") \/ NetUp \/ Read \/ Probe \/ Reconnect \/ Serve
  BY <1>2, <1>3 DEF NetDown, NetUp, Read, Probe, Reconnect, Serve, store, history
<1>4. CASE FlushEnd
  <2>1. UNCHANGED <<queue, stamps, replayed, dismissed, stuck>> /\ flush'.step = "idle" /\ flush'.todo = <<>>
    BY <1>4 DEF FlushEnd, NoFlush, store, history
  <2> QED BY <1>1, <2>1, QuietKeeps, OrderStops
<1>5. ASSUME NEW o \in Orgs, SwitchOrg(o) PROVE OrderOK'
  BY <1>2, <1>5 DEF SwitchOrg, store, history
<1>6. CASE UNCHANGED vars
  BY <1>2, <1>6 DEF vars, store, history
<1> QED BY <1>3, <1>4, <1>5, <1>6, OrderMutate, OrderFlushStart, OrderPick, OrderSend, OrderAnswered, OrderUser,
           OrderMount DEF Next, FlushStep

LEMMA OrderInitially == ASSUME Init PROVE OrderOK
<1>1. stamps = <<>> /\ DOMAIN stuck = {} /\ replayed = {} /\ DOMAIN stamps = {}
  BY DEF Init
<1>2. flush.step = "idle" /\ flush.todo = <<>> /\ DOMAIN flush.todo = {}
  BY DEF Init, NoFlush
<1> QED BY <1>1, <1>2 DEF OrderOK, StampsOK, StuckOK, HandOK, TodoOK, Stamped

\* Replay is chronological: a flush sends a mutation only after every earlier one of the same
\* organisation has been sent at least once or dismissed, however often flushes stop, restart
\* and skip what has changed since they read the queue.
THEOREM Chronological == Spec => []AttemptedInOrder
<1>1. OrderOK => AttemptedInOrder
  <2> SUFFICES ASSUME OrderOK, NEW j \in DOMAIN stamps, stamps[j] \in replayed, NEW i \in 1..(j - 1)
               PROVE  stamps[i] \in replayed \cup dismissed \/ queue[stamps[i]].org # queue[stamps[j]].org
    BY DEF AttemptedInOrder
  <2>1. DueAfter(stamps[j], {})
    BY DEF OrderOK
  <2> QED BY <2>1 DEF DueAfter, Handled
<1>2. IInv /\ TypesOK /\ OrderOK /\ [Next]_vars => OrderOK'
  BY OrderSteps
<1> QED BY <1>1, <1>2, OrderInitially, TypesInvariant, QueueInvariance, PTL DEF Spec
=============================================================================
