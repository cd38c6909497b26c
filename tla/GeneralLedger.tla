---------------------------- MODULE GeneralLedger ----------------------------
(***************************************************************************)
(* Journal entries (src/backend/apps/accounting): entries people write,    *)
(* edit, approve and post, entries the program posts for documents, their  *)
(* reversals, and the locks of financial months.                           *)
(*                                                                         *)
(* A manual request reads the entry, then JournalEntry.save looks at the   *)
(* status in the database, then it writes; nothing is locked in between.   *)
(* post_journal_entry looks for the lock of the month, then for an entry   *)
(* of the same source, then inserts; the unique index has the last word.   *)
(* Amounts are abstracted: `lines` only says which request wrote them.     *)
(***************************************************************************)
EXTENDS Integers, FiniteSets

CONSTANTS
    Users,       \* each runs one request at a time
    Entries,     \* rows of JournalEntry
    Months,      \* financial months
    Docs,        \* documents the program posts
    DocMonth,    \* the month each document is dated in
    Today,       \* the month reversals are dated in
    MaxRequests  \* bound: requests about journal entries

ASSUME LedgerAssumption ==
    /\ DocMonth \in [Docs -> Months] /\ Today \in Months /\ MaxRequests \in Nat

Manual == {"update", "destroy", "post", "submit", "approve", "approve and post", "reject"}
Sources == {<<"none">>} \cup {<<"document", d>> : d \in Docs} \cup {<<"reversal", e>> : e \in Entries}

VARIABLES
    entry,    \* JournalEntry: status, approval, month, source, deleted
    lines,    \* the requests that wrote the lines an entry has
    requests, \* how many requests there have been
    locked,   \* FinancialPeriod.is_locked
    grants,   \* active posting grants: user and month
    gl,       \* gl_post_status of the documents
    work,     \* what each user's request is in the middle of
    lapses    \* history: the ways around a rule that have been used

vars == <<entry, lines, requests, locked, grants, gl, work, lapses>>

Idle == [step |-> "idle"]
Unused == [status |-> "none", approval |-> "none", month |-> Today, source |-> <<"none">>, deleted |-> FALSE]

Init ==
    /\ entry = [e \in Entries |-> Unused] /\ lines = [e \in Entries |-> {}] /\ requests = 0
    /\ locked = [m \in Months |-> FALSE] /\ grants = {}
    /\ gl = [d \in Docs |-> "pending"] /\ work = [u \in Users |-> Idle] /\ lapses = {}

Used == {e \in Entries : entry[e].status # "none"}
Live == {e \in Used : ~entry[e].deleted}
Posted == {e \in Live : entry[e].status = "posted"}
PostedIn(m) == {e \in Posted : entry[e].month = m}
SourcedBy(s) == {e \in Used : entry[e].source = s}

At(u, step) == work[u].step = step
Goto(u, new) == work' = [work EXCEPT ![u] = new]
Finished(u) == Goto(u, Idle)
Count == requests < MaxRequests /\ requests' = requests + 1
Lapse(cond, name) == IF cond THEN {name} ELSE {}

\* A new row with one request's lines.  unique_journal_source also counts deleted rows.
Unique_unchecked(source) == TRUE
Unique(source) == source = <<"none">> \/ SourcedBy(source) = {}
Create(request, status, month, source) ==
    /\ Unique(source)
    /\ LET e == CHOOSE x \in Entries : x \notin Used
       IN /\ entry' = [entry EXCEPT ![e] = [Unused EXCEPT !.status = status, !.month = month, !.source = source]]
          /\ lines' = [lines EXCEPT ![e] = {request}]

-----------------------------------------------------------------------------
(* Entries people write: JournalEntryViewSet.                              *)

\* create, and each accepted row of import_entries.
CreateDraft(m) ==
    /\ Used # Entries /\ Count /\ Create(requests', "draft", m, <<"none">>)
    /\ UNCHANGED <<locked, grants, gl, work, lapses>>

\* reverse: a draft with the lines turned round, dated like the original.
ReverseAsDraft(e) ==
    /\ Used # Entries /\ e \in Posted /\ Count /\ Create(requests', "draft", entry[e].month, <<"none">>)
    /\ UNCHANGED <<locked, grants, gl, work, lapses>>

\* get_object and the view's own guard.
Begin(u, op, e) ==
    /\ At(u, "idle") /\ e \in Live /\ Count
    /\ op \notin {"approve", "approve and post"} => entry[e].status = "draft"
    /\ Goto(u, [step |-> "read", op |-> op, number |-> requests', entry |-> e, copy |-> entry[e]])
    /\ UNCHANGED <<entry, lines, locked, grants, gl, lapses>>

\* JournalEntry.save: what may be written once the row in the database is posted.  A
\* soft delete and a save of the whole row may not; the approval fields and the status may.
Savable_always(op, e) == TRUE
Savable(op, e) == op \in {"update", "destroy", "post"} => entry[e].status # "posted"

Check(u) ==
    /\ At(u, "read")
    /\ IF Savable(work[u].op, work[u].entry)
       THEN Goto(u, [step |-> "checked", op |-> work[u].op, number |-> work[u].number,
                     entry |-> work[u].entry, copy |-> work[u].copy, was |-> entry[work[u].entry], seen |-> lines[work[u].entry]])
       ELSE Finished(u)
    /\ UNCHANGED <<entry, lines, requests, locked, grants, gl, lapses>>

\* What the request does to the row, given its copy of it.
Saved(op, e, copy) ==
    CASE op = "update" -> copy
      [] op = "post" -> [copy EXCEPT !.status = "posted"]
      [] op = "destroy" -> [entry[e] EXCEPT !.deleted = TRUE]
      [] op = "submit" -> [entry[e] EXCEPT !.approval = "pending"]
      [] op = "reject" -> [entry[e] EXCEPT !.approval = "rejected"]
      [] op = "approve" -> [entry[e] EXCEPT !.approval = "approved"]
      [] op = "approve and post" ->
            [entry[e] EXCEPT !.approval = "approved",
                             !.status = IF copy.status = "posted" THEN @ ELSE "posted"]

Write(u) ==
    /\ At(u, "checked")
    /\ LET op == work[u].op
           e == work[u].entry
           now == Saved(op, e, work[u].copy)
           posting == now.status = "posted" /\ ~now.deleted /\ e \notin Posted
       IN /\ entry' = [entry EXCEPT ![e] = now]
          /\ lines' = IF op = "update"
                      THEN [lines EXCEPT ![e] = (@ \ work[u].seen) \cup {work[u].number}]
                      ELSE lines
          /\ lapses' = lapses
                \cup Lapse(posting /\ locked[now.month], "manual")
                \cup Lapse(op # "approve and post" /\ (entry[e].status # work[u].was.status
                                                      \/ lines[e] # work[u].seen), "overtaken")
    /\ Finished(u)
    /\ UNCHANGED <<requests, locked, grants, gl>>

-----------------------------------------------------------------------------
(* Entries the program posts: safe_post_gl around post_journal_entry.      *)

Allowed(u, m) == ~locked[m] \/ <<u, m>> \in grants

\* First, or again through retry_gl_post.
CheckLock(u, d) ==
    /\ At(u, "idle") /\ Count
    /\ LET m == DocMonth[d]
       IN Goto(u, [step |-> IF Allowed(u, m) THEN "allowed" ELSE "failed", number |-> requests', doc |-> d,
                   under |-> IF ~locked[m] THEN "no lock" ELSE IF <<u, m>> \in grants THEN "grant" ELSE "lock"])
    /\ UNCHANGED <<entry, lines, locked, grants, gl, lapses>>

FindSource(u) ==
    /\ At(u, "allowed")
    /\ LET found == SourcedBy(<<"document", work[u].doc>>) \cap Live
       IN Goto(u, [work[u] EXCEPT !.step = IF found = {} THEN "absent" ELSE "posted"])
    /\ UNCHANGED <<entry, lines, requests, locked, grants, gl, lapses>>

Insert(u) ==
    LET d == work[u].doc
        m == DocMonth[d]
    IN /\ At(u, "absent") /\ Used # Entries
       /\ Create(work[u].number, "posted", m, <<"document", d>>)
       /\ Goto(u, [work[u] EXCEPT !.step = "posted"])
       /\ lapses' = lapses \cup Lapse(locked[m] /\ work[u].under # "lock", work[u].under)
       /\ UNCHANGED <<requests, locked, grants, gl>>

\* An exception, which safe_post_gl swallows: the unique index on sources, the next
\* reference taken by an entry inserted at the same time, an account that is missing.
Fail(u) ==
    /\ work[u].step \in {"allowed", "absent"}
    /\ Goto(u, [work[u] EXCEPT !.step = "failed"])
    /\ UNCHANGED <<entry, lines, requests, locked, grants, gl, lapses>>

\* safe_post_gl's second write: the outcome on the document.
Outcome_swallowed(u) == "posted"
Outcome(u) == work[u].step
RecordOutcome(u) ==
    /\ work[u].step \in {"posted", "failed"}
    /\ gl' = [gl EXCEPT ![work[u].doc] = Outcome(u)]
    /\ Finished(u)
    /\ UNCHANGED <<entry, lines, requests, locked, grants, lapses>>

\* reverse_journal_entry: dated today, without a look at the lock.
Reverse(e) ==
    /\ e \in Posted /\ Used # Entries /\ Count
    /\ Create(requests', "posted", Today, <<"reversal", e>>)
    /\ lapses' = lapses \cup Lapse(locked[Today], "reversal")
    /\ UNCHANGED <<locked, grants, gl, work>>

-----------------------------------------------------------------------------
(* FinancialPeriodViewSet.                                                 *)

\* lock, forced or after the checklist; unlock, with a reason.
SetLock(m) ==
    /\ locked' = [locked EXCEPT ![m] = ~@]
    /\ UNCHANGED <<entry, lines, requests, grants, gl, work, lapses>>

Grant(u, m) ==
    /\ <<u, m>> \notin grants /\ grants' = grants \cup {<<u, m>>}
    /\ UNCHANGED <<entry, lines, requests, locked, gl, work, lapses>>

\* revoke_grant, or expires_at has passed.
EndGrant(u, m) ==
    /\ <<u, m>> \in grants /\ grants' = grants \ {<<u, m>>}
    /\ UNCHANGED <<entry, lines, requests, locked, gl, work, lapses>>

-----------------------------------------------------------------------------
Next ==
    \/ \E m \in Months : CreateDraft(m) \/ SetLock(m)
    \/ \E e \in Entries : ReverseAsDraft(e) \/ Reverse(e)
    \/ \E u \in Users :
          \/ \E op \in Manual, e \in Entries : Begin(u, op, e)
          \/ Check(u) \/ Write(u) \/ FindSource(u) \/ Insert(u) \/ Fail(u) \/ RecordOutcome(u)
          \/ \E d \in Docs : CheckLock(u, d)
          \/ \E m \in Months : Grant(u, m) \/ EndGrant(u, m)

Spec == Init /\ [][Next]_vars

-----------------------------------------------------------------------------
TypeOK ==
    /\ entry \in [Entries -> [status : {"none", "draft", "posted"},
                              approval : {"none", "pending", "approved", "rejected"},
                              month : Months, source : Sources, deleted : BOOLEAN]]
    /\ lines \in [Entries -> SUBSET (1..MaxRequests)] /\ requests \in 0..MaxRequests
    /\ locked \in [Months -> BOOLEAN] /\ grants \subseteq Users \X Months
    /\ gl \in [Docs -> {"pending", "posted", "failed"}] /\ DOMAIN work = Users

\* "The idempotent key uniquely identifies the business event" (models.py): no event is
\* in the ledger twice and no entry is reversed twice by the program, whatever requests
\* and retries overlap.
OneEntryPerEvent == \A s \in Sources \ {<<"none">>} : Cardinality(SourcedBy(s)) <= 1

\* A document that says its posting is in the ledger is right, whichever of several
\* attempts writes its status last.
PostedDocsAreInLedger ==
    \A d \in Docs : gl[d] = "posted" => SourcedBy(<<"document", d>>) \cap Posted # {}

\* "Cannot modify posted journal entry ... Use a reversing entry" (models.py): a posted
\* entry stays posted with the lines of one request, unless a save that had already
\* looked at the status or replaced the lines writes after another request did.
PostedEntriesStay ==
    [][lapses' \cap {"overtaken"} = {} =>
          \A e \in Posted : /\ e \in Posted' /\ lines'[e] = lines[e]
                            /\ entry'[e].month = entry[e].month /\ Cardinality(lines[e]) = 1]_vars

\* "Lock periods to prevent new transactions from being posted to closed months"
\* (SettingsPage.tsx): what is posted in a locked month changes in these ways only: by
\* hand, by a reversal dated today, under a grant, or by a posting that looked at the
\* lock before it was set.
LockedMonthsStay ==
    [][lapses' = {} => \A m \in Months : locked[m] => PostedIn(m)' = PostedIn(m)]_vars
=============================================================================
