-------------------------- MODULE GeneralLedgerProofs --------------------------
(***************************************************************************)
(* Proofs about the ledger for any users, entries, months, documents and   *)
(* number of requests: the types, that no event is booked twice, that a    *)
(* document marked as posted is in the ledger, and that what is posted, or *)
(* in a locked month, stays as it is.                                      *)
(***************************************************************************)
EXTENDS GeneralLedger, FiniteSetTheorems, TLAPS

Row == [status : {"none", "draft", "posted"}, approval : {"none", "pending", "approved", "rejected"},
        month : Months, source : Sources, deleted : BOOLEAN]
Numbers == 1..MaxRequests
Rewriting == {"update", "destroy", "post"}

Reading == [step : {"read"}, op : Manual, number : Numbers, entry : Entries, copy : Row]
Checked == [step : {"checked"}, op : Manual, number : Numbers, entry : Entries, copy : Row,
            was : Row, seen : SUBSET Numbers]
Posting == [step : {"allowed", "absent", "posted", "failed"}, number : Numbers, doc : Docs,
            under : {"no lock", "grant", "lock"}]

Manually(u) == work[u].step \in {"read", "checked"}
HasEntry(d) == \E e \in Entries : entry[e].source = <<"document", d>>

\* A request about an entry has a copy of the source it still has; one that rewrites or
\* deletes the entry has found a draft, which no document stands behind.
Honest(u) ==
    /\ Manually(u) =>
          /\ work[u].copy.source = entry[work[u].entry].source
          /\ entry[work[u].entry].status # "none" /\ work[u].copy.status # "none"
          /\ work[u].op \in Rewriting => work[u].copy.source = <<"none">>
    /\ work[u].step = "posted" => HasEntry(work[u].doc)

Works == {Idle} \cup Reading \cup Checked \cup Posting
WorksOK == work \in [Users -> Works] /\ \A u \in Users : Honest(u)

\* What the program posts is posted from the start and stays.
SourcedStay ==
    \A e \in Entries : entry[e].source # <<"none">> => entry[e].status = "posted" /\ ~entry[e].deleted

SourcesUnique ==
    \A e, f \in Entries : entry[e].source # <<"none">> /\ entry[e].source = entry[f].source => e = f

PostedHaveEntries == \A d \in Docs : gl[d] = "posted" => HasEntry(d)

IInv == TypeOK /\ WorksOK /\ SourcedStay /\ SourcesUnique /\ PostedHaveEntries

\* A step leaves the source of every entry that is used.
Kept ==
    \A e \in Entries :
        entry[e].status # "none" => entry'[e].source = entry[e].source /\ entry'[e].status # "none"

-----------------------------------------------------------------------------
\* A user's request is idle, about an entry, or a posting (the shapes of `work`).
LEMMA WorkShape ==
    ASSUME WorksOK, NEW u \in Users
    PROVE  /\ work[u].step = "read" => work[u] \in Reading
           /\ work[u].step = "checked" => work[u] \in Checked
           /\ work[u].step \in {"allowed", "absent", "posted", "failed"} => work[u] \in Posting
           /\ work[u].step = "idle" => work[u] = Idle
<1>1. work[u] \in Works
  BY DEF WorksOK
<1>2. CASE work[u] = Idle
  BY <1>2 DEF Idle
<1>3. CASE work[u] \in Reading
  <2>1. work[u].step = "read"
    BY <1>3 DEF Reading
  <2> QED BY <1>3, <2>1
<1>4. CASE work[u] \in Checked
  <2>1. work[u].step = "checked"
    BY <1>4 DEF Checked
  <2> QED BY <1>4, <2>1
<1>5. CASE work[u] \in Posting
  <2>1. work[u].step \in {"allowed", "absent", "posted", "failed"}
    BY <1>5 DEF Posting
  <2> QED BY <1>5, <2>1
<1> QED BY <1>1, <1>2, <1>3, <1>4, <1>5 DEF Works

\* The unused row of Init is a row.
LEMMA UnusedRow == ASSUME LedgerAssumption PROVE Unused \in Row
BY DEF LedgerAssumption, Unused, Row, Sources

\* Create writes one entry that was not used, with a source no other entry has; so what
\* the other requests know of the entries stays true.
LEMMA CreateOK ==
    ASSUME LedgerAssumption, IInv, Used # Entries,
           NEW request \in Numbers, NEW status \in {"draft", "posted"}, NEW month \in Months,
           NEW source \in Sources, Create(request, status, month, source),
           source # <<"none">> => status = "posted"
    PROVE  /\ entry' \in [Entries -> Row] /\ lines' \in [Entries -> SUBSET Numbers]
           /\ SourcedStay' /\ SourcesUnique'
           /\ Kept /\ \E e \in Entries : entry'[e].source = source
<1> DEFINE e == CHOOSE x \in Entries : x \notin Used
           new == [Unused EXCEPT !.status = status, !.month = month, !.source = source]
<1>1. e \in Entries /\ e \notin Used
  <2>1. \E x \in Entries : x \notin Used
    BY DEF IInv, Used
  <2> QED BY <2>1
<1>2. entry[e].status = "none" /\ entry[e].source = <<"none">>
  BY <1>1 DEF Used, IInv, SourcedStay, TypeOK
<1>3. new \in Row /\ new.status = status /\ new.source = source /\ new.deleted = FALSE
  BY UnusedRow DEF Row, Unused
<1>4. /\ entry' = [entry EXCEPT ![e] = new] /\ lines' = [lines EXCEPT ![e] = {request}]
      /\ source # <<"none">> => SourcedBy(source) = {}
  BY DEF Create, Unique
<1> HIDE DEF e, new
<1>5. entry \in [Entries -> Row] /\ lines \in [Entries -> SUBSET Numbers]
  BY DEF IInv, TypeOK, Row, Numbers
<1>6. entry' \in [Entries -> Row] /\ lines' \in [Entries -> SUBSET Numbers]
  BY <1>1, <1>3, <1>4, <1>5
<1>7. /\ entry'[e] = new
      /\ \A x \in Entries : x # e => entry'[x] = entry[x]
  BY <1>1, <1>4, <1>5
<1>8. SourcedStay'
  BY <1>3, <1>7 DEF IInv, SourcedStay
<1>9. SourcesUnique'
  <2> SUFFICES ASSUME NEW x \in Entries, NEW y \in Entries,
                      entry'[x].source # <<"none">>, entry'[x].source = entry'[y].source, x # y
               PROVE FALSE
    BY DEF SourcesUnique
  <2>1. \A z \in Entries : source # <<"none">> /\ entry[z].source = source => FALSE
    BY <1>4 DEF SourcedBy, Used, IInv, SourcedStay
  <2>2. CASE x = e
    BY <2>1, <2>2, <1>3, <1>7
  <2>3. CASE y = e
    BY <2>1, <2>3, <1>3, <1>7
  <2>4. CASE x # e /\ y # e
    BY <2>4, <1>7 DEF IInv, SourcesUnique
  <2> QED BY <2>2, <2>3, <2>4
<1>10. Kept
  BY <1>2, <1>7 DEF Kept
<1> QED BY <1>1, <1>3, <1>6, <1>7, <1>8, <1>9, <1>10

\* So a document that has an entry keeps it.
LEMMA HasEntryKept == ASSUME IInv, Kept, NEW d \in Docs, HasEntry(d) PROVE HasEntry(d)'
<1>1. PICK e \in Entries : entry[e].source = <<"document", d>>
  BY DEF HasEntry
<1>2. entry[e].source # <<"none">>
  BY <1>1
<1>3. entry[e].status # "none"
  BY <1>2 DEF IInv, SourcedStay
<1> QED BY <1>1, <1>3 DEF Kept, HasEntry

\* What the other requests know stays true.
LEMMA OthersKept == ASSUME IInv, Kept, NEW u \in Users, work'[u] = work[u] PROVE Honest(u)'
<1>1. Honest(u)
  BY DEF IInv, WorksOK
<1>2. Manually(u) => work[u].entry \in Entries
  BY WorkShape DEF Manually, Reading, Checked, IInv
<1>3. work[u].step = "posted" => work[u].doc \in Docs
  BY WorkShape DEF Posting, IInv
<1>4. work[u].step = "posted" => HasEntry(work[u].doc)'
  BY <1>1, <1>3, HasEntryKept DEF Honest
<1> QED BY <1>1, <1>2, <1>4 DEF Honest, Manually, Kept

\* The invariant after a step that keeps the sources: each user's request is as before or
\* honest again, and a document newly posted has an entry.
LEMMA Assemble ==
    ASSUME IInv, Kept, SourcedStay', SourcesUnique',
           entry' \in [Entries -> Row], lines' \in [Entries -> SUBSET Numbers],
           requests' \in 0..MaxRequests, locked' \in [Months -> BOOLEAN], grants' \subseteq Users \X Months,
           gl' \in [Docs -> {"pending", "posted", "failed"}],
           \A d \in Docs : gl'[d] = "posted" => gl[d] = "posted" \/ HasEntry(d),
           work' \in [Users -> Works], \A v \in Users : work'[v] = work[v] \/ Honest(v)'
    PROVE  IInv'
<1>1. \A v \in Users : Honest(v)'
  BY OthersKept
<1>2. PostedHaveEntries'
  BY HasEntryKept DEF IInv, PostedHaveEntries
<1>3. TypeOK'
  BY DEF TypeOK, Row, Numbers
<1> QED BY <1>1, <1>2, <1>3 DEF IInv, WorksOK

\* A step that writes no entry disturbs nothing about them.
LEMMA EntriesKept ==
    ASSUME IInv, UNCHANGED <<entry, lines>>
    PROVE  /\ Kept /\ SourcedStay' /\ SourcesUnique'
           /\ entry' \in [Entries -> Row] /\ lines' \in [Entries -> SUBSET Numbers]
           /\ requests \in 0..MaxRequests /\ locked \in [Months -> BOOLEAN]
           /\ grants \subseteq Users \X Months /\ gl \in [Docs -> {"pending", "posted", "failed"}]
           /\ work \in [Users -> Works]
BY DEF IInv, Kept, SourcedStay, SourcesUnique, TypeOK, WorksOK, Row, Numbers

\* A request counted is one of the numbers.
LEMMA Counted == ASSUME LedgerAssumption, IInv, Count PROVE requests' \in Numbers /\ requests' \in 0..MaxRequests
BY DEF LedgerAssumption, IInv, TypeOK, Count, Numbers

\* The types of what a request about an entry holds.
LEMMA BeginOK ==
    ASSUME LedgerAssumption, IInv, NEW u \in Users, NEW op \in Manual, NEW e \in Entries, Begin(u, op, e)
    PROVE  IInv'
<1> DEFINE new == [step |-> "read", op |-> op, number |-> requests', entry |-> e, copy |-> entry[e]]
<1>1. entry[e] \in Row /\ requests' \in Numbers /\ requests' \in 0..MaxRequests
  BY Counted DEF Begin, IInv, TypeOK, Row
<1>2. new \in Works
  BY <1>1 DEF Works, Reading
<1>3. work' = [work EXCEPT ![u] = new] /\ UNCHANGED <<entry, lines, locked, grants, gl>>
  BY DEF Begin, Goto
<1>4. entry[e].status # "none" /\ (op \in Rewriting => entry[e].source = <<"none">>)
  BY DEF Begin, Live, Used, Rewriting, IInv, SourcedStay
<1>5. Honest(u)'
  <2>1. work'[u] = new
    BY <1>3, EntriesKept
  <2> QED BY <1>3, <1>4, <2>1 DEF Honest, Manually
<1> HIDE DEF new
<1> QED BY <1>1, <1>2, <1>3, <1>5, EntriesKept, Assemble

LEMMA CheckOK == ASSUME LedgerAssumption, IInv, NEW u \in Users, Check(u) PROVE IInv'
<1> DEFINE new == [step |-> "checked", op |-> work[u].op, number |-> work[u].number, entry |-> work[u].entry,
                   copy |-> work[u].copy, was |-> entry[work[u].entry], seen |-> lines[work[u].entry]]
<1>1. work[u] \in Reading /\ UNCHANGED <<entry, lines, requests, locked, grants, gl>>
  BY WorkShape DEF Check, At, IInv
<1>2. new \in Works
  BY <1>1 DEF Works, Reading, Checked, IInv, TypeOK, Row, Numbers
<1>3. CASE work' = [work EXCEPT ![u] = new]
  <2>1. Honest(u) /\ Manually(u) /\ new.step = "checked" /\ work'[u] = new
    BY <1>1, <1>3, EntriesKept DEF IInv, WorksOK, Manually, Check, At
  <2>2. Honest(u)'
    BY <1>1, <2>1 DEF Honest, Manually
  <2> HIDE DEF new
  <2> QED BY <1>1, <1>2, <1>3, <2>2, EntriesKept, Assemble
<1>4. CASE work' = [work EXCEPT ![u] = Idle]
  <2>1. Honest(u)' /\ Idle \in Works
    BY <1>4, EntriesKept, <1>1 DEF Honest, Manually, Idle, Works
  <2> QED BY <1>1, <1>4, <2>1, EntriesKept, Assemble
<1> QED BY <1>3, <1>4 DEF Check, Goto, Finished

\* What a request writes keeps the source, and what a source stands behind stays posted.
LEMMA SavedOK ==
    ASSUME IInv, NEW u \in Users, At(u, "checked")
    PROVE  LET now == Saved(work[u].op, work[u].entry, work[u].copy)
           IN /\ now \in Row /\ now.source = entry[work[u].entry].source /\ now.status # "none"
              /\ now.source # <<"none">> => now.status = "posted" /\ ~now.deleted
<1> DEFINE op == work[u].op
           e == work[u].entry
           copy == work[u].copy
<1>1. work[u] \in Checked /\ Honest(u) /\ Manually(u)
  BY WorkShape DEF At, IInv, WorksOK, Manually
<1>2. op \in Manual /\ e \in Entries /\ copy \in Row /\ entry[e] \in Row
  BY <1>1 DEF Checked, IInv, TypeOK, Row
<1>3. /\ copy.source = entry[e].source /\ entry[e].status # "none" /\ copy.status # "none"
      /\ op \in Rewriting => copy.source = <<"none">>
  BY <1>1 DEF Honest
<1>4. entry[e].source # <<"none">> => entry[e].status = "posted" /\ ~entry[e].deleted
  BY <1>2 DEF IInv, SourcedStay
<1> SUFFICES /\ Saved(op, e, copy) \in Row /\ Saved(op, e, copy).source = entry[e].source
             /\ Saved(op, e, copy).status # "none"
             /\ Saved(op, e, copy).source # <<"none">> =>
                    Saved(op, e, copy).status = "posted" /\ ~Saved(op, e, copy).deleted
  OBVIOUS
<1> HIDE DEF op, e, copy
<1>5. CASE op = "update"
  BY <1>2, <1>3, <1>5 DEF Saved, Rewriting
<1>6. CASE op = "post"
  BY <1>2, <1>3, <1>6 DEF Saved, Rewriting, Row
<1>7. CASE op = "destroy"
  BY <1>2, <1>3, <1>7 DEF Saved, Rewriting, Row
<1>8. CASE op = "submit"
  BY <1>2, <1>3, <1>4, <1>8 DEF Saved, Row
<1>9. CASE op = "reject"
  BY <1>2, <1>3, <1>4, <1>9 DEF Saved, Row
<1>10. CASE op = "approve"
  BY <1>2, <1>3, <1>4, <1>10 DEF Saved, Row
<1>11. CASE op = "approve and post"
  BY <1>2, <1>3, <1>4, <1>11 DEF Saved, Row
<1> QED BY <1>2, <1>5, <1>6, <1>7, <1>8, <1>9, <1>10, <1>11 DEF Manual

LEMMA WriteOK == ASSUME LedgerAssumption, IInv, NEW u \in Users, Write(u) PROVE IInv'
<1> DEFINE op == work[u].op
           e == work[u].entry
           now == Saved(op, e, work[u].copy)
<1>1. /\ At(u, "checked") /\ entry' = [entry EXCEPT ![e] = now] /\ work' = [work EXCEPT ![u] = Idle]
      /\ lines' = IF op = "update" THEN [lines EXCEPT ![e] = (@ \ work[u].seen) \cup {work[u].number}] ELSE lines
      /\ UNCHANGED <<requests, locked, grants, gl>>
  BY DEF Write, Finished, Goto
<1>2. e \in Entries /\ work[u].number \in Numbers
  BY <1>1, WorkShape DEF At, Checked, IInv
<1>3. /\ now \in Row /\ now.source = entry[e].source /\ now.status # "none"
      /\ now.source # <<"none">> => now.status = "posted" /\ ~now.deleted
  BY <1>1, SavedOK
<1>4. /\ entry \in [Entries -> Row] /\ lines \in [Entries -> SUBSET Numbers] /\ work \in [Users -> Works]
      /\ requests \in 0..MaxRequests /\ locked \in [Months -> BOOLEAN]
      /\ grants \subseteq Users \X Months /\ gl \in [Docs -> {"pending", "posted", "failed"}]
  BY DEF IInv, TypeOK, WorksOK, Row, Numbers
<1> HIDE DEF now, e, op
<1>5. entry' \in [Entries -> Row] /\ lines' \in [Entries -> SUBSET Numbers]
  BY <1>1, <1>2, <1>3, <1>4
<1>6. entry'[e] = now /\ \A x \in Entries : x # e => entry'[x] = entry[x]
  BY <1>1, <1>2, <1>4
<1>7. Kept
  BY <1>3, <1>6 DEF Kept
<1>8. SourcedStay'
  BY <1>3, <1>6 DEF IInv, SourcedStay
<1>9. SourcesUnique'
  <2>1. \A x \in Entries : entry'[x].source = entry[x].source
    BY <1>3, <1>6
  <2> QED BY <2>1 DEF IInv, SourcesUnique
<1>10. \A v \in Users : work'[v] = work[v] \/ Honest(v)'
  <2>1. Honest(u)'
    BY <1>1, <1>4 DEF Honest, Manually, Idle
  <2> QED BY <2>1, <1>1, <1>4
<1>11. work' \in [Users -> Works]
  BY <1>1, <1>4 DEF Works
<1> QED BY <1>1, <1>4, <1>5, <1>7, <1>8, <1>9, <1>10, <1>11, Assemble

\* The steps of a posting that only move on: the state is honest as long as it does not
\* claim to be posted.
LEMMA MoveOnOK ==
    ASSUME IInv, NEW u \in Users, NEW new \in Posting, work' = [work EXCEPT ![u] = new],
           UNCHANGED <<entry, lines, locked, grants, gl>>, requests' \in 0..MaxRequests,
           new.step = "posted" => HasEntry(new.doc)
    PROVE  IInv'
<1>1. work'[u] = new /\ work' \in [Users -> Works]
  BY EntriesKept DEF Works
<1>2. Honest(u)'
  BY <1>1 DEF Honest, Manually, Posting, HasEntry
<1> QED BY <1>1, <1>2, EntriesKept, Assemble

LEMMA CheckLockOK ==
    ASSUME LedgerAssumption, IInv, NEW u \in Users, NEW d \in Docs, CheckLock(u, d) PROVE IInv'
<1>1. requests' \in Numbers /\ requests' \in 0..MaxRequests
  BY Counted DEF CheckLock
<1> DEFINE m == DocMonth[d]
           new == [step |-> IF Allowed(u, m) THEN "allowed" ELSE "failed", number |-> requests', doc |-> d,
                   under |-> IF ~locked[m] THEN "no lock" ELSE IF <<u, m>> \in grants THEN "grant" ELSE "lock"]
<1>2. new \in Posting /\ new.step # "posted"
  BY <1>1 DEF Posting
<1>3. work' = [work EXCEPT ![u] = new] /\ UNCHANGED <<entry, lines, locked, grants, gl>>
  BY DEF CheckLock, Goto
<1> HIDE DEF new
<1> QED BY <1>1, <1>2, <1>3, MoveOnOK

LEMMA FindSourceOK == ASSUME IInv, NEW u \in Users, FindSource(u) PROVE IInv'
<1> DEFINE found == SourcedBy(<<"document", work[u].doc>>) \cap Live
           new == [work[u] EXCEPT !.step = IF found = {} THEN "absent" ELSE "posted"]
<1>1. work[u] \in Posting /\ requests \in 0..MaxRequests
  BY WorkShape DEF FindSource, At, IInv, TypeOK
<1>2. work' = [work EXCEPT ![u] = new] /\ UNCHANGED <<entry, lines, locked, grants, gl, requests>>
  BY DEF FindSource, Goto
<1>3. new \in Posting /\ new.doc = work[u].doc
  BY <1>1 DEF Posting
<1>4. new.step = "posted" => HasEntry(new.doc)
  BY <1>1, <1>3 DEF Posting, HasEntry, SourcedBy, Used
<1> HIDE DEF new
<1> QED BY <1>1, <1>2, <1>3, <1>4, MoveOnOK

LEMMA FailOK == ASSUME IInv, NEW u \in Users, Fail(u) PROVE IInv'
<1> DEFINE new == [work[u] EXCEPT !.step = "failed"]
<1>1. work[u] \in Posting /\ requests \in 0..MaxRequests
  BY WorkShape DEF Fail, IInv, TypeOK
<1>2. work' = [work EXCEPT ![u] = new] /\ UNCHANGED <<entry, lines, locked, grants, gl, requests>>
  BY DEF Fail, Goto
<1>3. new \in Posting /\ new.step # "posted"
  BY <1>1 DEF Posting
<1> HIDE DEF new
<1> QED BY <1>1, <1>2, <1>3, MoveOnOK

LEMMA InsertOK == ASSUME LedgerAssumption, IInv, NEW u \in Users, Insert(u) PROVE IInv'
<1> DEFINE d == work[u].doc
           new == [work[u] EXCEPT !.step = "posted"]
<1>1. work[u] \in Posting
  BY WorkShape DEF Insert, At, IInv
<1>2. /\ d \in Docs /\ work[u].number \in Numbers /\ DocMonth[d] \in Months
      /\ <<"document", d>> \in Sources /\ Used # Entries
      /\ Create(work[u].number, "posted", DocMonth[d], <<"document", d>>)
  BY <1>1 DEF Insert, Posting, LedgerAssumption, Sources
<1>3. /\ entry' \in [Entries -> Row] /\ lines' \in [Entries -> SUBSET Numbers]
      /\ SourcedStay' /\ SourcesUnique' /\ Kept
      /\ \E e \in Entries : entry'[e].source = <<"document", d>>
  BY <1>2, CreateOK
<1>4. work' = [work EXCEPT ![u] = new] /\ UNCHANGED <<requests, locked, grants, gl>>
  BY DEF Insert, Goto
<1>5. new \in Posting /\ new.step = "posted" /\ new.doc = d
  BY <1>1 DEF Posting
<1>6. /\ work \in [Users -> Works] /\ requests \in 0..MaxRequests /\ locked \in [Months -> BOOLEAN]
      /\ grants \subseteq Users \X Months /\ gl \in [Docs -> {"pending", "posted", "failed"}]
  BY DEF IInv, TypeOK, WorksOK
<1> HIDE DEF new, d
<1>7. work' \in [Users -> Works] /\ work'[u] = new /\ \A v \in Users : v # u => work'[v] = work[v]
  BY <1>4, <1>5, <1>6 DEF Works
<1>8. Honest(u)'
  BY <1>3, <1>5, <1>7 DEF Honest, Manually, HasEntry
<1> QED BY <1>3, <1>4, <1>6, <1>7, <1>8, Assemble

LEMMA RecordOutcomeOK == ASSUME IInv, NEW u \in Users, RecordOutcome(u) PROVE IInv'
<1>1. work[u] \in Posting /\ Honest(u)
  BY WorkShape DEF RecordOutcome, IInv, WorksOK
<1>2. /\ work[u].doc \in Docs /\ work[u].step \in {"posted", "failed"}
      /\ gl' = [gl EXCEPT ![work[u].doc] = work[u].step] /\ work' = [work EXCEPT ![u] = Idle]
      /\ UNCHANGED <<entry, lines, requests, locked, grants>>
  BY <1>1 DEF RecordOutcome, Outcome, Finished, Goto, Posting
<1>3. /\ gl' \in [Docs -> {"pending", "posted", "failed"}]
      /\ \A d \in Docs : gl'[d] = "posted" => gl[d] = "posted" \/ HasEntry(d)
  BY <1>1, <1>2, EntriesKept DEF Honest
<1>4. work' \in [Users -> Works] /\ Honest(u)' /\ \A v \in Users : v # u => work'[v] = work[v]
  BY <1>2, EntriesKept DEF Honest, Manually, Idle, Works
<1> QED BY <1>2, <1>3, <1>4, EntriesKept, Assemble

\* A new draft, or a reversal by the program: nobody's request moves.
LEMMA NewEntryOK ==
    ASSUME LedgerAssumption, IInv, Used # Entries, Count,
           NEW status \in {"draft", "posted"}, NEW month \in Months, NEW source \in Sources,
           Create(requests', status, month, source), source # <<"none">> => status = "posted",
           UNCHANGED <<locked, grants, gl, work>>
    PROVE  IInv'
<1>1. requests' \in Numbers /\ requests' \in 0..MaxRequests
  BY Counted
<1>2. /\ entry' \in [Entries -> Row] /\ lines' \in [Entries -> SUBSET Numbers]
      /\ SourcedStay' /\ SourcesUnique' /\ Kept
  BY <1>1, CreateOK
<1>3. /\ work \in [Users -> Works] /\ locked \in [Months -> BOOLEAN]
      /\ grants \subseteq Users \X Months /\ gl \in [Docs -> {"pending", "posted", "failed"}]
  BY DEF IInv, TypeOK, WorksOK
<1> QED BY <1>1, <1>2, <1>3, Assemble

-----------------------------------------------------------------------------
\* Initially nothing is booked.
LEMMA Initially == ASSUME LedgerAssumption, Init PROVE IInv
<1>1. TypeOK
  BY UnusedRow DEF LedgerAssumption, Init, TypeOK, Row
<1>2. \A e \in Entries : entry[e].source = <<"none">>
  BY DEF Init, Unused
<1>3. WorksOK
  BY DEF Init, WorksOK, Works, Honest, Manually, Idle
<1>4. SourcedStay /\ SourcesUnique
  BY <1>2 DEF SourcedStay, SourcesUnique
<1>5. PostedHaveEntries
  BY DEF Init, PostedHaveEntries
<1> QED BY <1>1, <1>3, <1>4, <1>5 DEF IInv

\* Every step keeps the invariant.
LEMMA Steps == ASSUME LedgerAssumption, IInv, [Next]_vars PROVE IInv'
<1>1. ASSUME NEW m \in Months, CreateDraft(m) PROVE IInv'
  BY <1>1, NewEntryOK DEF CreateDraft, Sources
<1>2. ASSUME NEW m \in Months, SetLock(m) PROVE IInv'
  <2>1. /\ locked' \in [Months -> BOOLEAN] /\ UNCHANGED <<entry, lines, requests, grants, gl, work>>
    BY <1>2 DEF SetLock, IInv, TypeOK
  <2> QED BY <2>1, EntriesKept, Assemble
<1>3. ASSUME NEW e \in Entries, ReverseAsDraft(e) PROVE IInv'
  <2>1. entry[e].month \in Months
    BY DEF IInv, TypeOK
  <2> QED BY <1>3, <2>1, NewEntryOK DEF ReverseAsDraft, Sources
<1>4. ASSUME NEW e \in Entries, Reverse(e) PROVE IInv'
  <2>1. Today \in Months /\ <<"reversal", e>> \in Sources
    BY DEF LedgerAssumption, Sources
  <2> QED BY <1>4, <2>1, NewEntryOK DEF Reverse
<1>5. ASSUME NEW u \in Users, NEW m \in Months, Grant(u, m) \/ EndGrant(u, m) PROVE IInv'
  <2>1. /\ grants' \subseteq Users \X Months /\ UNCHANGED <<entry, lines, requests, locked, gl, work>>
    BY <1>5 DEF Grant, EndGrant, IInv, TypeOK
  <2> QED BY <2>1, EntriesKept, Assemble
<1>6. CASE UNCHANGED vars
  <2>1. UNCHANGED <<entry, lines, requests, locked, grants, gl, work>>
    BY <1>6 DEF vars
  <2> QED BY <2>1, EntriesKept, Assemble
<1> QED BY <1>1, <1>2, <1>3, <1>4, <1>5, <1>6, BeginOK, CheckOK, WriteOK, CheckLockOK, FindSourceOK,
           InsertOK, FailOK, RecordOutcomeOK DEF Next

\* The invariant of the ledger.
THEOREM LedgerInvariance == Spec => []IInv
BY LedgerAssumption, Initially, Steps, PTL DEF Spec

\* The rows of the ledger, its locks and grants keep their types.
THEOREM LedgerTypes == Spec => []TypeOK
BY LedgerInvariance, PTL DEF IInv

\* No event is booked twice and no entry is reversed twice by the program, whatever
\* requests, retries and edits overlap (OneEntryPerEvent).
THEOREM EventsBookedOnce == Spec => []OneEntryPerEvent
<1>1. IInv => OneEntryPerEvent
  <2> SUFFICES ASSUME IInv, NEW s \in Sources \ {<<"none">>} PROVE Cardinality(SourcedBy(s)) <= 1
    BY DEF OneEntryPerEvent
  <2>1. CASE SourcedBy(s) = {}
    BY <2>1, FS_EmptySet
  <2>2. CASE SourcedBy(s) # {}
    <3>1. PICK e : e \in SourcedBy(s)
      BY <2>2
    <3>2. SourcedBy(s) = {e}
      BY <3>1 DEF SourcedBy, Used, IInv, SourcesUnique
    <3>3. Cardinality({e}) = 1
      BY FS_Singleton
    <3> QED BY <3>2, <3>3
  <2> QED BY <2>1, <2>2
<1> QED BY <1>1, LedgerInvariance, PTL

\* A document marked as posted has its entry in the ledger, posted and not deleted
\* (PostedDocsAreInLedger).
THEOREM MarkedDocsArePosted == Spec => []PostedDocsAreInLedger
<1>1. IInv => PostedDocsAreInLedger
  <2> SUFFICES ASSUME IInv, NEW d \in Docs, gl[d] = "posted"
               PROVE SourcedBy(<<"document", d>>) \cap Posted # {}
    BY DEF PostedDocsAreInLedger
  <2>1. PICK e \in Entries : entry[e].source = <<"document", d>>
    BY DEF IInv, PostedHaveEntries, HasEntry
  <2>2. entry[e].status = "posted" /\ ~entry[e].deleted
    BY <2>1 DEF IInv, SourcedStay
  <2> QED BY <2>1, <2>2 DEF SourcedBy, Posted, Live, Used
<1> QED BY <1>1, LedgerInvariance, PTL

-----------------------------------------------------------------------------
(* What is posted stays.                                                   *)

\* A request that rewrites an entry looked at the status and it was not posted; a posting
\* that goes on looked at the lock and was let through.
Looked(u) ==
    /\ work[u].step = "checked" /\ work[u].op \in Rewriting => work[u].was.status # "posted"
    /\ work[u].step \in {"allowed", "absent"} => work[u].under # "lock"

\* While no save overtook another, an entry has the lines of one request.
OneAuthor == "overtaken" \notin lapses => \A e \in Used : \E n \in Numbers : lines[e] = {n}

HInv == IInv /\ (\A u \in Users : Looked(u)) /\ OneAuthor

\* What CreateOK leaves out: the entry that is written, and the others.
IsNew(e, request, status, month) ==
    /\ e \notin Used /\ lines'[e] = {request} /\ entry'[e].status = status /\ entry'[e].month = month
    /\ \A x \in Entries : x # e => entry'[x] = entry[x] /\ lines'[x] = lines[x]
LEMMA Created ==
    ASSUME IInv, Used # Entries, NEW request \in Numbers, NEW status \in {"draft", "posted"}, NEW month \in Months, NEW source \in Sources,
           Create(request, status, month, source)
    PROVE  \E e \in Entries : IsNew(e, request, status, month)
<1> DEFINE e == CHOOSE x \in Entries : x \notin Used
           new == [Unused EXCEPT !.status = status, !.month = month, !.source = source]
<1>1. e \in Entries /\ e \notin Used
  <2>1. \E x \in Entries : x \notin Used
    BY DEF IInv, Used
  <2> QED BY <2>1
<1>2. new.status = status /\ new.month = month /\ new.deleted = FALSE
  BY DEF Unused
<1>3. entry' = [entry EXCEPT ![e] = new] /\ lines' = [lines EXCEPT ![e] = {request}]
  BY DEF Create
<1> HIDE DEF e, new
<1>4. /\ entry'[e] = new /\ lines'[e] = {request}
      /\ \A x \in Entries : x # e => entry'[x] = entry[x] /\ lines'[x] = lines[x]
  BY <1>1, <1>3 DEF IInv, TypeOK
<1> QED BY <1>1, <1>2, <1>4 DEF IsNew

LEMMA CreatedAlone ==
    ASSUME HInv, Used # Entries, NEW request \in Numbers, NEW status \in {"draft", "posted"}, NEW month \in Months, NEW source \in Sources,
           Create(request, status, month, source), lapses \subseteq lapses'
    PROVE  OneAuthor'
<1>1. PICK e \in Entries : IsNew(e, request, status, month)
  <2>1. IInv
    BY DEF HInv
  <2> QED BY <2>1, Created
<1>2. \A x \in Used' : x = e \/ x \in Used
  BY <1>1 DEF Used, IsNew
<1> QED BY <1>1, <1>2 DEF HInv, OneAuthor, Used, IsNew

\* A posted entry is what it was, and new entries are posted only where nothing is locked.
Stays(e) ==
    e \in Posted' /\ lines'[e] = lines[e] /\ entry'[e].month = entry[e].month
NoneAdded(m) == \A e \in Posted' : entry'[e].month = m => e \in Posted

\* A save that is not overtaken finds the entry as it was when it looked.
LEMMA WriteStays ==
    ASSUME HInv, NEW u \in Users, Write(u), "overtaken" \notin lapses'
    PROVE  /\ \A e \in Posted : Stays(e)
           /\ OneAuthor'
           /\ \A m \in Months : locked[m] /\ "manual" \notin lapses' => NoneAdded(m)
<1> DEFINE op == work[u].op
           e == work[u].entry
           now == Saved(op, e, work[u].copy)
           posting == now.status = "posted" /\ ~now.deleted /\ e \notin Posted
           stale == op # "approve and post" /\ (entry[e].status # work[u].was.status \/ lines[e] # work[u].seen)
<1>1. /\ At(u, "checked") /\ entry' = [entry EXCEPT ![e] = now]
      /\ lines' = IF op = "update" THEN [lines EXCEPT ![e] = (@ \ work[u].seen) \cup {work[u].number}] ELSE lines
      /\ lapses' = lapses \cup Lapse(posting /\ locked[now.month], "manual") \cup Lapse(stale, "overtaken")
  BY DEF Write
<1>2. /\ e \in Entries /\ work[u].number \in Numbers /\ op \in Manual /\ entry[e].status # "none"
      /\ op \in Rewriting => work[u].was.status # "posted"
  <2>1. work[u] \in Checked /\ Honest(u) /\ Looked(u) /\ Manually(u)
    BY <1>1, WorkShape DEF At, HInv, IInv, WorksOK, Manually
  <2> QED BY <1>1, <2>1 DEF Checked, Honest, Looked, At
<1>3. now.status # "none"
  BY <1>1, SavedOK DEF HInv
<1>4. op \notin Rewriting /\ e \in Posted => now.status = "posted" /\ ~now.deleted /\ now.month = entry[e].month
  BY <1>2 DEF Saved, Manual, Rewriting, HInv, IInv, TypeOK, Row, Posted, Live
<1> HIDE DEF posting, stale, now
<1>5. ~stale
  BY <1>1 DEF Lapse
<1>6. op \in Rewriting => e \notin Posted /\ lines[e] = work[u].seen
  BY <1>2, <1>5 DEF stale, Rewriting, Posted
<1> HIDE DEF e, op
<1>7. /\ entry'[e] = now /\ \A x \in Entries : x # e => entry'[x] = entry[x] /\ lines'[x] = lines[x]
      /\ lines'[e] = IF op = "update" THEN {work[u].number} ELSE lines[e]
  BY <1>1, <1>2, <1>6 DEF HInv, IInv, TypeOK, Rewriting
<1>8. ASSUME NEW x \in Posted PROVE Stays(x)
  <2>1. x \in Entries /\ entry[x].status = "posted" /\ ~entry[x].deleted
    BY DEF Posted, Live, Used
  <2>2. CASE x # e
    BY <1>7, <2>1, <2>2 DEF Stays, Posted, Live, Used
  <2>3. CASE x = e
    <3>1. now.status = "posted" /\ ~now.deleted /\ now.month = entry[e].month /\ op # "update"
      BY <1>4, <1>6, <2>3 DEF Rewriting
    <3> QED BY <1>2, <1>7, <2>3, <3>1 DEF Stays, Posted, Live, Used
  <2> QED BY <2>2, <2>3
<1>9. OneAuthor'
  <2>1. \A x \in Used : \E n \in Numbers : lines[x] = {n}
    BY <1>1 DEF HInv, OneAuthor
  <2>2. ASSUME NEW x \in Used' PROVE \E n \in Numbers : lines'[x] = {n}
    <3>1. x \in Entries /\ x \in Used
      BY <1>2, <1>7, <2>2 DEF Used
    <3> QED BY <1>2, <1>7, <2>1, <3>1
  <2> QED BY <2>2 DEF OneAuthor
<1>10. ASSUME NEW m \in Months, locked[m], "manual" \notin lapses' PROVE NoneAdded(m)
  <2>1. ~(posting /\ locked[now.month])
    BY <1>1, <1>10 DEF Lapse
  <2>2. ASSUME NEW x \in Posted', entry'[x].month = m PROVE x \in Posted
    <3>1. x \in Entries /\ entry'[x].status = "posted" /\ ~entry'[x].deleted
      BY <2>2 DEF Posted, Live, Used
    <3>2. CASE x # e
      BY <1>7, <3>1, <3>2 DEF Posted, Live, Used
    <3>3. CASE x = e
      BY <1>7, <1>10, <2>1, <2>2, <3>1, <3>3 DEF posting
    <3> QED BY <3>2, <3>3
  <2> QED BY <2>2 DEF NoneAdded
<1> QED BY <1>8, <1>9, <1>10

\* A new entry leaves the others alone, and is posted in its own month.
LEMMA CreateStays ==
    ASSUME IInv, Used # Entries, NEW request \in Numbers, NEW status \in {"draft", "posted"}, NEW month \in Months, NEW source \in Sources,
           Create(request, status, month, source)
    PROVE  /\ \A e \in Posted : Stays(e)
           /\ \A m \in Months : status = "draft" \/ m # month => NoneAdded(m)
<1>1. PICK e \in Entries : IsNew(e, request, status, month)
  BY Created
<1>2. \A x \in Posted : Stays(x)
  BY <1>1 DEF Stays, Posted, Live, Used, IsNew
<1>3. \A x \in Posted' : (x = e /\ status = "posted") \/ x \in Posted
  BY <1>1 DEF Posted, Live, Used, IsNew
<1> QED BY <1>1, <1>2, <1>3 DEF NoneAdded, IsNew

\* A step that writes no entry.
LEMMA NothingWritten ==
    ASSUME UNCHANGED <<entry, lines>>
    PROVE  (\A e \in Posted : Stays(e)) /\ \A m \in Months : NoneAdded(m)
BY DEF Stays, NoneAdded, Posted, Live, Used

\* Steps that create an entry: by hand a draft, by the program a posted one.
LEMMA CreatingStays ==
    ASSUME LedgerAssumption, HInv,
           \/ \E m \in Months : CreateDraft(m)
           \/ \E e \in Entries : ReverseAsDraft(e) \/ Reverse(e)
           \/ \E u \in Users : Insert(u)
    PROVE  /\ \A e \in Posted : Stays(e)
           /\ OneAuthor'
           /\ lapses' = {} => \A m \in Months : locked[m] => NoneAdded(m)
<1>1. IInv /\ Used # Entries /\ lapses \subseteq lapses'
  BY DEF HInv, CreateDraft, ReverseAsDraft, Reverse, Insert
<1>2. ASSUME NEW m \in Months, Count, Create(requests', "draft", m, <<"none">>)
      PROVE  (\A e \in Posted : Stays(e)) /\ OneAuthor' /\ \A k \in Months : NoneAdded(k)
  <2>1. requests' \in Numbers /\ <<"none">> \in Sources
    BY <1>1, <1>2, Counted DEF Sources
  <2> QED BY <1>1, <1>2, <2>1, CreateStays, CreatedAlone
<1>3. CASE \E m \in Months : CreateDraft(m)
  BY <1>2, <1>3 DEF CreateDraft
<1>4. CASE \E e \in Entries : ReverseAsDraft(e)
  <2>1. PICK e \in Entries : ReverseAsDraft(e)
    BY <1>4
  <2>2. entry[e].month \in Months /\ Count /\ Create(requests', "draft", entry[e].month, <<"none">>)
    BY <2>1 DEF ReverseAsDraft, HInv, IInv, TypeOK
  <2> QED BY <1>2, <2>2
<1>5. CASE \E e \in Entries : Reverse(e)
  <2>1. PICK e \in Entries : Reverse(e)
    BY <1>5
  <2>2. /\ requests' \in Numbers /\ Today \in Months /\ <<"reversal", e>> \in Sources
        /\ Create(requests', "posted", Today, <<"reversal", e>>)
    BY <1>1, <2>1, Counted DEF Reverse, LedgerAssumption, Sources
  <2>3. (\A x \in Posted : Stays(x)) /\ OneAuthor' /\ \A m \in Months : m # Today => NoneAdded(m)
    BY <1>1, <2>2, CreateStays, CreatedAlone
  <2>4. lapses' = {} => ~locked[Today]
    BY <2>1 DEF Reverse, Lapse
  <2> QED BY <2>3, <2>4
<1>6. CASE \E u \in Users : Insert(u)
  <2>1. PICK u \in Users : Insert(u)
    BY <1>6
  <2> DEFINE m == DocMonth[work[u].doc]
  <2>2. work[u] \in Posting /\ work[u].under # "lock"
    BY <2>1, WorkShape DEF Insert, At, HInv, IInv, Looked
  <2>3. /\ work[u].number \in Numbers /\ m \in Months /\ <<"document", work[u].doc>> \in Sources
        /\ Create(work[u].number, "posted", m, <<"document", work[u].doc>>)
    BY <2>1, <2>2 DEF Insert, Posting, LedgerAssumption, Sources
  <2>4. (\A x \in Posted : Stays(x)) /\ OneAuthor' /\ \A k \in Months : k # m => NoneAdded(k)
    BY <1>1, <2>3, CreateStays, CreatedAlone
  <2>5. lapses' = {} => ~locked[m]
    BY <2>1, <2>2 DEF Insert, Lapse
  <2> QED BY <2>4, <2>5
<1> QED BY <1>3, <1>4, <1>5, <1>6

\* Other steps write no entry.
Writing ==
    \/ \E m \in Months : CreateDraft(m)
    \/ \E e \in Entries : ReverseAsDraft(e) \/ Reverse(e)
    \/ \E u \in Users : Insert(u) \/ Write(u)

LEMMA NoWriting == ASSUME [Next]_vars, ~Writing PROVE UNCHANGED <<entry, lines>> /\ lapses' = lapses
BY DEF Next, Writing, vars, SetLock, Begin, Check, FindSource, Fail, RecordOutcome, CheckLock, Grant, EndGrant

\* What was looked at when a request goes on.
LEMMA LookedOK == ASSUME LedgerAssumption, HInv, [Next]_vars, NEW u \in Users PROVE Looked(u)'
<1>1. work \in [Users -> Works] /\ Looked(u)
  BY DEF HInv, IInv, WorksOK
<1>2. CASE work'[u] = work[u] \/ work'[u] = Idle
  BY <1>1, <1>2 DEF Looked, Idle
<1>3. CASE Check(u) /\ Savable(work[u].op, work[u].entry)
  <2>1. work[u] \in Reading
    BY <1>3, WorkShape DEF Check, At, HInv, IInv
  <2>2. /\ work'[u].step = "checked" /\ work'[u].op = work[u].op /\ work'[u].was = entry[work[u].entry]
    BY <1>1, <1>3 DEF Check, Goto
  <2> QED BY <1>3, <2>2 DEF Looked, Savable, Rewriting
<1>4. CASE FindSource(u) \/ Fail(u) \/ Insert(u)
  <2>1. work[u] \in Posting /\ work[u].step \in {"allowed", "absent"}
    BY <1>4, WorkShape DEF FindSource, Fail, Insert, At, HInv, IInv
  <2>2. /\ work'[u].under = work[u].under /\ work'[u].step # "checked"
    BY <1>1, <1>4, <2>1 DEF FindSource, Fail, Insert, Goto, Posting
  <2> QED BY <1>1, <2>1, <2>2 DEF Looked
<1>5. CASE \E d \in Docs : CheckLock(u, d)
  <2>1. PICK d \in Docs : CheckLock(u, d)
    BY <1>5
  <2>2. /\ work'[u].step = IF Allowed(u, DocMonth[d]) THEN "allowed" ELSE "failed"
        /\ work'[u].under = IF ~locked[DocMonth[d]] THEN "no lock" ELSE IF <<u, DocMonth[d]>> \in grants THEN "grant" ELSE "lock"
    BY <1>1, <2>1 DEF CheckLock, Goto
  <2> QED BY <2>2 DEF Looked, Allowed
<1>6. CASE \E op \in Manual, e \in Entries : Begin(u, op, e)
  <2>1. PICK op \in Manual, e \in Entries : Begin(u, op, e)
    BY <1>6
  <2> DEFINE new == [step |-> "read", op |-> op, number |-> requests', entry |-> e, copy |-> entry[e]]
  <2>2. work' = [work EXCEPT ![u] = new] /\ new.step = "read"
    BY <2>1 DEF Begin, Goto
  <2> HIDE DEF new
  <2> QED BY <1>1, <2>2 DEF Looked
<1>7. \/ work'[u] = work[u] \/ work'[u] = Idle
      \/ Check(u) /\ Savable(work[u].op, work[u].entry)
      \/ FindSource(u) \/ Fail(u) \/ Insert(u)
      \/ (\E d \in Docs : CheckLock(u, d)) \/ \E op \in Manual, e \in Entries : Begin(u, op, e)
  <2>1. CASE UNCHANGED work
    BY <2>1
  <2>2. CASE \E v \in Users : \/ (\E op \in Manual, e \in Entries : Begin(v, op, e)) \/ Check(v) \/ Write(v) \/ FindSource(v)
                              \/ Insert(v) \/ Fail(v) \/ RecordOutcome(v) \/ \E d \in Docs : CheckLock(v, d)
    <3>1. PICK v \in Users : \/ (\E op \in Manual, e \in Entries : Begin(v, op, e)) \/ Check(v) \/ Write(v) \/ FindSource(v)
                              \/ Insert(v) \/ Fail(v) \/ RecordOutcome(v) \/ \E d \in Docs : CheckLock(v, d)
      BY <2>2
    <3>2. CASE v # u
      <4>1. \E new : work' = [work EXCEPT ![v] = new]
        BY <3>1 DEF Begin, Check, Write, FindSource, Insert, Fail, RecordOutcome, CheckLock, Goto, Finished
      <4> QED BY <3>2, <4>1
    <3>3. CASE v = u
      BY <1>1, <3>1, <3>3 DEF Check, Write, RecordOutcome, Goto, Finished
    <3> QED BY <3>2, <3>3
  <2>3. CASE ~UNCHANGED work
    <3>1. ~(\E m \in Months : CreateDraft(m) \/ SetLock(m)) /\ ~(\E e \in Entries : ReverseAsDraft(e) \/ Reverse(e))
      BY <2>3 DEF CreateDraft, SetLock, ReverseAsDraft, Reverse
    <3>2. ~(\E v \in Users, m \in Months : Grant(v, m) \/ EndGrant(v, m)) /\ ~UNCHANGED vars
      BY <2>3 DEF Grant, EndGrant, vars
    <3> QED BY <2>2, <3>1, <3>2 DEF Next
  <2> QED BY <2>1, <2>3
<1> QED BY <1>2, <1>3, <1>4, <1>5, <1>6, <1>7

LEMMA HistoryStep == ASSUME LedgerAssumption, HInv, [Next]_vars
    PROVE  /\ OneAuthor' /\ lapses \subseteq lapses'
           /\ "overtaken" \notin lapses' => \A e \in Posted : Stays(e)
           /\ lapses' = {} => \A m \in Months : locked[m] => NoneAdded(m)
<1>1. CASE ~Writing
  <2>1. UNCHANGED <<entry, lines>> /\ lapses' = lapses
    BY <1>1, NoWriting
  <2> QED BY <2>1, NothingWritten DEF HInv, OneAuthor, Used
<1>2. CASE \E u \in Users : Write(u)
  <2>1. PICK u \in Users : Write(u)
    BY <1>2
  <2>2. lapses \subseteq lapses'
    BY <2>1 DEF Write
  <2> QED BY <2>1, <2>2, WriteStays DEF OneAuthor
<1>3. CASE Writing /\ ~\E u \in Users : Write(u)
  <2>1. \/ \E m \in Months : CreateDraft(m)
        \/ \E e \in Entries : ReverseAsDraft(e) \/ Reverse(e)
        \/ \E u \in Users : Insert(u)
    BY <1>3 DEF Writing
  <2>2. lapses \subseteq lapses'
    BY <2>1 DEF CreateDraft, ReverseAsDraft, Reverse, Insert
  <2> QED BY <2>1, <2>2, CreatingStays
<1> QED BY <1>1, <1>2, <1>3

THEOREM HistoryInvariance == Spec => []HInv
<1>1. LedgerAssumption /\ Init => HInv
  <2> SUFFICES ASSUME LedgerAssumption, Init PROVE HInv
    OBVIOUS
  <2>1. Used = {} /\ \A u \in Users : Looked(u)
    BY DEF Init, Used, Unused, Looked, Idle
  <2> QED BY <2>1, Initially DEF HInv, OneAuthor
<1>2. LedgerAssumption /\ HInv /\ [Next]_vars => HInv'
  BY Steps, LookedOK, HistoryStep DEF HInv
<1> QED BY <1>1, <1>2, LedgerAssumption, PTL DEF Spec

\* Whatever edits, approvals, deletions, postings and reversals overlap, a posted entry stays
\* posted, in its month, with the lines of the one request that wrote them, unless a save
\* that had looked before another one writes after it (JournalEntry.save).
THEOREM PostedStay == Spec => PostedEntriesStay
<1>1. ASSUME LedgerAssumption, HInv, [Next]_vars
      PROVE  lapses' \cap {"overtaken"} = {} =>
                \A e \in Posted : /\ e \in Posted' /\ lines'[e] = lines[e]
                                  /\ entry'[e].month = entry[e].month /\ Cardinality(lines[e]) = 1
  <2> SUFFICES ASSUME lapses' \cap {"overtaken"} = {}, NEW e \in Posted
               PROVE  Stays(e) /\ Cardinality(lines[e]) = 1
    BY DEF Stays
  <2>1. "overtaken" \notin lapses' /\ "overtaken" \notin lapses /\ Stays(e)
    BY <1>1, HistoryStep
  <2>2. PICK n \in Numbers : lines[e] = {n}
    BY <1>1, <2>1 DEF HInv, OneAuthor, Posted, Live
  <2> QED BY <2>1, <2>2, FS_Singleton
<1> QED BY <1>1, LedgerAssumption, HistoryInvariance, PTL DEF Spec, PostedEntriesStay

\* What is posted in a locked month stays the same, whatever requests overlap with the
\* setting of the lock, but for an entry posted by hand, a reversal dated today, a grant, and
\* a posting that looked at the lock before it was set (post_journal_entry).
THEOREM LockedStay == Spec => LockedMonthsStay
<1>1. ASSUME LedgerAssumption, HInv, [Next]_vars
      PROVE  lapses' = {} => \A m \in Months : locked[m] => PostedIn(m)' = PostedIn(m)
  <2> SUFFICES ASSUME lapses' = {}, NEW m \in Months, locked[m] PROVE PostedIn(m)' = PostedIn(m)
    OBVIOUS
  <2>1. (\A e \in Posted : Stays(e)) /\ NoneAdded(m)
    BY <1>1, HistoryStep
  <2>2. \A e \in PostedIn(m) : e \in PostedIn(m)'
    BY <2>1 DEF PostedIn, Stays
  <2>3. \A e \in PostedIn(m)' : e \in PostedIn(m)
    BY <2>1 DEF PostedIn, Stays, NoneAdded
  <2> QED BY <2>2, <2>3
<1> QED BY <1>1, LedgerAssumption, HistoryInvariance, PTL DEF Spec, LockedMonthsStay
=============================================================================
