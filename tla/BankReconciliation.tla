-------------------------- MODULE BankReconciliation --------------------------
(***************************************************************************)
(* Reconciling a bank account with its statement (src/backend/apps/        *)
(* accounting: BankReconciliationViewSet, ReconciliationMatchingService).  *)
(* A reconciliation is a sheet of lines, imported from a statement or      *)
(* taken from the ledger, that are ticked off one by one or through        *)
(* matches a program proposes and a person confirms.  Requests read the    *)
(* sheet first and write later (`work[u].seen`), and nothing is locked.    *)
(***************************************************************************)
EXTENDS Integers, Sequences, FiniteSets, FiniteSetsExt, Functions

CONSTANTS
    Users, Sheets,
    Rows,           \* rows of bank statements
    Books,          \* journal lines on the account
    Date, Amount,   \* functions of both
    Tolerance,      \* DATE_TOLERANCE_DAYS
    MaxLines, MaxRequests   \* bounds: lines on the sheets, requests

ASSUME ReconciliationAssumption ==
    /\ Rows \cap Books = {} /\ IsFiniteSet(Books) /\ Date \in [Rows \cup Books -> Nat] /\ Amount \in [Rows \cup Books -> Int]
    /\ Tolerance \in Nat /\ MaxLines \in Nat /\ MaxRequests \in Nat

NoBook == "no book line"

VARIABLES
    sheet,     \* BankReconciliation: status and stored book balance
    lines,     \* BankReconciliationLine: sheet, what it is of, cleared, posted, deleted, and
               \* (history) the book line it was confirmed with
    matches,   \* AIReconMatch: sheet, line, book line, status, deleted
    booked,    \* journal lines posted so far
    work, requests,
    lapses     \* history: the ways around the rules that have been used

vars == <<sheet, lines, matches, booked, work, requests, lapses>>

Idle == [step |-> "idle"]
Init ==
    /\ sheet = [s \in Sheets |-> [status |-> "none", figure |-> 0]]
    /\ lines = <<>> /\ matches = <<>>
    /\ booked \in SUBSET Books
    /\ work = [u \in Users |-> Idle] /\ requests = 0 /\ lapses = {}

Live(seq) == {n \in DOMAIN seq : ~seq[n].deleted}
LinesOf(s) == {n \in Live(lines) : lines[n].sheet = s}
MatchesOf(s) == {n \in Live(matches) : matches[n].sheet = s}
Statement(n) == lines[n].of \in Rows
Deleting(seq, ns) == [n \in DOMAIN seq |-> [seq[n] EXCEPT !.deleted = @ \/ n \in ns]]
Lapse(cond, name) == IF cond THEN {name} ELSE {}
Count == requests < MaxRequests /\ requests' = requests + 1
Finished(u) == work' = [work EXCEPT ![u] = Idle]

\* compute_book_balance: everything posted on the account.
Balance == MapThenSumSet(LAMBDA b : Amount[b], booked)

-----------------------------------------------------------------------------
(* The sheet.                                                              *)

\* create: a new sheet, or the discarded one of the same period, emptied.
Start(s) ==
    /\ sheet[s].status \in {"none", "discarded"}
    /\ sheet' = [sheet EXCEPT ![s] = [status |-> "open", figure |-> Balance]]
    /\ lines' = Deleting(lines, LinesOf(s)) /\ matches' = Deleting(matches, MatchesOf(s))
    /\ UNCHANGED <<booked, work, requests, lapses>>

\* destroy, refused for a completed sheet.
Discard(s) ==
    /\ sheet[s].status = "open" /\ Count
    /\ sheet' = [sheet EXCEPT ![s].status = "discarded"]
    /\ UNCHANGED <<lines, matches, booked, work, lapses>>

\* mark_reconciled freezes the balance as it is now; reopen.
SignOff(s) ==
    /\ sheet[s].status = "open"
    /\ sheet' = [sheet EXCEPT ![s] = [status |-> "done", figure |-> Balance]]
    /\ UNCHANGED <<lines, matches, booked, work, requests, lapses>>

Reopen(s) ==
    /\ sheet[s].status = "done" /\ Count
    /\ sheet' = [sheet EXCEPT ![s].status = "open"]
    /\ UNCHANGED <<lines, matches, booked, work, lapses>>

\* The ledger moves on.
Book(b) ==
    /\ b \notin booked /\ booked' = booked \cup {b}
    /\ UNCHANGED <<sheet, lines, matches, work, requests, lapses>>

-----------------------------------------------------------------------------
(* Requests that read the sheet and write later.                           *)

\* Which of them look at the status of the sheet.
Guarded_loosely == {"populate", "delete", "refresh"}
Guarded == {"tick", "delete", "populate", "refresh"}
Begin(u, op, s) ==
    /\ work[u] = Idle /\ Count
    /\ sheet[s].status \in IF op \in Guarded THEN {"open"} ELSE {"open", "done"}
    /\ work' = [work EXCEPT ![u] = [step |-> "read", op |-> op, sheet |-> s, figure |-> Balance, status |-> sheet[s].status,
                                    seen |-> [lines |-> lines, matches |-> matches, booked |-> booked]]]
    /\ UNCHANGED <<sheet, lines, matches, booked, lapses>>

Doing(u, op) == work[u] # Idle /\ work[u].op = op
SeenLines(u) == {n \in Live(work[u].seen.lines) : work[u].seen.lines[n].sheet = work[u].sheet}
\* Writing on a sheet that is signed off: import_statement and add_line never look, the
\* others looked before.
Late(u) ==
    LET done == sheet[work[u].sheet].status = "done"
    IN Lapse(done /\ work[u].op = "import", "unguarded")
       \cup Lapse(done /\ work[u].op # "import" /\ work[u].status = "open", "overtaken")

\* Listing reconciliations stores the balance it has computed.
Refresh(u) ==
    /\ Doing(u, "refresh")
    /\ sheet' = [sheet EXCEPT ![work[u].sheet].figure = work[u].figure]
    /\ lapses' = lapses \cup Late(u)
    /\ Finished(u) /\ UNCHANGED <<lines, matches, booked, requests>>

Added(s, what) == [sheet |-> s, of |-> what, cleared |-> FALSE, deleted |-> FALSE, posted |-> FALSE, with |-> NoBook]

\* import_statement: rows the sheet had already are skipped; add_line.
Import(u, row) ==
    /\ Doing(u, "import") /\ Len(lines) < MaxLines
    /\ \A n \in SeenLines(u) : work[u].seen.lines[n].of # row
    /\ lines' = Append(lines, Added(work[u].sheet, row))
    /\ lapses' = lapses \cup Late(u)
    /\ Finished(u) /\ UNCHANGED <<sheet, matches, booked, requests>>

\* populate_from_ledger: book lines that are on the sheet, or that a statement line of the
\* same day and amount or a confirmed match stands for, are left out.
Missing(u) ==
    LET s == work[u].seen
        mine == SeenLines(u)
        confirmed == {s.matches[m].book : m \in {k \in Live(s.matches) : s.matches[k].status = "confirmed"
                                                                         /\ s.matches[k].sheet = work[u].sheet}}
    IN {b \in s.booked \ confirmed :
            /\ \A n \in mine : s.lines[n].of # b
            /\ ~\E n \in mine : s.lines[n].of \in Rows /\ Date[s.lines[n].of] = Date[b] /\ Amount[s.lines[n].of] = Amount[b]}
Populate(u) ==
    /\ Doing(u, "populate") /\ Len(lines) + Cardinality(Missing(u)) <= MaxLines
    /\ \E order \in [1..Cardinality(Missing(u)) -> Missing(u)] :
          /\ \A b \in Missing(u) : \E k \in DOMAIN order : order[k] = b
          /\ lines' = lines \o [k \in DOMAIN order |-> Added(work[u].sheet, order[k])]
    /\ lapses' = lapses \cup Late(u)
    /\ Finished(u) /\ UNCHANGED <<sheet, matches, booked, requests>>

\* update_line, bulk_set_cleared.
Tick(u, n, flag) ==
    /\ Doing(u, "tick") /\ n \in SeenLines(u) \cap Live(lines)
    /\ lines' = [lines EXCEPT ![n].cleared = flag]
    /\ lapses' = lapses \cup Late(u)
    /\ Finished(u) /\ UNCHANGED <<sheet, matches, booked, requests>>

\* delete_line, with the proposals about it.
DeleteLine(u, n) ==
    /\ Doing(u, "delete") /\ n \in SeenLines(u) \cap Live(lines)
    /\ lines' = Deleting(lines, {n})
    /\ matches' = Deleting(matches, {m \in Live(matches) : matches[m].line = n})
    /\ lapses' = lapses \cup Late(u)
    /\ Finished(u) /\ UNCHANGED <<sheet, booked, requests>>

-----------------------------------------------------------------------------
(* Matching.                                                               *)

Open(u) == {n \in SeenLines(u) : work[u].seen.lines[n].of \in Rows /\ ~work[u].seen.lines[n].cleared}
Near(n, b) == LET r == lines[n].of
              IN Amount[r] = Amount[b] /\ Date[r] - Date[b] \in -Tolerance..Tolerance

\* Not yet reconciled in any sheet.
Free_anything(u) == work[u].seen.booked
Free(u) ==
    LET s == work[u].seen
    IN s.booked \ {s.matches[m].book : m \in {k \in Live(s.matches) : s.matches[k].status = "confirmed"}}

Propose(seq, s, pairs) ==
    LET new == {[sheet |-> s, line |-> p[1], book |-> p[2], status |-> "proposed", deleted |-> FALSE] : p \in pairs}
    IN {seq \o q : q \in {f \in [1..Cardinality(new) -> new] : \A x \in new : \E k \in DOMAIN f : f[k] = x}}

Replaced(seq, s, statuses) == Deleting(seq, {m \in MatchesOf(s) : seq[m].status \in statuses})

\* deterministic_match: a book line is used once; a line without one is proposed bare.
\* Which of several book lines of one amount is the best is left open.
AutoMatch(u) ==
    LET s == work[u].sheet
    IN /\ Doing(u, "auto")
       /\ \E assign \in [Open(u) -> Free(u) \cup {NoBook}] :
             /\ \A n \in Open(u) : assign[n] # NoBook => Near(n, assign[n])
             /\ \A n, k \in Open(u) : n # k /\ assign[n] # NoBook => assign[n] # assign[k]
             /\ matches' \in Propose(Replaced(matches, s, {"proposed"}), s, {<<n, assign[n]>> : n \in Open(u)})
             /\ LET rivals == {m \in Live(matches) : matches[m].book \in Range(assign) \ {NoBook}}
                    unseen == {m \in rivals : m \notin DOMAIN work[u].seen.matches
                                                \/ matches[m] # work[u].seen.matches[m]}
                IN lapses' = lapses
                      \cup Lapse(\E m \in rivals : \/ matches[m].status = "rejected"
                                                   \/ matches[m].status = "proposed" /\ matches[m].sheet # s, "proposed twice")
                      \cup Lapse(\E m \in unseen : matches[m].status = "confirmed", "overtaken")
       /\ Finished(u) /\ UNCHANGED <<sheet, lines, booked, requests>>

\* ai_reconcile: replaces all matches, confirmed ones too, by whatever was suggested.
AiMatch(u, n, b) ==
    /\ Doing(u, "auto") /\ n \in Open(u) /\ b \in work[u].seen.booked
    /\ matches' \in Propose(Replaced(matches, work[u].sheet, {"proposed", "confirmed", "rejected"}), work[u].sheet, {<<n, b>>})
    /\ lapses' = lapses \cup {"ai pass"}
    /\ Finished(u) /\ UNCHANGED <<sheet, lines, booked, requests>>

\* confirm_match, either way, whatever the match is at the moment.
Confirm(m, status) ==
    LET n == matches[m].line
        s == matches[m].sheet
    IN /\ m \in Live(matches) /\ sheet[s].status \in {"open", "done"}
       /\ matches' = [matches EXCEPT ![m].status = status]
       /\ lines' = [lines EXCEPT ![n].cleared = (status = "confirmed"),
                                 ![n].with = IF status = "confirmed" THEN matches[m].book ELSE NoBook]
       /\ lapses' = lapses \cup Lapse(sheet[s].status = "done", "unguarded")
                           \cup Lapse(\E k \in Live(matches) \ {m} : matches[k].line = n /\ matches[k].status = "confirmed", "line matched twice")
       /\ UNCHANGED <<sheet, booked, work, requests>>

\* post_confirmed_gl: a line confirmed without a book line gets one, once, and is ticked.
PostToLedger(n) ==
    /\ \E m \in Live(matches) : matches[m].line = n /\ matches[m].status = "confirmed" /\ matches[m].book = NoBook
    /\ sheet[lines[n].sheet].status \in {"open", "done"}
    /\ IF lines[n].posted THEN UNCHANGED booked
       ELSE \E b \in Books \ booked :
               /\ Date[b] = Date[lines[n].of] /\ Amount[b] = Amount[lines[n].of] /\ booked' = booked \cup {b}
    /\ lines' = [lines EXCEPT ![n].cleared = TRUE, ![n].posted = TRUE]
    /\ lapses' = lapses \cup Lapse(sheet[lines[n].sheet].status = "done", "unguarded")
    /\ UNCHANGED <<sheet, matches, work, requests>>

Next ==
    \/ \E s \in Sheets : Start(s) \/ Discard(s) \/ SignOff(s) \/ Reopen(s)
    \/ \E b \in Books : Book(b)
    \/ \E m \in DOMAIN matches, status \in {"confirmed", "rejected"} : Confirm(m, status)
    \/ \E n \in DOMAIN lines : PostToLedger(n)
    \/ \E u \in Users :
          \/ \E op \in {"refresh", "import", "populate", "tick", "delete", "auto"}, s \in Sheets : Begin(u, op, s)
          \/ Refresh(u) \/ Populate(u) \/ AutoMatch(u)
          \/ \E row \in Rows : Import(u, row)
          \/ \E n \in DOMAIN lines : \/ DeleteLine(u, n)
                                     \/ \E flag \in BOOLEAN : Tick(u, n, flag)
                                     \/ \E b \in Books : AiMatch(u, n, b)

Spec == Init /\ [][Next]_vars

-----------------------------------------------------------------------------
TypeOK ==
    /\ sheet \in [Sheets -> [status : {"none", "open", "done", "discarded"}, figure : Int]]
    /\ \A n \in DOMAIN lines : lines[n].sheet \in Sheets /\ lines[n].of \in Rows \cup Books
    /\ \A m \in DOMAIN matches : /\ matches[m].status \in {"proposed", "confirmed", "rejected"}
                                  /\ matches[m].line \in DOMAIN lines /\ matches[m].book \in Books \cup {NoBook}
    /\ booked \subseteq Books /\ DOMAIN work = Users /\ requests \in 0..MaxRequests

\* "a bank transaction must not be reconciled twice" (services.py): no book line has been
\* confirmed for two lines.  What breaks it: a second proposal for it while another waits or
\* was rejected, in this sheet or another, the AI pass, or two requests at once.
BookReconciledOnce ==
    lapses \ {"unguarded"} = {} => \A n, k \in Live(lines) :
        n # k /\ lines[n].with # NoBook => lines[n].with # lines[k].with

\* "a signed-off record keeps the figure it was agreed against" (services.py), and its lines:
\* nothing on a completed sheet changes until it is re-opened, except through the requests
\* that do not look at its status (import, confirm, post) or that looked before.
SignedOffStays ==
    [][lapses' \cap {"unguarded", "overtaken"} = {} =>
          \A s \in Sheets : sheet[s].status = "done" /\ sheet'[s].status = "done" =>
              /\ sheet'[s].figure = sheet[s].figure
              /\ LinesOf(s)' = LinesOf(s) /\ \A n \in LinesOf(s) : lines'[n].cleared = lines[n].cleared]_vars
=============================================================================
